---------------------------- MODULE PartialBuffer ----------------------------
(***************************************************************************)
(* PartialBuffer of rust/lib/src/structs/partial_buffer.rs: the input      *)
(* arrives in slices; what could not be consumed yet is kept in            *)
(* extra_buffer and goes before the next slice.  The operations constrain  *)
(* the primed variables of this module only.                               *)
(***************************************************************************)
EXTENDS Naturals, Sequences

VARIABLES
    slice,               \* the rest of the slice that was passed in
    extra_buffer,        \* data left over from earlier slices
    continue_processing  \* FALSE once a take has found too little data

partial == <<slice, extra_buffer, continue_processing>>

InitPartial ==
    /\ slice = <<>>
    /\ extra_buffer = <<>>
    /\ continue_processing = FALSE

\* PartialBuffer::new with the extra buffer of the previous call.
NewSlice(s) ==
    /\ slice' = s
    /\ continue_processing' = TRUE
    /\ UNCHANGED extra_buffer

Pending == extra_buffer \o slice

\* Mutant: retention_bytes is not taken into account.
AvailableIgnoringRetention(size, retention_bytes) == Len(extra_buffer) + Len(slice) >= size

Available(size, retention_bytes) ==
    Len(extra_buffer) + Len(slice) >= size + retention_bytes

\* take returns None: everything is moved to the extra buffer.
TakeNone(size, retention_bytes) ==
    /\ ~Available(size, retention_bytes)
    /\ extra_buffer' = extra_buffer \o slice
    /\ slice' = <<>>
    /\ continue_processing' = FALSE

FromExtra(size) == IF Len(extra_buffer) < size THEN Len(extra_buffer) ELSE size

\* take returns Some(Taken(size)): first the extra buffer, then the slice.
TakeSome(size, retention_bytes) ==
    /\ Available(size, retention_bytes)
    /\ extra_buffer' = SubSeq(extra_buffer, FromExtra(size) + 1, Len(extra_buffer))
    /\ slice' = SubSeq(slice, size - FromExtra(size) + 1, Len(slice))
    /\ UNCHANGED continue_processing

Taken(size) ==
    SubSeq(extra_buffer, 1, FromExtra(size)) \o SubSeq(slice, 1, size - FromExtra(size))
==============================================================================
