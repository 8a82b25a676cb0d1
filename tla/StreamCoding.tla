---------------------------- MODULE StreamCoding ----------------------------
(***************************************************************************)
(* The stream of a partition, written and read, at two levels, one per     *)
(* behaviour:                                                              *)
(*   "model"  numbers and blocks as a sequence of bits, each with the      *)
(*            context in which it is coded: PictureCoding;                 *)
(*   "coder"  such bits as bytes: BoolCoder.                               *)
(* The first takes for granted what the second shows: that a bit comes     *)
(* back to a reader that consults the same contexts. They share their      *)
(* variables: input is what is coded, written the writer and read the      *)
(* reader.                                                                 *)
(***************************************************************************)
CONSTANTS Inputs,                                \* of PictureCoding
          FlushBytes, Contexts, Openings, MaxOps \* of BoolCoder

VARIABLES level, input, phase, written, read,
          narrow, y, x, ctx, cache,
          opening, decoded

modelOnly == <<narrow, y, x, cache>>
coderOnly == <<opening, decoded>>
vars == <<level, input, phase, written, read, ctx, modelOnly, coderOnly>>

Model == INSTANCE PictureCoding
Coder == INSTANCE BoolCoder WITH w <- written, ops <- input, start <- ctx, r <- read

Init ==
    \/ /\ level = "model"
       /\ Model!Init
       /\ opening = << >> /\ decoded = << >>
    \/ /\ level = "coder"
       /\ Coder!Init
       /\ narrow = FALSE /\ y = 0 /\ x = 0 /\ cache = << >>

Next ==
    \/ /\ level = "model"
       /\ Model!Next
       /\ UNCHANGED <<level, coderOnly>>
    \/ /\ level = "coder"
       /\ Coder!Next
       /\ UNCHANGED <<level, modelOnly>>

Spec == Init /\ [][Next]_vars

-----------------------------------------------------------------------------
(* The properties of the two modules, each of its own level.               *)

\* read_coefficient_block and its callees consult the branches, in the order, that
\* write_coefficient_block used, over all rows of a thread.
ReaderInStep == level = "model" => Model!ReaderInStep

\* What write_coefficient_block accepts is read back, and it refuses no coefficient of
\* an 8-bit JPEG.
ValueRestored == level = "model" => Model!ValueRestored

\* No index into the arrays of model.rs is out of bounds, whatever the stream.
BranchesExist == level = "model" => Model!BranchesExist

\* lepton/encode_test.go tests that Encode followed by Decode gives the JPEG back;
\* for DC this is that what the Go encoder accepts is read back.
GoDcRestored == level = "model" => Model!GoDcRestored

\* No assertion or index of VPXBoolWriter fails, wherever its buffer is flushed.
WriterNeverPanics == level = "coder" => Coder!WriterNeverPanics

\* VPXBoolReader returns what VPXBoolWriter was given.
DecodesWhatWasCoded == level = "coder" => Coder!DecodesWhatWasCoded

\* The invariant that VPXBoolReader::get relies on: the range is above the value.
ValueBelowRange == level = "coder" => Coder!ValueBelowRange
=============================================================================
