----------------------------- MODULE BoolCoder ------------------------------
(***************************************************************************)
(* One arithmetic-coded stream from end to end: a writer codes a sequence  *)
(* of operations, handing bytes downstream with flush_non_final_data as it *)
(* goes (lepton_encoder does so after each row of blocks) and with finish  *)
(* at the end; then a reader with the same initial contexts decodes the    *)
(* same sequence of operations.                                            *)
(***************************************************************************)
EXTENDS VPXBoolReader

CONSTANTS Contexts,    \* initial contexts of the stream: a set of functions from 0 .. n to counts
          Openings,    \* for each of them, sequences of bits put in context 0 before anything else
          MaxOps       \* bound on the operations after the opening

VARIABLES phase,       \* "write", "open", "read", "done", "inconsistent"
          w,           \* the VPXBoolWriter
          ops,         \* the operations put so far
          start,       \* the initial contexts
          opening,     \* the bits of the opening
          r,           \* the VPXBoolReader
          decoded      \* what its operations returned

vars == <<phase, w, ops, start, opening, r, decoded>>

NoReader == [value |-> 0, range |-> 0, branches |-> << >>, pos |-> 0]

\* The sizes of the contexts' array: A in the code's const generics.
A(contexts) == Cardinality(DOMAIN contexts)
GridBits(contexts) == BitLength(A(contexts)) - 1

Op(kind, v, n) == [kind |-> kind, v |-> v, n |-> n]

Init ==
    /\ phase = "write"
    /\ start \in Contexts
    /\ opening \in Openings[start]
    /\ ops = << >>
    /\ w = NewWriter(start)
    /\ r = NoReader
    /\ decoded = << >>

Write(op, writer) ==
    /\ phase = "write"
    /\ ~w.panicked
    /\ ops' = Append(ops, op)
    /\ w' = writer
    /\ UNCHANGED <<phase, start, opening, r, decoded>>

\* put_bit of the next bit of the opening, in context 0.
WriteOpening ==
    /\ Len(ops) < Len(opening)
    /\ LET v == opening[Len(ops) + 1]
       IN  Write(Op("bit", v, 0), PutBit(w, v = 1, 0))

Choose(op, writer) ==
    /\ Len(opening) <= Len(ops)
    /\ Len(ops) < Len(opening) + MaxOps
    /\ Write(op, writer)

WriteBit == \E v \in {0, 1} : Choose(Op("bit", v, 0), PutBit(w, v = 1, 0))

WriteGrid == \E v \in 0 .. A(start) - 1 :
    Choose(Op("grid", v, GridBits(start)), PutGrid(w, v, GridBits(start)))

WriteNBits == \E n \in 1 .. GridBits(start) : \E v \in 0 .. 2^n - 1 :
    Choose(Op("nbits", v, n), PutNBits(w, v, n))

WriteUnary == \E v \in 0 .. A(start) :
    Choose(Op("unary", v, A(start)), PutUnaryEncoded(w, v, A(start)))

Flush ==
    /\ phase = "write"
    /\ ~w.panicked
    /\ w' = FlushNonFinal(w)
    /\ UNCHANGED <<phase, ops, start, opening, r, decoded>>

Finish ==
    /\ phase = "write"
    /\ ~w.panicked
    /\ w' = FinishWriter(w)
    /\ phase' = "open"
    /\ UNCHANGED <<ops, start, opening, r, decoded>>

\* VPXBoolReader::new; a set marker bit is reported as StreamInconsistent.
Open ==
    /\ phase = "open"
    /\ ~w.panicked
    /\ LET new == NewReader(w.written, start)
       IN  /\ r' = new[1]
           /\ phase' = IF new[2] = 1 THEN "inconsistent" ELSE "read"
    /\ UNCHANGED <<w, ops, start, opening, decoded>>

\* The reader's operation for op: << reader, value >>.
Read(op) ==
    CASE op.kind = "bit"   -> GetBit(r, w.written, 0)
      [] op.kind = "grid"  -> GetGrid(r, w.written, op.n)
      [] op.kind = "nbits" -> GetNBits(r, w.written, op.n)
      [] op.kind = "unary" -> GetUnaryEncoded(r, w.written, op.n)

ReadNext ==
    /\ phase = "read"
    /\ Len(decoded) < Len(ops)
    /\ LET got == Read(ops[Len(decoded) + 1])
       IN  /\ r' = got[1]
           /\ decoded' = Append(decoded, got[2])
    /\ phase' = IF Len(decoded') = Len(ops) THEN "done" ELSE "read"
    /\ UNCHANGED <<w, ops, start, opening>>

Next == \/ WriteOpening \/ WriteBit \/ WriteGrid \/ WriteNBits \/ WriteUnary
        \/ Flush \/ Finish \/ Open \/ ReadNext

Spec == Init /\ [][Next]_vars

-----------------------------------------------------------------------------
(* Properties                                                              *)

\* carry always finds a byte below 255 to stop at, flush_non_final_data always
\* finds one to keep, and finish leaves no stream bit behind: none of the
\* assertions and index computations of the writer can fail, however flushes
\* interleave with puts.
WriterNeverPanics == ~w.panicked

\* Every operation returns what was put, and a stream always begins with the
\* false marker bit that VPXBoolReader::new checks.
DecodesWhatWasCoded ==
    /\ phase # "inconsistent"
    /\ \A k \in DOMAIN decoded : decoded[k] = ops[k].v

\* "range > value is invariant": the bits that a reader shifts out of value are
\* always 0, whatever stream bits were filled in and wherever the guard bit is.
ValueBelowRange == phase \notin {"write", "open"} => r.value < r.range
=============================================================================
