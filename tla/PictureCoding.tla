--------------------------- MODULE PictureCoding ----------------------------
(***************************************************************************)
(* A writer and a reader of the arithmetic-coded stream: of one number with *)
(* its contexts (CoefCoding), or of the rows of one component that a thread *)
(* codes (BlockCoding): process_row and decode_row_wrapper, with the        *)
(* models of the first row and of the others. The reader is also given      *)
(* streams that no writer wrote, and files whose header does not say in     *)
(* which arithmetic they were written, which the one-shot function of the   *)
(* DLL reads again in the other arithmetic when the first attempt fails.    *)
(***************************************************************************)
EXTENDS BlockCoding

\* What to code. A number comes with what its contexts depend on. A picture is
\* [kind, width, startY, endY, size, blocks, q, f, stated, flag]: the thread codes
\* the rows startY .. endY - 1 of the blocks, of which size are in the file; of
\* kind "picture" it is written, in the arithmetic f, and read, of kind "noise"
\* only read, from the bits stream. stated tells that the header holds f, flag is
\* what the caller of the DLL says of f.dcEstimate16.
CONSTANT Inputs

VARIABLES
    input,    \* the member of Inputs that is coded
    phase,    \* "write", "read" or "done"
    written,  \* what the writer has returned: [ok, puts]
    read,     \* what the reader has returned: [ok, reader, value]
    narrow,   \* use_16bit_dc_estimate of the DLL's enabled_features
    y, x,     \* curr_y and jpeg_x
    ctx,      \* BlockContext
    cache     \* neighbor_summary_cache

vars == <<input, phase, written, read, narrow, y, x, ctx, cache>>

Blocks == {"picture", "noise"}     \* the kinds whose coder goes block by block

NewCache(in) == [k \in 1 .. 2 * in.width |-> NeighborDataEmpty]

\* The start of a range of rows.
StartRows(in) ==
    /\ y = in.startY
    /\ x = 0
    /\ ctx = OffY(in.startY, in.width)
    /\ cache = NewCache(in)

Init == /\ input \in Inputs
        /\ phase = IF input.kind = "noise" THEN "read" ELSE "write"
        /\ written = CASE input.kind = "picture" -> [ok |-> TRUE, puts |-> << >>]
                       [] input.kind = "noise" -> [ok |-> FALSE, puts |-> input.stream]
                       [] OTHER -> Refused
        /\ read = [ok |-> TRUE, reader |-> Reader(written.puts), value |-> << >>]
        /\ IF input.kind \in Blocks
           THEN StartRows(input) /\ narrow = input.flag
           ELSE y = 0 /\ x = 0 /\ ctx = << >> /\ cache = << >> /\ narrow = FALSE

-----------------------------------------------------------------------------
(* One number                                                               *)

Write ==
    /\ phase = "write" /\ input.kind \notin Blocks
    /\ written' = CASE input.kind = "coef" -> WriteCoef(input.coef, input.bin, input.zig49, input.priorLen)
                    [] input.kind = "edge" -> WriteEdgeCoefficient(input.coef, input)
                    [] input.kind = "dc"   -> WriteBlockDc(input)
                    [] input.kind = "goDc" -> GoWriteBlockDc(input)
    /\ phase' = IF written'.ok THEN "read" ELSE "done"
    /\ UNCHANGED <<input, read, narrow, y, x, ctx, cache>>

Read ==
    /\ phase = "read" /\ input.kind \notin Blocks
    /\ LET r   == Reader(written.puts)
           got == CASE input.kind = "coef" -> ReadCoef(r, input.bin, input.zig49, input.priorLen)
                    [] input.kind = "edge" -> ReadEdgeCoefficient(r, input)
                    [] input.kind \in {"dc", "goDc"} -> ReadBlockDc(r, input)
       IN  read' = [ok |-> TRUE, reader |-> got.reader, value |-> got.value]
    /\ phase' = "done"
    /\ UNCHANGED <<input, written, narrow, y, x, ctx, cache>>

-----------------------------------------------------------------------------
(* A range of rows                                                          *)

\* The models of process_row and decode_row_wrapper: nothing is above the first
\* row of the range, whatever its number.
PtHere == IF y = input.startY THEN (IF x = 0 THEN NoNeighbors ELSE LeftOnly)
          ELSE (IF x = 0 THEN TopOnly ELSE All)

Near(image, offset) == GetNeighborData(ctx, input.width, image, offset, cache, PtHere)

\* The row goes on after this block; the range has another row.
RowGoesOn == x + 1 < input.width /\ NextBlock(ctx).here < input.size
MoreRows == y + 1 < input.endY

\* The block here is done, and its summary is stored.
Advance(summary, nextPhase) ==
    /\ cache' = IF RowGoesOn \/ MoreRows THEN [cache EXCEPT ![ctx.cur + 1] = summary]
                ELSE NewCache(input)
    /\ ctx' = CASE RowGoesOn -> NextBlock(ctx)
                [] ~RowGoesOn /\ MoreRows -> OffY(y + 1, input.width)
                [] OTHER -> OffY(input.startY, input.width)
    /\ x' = IF RowGoesOn THEN x + 1 ELSE 0
    /\ y' = IF RowGoesOn THEN y ELSE IF MoreRows THEN y + 1 ELSE input.startY
    /\ phase' = IF RowGoesOn \/ MoreRows THEN phase ELSE nextPhase

\* process_row of lepton_encode_row_range goes on, or fails with what it was given.
AddBlock(w) ==
    IF w.ok
    THEN /\ written' = [written EXCEPT !.puts = @ \o w.puts]
         /\ Advance(w.summary, "read")
    ELSE /\ written' = Refused
         /\ phase' = "done"
         /\ UNCHANGED <<y, x, ctx, cache>>

\* serialize_tokens
WriteBlock ==
    /\ phase = "write" /\ input.kind = "picture"
    /\ AddBlock(WriteCoefficientBlock(PtHere, Near(input.blocks, 0),
                                      GetBlock(input.blocks, 0, ctx.here), input.q, input.f))
    /\ UNCHANGED <<input, read, narrow>>

\* The arithmetic of the reader. What the header states replaces the flag in the
\* reader's own features (read_lepton_fixed_header), not in those of the DLL.
ReaderFeatures ==
    IF input.stated THEN input.f ELSE [advPredict16 |-> TRUE, dcEstimate16 |-> narrow]

\* The end of decode_lepton with an error: WrapperDecompressImage4 starts again
\* with new cursors, in 16 bits, if the stream was inconsistent and it was not in
\* 16 bits already.
FailOrRetry(reader, inconsistent) ==
    IF inconsistent /\ ~narrow
    THEN /\ read' = [ok |-> TRUE, reader |-> Reader(written.puts), value |-> << >>]
         /\ narrow' = TRUE
         /\ y' = input.startY
         /\ x' = 0
         /\ ctx' = OffY(input.startY, input.width)
         /\ cache' = NewCache(input)
         /\ UNCHANGED phase
    ELSE /\ read' = [read EXCEPT !.ok = FALSE, !.reader = reader]
         /\ phase' = "done"
         /\ UNCHANGED <<narrow, y, x, ctx, cache>>

\* decode_row_wrapper of lepton_decode_row_range goes on, or fails.
TakeBlock(got) ==
    IF got.ok
    THEN /\ read' = [ok |-> TRUE, reader |-> got.reader, value |-> Append(read.value, got.block)]
         /\ Advance(got.summary, "done")
         /\ UNCHANGED narrow
    ELSE FailOrRetry(got.reader, got.inconsistent)

\* parse_token
ReadBlock ==
    /\ phase = "read" /\ input.kind \in Blocks
    /\ TakeBlock(ReadCoefficientBlock(PtHere, Near(read.value, input.startY * input.width),
                    IF read.value = << >> THEN Reader(written.puts) ELSE read.reader,
                    input.q, ReaderFeatures))
    /\ UNCHANGED <<input, written>>

\* A reader that has consulted other branches than the writer is given arbitrary
\* bits, so that it may also find the stream inconsistent.
ReadLost ==
    /\ phase = "read" /\ input.kind = "picture" /\ ~read.reader.inStep
    /\ FailOrRetry(read.reader, TRUE)
    /\ UNCHANGED <<input, written>>

Next == Write \/ Read \/ WriteBlock \/ ReadBlock \/ ReadLost

Spec == Init /\ [][Next]_vars

-----------------------------------------------------------------------------

Accepted == phase = "done" /\ written.ok

\* Writer and reader compute alike: always for numbers; for a picture if its
\* header states the arithmetic (as this encoder's always do), or the caller or
\* the repetition has it right.
SameArithmetic == input.kind = "picture" => ReaderFeatures = input.f

\* The coded blocks of a picture, in order.
CodedBlocks ==
    LET from == input.startY * input.width
    IN  SubSeq(input.blocks, from + 1, Least(input.endY * input.width, input.size))

\* The reader consults the branches that the writer used, each for the same bit,
\* and stops with the writer, from the first block of a thread's rows to the last:
\* though it knows the edges of a block only after it has predicted them, where
\* the writer has them all along (encode_edge, decode_edge), though the summaries
\* of the row above lie in a ring that the row itself overwrites (what is in it is
\* the summary of the block that is above), and though the writer of a long edge
\* coefficient caps its index before it doubles it, the reader after.
ReaderInStep ==
    /\ written.ok /\ SameArithmetic => read.reader.inStep
    /\ Accepted /\ SameArithmetic => read.reader.pos = Len(written.puts)
    /\ input.kind = "picture" /\ phase = "write" /\ PtHere.above =>
           cache[ctx.above + 1].nonZeros
               = NonZeros(Inner(GetBlock(input.blocks, 0, ctx.here - input.width)))

\* What a writer accepts is read back, whatever the prior, the quantiser and the
\* prediction (what the Go encoder accepts, if its DC is within +-2^10; what a
\* header does not describe, if the flag of the DLL's caller is right, or was unset
\* and the first attempt failed, however far it had come); and no
\* coefficient of an 8-bit JPEG is refused: AC below 2^11, DC within +-2^10 as long
\* as the prediction is no further than three times that.
ValueRestored ==
    /\ Accepted /\ SameArithmetic /\ (input.kind = "goDc" => AbsVal(input.coef) <= 2^(MaxExponent - 1)) =>
           read.ok /\ read.value = IF input.kind = "picture" THEN CodedBlocks ELSE input.coef
    /\ phase = "done" /\ ~written.ok =>
           CASE input.kind \in {"coef", "edge"} -> AbsVal(input.coef) >= 2^MaxExponent
             [] input.kind \in {"dc", "goDc"} -> AbsVal(input.coef) > 1024 \/ AbsVal(input.predicted) > 3072
             [] input.kind = "picture" -> \E b \in Range(CodedBlocks) :
                    \/ \E u, v \in Lanes : AbsVal(b[u][v]) >= 2^MaxExponent \/ input.q[u][v] = 0
                    \/ AbsVal(b[1][1]) > 1024
             [] input.kind = "noise" -> TRUE

\* No index leaves its array, where both programs would panic: lengths of 11,
\* priors of more than 16 bits, uncertainties of 16 bits, thresholds of 3, and
\* whatever a stream makes of the counts and coefficients of the neighbours.
BranchesExist == read.reader.exists

\* lepton/encode_test.go tests that Encode followed by Decode gives the JPEG back;
\* for DC this is that what the Go encoder accepts is read back.
GoDcRestored == Accepted /\ input.kind = "goDc" => read.value = input.coef
=============================================================================
