------------------------------- MODULE AcScan -------------------------------
(***************************************************************************)
(* An AC scan of a progressive picture: a scan of one component in which a *)
(* code may end a block and declare a run of empty blocks after it.        *)
(* read_progressive_scan of jpeg_read.rs jumps over a run (first pass) or  *)
(* counts it down (later passes), and refuses runs that could have been    *)
(* longer, because recode_one_mcu_row of jpeg_write.rs gathers the runs    *)
(* again from the blocks alone and makes each as long as it can.           *)
(*                                                                         *)
(* A block is "full" (it has a coefficient at the end of the band and      *)
(* needs no end-of-block code), has "coefs" before its end, or is "empty"  *)
(* (in a later pass: nothing newly nonzero). The scan is a sequence of     *)
(* codes: what a block's coefficients are coded as, <<"run", r>>, the      *)
(* correction bits after a block's end (later passes), and reset codes.    *)
(* The reader is given any codes, those no encoder should write included.  *)
(***************************************************************************)
EXTENDS JpegPosition

CONSTANTS Scans,      \* the JpegHeaders of the scans, with one component
          MaxRuns     \* values of max_eob_run: 2^k - 1

VARIABLES jf,         \* the JpegHeader
          first,      \* the first pass of successive approximation (cs_sah = 0)
          max,        \* max_eob_run of the Huffman table
          s,          \* the reader's JpegPositionState
          sta,        \* its JpegDecodeStatus, or "Error"
          codes,      \* the codes read
          image,      \* the blocks read, by dpos (padding blocks included)
          covered,    \* how many blocks the codes read describe
          odd,        \* what was wrong with them: a run past the end, a run too short
          ws,         \* the writer's JpegPositionState
          wsta,       \* its status
          bits,       \* its correction_bits
          out         \* the codes written

reader == <<s, sta, codes, image, covered, odd>>
writer == <<ws, wsta, bits, out>>
vars == <<jf, first, max, reader, writer>>

\* The blocks of the scan, in its order.
Order ==
    LET ci == jf.cmp_info[jf.cs_cmp[1]]
    IN  [n \in 1 .. ci.ncv * ci.nch |-> ((n - 1) \div ci.nch) * ci.bch + ((n - 1) % ci.nch)]

Total == Len(Order)

Init ==
    /\ jf \in Scans
    /\ first \in BOOLEAN
    /\ max \in MaxRuns
    /\ s = ResetRstw(jf, NewPosition(jf, 0))
    /\ sta = "DecodeInProgress"
    /\ codes = <<>>
    /\ image = [d \in 0 .. jf.cmp_info[jf.cs_cmp[1]].bc - 1 |-> "empty"]
    /\ covered = 0
    /\ odd = {}
    /\ ws = NewPosition(jf, 0)
    /\ wsta = "DecodeInProgress"
    /\ bits = <<>>
    /\ out = <<>>

-----------------------------------------------------------------------------
(* The reader                                                              *)

\* The blocks left in the restart interval, or in the scan if that is less.
BlocksLeft ==
    LET inScan == Total - covered
    IN  IF jf.rsti = 0 THEN inScan ELSE Min({inScan, jf.rsti - (covered % jf.rsti)})

\* What a code for kind with a run of r blocks, the current one included, is
\* judged by: it must not pass the end, and the run before it in the interval,
\* if no coefficient came between, must have been as long as it could be.
Oddities(kind, r) ==
    LET runs  == SelectSeq(codes, LAMBDA c : c[1] # "bits")
        short == kind = "empty" /\ runs # <<>> /\ Last(runs)[1] = "run" /\ Last(runs)[2] < max
    IN  (IF r > BlocksLeft THEN {"overrun"} ELSE {})
        \cup (IF short THEN {IF Last(runs)[2] = 1 THEN "single" ELSE "short"} ELSE {})

\* The codes of a block of this kind at dpos whose end starts a run of r blocks
\* (0: it has no end-of-block code).
CodesOf(kind, dpos, r) ==
    (IF kind # "empty" THEN << <<kind, dpos>> >> ELSE <<>>)
    \o (IF r > 0 THEN << <<"run", r>> >> ELSE <<>>)
    \o (IF r > 0 /\ ~first THEN << <<"bits", dpos>> >> ELSE <<>>)

\* decode_ac_prg_fs or decode_ac_prg_sa, then check_optimal_eobrun.
Decode(kind, r) == CheckOptimalEobrun([s EXCEPT !.eobrun = IF r > 0 THEN r - 1 ELSE 0],
                                      kind = "empty", max)

\* A block that is decoded: in the first pass the run after it is skipped at once.
ReadBlock(kind, r) ==
    LET d    == Decode(kind, r)
        skip == IF first THEN SkipEobrun(jf, d.s) ELSE [s |-> d.s, sta |-> "DecodeInProgress"]
        next == IF ~d.ok THEN [s |-> d.s, sta |-> "Error"]
                ELSE IF skip.sta = "DecodeInProgress" THEN NextMcuPos(jf, skip.s)
                ELSE skip
    IN  /\ sta = "DecodeInProgress"
        /\ s.eobrun = 0
        /\ codes' = codes \o CodesOf(kind, s.dpos, r)
        /\ odd' = odd \cup Oddities(kind, r)
        /\ image' = [image EXCEPT ![s.dpos] = kind]
        /\ covered' = covered + (IF first THEN Max({r, 1}) ELSE 1)
        /\ s' = next.s
        /\ sta' = next.sta
        /\ UNCHANGED <<jf, first, max, writer>>

Full == ReadBlock("full", 0)
Coefs == \E r \in 1 .. max : ReadBlock("coefs", r)
Empty == \E r \in 1 .. max : ReadBlock("empty", r)

\* A later pass inside a run: decode_eobrun_sa.
InRun ==
    LET next == NextMcuPos(jf, [s EXCEPT !.eobrun = @ - 1])
    IN  /\ sta = "DecodeInProgress"
        /\ s.eobrun > 0
        /\ codes' = Append(codes, <<"bits", s.dpos>>)
        /\ covered' = covered + 1
        /\ s' = next.s
        /\ sta' = next.sta
        /\ UNCHANGED <<jf, first, max, image, odd, writer>>

\* The end of a restart interval.
ReadRestart ==
    /\ sta = "RestartIntervalExpired"
    /\ codes' = Append(codes, <<"rst", 0>>)
    /\ s' = ResetRstw(jf, s)
    /\ sta' = "DecodeInProgress"
    /\ UNCHANGED <<jf, first, max, image, covered, odd, writer>>

-----------------------------------------------------------------------------
(* The writer, over the whole scan, after the reader                       *)

\* encode_eobrun and encode_crbits
Flushed(w) ==
    [w EXCEPT !.out = @ \o (IF w.s.eobrun > 0 THEN << <<"run", w.s.eobrun>> >> ELSE <<>>) \o w.bits,
              !.bits = <<>>, !.s.eobrun = 0]

MutEncodeAc(w, kind) ==
    LET coded  == IF kind # "empty"
                  THEN [w EXCEPT !.out = Append(@, <<kind, w.s.dpos>>)] ELSE w
        ended  == [coded EXCEPT !.s.eobrun = @ + 1,
                                !.bits = IF first THEN @ ELSE Append(@, <<"bits", w.s.dpos>>)]
    IN  IF kind = "full" THEN coded
        ELSE IF ended.s.eobrun = max THEN Flushed(ended)
        ELSE ended

\* encode_ac_prg_fs and encode_ac_prg_sa: a coefficient ends the run before it,
\* the end of the block joins the run, and a run at its longest is written.
EncodeAc(w, kind) ==
    LET before == IF kind # "empty" THEN Flushed(w) ELSE w
        coded  == IF kind # "empty"
                  THEN [before EXCEPT !.out = Append(@, <<kind, w.s.dpos>>)] ELSE before
        ended  == [coded EXCEPT !.s.eobrun = @ + 1,
                                !.bits = IF first THEN @ ELSE Append(@, <<"bits", w.s.dpos>>)]
    IN  IF kind = "full" THEN coded
        ELSE IF ended.s.eobrun = max THEN Flushed(ended)
        ELSE ended

\* One block of recode_one_mcu_row; at the end of an interval or of the scan the
\* run is written out.
WriteBlock ==
    LET coded == EncodeAc([s |-> ws, bits |-> bits, out |-> out], image[ws.dpos])
        next  == NextMcuPos(jf, coded.s)
        w     == [coded EXCEPT !.s = next.s]
        left  == IF next.sta = "DecodeInProgress" THEN w ELSE Flushed(w)
    IN  /\ sta = "ScanCompleted"
        /\ wsta = "DecodeInProgress"
        /\ ws' = left.s
        /\ bits' = left.bits
        /\ out' = left.out
        /\ wsta' = next.sta
        /\ UNCHANGED <<jf, first, max, reader>>

WriteRestart ==
    /\ wsta = "RestartIntervalExpired"
    /\ out' = Append(out, <<"rst", 0>>)
    /\ ws' = ResetRstw(jf, ws)
    /\ wsta' = "DecodeInProgress"
    /\ UNCHANGED <<jf, first, max, bits, reader>>

Finished ==
    /\ sta = "Error" \/ wsta = "ScanCompleted"
    /\ UNCHANGED vars

Next == Full \/ Coefs \/ Empty \/ InRun \/ ReadRestart \/ WriteBlock \/ WriteRestart \/ Finished

Spec == Init /\ [][Next]_vars

-----------------------------------------------------------------------------

Reading == sta \in {"DecodeInProgress", "RestartIntervalExpired"}

\* skip_eobrun against next_mcu_pos: whatever the codes say, the reader stays
\* inside the image and its unsigned restart counter does not pass zero; and
\* unless a run passed the end, it stands on the first block that the codes read
\* do not describe, in the scan's order, and completes with the last block.
PositionsAgree ==
    /\ s.rstw \in 0 .. jf.rsti
    /\ Reading => s.dpos \in DOMAIN image
    /\ "overrun" \notin odd =>
           /\ Reading => covered < Total /\ s.dpos = Order[covered + 1]
           /\ sta = "ScanCompleted" => covered = Total

\* A scan that was accepted is written back code for code, unless a run passed
\* the end or a run of 1 was followed by another (the two ways past the checks):
\* in particular check_optimal_eobrun lets no other run pass that the writer would
\* merge with the next, and the writer's runs fit the Huffman table.
Rewritten ==
    /\ ws.eobrun \in 0 .. max
    /\ wsta = "ScanCompleted" /\ odd \cap {"overrun", "single"} = {} => out = codes

\* Only scans that could not be written back are refused: check_optimal_eobrun
\* and skip_eobrun fail only on a run past the end or one that was too short.
NoSpuriousRefusal == sta = "Error" => odd \cap {"overrun", "short"} # {}
=============================================================================
