----------------------------- MODULE ScanOrder ------------------------------
(***************************************************************************)
(* The order of the blocks of a scan, read once from end to end            *)
(* (read_first_scan of jpeg_read.rs) and written again one MCU row at a    *)
(* time (recode_one_mcu_row of jpeg_write.rs), where each row starts from  *)
(* its number alone: it may be the first of a thread that knows nothing of *)
(* the rows before. The two walk side by side here, block by block, so     *)
(* that a row that starts in the wrong place, or a reset code that only    *)
(* one of them sees, shows at once.                                        *)
(***************************************************************************)
EXTENDS JpegPosition

CONSTANT Headers      \* the JpegHeaders of the scans

VARIABLES jf,         \* the JpegHeader
          s,          \* the reader's JpegPositionState
          sta,        \* its JpegDecodeStatus
          cpos,       \* reset codes the reader has verified (BitReader::cpos)
          seen,       \* the blocks read, as a set of <<component, dpos>>
          twice,      \* whether a block was read twice
          handoffs,   \* the MCUs at which the reader noted a handoff
          ws,         \* the writer's JpegPositionState
          wsta,       \* its JpegDecodeStatus
          rowEnded,   \* end_of_row of the writer
          markers     \* its cumulative_reset_markers

vars == <<jf, s, sta, cpos, seen, twice, handoffs, ws, wsta, rowEnded, markers>>

Init ==
    /\ jf \in Headers
    /\ s = ResetRstw(jf, NewPosition(jf, 0))
    /\ sta = "DecodeInProgress"
    /\ cpos = 0
    /\ seen = {}
    /\ twice = FALSE
    /\ handoffs = {0}
    /\ ws = NewPosition(jf, 0)
    /\ wsta = "DecodeInProgress"
    /\ rowEnded = FALSE
    /\ markers = CumulativeResetMarkers(jf, ws)

\* The next MCU row of the writer, once the last one has ended.
NextRow(t) == NewPosition(jf, t.mcu)

MutHandoffLost(from, to, status) ==
    to.mcu % jf.mcuh = 0 /\ from.mcu # to.mcu /\ status = "DecodeInProgress"

\* do_handoff; it is acted upon by the next block, if there is one.
HandoffDue(from, to, status) ==
    to.mcu % jf.mcuh = 0 /\ from.mcu # to.mcu /\ status # "ScanCompleted"

\* end_of_row
EndOfRow(from, to) == from.mcu # to.mcu /\ to.mcu % jf.mcuh = 0

\* One turn of the loop of decode_baseline_rst and one of recode_one_mcu_row.
Block ==
    LET read    == NextMcuPos(jf, s)
        written == NextMcuPos(jf, ws)
        rowOver == EndOfRow(ws, written.s) /\ written.sta = "DecodeInProgress"
    IN  /\ sta = "DecodeInProgress"
        /\ wsta = "DecodeInProgress"
        /\ s' = read.s
        /\ sta' = read.sta
        /\ twice' = (twice \/ <<s.cmp, s.dpos>> \in seen)
        /\ seen' = seen \cup {<<s.cmp, s.dpos>>}
        /\ handoffs' = IF HandoffDue(s, read.s, read.sta)
                       THEN handoffs \cup {read.s.mcu} ELSE handoffs
        /\ ws' = IF rowOver THEN NextRow(written.s) ELSE written.s
        /\ wsta' = written.sta
        /\ rowEnded' = (EndOfRow(ws, written.s) /\ ~rowOver)
        /\ markers' = IF rowOver THEN CumulativeResetMarkers(jf, NextRow(written.s)) ELSE markers
        /\ UNCHANGED <<jf, cpos>>

\* The end of a restart interval: the reader verifies the reset code and resets
\* its counter, the writer writes the code (rst_cnt, which may end the codes, is
\* never set for a picture read here) and resets its counter; if the row has
\* ended as well, the next row starts.
Restart ==
    LET over == ResetRstw(jf, ws)
    IN  /\ sta = "RestartIntervalExpired"
        /\ wsta = "RestartIntervalExpired"
        /\ s' = ResetRstw(jf, s)
        /\ sta' = "DecodeInProgress"
        /\ cpos' = cpos + 1
        /\ ws' = IF rowEnded THEN NextRow(ws) ELSE over
        /\ markers' = IF rowEnded THEN CumulativeResetMarkers(jf, NextRow(ws)) ELSE markers + 1
        /\ wsta' = "DecodeInProgress"
        /\ rowEnded' = FALSE
        /\ UNCHANGED <<jf, seen, twice, handoffs>>

Done ==
    /\ sta = "ScanCompleted"
    /\ wsta = "ScanCompleted"
    /\ UNCHANGED vars

Next == Block \/ Restart \/ Done

Spec == Init /\ [][Next]_vars

-----------------------------------------------------------------------------

\* JpegPositionState::new against read_first_scan: a row that is written from its number alone is written where, and with the
\* reset codes with which, the whole scan was read: the same block comes next,
\* the same interval expires, the next code has the same number.
RowsRestartInStep ==
    /\ sta = wsta
    /\ sta # "ScanCompleted" => <<s.cmp, s.dpos, s.mcu>> = <<ws.cmp, ws.dpos, ws.mcu>>
    /\ sta = "DecodeInProgress" => s.rstw = ws.rstw
    /\ jf.rsti > 0 /\ sta # "ScanCompleted" => cpos = markers

\* The blocks that a scan of cmp holds.
Wanted(cmp) ==
    LET ci == jf.cmp_info[cmp]
    IN  IF Len(jf.cs_cmp) > 1 THEN 0 .. ci.bc - 1
        ELSE {y * ci.bch + x : y \in 0 .. ci.ncv - 1, x \in 0 .. ci.nch - 1}

\* next_mcu_pos: a complete scan has read every block of its components once: all
\* of the interleaved grid, or the blocks inside the picture if there is one component.
EveryBlockOnce ==
    /\ ~twice
    /\ sta = "ScanCompleted" =>
           seen = UNION {{<<c, d>> : d \in Wanted(c)} : c \in Range(jf.cs_cmp)}

\* The handoffs of decode_baseline_rst, at which the file may be split between
\* threads, are the beginnings of rows: at a handoff every block of the rows above
\* is read and none of the rows below, in each component of the scan; and every
\* MCU row in which a sequential or interleaved scan has a block has one, also if
\* a restart interval ends with the row above.
HandoffsAtRows ==
    /\ sta = "DecodeInProgress" /\ s.mcu \in handoffs /\ s.csc = 0 /\ s.sub = 0
          /\ s.dpos = NewPosition(jf, s.mcu).dpos
         => LET row == s.mcu \div jf.mcuh
            IN  \A c \in Range(jf.cs_cmp) :
                    {d \in Wanted(c) : <<c, d>> \in seen} =
                    {d \in Wanted(c) : d < row * jf.cmp_info[c].sfh * jf.cmp_info[c].bch}
    /\ sta = "ScanCompleted" /\ (jf.sequential \/ Len(jf.cs_cmp) > 1) =>
         \A row \in 0 .. jf.mcuv - 1 :
             (\E b \in seen : b[2] \div (jf.cmp_info[b[1]].bch * jf.cmp_info[b[1]].sfh) = row)
                 => row * jf.mcuh \in handoffs
=============================================================================
