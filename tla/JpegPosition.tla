---------------------------- MODULE JpegPosition ----------------------------
(***************************************************************************)
(* JpegPositionState of rust/lib/src/jpeg/jpeg_position_state.rs: which    *)
(* block of which component comes next in a scan, when the restart         *)
(* interval expires and when the scan is complete; and the geometry it     *)
(* rests on (jpeg_header.rs), with the image's size counted in blocks.     *)
(*                                                                         *)
(* jf is a record for JpegHeader. As in the code, sfh scales the vertical  *)
(* and sfv the horizontal block counts. Components are numbered from 1.    *)
(***************************************************************************)
EXTENDS Integers, Sequences, SequencesExt, FiniteSetsExt

CeilDiv(a, b) == (a + b - 1) \div b

\* The component counts that JpegHeader::parse computes for an image of height
\* by width blocks with the sampling factors sf (a sequence of [v, h]); cs is
\* cs_cmp, the components of the scan in order.
Header(height, width, sf, cs, rsti, sequential) ==
    LET sfhm == Max({sf[i].h : i \in DOMAIN sf})
        sfvm == Max({sf[i].v : i \in DOMAIN sf})
        mcuv == CeilDiv(height, sfhm)
        mcuh == CeilDiv(width, sfvm)
        Info(f) == [sfv |-> f.v, sfh |-> f.h, mbs |-> f.v * f.h,
                    bcv |-> mcuv * f.h, bch |-> mcuh * f.v, bc |-> mcuv * f.h * mcuh * f.v,
                    ncv |-> CeilDiv(height * f.h, sfhm), nch |-> CeilDiv(width * f.v, sfvm)]
    IN  [cmp_info |-> [i \in DOMAIN sf |-> Info(sf[i])], cs_cmp |-> cs, rsti |-> rsti,
         mcuv |-> mcuv, mcuh |-> mcuh, mcuc |-> mcuv * mcuh, sequential |-> sequential]

MutNewPosition(jf, mcu) ==
    LET cmp == jf.cs_cmp[1]
    IN  [cmp |-> cmp, mcu |-> mcu, csc |-> 0, sub |-> 0,
         dpos |-> mcu * jf.cmp_info[cmp].sfv * jf.cmp_info[cmp].sfh,
         rstw |-> jf.rsti, eobrun |-> 0, prev_eobrun |-> 0]

\* new
NewPosition(jf, mcu) ==
    LET cmp == jf.cs_cmp[1]
    IN  [cmp |-> cmp, mcu |-> mcu, csc |-> 0, sub |-> 0,
         dpos |-> mcu * jf.cmp_info[cmp].sfv * jf.cmp_info[cmp].sfh,
         rstw |-> IF jf.rsti # 0 THEN jf.rsti - (mcu % jf.rsti) ELSE 0,
         eobrun |-> 0, prev_eobrun |-> 0]

CumulativeResetMarkers(jf, s) == IF s.rstw # 0 THEN s.mcu \div jf.rsti ELSE 0

MutResetRstw(jf, s) == [s EXCEPT !.rstw = jf.rsti]

ResetRstw(jf, s) == [s EXCEPT !.rstw = jf.rsti, !.prev_eobrun = 0]

\* The status that a step to the next MCU (or block) ends with.
Stepped(jf, s, complete) ==
    LET t == IF ~complete /\ jf.rsti > 0 THEN [s EXCEPT !.rstw = @ - 1] ELSE s
    IN  [s |-> t, sta |-> IF complete THEN "ScanCompleted"
                          ELSE IF jf.rsti > 0 /\ t.rstw = 0 THEN "RestartIntervalExpired"
                          ELSE "DecodeInProgress"]

MutNextNonInterleaved(jf, s) ==
    LET ci   == jf.cmp_info[s.cmp]
        d1   == s.dpos + 1
        d2   == IF ci.bch # ci.nch /\ d1 % ci.bch = ci.nch THEN d1 + ci.bch - ci.nch ELSE d1
        mcu2 == IF jf.sequential THEN d2 \div (ci.sfv * ci.sfh) ELSE s.mcu
    IN  Stepped(jf, [s EXCEPT !.dpos = d2, !.mcu = mcu2], d2 >= ci.bc)

\* next_mcu_pos_noninterleaved: the padding blocks of an interleaved grid, to
\* the right of nch and below ncv, are skipped.
NextNonInterleaved(jf, s) ==
    LET ci   == jf.cmp_info[s.cmp]
        d1   == s.dpos + 1
        d2   == IF ci.bch # ci.nch /\ d1 % ci.bch = ci.nch THEN d1 + ci.bch - ci.nch ELSE d1
        d3   == IF ci.bcv # ci.ncv /\ d2 \div ci.bch = ci.ncv THEN ci.bc ELSE d2
        mcu3 == IF jf.sequential THEN d3 \div (ci.sfv * ci.sfh) ELSE s.mcu
    IN  Stepped(jf, [s EXCEPT !.dpos = d3, !.mcu = mcu3], d3 >= ci.bc)

\* Where block sub of component cmp in this MCU lies in the component's image.
BlockInMcu(jf, cmp, mcu, sub) ==
    LET ci == jf.cmp_info[cmp]
    IN  IF ci.sfh > 1
        THEN (((mcu \div jf.mcuh) * ci.sfh) + (sub \div ci.sfv)) * ci.bch
               + (mcu % jf.mcuh) * ci.sfv + (sub % ci.sfv)
        ELSE IF ci.sfv > 1 THEN mcu * ci.mbs + sub
        ELSE mcu

\* next_mcu_pos
NextMcuPos(jf, s) ==
    LET inCmp == s.sub + 1 < jf.cmp_info[s.cmp].mbs
        inMcu == s.csc + 1 < Len(jf.cs_cmp)
        sub   == IF inCmp THEN s.sub + 1 ELSE 0
        csc   == IF inCmp THEN s.csc ELSE IF inMcu THEN s.csc + 1 ELSE 0
        cmp   == IF inCmp THEN s.cmp ELSE jf.cs_cmp[csc + 1]
        mcu   == IF inCmp \/ inMcu THEN s.mcu ELSE s.mcu + 1
        t     == [s EXCEPT !.sub = sub, !.csc = csc, !.cmp = cmp, !.mcu = mcu,
                           !.dpos = BlockInMcu(jf, cmp, mcu, sub)]
    IN  IF Len(jf.cs_cmp) = 1 THEN NextNonInterleaved(jf, s)
        ELSE IF mcu = s.mcu THEN [s |-> t, sta |-> "DecodeInProgress"]
        ELSE Stepped(jf, t, mcu >= jf.mcuc)

MutSkipEobrunFlat(jf, s) ==
    LET ci   == jf.cmp_info[s.cmp]
        run  == s.eobrun
        t    == [s EXCEPT !.dpos = @ + run, !.eobrun = 0,
                          !.rstw = IF jf.rsti > 0 THEN @ - run ELSE @]
    IN  IF run = 0 THEN [s |-> s, sta |-> "DecodeInProgress"]
        ELSE IF jf.rsti > 0 /\ run > s.rstw THEN [s |-> s, sta |-> "Error"]
        ELSE [s |-> t, sta |-> IF t.dpos = ci.bc THEN "ScanCompleted"
                               ELSE IF t.dpos > ci.bc THEN "Error"
                               ELSE IF jf.rsti > 0 /\ t.rstw = 0 THEN "RestartIntervalExpired"
                               ELSE "DecodeInProgress"]

\* skip_eobrun, for the eobrun blocks after the current one. (The additions are
\* checked for overflow in the code; block counts here are far below 2^32.)
SkipEobrun(jf, s) ==
    LET ci   == jf.cmp_info[s.cmp]
        run  == s.eobrun
        d1   == IF ci.bch # ci.nch
                THEN s.dpos + (((s.dpos % ci.bch) + run) \div ci.nch) * (ci.bch - ci.nch) ELSE s.dpos
        d2   == IF ci.bcv # ci.ncv /\ d1 \div ci.bch >= ci.ncv
                THEN d1 + (ci.bcv - ci.ncv) * ci.bch ELSE d1
        t    == [s EXCEPT !.dpos = d2 + run, !.eobrun = 0,
                          !.rstw = IF jf.rsti > 0 THEN @ - run ELSE @]
    IN  IF run = 0 THEN [s |-> s, sta |-> "DecodeInProgress"]
        ELSE IF jf.rsti > 0 /\ run > s.rstw THEN [s |-> s, sta |-> "Error"]
        ELSE [s |-> t, sta |-> IF t.dpos = ci.bc THEN "ScanCompleted"
                               ELSE IF t.dpos > ci.bc THEN "Error"
                               ELSE IF jf.rsti > 0 /\ t.rstw = 0 THEN "RestartIntervalExpired"
                               ELSE "DecodeInProgress"]

\* check_optimal_eobrun, with hc.max_eob_run.
CheckOptimalEobrun(s, empty, maxEobRun) ==
    [s  |-> [s EXCEPT !.prev_eobrun = s.eobrun],
     ok |-> ~(empty /\ s.prev_eobrun > 0 /\ s.prev_eobrun < maxEobRun - 1)]
=============================================================================
