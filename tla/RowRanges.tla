----------------------------- MODULE RowRanges ------------------------------
(***************************************************************************)
(* How a sequential picture is divided between threads and put together    *)
(* again. The reader (read_first_scan) fills the block images and notes a  *)
(* handoff per MCU row, until the scan or the file ends; the handoffs are  *)
(* merged into one row range per thread (lepton_file_writer.rs); each      *)
(* thread codes its rows (lepton_encode_row_range); the header carries the *)
(* ranges and, for a file that ends early, the last block read of each     *)
(* component; each thread decodes its rows into an image of its own        *)
(* (lepton_decode_row_range) and hands every complete MCU row to the JPEG  *)
(* writer.                                                                 *)
(*                                                                         *)
(* A block is its place <<component, dpos>>, or Zero if it was never read. *)
(* A coded block carries the neighbours it was coded with: the arithmetic  *)
(* decoder only returns it if it is given the same ones. Threads share     *)
(* nothing that they change, so they run here one after the other.         *)
(***************************************************************************)
EXTENDS JpegPosition

CONSTANTS Pictures,       \* the JpegHeaders
          MaxThreads,     \* max_partitions, capped at 16
          SmallFile       \* SMALL_FILE_BYTES_PER_ENCDOING_THREAD

VARIABLES jf,
          phase,          \* "read", "split", "encode", "decode", "done"
          s, sta,         \* the reader's position and status
          due,            \* do_handoff
          image,          \* the blocks of each component, up to the last one read
          max_dpos,       \* the last block read of each component
          early_eof,
          rows,           \* the handoff of each MCU row begun
          handoffs,       \* the handoff of each thread
          t,              \* the thread that runs
          index,          \* its encode_index or decode_index
          top,            \* components of which it has coded no row yet
          coded,          \* what the threads have coded
          streams,        \* the coded blocks of each thread
          mine,           \* the images of the thread that decodes
          offsets,        \* their dpos_offset
          rewritten       \* the MCU rows given to the JPEG writer, in order

picture == <<jf, s, sta, due, image, max_dpos, early_eof, rows>>
vars == <<picture, phase, handoffs, t, index, top, coded, streams, mine, offsets, rewritten>>

\* The counts of JpegHeader::parse fit together. The first scan may have some of the
\* components only, and more than three are refused.
Geometry(j) ==
    /\ j.cmp_info \in Seq([sfv : Nat \ {0}, sfh : Nat \ {0}, mbs : Nat, bcv : Nat, bch : Nat,
                           bc : Nat, ncv : Nat, nch : Nat])
    /\ Len(j.cmp_info) \in 1 .. 3
    /\ j.mcuv \in Nat \ {0} /\ j.mcuh \in Nat \ {0} /\ j.mcuc = j.mcuv * j.mcuh
    /\ j.rsti \in Nat /\ j.sequential
    /\ j.cs_cmp \in Seq(DOMAIN j.cmp_info) /\ j.cs_cmp # <<>>
    /\ \A c \in DOMAIN j.cmp_info :
           LET i == j.cmp_info[c]
           IN  /\ i.bcv = j.mcuv * i.sfh /\ i.bch = j.mcuh * i.sfv
               /\ i.bc = i.bcv * i.bch /\ i.mbs = i.sfv * i.sfh
               /\ i.ncv \in 1 .. i.bcv /\ i.nch \in 1 .. i.bch

ASSUME PicturesAssumption == \A j \in Pictures : Geometry(j)
ASSUME ThreadsAssumption == MaxThreads \in Nat \ {0} /\ SmallFile \in Nat

Zero == <<0, 0>>
Garbage == <<-1, 0>>
None == <<-2, 0>>
Components == DOMAIN jf.cmp_info
ci(c) == jf.cmp_info[c]

\* luma_y_start and luma_y_end of the MCU row of mcu (RestartSegmentCodingInfo::new)
RowHandoff(mcu) ==
    LET mcu_y == mcu \div jf.mcuh
        luma_mul == ci(1).bcv \div jf.mcuv
    IN  [luma_y_start |-> luma_mul * mcu_y, luma_y_end |-> luma_mul * (mcu_y + 1)]

Init ==
    /\ jf \in Pictures
    /\ phase = "read"
    /\ s = ResetRstw(jf, NewPosition(jf, 0))
    /\ sta = "DecodeInProgress"
    /\ due = TRUE
    /\ image = [c \in Components |-> <<>>]
    /\ max_dpos = [c \in Components |-> 0]
    /\ early_eof = FALSE
    /\ rows = <<>>
    /\ handoffs = <<>>
    /\ t = 1
    /\ index = 0
    /\ top = {}
    /\ coded = {}
    /\ streams = <<>>
    /\ mine = <<>>
    /\ offsets = <<>>
    /\ rewritten = <<>>

-----------------------------------------------------------------------------
(* Block images                                                            *)

\* get_block, for an image whose first block is number offset.
GetBlock(img, offset, dpos) ==
    IF dpos - offset < Len(img) THEN img[dpos - offset + 1] ELSE Zero

MutFillUpToDpos(img, dpos, block) ==
    IF dpos < Len(img) THEN [img EXCEPT ![dpos + 1] = block] ELSE Append(img, block)

\* set_block_data (fill_up_to_dpos): the gap before dpos is filled with zeros.
FillUpToDpos(img, dpos, block) ==
    IF dpos < Len(img) THEN [img EXCEPT ![dpos + 1] = block]
    ELSE img \o [i \in 1 .. dpos - Len(img) |-> Zero] \o <<block>>

MutDposOffset(c, start) == ci(c).bch * start

\* The capacity and the dpos_offset of the image of component c for these rows.
Capacity(c, start, end) == CeilDiv(ci(c).bc * (end - start), ci(1).bcv)
DposOffset(c, start) == (ci(c).bc * start) \div ci(1).bcv

-----------------------------------------------------------------------------
(* The reader                                                              *)

\* One block of decode_baseline_rst, after which the file may be at its end. A
\* restart (which concerns no row) is taken at once.
ReadBlock ==
    LET next == NextMcuPos(jf, s)
    IN  /\ phase = "read"
        /\ sta = "DecodeInProgress"
        /\ rows' = IF due THEN Append(rows, RowHandoff(s.mcu)) ELSE rows
        /\ max_dpos' = [max_dpos EXCEPT ![s.cmp] = Max({@, s.dpos})]
        /\ image' = [image EXCEPT ![s.cmp] = FillUpToDpos(@, s.dpos, <<s.cmp, s.dpos>>)]
        /\ s' = IF next.sta = "RestartIntervalExpired" THEN ResetRstw(jf, next.s) ELSE next.s
        /\ due' = (next.s.mcu % jf.mcuh = 0 /\ s.mcu # next.s.mcu)
        /\ \E eof \in BOOLEAN :
              /\ early_eof' = eof
              /\ sta' = IF eof \/ next.sta = "ScanCompleted" THEN "ScanCompleted"
                        ELSE "DecodeInProgress"
        /\ phase' = IF sta' = "ScanCompleted" THEN "split" ELSE "read"
        /\ UNCHANGED <<jf, handoffs, t, index, top, coded, streams, mine, offsets, rewritten>>

-----------------------------------------------------------------------------
(* Truncation and the ranges of the threads                                *)

\* set_block_count_d_pos: the rows up to the last block read, rounded up to
\* whole MCU rows.
TruncatedHeight(c) ==
    LET ratio == ci(c).bcv \div jf.mcuv
        lines == Min({CeilDiv(max_dpos[c] + 1, ci(c).bch), ci(c).bcv})
    IN  Min({CeilDiv(lines, ratio) * ratio, ci(c).bcv})

\* get_max_coded_heights
MaxCodedHeight(c) == IF early_eof THEN TruncatedHeight(c) ELSE ci(c).bcv

\* get_component_sizes_in_blocks
SizeInBlocks(c) == IF early_eof THEN max_dpos[c] + 1 ELSE ci(c).bc

\* get_number_of_threads_for_encoding
NumberOfThreads(num_rows, bytes) ==
    LET byRows == IF num_rows \div 2 < MaxThreads THEN Max({num_rows \div 2, 1}) ELSE MaxThreads
    IN  IF bytes < SmallFile THEN 1
        ELSE IF bytes < 2 * SmallFile THEN Min({2, byRows})
        ELSE IF bytes < 4 * SmallFile THEN Min({4, byRows})
        ELSE byRows

\* combine_thread_ranges
Combine(from, to) == [luma_y_start |-> from.luma_y_start, luma_y_end |-> to.luma_y_end]

\* The last row of thread i < n: the whole part of a product of floats, which may
\* come out just below an exact integer (low).
SplitIndex(num_rows, n, i, low) ==
    LET exact == (num_rows * i) \div n
    IN  IF low /\ num_rows % n # 0 /\ (num_rows * i) % n = 0 THEN exact - 1 ELSE exact

MutThreadRange(num_rows, n, i, low) ==
    Combine(rows[IF i = 1 THEN 1 ELSE SplitIndex(num_rows, n, i - 1, low) + 1],
            rows[IF i = n THEN num_rows ELSE SplitIndex(num_rows, n, i, low) + 1])

\* The rows of thread i (rows are numbered from 0 in the code).
ThreadRange(num_rows, n, i, low) ==
    Combine(rows[IF i = 1 THEN 1 ELSE SplitIndex(num_rows, n, i - 1, low) + 2],
            rows[IF i = n THEN num_rows ELSE SplitIndex(num_rows, n, i, low) + 1])

\* split_row_handoffs_to_threads, for a scan of this many bytes.
Split(bytes) ==
    \E low \in BOOLEAN :
        LET n == NumberOfThreads(Len(rows), bytes)
        IN  /\ phase = "split"
            /\ handoffs' = [i \in 1 .. n |-> ThreadRange(Len(rows), n, i, low)]
            /\ phase' = "encode"
            /\ top' = Components
            /\ streams' = [i \in 1 .. n |-> <<>>]
            /\ UNCHANGED <<picture, t, index, coded, mine, offsets, rewritten>>

-----------------------------------------------------------------------------
(* The rows of a thread                                                    *)

\* component_multiple: the rows of component c in an MCU row.
ComponentMultiple(c) == ci(c).bcv \div jf.mcuv

\* Within an MCU row the components come in reverse order: the rows before those of
\* component c. RowsBefore[0] is mcu_multiple.
RowsBefore[c \in 0 .. Len(jf.cmp_info)] ==
    IF c = Len(jf.cmp_info) THEN 0 ELSE RowsBefore[c + 1] + ComponentMultiple(c + 1)

ComponentAt(place) ==
    CHOOSE c \in Components :
        RowsBefore[c] <= place /\ place < RowsBefore[c] + ComponentMultiple(c)

MutRowSpec(i) ==
    LET row    == i \div RowsBefore[0]
        place  == i % RowsBefore[0]
        c      == ComponentAt(place)
        curr_y == row * ComponentMultiple(c) + place - RowsBefore[c]
        skip   == curr_y >= MaxCodedHeight(c)
    IN  [component |-> c, curr_y |-> curr_y, mcu_row_index |-> row,
         luma_y |-> IF c = 1 THEN curr_y ELSE row * ComponentMultiple(1),
         last_row_to_complete_mcu |-> c = 1 /\ place - RowsBefore[c] + 1 = ComponentMultiple(c),
         skip |-> skip,
         done |-> skip]

\* RowSpec::get_row_spec_from_index
RowSpec(i) ==
    LET row    == i \div RowsBefore[0]
        place  == i % RowsBefore[0]
        c      == ComponentAt(place)
        curr_y == row * ComponentMultiple(c) + place - RowsBefore[c]
        skip   == curr_y >= MaxCodedHeight(c)
    IN  [component |-> c, curr_y |-> curr_y, mcu_row_index |-> row,
         luma_y |-> IF c = 1 THEN curr_y ELSE row * ComponentMultiple(1),
         last_row_to_complete_mcu |-> c = 1 /\ place - RowsBefore[c] + 1 = ComponentMultiple(c),
         skip |-> skip,
         done |-> skip /\ \A j \in 1 .. Len(jf.cmp_info) - 1 :
                              row * ComponentMultiple(j) >= MaxCodedHeight(j)]

\* A thread leaves its loop.
RangeOver(spec, max_y) == spec.done \/ (spec.luma_y >= max_y /\ t < Len(handoffs))

\* It passes over a row.
PassedOver(spec, min_y) == spec.skip \/ spec.luma_y < min_y

\* The blocks of row y that are coded: at least one, and none after the last
\* block read of the component in the rest of the row.
RowBlocks(c, y) == (y * ci(c).bch) .. Max({y * ci(c).bch, Min({(y + 1) * ci(c).bch, SizeInBlocks(c)}) - 1})

\* The neighbours that the model looks at (BlockContext::get_neighbor_data): the
\* block above unless this is the thread's first row, the left one in the row.
Neighbours(c, img, offset, y, dpos, isTop) ==
    [above |-> IF isTop THEN None ELSE GetBlock(img, offset, dpos - ci(c).bch),
     left  |-> IF dpos = y * ci(c).bch THEN None ELSE GetBlock(img, offset, dpos - 1)]

InOrder(S) == [i \in 1 .. Cardinality(S) |-> Min(S) + i - 1]    \* an interval, as a sequence

\* One turn of the loop of lepton_encode_row_range.
EncodeRow ==
    LET spec == RowSpec(index)
        c    == spec.component
        y    == spec.curr_y
        order == InOrder(RowBlocks(c, y))
        Code(dpos) == [block |-> GetBlock(image[c], 0, dpos),
                       near |-> Neighbours(c, image[c], 0, y, dpos, c \in top)]
    IN  /\ phase = "encode"
        /\ ~RangeOver(spec, handoffs[t].luma_y_end)
        /\ index' = index + 1
        /\ IF PassedOver(spec, handoffs[t].luma_y_start)
           THEN UNCHANGED <<top, coded, streams>>
           ELSE /\ top' = top \ {c}
                /\ coded' = coded \cup {<<t, c, y>>}
                /\ streams' = [streams EXCEPT ![t] =
                                  @ \o [i \in DOMAIN order |-> Code(order[i])]]
        /\ UNCHANGED <<picture, phase, handoffs, t, mine, offsets, rewritten>>

MutReadHandoffs ==
    [i \in DOMAIN handoffs |->
        [luma_y_start |-> Min({handoffs[i].luma_y_start, MaxCodedHeight(1)}),
         luma_y_end |-> IF i = Len(handoffs) THEN MaxCodedHeight(1) ELSE 0]]

\* What deserialize and read_compressed_lepton_header make of the handoffs.
ReadHandoffs ==
    [i \in DOMAIN handoffs |->
        LET max_luma == MaxCodedHeight(1)
        IN  [luma_y_start |-> Min({handoffs[i].luma_y_start, max_luma}),
             luma_y_end |-> IF i = Len(handoffs) THEN max_luma
                            ELSE Min({handoffs[i + 1].luma_y_start, max_luma})]]

\* The images of thread i, empty.
NewImages(i, hs) ==
    /\ mine' = [c \in Components |-> <<>>]
    /\ offsets' = [c \in Components |-> DposOffset(c, hs[i].luma_y_start)]

\* A thread has coded its rows; after the last one the file is written, and read.
EncodeEnd ==
    /\ phase = "encode"
    /\ RangeOver(RowSpec(index), handoffs[t].luma_y_end)
    /\ index' = 0
    /\ top' = Components
    /\ IF t < Len(handoffs)
       THEN t' = t + 1 /\ UNCHANGED <<phase, handoffs, mine, offsets>>
       ELSE /\ t' = 1
            /\ phase' = "decode"
            /\ handoffs' = ReadHandoffs
            /\ NewImages(1, handoffs')
    /\ UNCHANGED <<picture, coded, streams, rewritten>>

\* The block that is decoded from the stream, given the decoder's neighbours.
Decoded(img, c, y, isTop, dpos, stream) ==
    LET near == Neighbours(c, img, offsets[c], y, dpos, isTop)
    IN  IF stream = <<>> \/ Head(stream).near # near THEN Garbage ELSE Head(stream).block

\* One turn of the loop of lepton_decode_row_range: the blocks are appended.
DecodeRow ==
    LET spec == RowSpec(index)
        c    == spec.component
        y    == spec.curr_y
        order == InOrder(RowBlocks(c, y))
        Step(acc, dpos) ==
            [img |-> Append(acc.img, Decoded(acc.img, c, y, c \in top, dpos, acc.rest)),
             rest |-> IF acc.rest = <<>> THEN <<>> ELSE Tail(acc.rest)]
        row  == FoldLeft(Step, [img |-> mine[c], rest |-> streams[t]], order)
    IN  /\ phase = "decode"
        /\ ~RangeOver(spec, handoffs[t].luma_y_end)
        /\ index' = index + 1
        /\ IF PassedOver(spec, handoffs[t].luma_y_start)
           THEN UNCHANGED <<top, mine, streams, rewritten>>
           ELSE /\ top' = top \ {c}
                /\ mine' = [mine EXCEPT ![c] = row.img]
                /\ streams' = [streams EXCEPT ![t] = row.rest]
                /\ rewritten' = IF spec.last_row_to_complete_mcu
                                THEN Append(rewritten, spec.mcu_row_index) ELSE rewritten
        /\ UNCHANGED <<picture, phase, handoffs, t, coded, offsets>>

DecodeEnd ==
    /\ phase = "decode"
    /\ RangeOver(RowSpec(index), handoffs[t].luma_y_end)
    /\ index' = 0
    /\ top' = Components
    /\ IF t < Len(handoffs)
       THEN t' = t + 1 /\ phase' = phase /\ NewImages(t + 1, handoffs)
       ELSE phase' = "done" /\ UNCHANGED <<t, mine, offsets>>
    /\ UNCHANGED <<picture, handoffs, coded, streams, rewritten>>

Finished == phase = "done" /\ UNCHANGED vars

Next ==
    \/ ReadBlock
    \/ \E bytes \in {SmallFile - 1, SmallFile, 2 * SmallFile, 4 * SmallFile} : Split(bytes)
    \/ EncodeRow \/ EncodeEnd
    \/ DecodeRow \/ DecodeEnd
    \/ Finished

Spec == Init /\ [][Next]_vars

-----------------------------------------------------------------------------

\* The last row that a thread's image has room for (the last thread's reaches to
\* the bottom of the picture).
EndOfImage(i) == IF i = Len(handoffs) THEN ci(1).bcv ELSE handoffs[i].luma_y_end

\* split_row_handoffs_to_threads and the loops of the threads: every row that is
\* to be coded is coded by one thread, no other is coded, and every block that was
\* read is in a row that is to be coded, before the cut in that row.
EveryRowByOneThread ==
    phase = "decode" =>
        /\ \A c \in Components : \A y \in 0 .. MaxCodedHeight(c) - 1 :
              Cardinality({i \in DOMAIN handoffs : <<i, c, y>> \in coded}) = 1
        /\ \A r \in coded : r[3] < MaxCodedHeight(r[2])
        /\ \A c \in Components : \A d \in 0 .. Len(image[c]) - 1 :
              image[c][d + 1] # Zero => d \div ci(c).bch < MaxCodedHeight(c)
                                        /\ d \in RowBlocks(c, d \div ci(c).bch)

\* The decoder of a thread sees what its encoder saw although it has no other
\* thread's rows: nothing it decodes is garbage, and each thread uses up exactly
\* what it coded.
ThreadsDecodeTheirOwn ==
    /\ phase = "decode" => \A c \in Components : Garbage \notin Range(mine[c])
    /\ phase \in {"decode", "done"} =>
           \A i \in DOMAIN streams : (i < t \/ phase = "done") => streams[i] = <<>>

AsRead(c, d) == IF <<c, d>> \in Range(image[c]) THEN <<c, d>> ELSE Zero

\* When an MCU row is given to the JPEG writer, every block of it, of every
\* component, reads as it was in the file: in the right place, although blocks
\* are appended and rows may be cut, and not before it is decoded. The rows of all
\* threads together are those of the picture from the top to the cut, in order, none
\* missing and none twice.
RowsRestored ==
    /\ phase = "decode" /\ rewritten # <<>> /\ index > 0 /\ RowSpec(index - 1).last_row_to_complete_mcu
         /\ ~PassedOver(RowSpec(index - 1), handoffs[t].luma_y_start)
           => \A c \in Components :
                  LET mult == ComponentMultiple(c)
                      from == Last(rewritten) * mult * ci(c).bch
                  IN  \A d \in from .. from + mult * ci(c).bch - 1 :
                          GetBlock(mine[c], offsets[c], d) = AsRead(c, d)
    /\ \A i \in DOMAIN rewritten : rewritten[i] = i - 1
    /\ phase = "done" => \A c \in Components : \A d \in 0 .. Len(image[c]) - 1 :
           image[c][d + 1] # Zero => d \div (ComponentMultiple(c) * ci(c).bch) < Len(rewritten)

\* The assertions of BlockBasedImage: no image grows past the capacity reserved
\* for it (append_block, fill_up_to_dpos), and when the images of a progressive
\* picture, which is never cut, are joined (merge), each ends where the next
\* thread's begins.
ImagesFit ==
    phase = "decode" =>
        /\ \A c \in Components :
               Len(mine[c]) <= Capacity(c, handoffs[t].luma_y_start, EndOfImage(t))
        /\ ~early_eof /\ t < Len(handoffs) /\ RangeOver(RowSpec(index), handoffs[t].luma_y_end)
               => \A c \in Components :
                      offsets[c] + Len(mine[c]) = DposOffset(c, handoffs[t + 1].luma_y_start)

\* The assertion at the end of lepton_encode_row_range: once the last thread has
\* met the end, the row after it is past the end too.
EndStaysEnd ==
    phase = "encode" /\ t = Len(handoffs) /\ RowSpec(index).done =>
        RowSpec(index + 1).skip /\ RowSpec(index + 1).done
=============================================================================
