----------------------------- MODULE FileReader -----------------------------
(***************************************************************************)
(* LeptonFileReader of rust/lib/src/structs/lepton_file_reader.rs, driven  *)
(* through process_limited_buffer as the DLL does: the caller passes the   *)
(* file in slices of any size together with an output buffer of any size.  *)
(* Decoder threads work in the background; MultiplexRead models them and   *)
(* the parsing of blocks, here they only make the results of the file's    *)
(* segments available, in order, once their input has been passed on.      *)
(*                                                                         *)
(* A file is a record:                                                     *)
(*   bytes     its bytes: FixedSize "H", one "C", a "M" (or another byte), *)
(*             body bytes "B" and the "E"s of the appended file size       *)
(*   declared  the number that the "E"s encode                             *)
(*   size      jpeg_file_size of the fixed header                          *)
(*   sections  the compressed header, see LeptonFile                       *)
(*   progressive, lines, markers   what the raw header in it declares: the *)
(*             type, the number of rows, the restart markers of the scan   *)
(*   image, later   the coded rows and later scans it decodes to           *)
(*   needs     needs[k] body bytes are needed to decode segment k          *)
(*   bad       the segment whose decoding fails, or 0                      *)
(*   jpeg      the JPEG it was made from                                   *)
(*   sound     whether an encoder made it, and it was not changed since    *)
(***************************************************************************)
EXTENDS PartialBuffer, LeptonFile

CONSTANTS Files,       \* the files a caller may pass
          FixedSize,   \* FIXED_HEADER_SIZE, 28 in the code
          Retention,   \* the 4 bytes of the appended size
          MaxSlice,    \* bound on the slices of the caller
          Rooms        \* the sizes of its output buffers

VARIABLES
    file, fed,           \* the caller's file, and how much of it was passed
    pc,                  \* "idle" between calls, "loop", "finish", "failed"
    complete,            \* the input_complete argument of the current call
    room,                \* what is left of its output buffer
    state,               \* DecoderState
    lh,                  \* the parsed header
    total_read_size, left, input_complete,   \* fields (left: jpeg_file_size_left)
    consumed,            \* body bytes passed to the decoder threads
    ready, retrieved,    \* results the threads have sent, and results taken
    queue,               \* output_extra
    delivered,           \* all output handed to the caller so far
    finished             \* a call has returned complete

caller  == <<file, fed>>
call    == <<pc, complete, room>>
reader  == <<state, lh, total_read_size, left, input_complete>>
threads == <<consumed, ready, retrieved>>
output  == <<queue, delivered, finished>>
vars    == <<partial, caller, call, reader, threads, output>>

\* encode_lepton of an accepted JPEG.
EncodeLepton(j) ==
    LET threads_ == Len(ThreadHandoffs(j))
        bytes_ == [i \in 1 .. FixedSize |-> "H"] \o <<"C", "M">>
                  \o [i \in 1 .. threads_ |-> "B"] \o [i \in 1 .. Retention |-> "E"]
    IN  [bytes |-> bytes_, declared |-> Len(bytes_), size |-> JpegFileSize(j),
         sections |-> WriteLeptonHeader(j), progressive |-> j.progressive,
         lines |-> Len(j.rows), markers |-> 0, image |-> ImageOf(j), later |-> Tail(LaterScans(j).scans),
         needs |-> [k \in 1 .. threads_ |-> k], bad |-> 0,
         jpeg |-> Take(j.bytes, j.upto), sound |-> ~EndsInTrailer(j)]

\* The results of the threads of a file f with header h, one or several of them.
Segment(f, h, k) == IF f.progressive THEN CodedRows(h.handoffs[k], f.image)
                    ELSE BaselineSegment(h.handoffs[k], f.image)
SegmentsOf(f, h, i, j) == FlattenSeq([k \in 1 .. j - i + 1 |-> Segment(f, h, i + k - 1)])

\* What follows the segments of a baseline image, and the whole of a progressive one.
EndOf(f, h) == RstMarkers(h, f.markers) \o TailOf(h, h.index)
MergedOf(f, h) == Progressive(h, <<SegmentsOf(f, h, 1, Len(h.handoffs))>> \o f.later)

Threads == Len(lh.handoffs)
Segments(i, j) == SegmentsOf(file, lh, i, j)

\* The result of a failing segment.
Fails(k) == k = file.bad \/ consumed < file.needs[k]

-----------------------------------------------------------------------------
(* The files                                                               *)

HeaderOf(f) == ReadLeptonHeader(f.sections, f.size, f.lines)

\* All that is written for a file with header h, before the cut at the JPEG's size.
Written(f, h) ==
    IF f.progressive THEN MergedOf(f, h).out
    ELSE HeadOf(h) \o (SegmentsOf(f, h, 1, Len(h.handoffs)) \o EndOf(f, h))

\* The first n bytes of f have every part of a Lepton file, and no thread fails on it.
WellFormed(f, n) ==
    LET h == HeaderOf(f)
        body == n - (FixedSize + 2 + Retention)
    IN  /\ body >= 0 /\ f.declared = n
        /\ f.bytes[1] = "H" /\ f.bytes[FixedSize + 1] = "C" /\ f.bytes[FixedSize + 2] = "M"
        /\ \A i \in 1 .. Retention : f.bytes[n - Retention + i] = "E"
        /\ h.ok
        /\ \A k \in 1 .. Len(h.handoffs) : k # f.bad /\ f.needs[k] <= body
        /\ f.progressive => MergedOf(f, h).ok

ASSUME SizesAssumption ==
    FixedSize \in Nat \ {0} /\ Retention \in Nat /\ MaxSlice \in Nat /\ Rooms \subseteq Nat

\* The pieces of a file are sequences of numbers.
ASSUME PiecesAssumption ==
    \A f \in Files :
        LET h == HeaderOf(f)
        IN  /\ f.bytes \in Seq(STRING) /\ f.jpeg \in Seq(Nat) /\ f.size \in Nat
            /\ f.progressive \in BOOLEAN /\ f.sound \in BOOLEAN
            /\ h.ok => /\ Len(h.handoffs) \in Nat
                       /\ HeadOf(h) \in Seq(Nat) /\ EndOf(f, h) \in Seq(Nat)
                       /\ \A k \in 1 .. Len(h.handoffs) :
                              Segment(f, h, k) \in Seq(Nat) /\ f.needs[k] \in Nat
                       /\ f.progressive => MergedOf(f, h).out \in Seq(Nat)

\* What jpeg and sound mean: the header and the coded rows of a file give back the
\* beginning of the JPEG, and a file is sound if it is well-formed, up to its end and
\* not before; then they give back all of it.
ASSUME FilesAssumption ==
    \A f \in Files :
        LET h == HeaderOf(f)
        IN  /\ h.ok /\ (f.progressive => MergedOf(f, h).ok)
                => IsPrefix(Take(Written(f, h), f.size), f.jpeg)
            /\ \A n \in 0 .. Len(f.bytes) : WellFormed(f, n) => f.sound
            /\ f.sound => WellFormed(f, Len(f.bytes)) /\ Take(Written(f, h), f.size) = f.jpeg

-----------------------------------------------------------------------------

Init ==
    /\ InitPartial
    /\ file \in Files
    /\ fed = 0
    /\ pc = "idle" /\ complete = FALSE /\ room = 0
    /\ state = "FixedHeader" /\ lh = [ok |-> FALSE]
    /\ total_read_size = 0 /\ left = 0 /\ input_complete = FALSE
    /\ consumed = 0 /\ ready = 0 /\ retrieved = 0
    /\ queue = << >> /\ delivered = << >> /\ finished = FALSE

-----------------------------------------------------------------------------
(* Output: LimitedOutputWriter over FixedBufferOuputWriter                 *)

MutLimited(data) == data

\* write_all of data: truncated to what is left of the JPEG's size, then as much
\* as fits goes to the output buffer and the rest to the queue.
Limited(data) == Take(data, left)

Emit(data) ==
    /\ left' = left - Len(Limited(data))
    /\ room' = room - Least(room, Len(Limited(data)))
    /\ delivered' = delivered \o Take(Limited(data), room)
    /\ queue' = queue \o Drop(Limited(data), room)

\* Any ? in process_buffer: the call returns an error.
Fail == pc' = "failed"

-----------------------------------------------------------------------------
(* The caller                                                              *)

\* process_limited_buffer: output that was queued goes first; then process_buffer
\* begins with the check that no data follows the end of the input.
Call(n, last, size) ==
    /\ pc = "idle"
    /\ n <= Len(file.bytes) - fed
    /\ delivered' = delivered \o Take(queue, size)
    /\ queue' = Drop(queue, size)
    /\ room' = size - Least(size, Len(queue))
    /\ complete' = last
    /\ IF input_complete /\ n > 0
       THEN Fail /\ UNCHANGED <<partial, caller, total_read_size>>
       ELSE /\ pc' = "loop"
            /\ NewSlice(SubSeq(file.bytes, fed + 1, fed + n))
            /\ fed' = fed + n
            /\ total_read_size' = total_read_size + n
            /\ UNCHANGED file
    /\ UNCHANGED <<state, lh, left, input_complete, threads, finished>>

AnyCall == \E n \in 0 .. MaxSlice, last \in BOOLEAN, size \in Rooms : Call(n, last, size)

\* What a caller that wants the result does: it passes on the file, marks its end
\* with the last slice or, as decode_lepton, with an empty one, and offers some space.
UsefulCall == \E n \in 0 .. MaxSlice, last \in BOOLEAN, size \in Rooms \ {0} :
    /\ last => fed + n = Len(file.bytes)
    /\ n = 0 => last
    /\ Call(n, last, size)

-----------------------------------------------------------------------------
(* The loop of process_buffer: one action per iteration                    *)

InLoop(s) == pc = "loop" /\ continue_processing /\ state = s

\* A take that finds too little data ends the loop.
NeedMore(s, size) ==
    /\ InLoop(s)
    /\ TakeNone(size, 0)
    /\ UNCHANGED <<caller, call, reader, threads, output>>

\* read_lepton_fixed_header gives the size, or rejects the version or type.
ReadFixedHeader ==
    /\ InLoop("FixedHeader")
    /\ TakeSome(FixedSize, 0)
    /\ IF Head(Taken(FixedSize)) = "H" THEN state' = "CompressedHeader" /\ left' = file.size /\ UNCHANGED pc
                                       ELSE Fail /\ UNCHANGED <<state, left>>
    /\ UNCHANGED <<caller, complete, room, lh, total_read_size, input_complete, threads, output>>

\* read_compressed_lepton_header; the compressed data, which zlib may reject, is one
\* byte long here.
ReadCompressedHeader ==
    /\ InLoop("CompressedHeader")
    /\ TakeSome(1, 0)
    /\ lh' = ReadLeptonHeader(file.sections, file.size, file.lines)
    /\ IF Taken(1) = <<"C">> /\ lh'.ok THEN state' = "CMP" /\ UNCHANGED pc
                                        ELSE Fail /\ UNCHANGED state
    /\ UNCHANGED <<caller, complete, room, total_read_size, left, input_complete, threads, output>>

\* process_cmp: a baseline image's header is written at once.
ReadCmp ==
    /\ InLoop("CMP")
    /\ TakeSome(1, 0)
    /\ IF Taken(1) # <<"M">>
       THEN Fail /\ UNCHANGED <<state, left, room, queue, delivered>>
       ELSE /\ UNCHANGED pc
            /\ IF file.progressive
               THEN state' = "ScanProgressive" /\ UNCHANGED <<left, room, queue, delivered>>
               ELSE state' = "ScanBaseline" /\ Emit(HeadOf(lh))
    /\ UNCHANGED <<caller, complete, lh, total_read_size, input_complete, threads, finished>>

\* MultiplexReaderState::process_buffer: everything but the retained bytes goes to
\* the threads; the take that fails ends the loop.
PassOn ==
    LET n == IF Len(Pending) > Retention THEN Len(Pending) - Retention ELSE 0
    IN  /\ consumed' = consumed + n
        /\ extra_buffer' = Drop(Pending, n)
        /\ slice' = << >>
        /\ continue_processing' = FALSE

\* retrieve_result(false), until it returns None: the results that are there. If
\* one of them is the error of a thread the call fails, and what it wrote to the
\* output buffer before is not reported to the caller.
Arrived == Segments(retrieved + 1, ready)
FailedAmong(i, j) == \E k \in i .. j : Fails(k)

ScanBaseline ==
    /\ InLoop("ScanBaseline")
    /\ PassOn
    /\ IF FailedAmong(retrieved + 1, ready)
       THEN Fail /\ UNCHANGED <<retrieved, left, room, queue, delivered>>
       ELSE /\ Emit(Arrived)
            /\ retrieved' = ready
            /\ pc' = IF complete THEN "finish" ELSE "loop"
    /\ UNCHANGED <<caller, complete, state, lh, total_read_size, input_complete, ready, finished>>

ScanProgressive ==
    /\ InLoop("ScanProgressive")
    /\ PassOn
    /\ pc' = IF complete THEN "finish" ELSE "loop"
    /\ UNCHANGED <<caller, complete, room, reader, ready, retrieved, output>>

-----------------------------------------------------------------------------
(* The end of the input                                                    *)

\* verify_eof_file_size
EofVerified ==
    /\ Available(Retention, 0)
    /\ \A i \in 1 .. Retention : Taken(Retention)[i] = "E"
    /\ file.declared = total_read_size

EofMismatch ==
    /\ pc = "finish"
    /\ ~EofVerified
    /\ Fail
    /\ UNCHANGED <<partial, caller, complete, room, reader, threads, output>>

\* retrieve_result(true) has returned the results of all threads: what remains
\* is written, and decoding is over. A progressive image is written here only.
Merged == MergedOf(file, lh)
Remaining == IF file.progressive THEN Merged.out ELSE Segments(retrieved + 1, Threads) \o EndOf(file, lh)

\* A thread has failed, or a later header does not parse.
CannotFinish == \/ FailedAmong(retrieved + 1, ready)
                \/ ready = Threads /\ file.progressive /\ ~Merged.ok

FinishScan ==
    /\ pc = "finish"
    /\ EofVerified
    /\ ready = Threads
    /\ ~CannotFinish
    /\ TakeSome(Retention, 0)
    /\ Emit(Remaining)
    /\ retrieved' = ready
    /\ state' = "EOI"
    /\ pc' = "loop"
    /\ UNCHANGED <<caller, complete, lh, total_read_size, input_complete, consumed, ready, finished>>

\* retrieve_result(true) reports the error of a thread, or process_progressive fails;
\* what was written before is not reported to the caller.
FinishFails ==
    /\ pc = "finish"
    /\ EofVerified
    /\ CannotFinish
    /\ Fail
    /\ UNCHANGED <<partial, caller, complete, room, reader, threads, output>>

MutReturnIgnoresQueue ==
    /\ pc = "loop"
    /\ ~continue_processing \/ state = "EOI"
    /\ input_complete' = (input_complete \/ complete)
    /\ IF complete /\ state # "EOI"
       THEN Fail /\ UNCHANGED finished
       ELSE pc' = "idle" /\ finished' = (finished \/ complete)
    /\ UNCHANGED <<partial, caller, complete, room, state, lh, total_read_size, left, threads, queue, delivered>>

MutReturnAsksForMore ==
    /\ pc = "loop"
    /\ ~continue_processing \/ state = "EOI"
    /\ input_complete' = (input_complete \/ complete)
    /\ pc' = "idle"
    /\ finished' = (finished \/ (complete /\ state = "EOI" /\ queue = << >>))
    /\ UNCHANGED <<partial, caller, complete, room, state, lh, total_read_size, left, threads, queue, delivered>>

\* The end of process_buffer and of process_limited_buffer.
Return ==
    /\ pc = "loop"
    /\ ~continue_processing \/ state = "EOI"
    /\ input_complete' = (input_complete \/ complete)
    /\ IF complete /\ state # "EOI"
       THEN Fail /\ UNCHANGED finished
       ELSE pc' = "idle" /\ finished' = (finished \/ (complete /\ queue = << >>))
    /\ UNCHANGED <<partial, caller, complete, room, state, lh, total_read_size, left, threads, queue, delivered>>

-----------------------------------------------------------------------------
(* The decoder threads (external to this file: MultiplexRead)              *)

\* The next result arrives: when its input is there, or when it never will be.
Produce ==
    /\ state \in {"ScanBaseline", "ScanProgressive"}
    /\ ready < Threads
    /\ consumed >= file.needs[ready + 1] \/ pc = "finish"
    /\ ready' = ready + 1
    /\ UNCHANGED <<partial, caller, call, reader, consumed, retrieved, output>>

Process ==
    \/ NeedMore("FixedHeader", FixedSize) \/ NeedMore("CompressedHeader", 1) \/ NeedMore("CMP", 1)
    \/ ReadFixedHeader \/ ReadCompressedHeader \/ ReadCmp
    \/ ScanBaseline \/ ScanProgressive
    \/ EofMismatch \/ FinishScan \/ FinishFails \/ Return

Next == AnyCall \/ Process \/ Produce

\* process_buffer is sequential code that runs to its end, the threads make
\* progress (MultiplexRead), and between its other calls the caller again and again
\* makes a useful one.
Spec == Init /\ [][Next]_vars
FairSpec == Spec /\ WF_vars(Process) /\ WF_vars(Produce) /\ SF_vars(UsefulCall)

-----------------------------------------------------------------------------
(* Properties                                                              *)

\* However the input is sliced, whatever space the caller offers and however fast
\* the threads are, what was handed out followed by what is queued is a prefix of
\* the JPEG that was encoded: nothing is lost, repeated, reordered or written beyond
\* its size, wherever that JPEG was cut off, and also when decoding fails later.
OutputIsPrefix == IsPrefix(delivered \o queue, file.jpeg)

\* The outcome is a function of the file: one that an encoder wrote only fails when
\* the caller marks the end of the input too early or passes data after it, and any
\* other is never reported as complete. complete is returned only when the caller
\* has been handed the whole JPEG. The exception are progressive JPEGs that end in a
\* header segment without EOI (EndsInTrailer): encode_lepton accepts them and drops
\* the last two bytes of that segment, so that no decoder gets them back.
OutcomeFitsFile ==
    /\ finished => file.sound /\ delivered = file.jpeg /\ queue = << >>
    /\ pc = "failed" /\ file.sound => input_complete \/ (complete /\ fed < Len(file.bytes))

\* A caller that passes on its file, marks its end and offers space is told that
\* decoding is complete or has failed.
DecodeEnds == <>(finished \/ pc = "failed")
=============================================================================
