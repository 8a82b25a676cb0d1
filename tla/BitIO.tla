------------------------------- MODULE BitIO --------------------------------
(***************************************************************************)
(* A sequential scan read with the bit reader and rebuilt with bit         *)
(* writers. jpeg_read.rs reads codes and literals, and at every MCU row it *)
(* notes a handoff: the stream position and the bits already read of the   *)
(* current byte. jpeg_write.rs later writes the same codes and literals;   *)
(* the thread that starts at a handoff gets a fresh writer primed with     *)
(* those bits, and the thread before it drops its unfinished byte. Here    *)
(* each value is written as soon as it is read, which the writers cannot   *)
(* tell from being run afterwards.                                         *)
(* The Go port does the same with a reader of its own and a single thread; *)
(* bit_writer.go is BitWriter without change.                              *)
(***************************************************************************)
EXTENDS GoBitReader

CONSTANTS Files,        \* the scans, as sequences of bytes
          BufSizes,     \* the sizes of the BufRead's buffer
          LiteralLens,  \* lengths of the literals read with read
          CodeLens,     \* lengths of the Huffman codes
          MaxPastEof    \* bound on the bytes decoded past the end of the file

W == INSTANCE BitWriter

VARIABLES go,         \* whether this is the Go port
          r,          \* the BitReader
          pad,        \* rinfo.pad_bit: -1 (None), 0 or 255
          w,          \* the BitWriter of the current thread
          from,       \* the stream position at which it started
          out,        \* the bytes of the threads before it
          resets,     \* cumulative_reset_markers of jpeg_write.rs
          asked,      \* bits asked for by the last call
          phase       \* "scan", "done" or "error"

vars == <<go, r, pad, w, from, out, resets, asked, phase>>

Init ==
    /\ go \in BOOLEAN
    /\ \E file \in Files, buf \in BufSizes : r = NewBitReader(file, buf)
    /\ pad = -1
    /\ w = W!NewBitWriter
    /\ from = 0
    /\ out = << >>
    /\ resets = 0
    /\ asked = 0
    /\ phase = "scan"

\* Everything written so far, and its unfinished byte.
Flushed == W!FlushWholeBytes(w)
Written == out \o Flushed.data

\* The thread that ends at position end sends no more than the segment_size that
\* read_jpeg of lepton_file_writer.rs noted for it.
Sent(data, end) == SubSeq(data, 1, Min({Len(data), end - from}))
Unfinished == [num |-> RegBits - Flushed.free, byte |-> Flushed.reg \div 2^(RegBits - 8)]

-----------------------------------------------------------------------------

\* n bits read with res and written again. A failed read ends the encoding. Once
\* the file has ended, the block being decoded goes on with zeros.
Copy(res, n) ==
    /\ phase = "scan"
    /\ r.eof => Len(Written) < Len(r.file) + MaxPastEof
    /\ r' = res.r
    /\ w' = IF res.r.err = "none" THEN W!WriteBits(w, res.val, n) ELSE w
    /\ phase' = IF res.r.err = "none" THEN phase ELSE "error"
    /\ asked' = n
    /\ UNCHANGED <<go, pad, from, out, resets>>

Literal == \E n \in LiteralLens : Copy(IF go THEN GoRead(r, n) ELSE Read(r, n), n)
Code    == \E n \in CodeLens : Copy(IF go THEN GoNextHuffCode(r, n) ELSE ReadCode(r, n), n)

\* decode_baseline_rst at the end of an MCU row, and JpegIncrementalWriter::new
\* of the thread that starts there; the one before it ends with detach_buffer.
Handoff ==
    /\ phase = "scan"
    /\ ~go
    /\ ~r.eof
    /\ r' = UndoReadAhead(r)
    /\ from' = StreamPosition(r)
    /\ out' = out \o Sent(Flushed.data, from')
    /\ w' = W!ResetFromOverhang(Overhang(r).byte, Overhang(r).num)
    /\ asked' = 0
    /\ UNCHANGED <<go, pad, resets, phase>>

\* The end of a restart interval or of the scan: the reader checks the fill bits
\* (and the reset code), the writer pads (and writes the reset code).
PadWith(p) == IF p = -1 THEN 0 ELSE p

Restart ==
    LET fill  == IF go THEN GoReadFillBits(r, pad) ELSE ReadFillBits(r, pad)
        reset == IF go THEN GoVerifyResetCode(fill.r) ELSE VerifyResetCode(fill.r)
    IN  /\ phase = "scan"
        /\ ~r.eof
        /\ r' = IF fill.r.err = "none" THEN reset ELSE fill.r
        /\ pad' = fill.pad
        /\ asked' = 0
        /\ UNCHANGED <<go, from, out>>
        /\ IF r'.err # "none"
           THEN phase' = "error" /\ UNCHANGED <<w, resets>>
           ELSE /\ w' = W!WriteByteUnescaped(W!WriteByteUnescaped(W!Pad(w, PadWith(pad')), 255),
                                             208 + (resets % 8))
                /\ resets' = resets + 1
                /\ UNCHANGED phase

\* Once it knows the pad bit, readBaselineScan does not look at the last fill bits.
\* Its writer has no segment size but the size of the file (limitedWriter).
LastFillBits ==
    IF ~go THEN ReadFillBits(r, pad)
    ELSE IF pad = -1 THEN GoReadFillBits(r, pad) ELSE [r |-> r, pad |-> pad]

EndWith(fill, padding) ==
    /\ phase = "scan"
    /\ r' = fill.r
    /\ pad' = fill.pad
    /\ asked' = 0
    /\ UNCHANGED <<go, from, resets>>
    /\ LET padded == W!Pad(w, PadWith(padding))
       IN  IF fill.r.err # "none"
           THEN phase' = "error" /\ UNCHANGED <<w, out>>
           ELSE /\ phase' = "done"
                /\ w' = W!DetachBuffer(padded)
                /\ out' = out \o Sent(padded.data, IF go THEN Len(r.file) ELSE fill.r.pos)

MutEndScan == EndWith(LastFillBits, pad)

EndScan == EndWith(LastFillBits, LastFillBits.pad)

\* Nothing is left to do.
Finished == phase # "scan" /\ UNCHANGED vars

Next == Literal \/ Code \/ Handoff \/ Restart \/ EndScan \/ Finished

Spec == Init /\ [][Next]_vars

-----------------------------------------------------------------------------

\* At any point of the scan, wherever the threads were split and however the
\* buffer was cut, the bytes rebuilt are the bytes of the file up to the stream
\* position, and the unfinished byte holds exactly the bits read of the next
\* one. (The escape of a last 0xFF that the file lost is written as well.)
RebuildsFile ==
    phase = "scan" /\ ~r.eof =>
        /\ Written = SubSeq(r.file, 1, StreamPosition(r))
                       \o (IF r.tff /\ r.left = 0 /\ from < r.pos THEN <<0>> ELSE << >>)
        /\ Unfinished = Overhang(r)

\* The threads together write the scan and nothing else: the file up to the end
\* of the scan, and all of a file that ends early. (The Go port does so of files
\* that do not end early, if their last fill bits, at which it does not look, are
\* like those before.)
ScanRebuilt ==
    phase = "done" /\ (go => ~r.eof /\ (r.left = 0 \/ FillBitsOk(r, pad))) =>
        /\ out = SubSeq(r.file, 1, r.pos)
        /\ r.eof => r.pos = Len(r.file)

\* The bits between byte start of a file and the next marker.
UnitBits(file, start) ==
    LET Avail[p \in Nat] ==
            IF p > Len(file) THEN 0
            ELSE IF file[p] # 255 THEN 8 + Avail[p + 1]
            ELSE IF p = Len(file) \/ file[p + 1] = 0 THEN 8 + Avail[p + 2]
            ELSE 0
    IN  Avail[start + 1]

\* A marker fails the decoding only if the bits before it are used up: no
\* code or literal that lies before the marker is refused.
MarkerReached ==
    r'.err = "marker" => UnitBits(r.file, StreamPosition(r)) - Overhang(r).num < asked'

MarkerOnlyWhenReached == [][MarkerReached]_vars
=============================================================================
