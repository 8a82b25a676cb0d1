----------------------------- MODULE LeptonFile -----------------------------
(***************************************************************************)
(* From a JPEG to a Lepton file and back, without the coding of the image: *)
(* which parts of the JPEG go where, and how the reader puts them together *)
(* again. The encoder's side is read_jpeg_file, read_jpeg, encode_lepton   *)
(* and write_lepton_header; the decoder's is read_compressed_lepton_header *)
(* and the pieces that lepton_file_reader.rs writes.                       *)
(*                                                                         *)
(* A JPEG is a record:                                                     *)
(*   bytes        the file, which may end anywhere                         *)
(*   progressive                                                           *)
(*   rows, later  the lengths of the rows of the first scan and of the     *)
(*                later scans, as they were before the file was cut        *)
(*   aligned      whether rows start at byte boundaries                    *)
(*   lost, junk   how many of the last bytes of a cut scan re-coding does  *)
(*                not give back, and how many other bytes it gives: zero   *)
(*                bits are read after the end of the file (BlockCodes)   *)
(*   splits       the rows after which the work is split between threads   *)
(*   stop         the feature stop_reading_at_eoi                          *)
(* A segment of a header is FF, its type, the length of what follows the   *)
(* type, and data; the length is one byte here.                            *)
(***************************************************************************)
EXTENDS Integers, FiniteSets, SequencesExt, TLC

CONSTANTS MaxFileSize    \* max_jpeg_file_size

FF  == 255
SOI == <<FF, 216>>
EOI == <<FF, 217>>
SOS == 218
RST0 == 208

Least(a, b) == IF a < b THEN a ELSE b
Take(s, n) == SubSeq(s, 1, Least(n, Len(s)))
Drop(s, n) == SubSeq(s, n + 1, Len(s))
Total(sizes) == LET f[i \in 0 .. Len(sizes)] == IF i = 0 THEN 0 ELSE f[i - 1] + sizes[i]
                IN  f[Len(sizes)]

-----------------------------------------------------------------------------
(* JpegHeader::parse                                                       *)

\* parse_next_segment at position p: what was found, and where it ends. The end of
\* the data between two segments counts as EOI.
SegmentAt(b, p) ==
    LET Found(what, next) == [what |-> what, next |-> next]
        Has(n) == p + n - 1 <= Len(b)
    IN  IF ~Has(1) THEN Found("end", p)
        ELSE IF b[p] # FF \/ ~Has(2) THEN Found("bad", p)
        ELSE IF b[p + 1] = EOI[2] THEN Found("EOI", p + 2)
        ELSE IF ~Has(3) THEN Found("bad", p)
        ELSE IF ~Has(2 + b[p + 2]) THEN Found("bad", p)
        ELSE Found(IF b[p + 1] = SOS THEN "SOS" ELSE "other", p + 2 + b[p + 2])

\* parse, from the start of b up to an SOS segment or the end of the headers.
Parse(b) ==
    LET from[p \in 1 .. Len(b) + 1] ==
            LET s == SegmentAt(b, p)
            IN  IF s.what = "other" THEN from[s.next] ELSE [what |-> s.what, used |-> s.next - 1]
    IN  from[1]

-----------------------------------------------------------------------------
(* The encoder: read_jpeg_file. Its state r is how far it has read, the    *)
(* raw header it keeps, whether a scan follows, ended early, or the file   *)
(* is refused, the scans that were read and where the last one ends.       *)

\* What is kept of a header that was parsed with result p: an EOI is not. What ends a
\* trailing header is taken to be an EOI marker even when it is the end of the file.
KeepHeader(r, rest, p) ==
    LET kept == IF p.what = "SOS" THEN p.used ELSE IF p.used > 2 THEN p.used - 2 ELSE 0
    IN  [r EXCEPT !.ok = p.what # "bad", !.scan = p.what = "SOS", !.at = @ + p.used,
                  !.raw = @ \o Take(rest, kept)]

\* parse_jpeg_header
ReadHeader(j, r) == KeepHeader(r, Drop(j.bytes, r.at), Parse(Drop(j.bytes, r.at)))

\* A scan of n bytes, of which there may be fewer.
ReadScan(j, r, n) ==
    LET end == Least(r.at + n, Len(j.bytes))
    IN  [r EXCEPT !.at = end, !.end = end, !.early = r.at + n > Len(j.bytes),
                  !.scans = Append(@, SubSeq(j.bytes, r.at + 1, end))]

FirstHeader(j) == ReadHeader(j, [ok |-> TRUE, at |-> 2, raw |-> << >>, scan |-> FALSE,
                                 early |-> FALSE, scans |-> << >>, end |-> 0])
FirstScan(j) == ReadScan(j, FirstHeader(j), Total(j.rows))

\* The loop over the later scans of a progressive image.
LaterScans(j) ==
    LET Another(r, n) ==
            IF ~r.ok \/ ~r.scan \/ r.early THEN r
            ELSE LET h == ReadHeader(j, r) IN IF h.ok /\ h.scan THEN ReadScan(j, h, n) ELSE h
    IN  FoldLeft(Another, FirstScan(j), j.later \o <<0>>)

\* Where row k of the first scan starts (RestartSegmentCodingInfo), and how many
\* rows are started. A row is only started when the one before it was read, which
\* takes its first byte too if they share it.
RowStart(j, k) == FirstHeader(j).at + Total(SubSeq(j.rows, 1, k - 1))
RowsBegun(j) ==
    Cardinality({k \in DOMAIN j.rows :
        k = 1 \/ RowStart(j, k) + (IF j.aligned THEN 0 ELSE 1) <= Len(j.bytes)})

\* Of a baseline image that ends early the last two bytes become garbage; no row may
\* start in them.
EndOfScan(j) ==
    IF j.progressive THEN LaterScans(j).at
    ELSE IF FirstScan(j).early THEN Len(j.bytes) - 2 ELSE FirstScan(j).at

AcceptsBaseline(j) ==
    /\ FirstScan(j).early => /\ ~j.stop
                             /\ \A k \in 1 .. RowsBegun(j) : RowStart(j, k) < EndOfScan(j)
    /\ j.stop => Take(Drop(j.bytes, EndOfScan(j)), 2) = EOI

AcceptsProgressive(j) ==
    LET r == LaterScans(j) IN ~FirstScan(j).early /\ r.ok /\ ~r.early /\ ~r.scan

\* What is kept behind the scans: everything else of the file, or with
\* stop_reading_at_eoi only the EOI. For a progressive image the EOI was read already.
Garbage(j) ==
    LET rest == Drop(j.bytes, EndOfScan(j))
    IN  IF j.progressive THEN EOI \o (IF j.stop THEN << >> ELSE rest)
        ELSE IF j.stop THEN EOI ELSE rest

\* The position of the reader at the end.
JpegFileSize(j) ==
    IF ~j.stop THEN Len(j.bytes) ELSE IF j.progressive THEN EndOfScan(j) ELSE EndOfScan(j) + 2

\* read_jpeg_file and read_jpeg, up to their errors.
Accepts(j) ==
    /\ Take(j.bytes, 2) = SOI
    /\ FirstHeader(j).ok /\ FirstHeader(j).scan
    /\ FirstHeader(j).at + 2 <= FirstScan(j).at
    /\ IF j.progressive THEN AcceptsProgressive(j) ELSE AcceptsBaseline(j)
    /\ JpegFileSize(j) <= MaxFileSize

\* read_jpeg: one handoff per row, the rows of a thread combined. A progressive
\* image has no offsets.
ThreadHandoffs(j) ==
    LET n == RowsBegun(j)
        Offset(k) == IF j.progressive THEN 0 ELSE RowStart(j, k)
        Size(k) == (IF k = n THEN EndOfScan(j) ELSE Offset(k + 1)) - Offset(k)
        lasts == SetToSortSeq((j.splits \cap 1 .. n - 1) \cup {n}, LAMBDA a, b : a < b)
        First(i) == IF i = 1 THEN 1 ELSE lasts[i - 1] + 1
    IN  [i \in 1 .. Len(lasts) |->
            [luma_y_start |-> First(i) - 1, luma_y_end |-> lasts[i],
             segment_size |-> Offset(lasts[i]) - Offset(First(i)) + Size(lasts[i])]]

-----------------------------------------------------------------------------
(* The compressed header: a sequence of sections                           *)

Section(marker, data) == <<[marker |-> marker, data |-> data]>>
If(condition, sections) == IF condition THEN sections ELSE << >>

\* ThreadHandoff::serialize: neither the end of the rows nor the offset is written.
Serialize(handoffs) ==
    [i \in DOMAIN handoffs |-> [luma_y_start |-> handoffs[i].luma_y_start,
                                segment_size |-> handoffs[i].segment_size]]

\* write_lepton_header. The encoder never has restart counts or errors to write;
\* the pad bit and the counts that would follow CRS do not matter here.
WriteLeptonHeader(j) ==
    LET raw == IF j.progressive THEN LaterScans(j).raw ELSE FirstHeader(j).raw
    IN  Section("HDR", raw) \o Section("P0D", << >>)
        \o Section("HH", Serialize(ThreadHandoffs(j)))
        \o If(FirstScan(j).early, Section("EEE", <<RowsBegun(j)>>))
        \o If(Garbage(j) # << >>, Section("GRB", Garbage(j)))

\* read_lepton_compressed_header
ReadSections(sections) ==
    LET start == [ok |-> sections[1].marker = "HDR", raw |-> sections[1].data, garbage |-> EOI,
                  handoffs |-> << >>, early |-> FALSE, bound |-> 0, rst_err |-> << >>]
        Read(h, s) ==
            CASE s.marker = "HH"  -> [h EXCEPT !.handoffs = @ \o s.data]
              [] s.marker = "FRS" -> [h EXCEPT !.rst_err = @ \o s.data]
              [] s.marker = "GRB" -> [h EXCEPT !.garbage = s.data]
              [] s.marker = "EEE" -> [h EXCEPT !.early = TRUE, !.bound = s.data[1]]
              [] s.marker \in {"P0D", "CRS"} -> h
              [] OTHER -> [h EXCEPT !.ok = FALSE]
    IN  FoldLeft(Read, start, Tail(sections))

\* The last segment of an image that ends early may not reach into the garbage.
\* (The difference is unsigned: below 0 it wraps and shortens nothing.)
ShortenLast(h, size, index) ==
    LET n == Len(h.handoffs)
        others == Total([i \in 1 .. n - 1 |-> h.handoffs[i].segment_size])
        most == size - Len(h.garbage) - index - Len(SOI) - others
    IN  IF h.early /\ most >= 0 /\ h.handoffs[n].segment_size > most
        THEN [h.handoffs EXCEPT ![n].segment_size = most] ELSE h.handoffs

\* The ends that are not stored: the start of the next thread, and the height of
\* the image for the last one.
FillEnds(handoffs, height) ==
    [i \in DOMAIN handoffs |->
        [luma_y_start |-> Least(handoffs[i].luma_y_start, height),
         luma_y_end   |-> IF i = Len(handoffs) THEN height
                          ELSE Least(handoffs[i + 1].luma_y_start, height),
         segment_size |-> handoffs[i].segment_size]]

\* read_compressed_lepton_header of a file whose raw header declares the given
\* number of rows. Without any handoff the last one does not exist and it panics.
ReadLeptonHeader(sections, size, rows) ==
    LET h == ReadSections(sections)
        p == Parse(h.raw)
        height == IF h.early THEN Least(h.bound, rows) ELSE rows
    IN  IF size > MaxFileSize \/ ~h.ok \/ p.what # "SOS" \/ h.handoffs = << >>
        THEN [h EXCEPT !.ok = FALSE]
        ELSE [h EXCEPT !.handoffs = FillEnds(ShortenLast(h, size, p.used), height)] @@ [index |-> p.used]

-----------------------------------------------------------------------------
(* What the decoder writes                                                 *)

\* SOI and the header up to the first scan
HeadOf(h) == SOI \o Take(h.raw, h.index)

\* baseline_decoding_thread: the coded rows of the thread, cut at its segment's
\* size. Image is the sequence of coded rows.
CodedRows(handoff, image) == FlattenSeq(SubSeq(image, handoff.luma_y_start + 1, handoff.luma_y_end))
BaselineSegment(handoff, image) == Take(CodedRows(handoff, image), handoff.segment_size)

\* Markers written for rst_err: m is the number of restart markers in the scan.
RstMarkers(h, m) ==
    IF h.rst_err = << >> THEN << >>
    ELSE FlattenSeq([i \in 1 .. h.rst_err[1] |-> <<FF, RST0 + ((m + i - 1) % 8)>>])

\* write_tail
TailOf(h, at) == Drop(h.raw, at) \o h.garbage

\* process_progressive: scans and the headers between them alternate until the
\* parsed headers end. Scans is the sequence of coded scans.
Progressive(h, scans) ==
    LET Another(w, scan) ==
            IF ~w.more \/ ~w.ok THEN w
            ELSE LET p == Parse(Drop(h.raw, w.at))
                 IN  [ok |-> p.what # "bad", more |-> p.what = "SOS", at |-> w.at + p.used,
                      out |-> w.out \o scan \o Take(Drop(h.raw, w.at), p.used)]
        end == FoldLeft(Another, [ok |-> TRUE, more |-> TRUE, at |-> h.index, out |-> HeadOf(h)], scans)
    IN  [ok |-> end.ok, out |-> end.out \o TailOf(h, end.at)]

-----------------------------------------------------------------------------
(* encode_lepton                                                           *)

\* The coded image the decoder recovers: the rows that were begun, of which the last
\* one may end differently when the file ended in it.
ImageOf(j) ==
    LET n == RowsBegun(j)
        Row(k) == SubSeq(j.bytes, RowStart(j, k) + 1,
                         Least(RowStart(j, k) + j.rows[k], Len(j.bytes)))
        Recoded(row) == Take(row, Len(row) - j.lost) \o [i \in 1 .. j.junk |-> 0]
    IN  [k \in 1 .. n |-> IF k = n /\ FirstScan(j).early THEN Recoded(Row(k)) ELSE Row(k)]

\* A progressive file with a header segment behind its last scan but no EOI marker.
EndsInTrailer(j) ==
    LET rest == Drop(j.bytes, LaterScans(j).end)
    IN  j.progressive /\ rest # << >> /\ Parse(rest).what = "end"
=============================================================================
