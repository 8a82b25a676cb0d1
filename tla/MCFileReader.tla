---------------------------- MODULE MCFileReader ----------------------------
(***************************************************************************)
(* JPEGs of up to nineteen bytes, numbered so that a lost, repeated or     *)
(* misplaced byte shows, cut at every byte; the files the encoder makes of *)
(* those it accepts, files in the way of other encoders, and broken files. *)
(***************************************************************************)
EXTENDS FileReader

ScanHeader == <<FF, SOS, 1>>
Comment == <<FF, 254, 3, 50, 51>>

\* A baseline image of rows of two and four bytes, with data behind its end.
Baseline == [bytes |-> SOI \o ScanHeader \o <<1, 2, 3, 4, 5, 6>> \o EOI \o <<60>>,
             progressive |-> FALSE, rows |-> <<2, 4>>, later |-> << >>, aligned |-> TRUE,
             lost |-> 0, junk |-> 0, splits |-> {1}, stop |-> FALSE, upto |-> 14]

\* A progressive one of two rows and another scan, and a comment behind it.
Progressive2 == [Baseline EXCEPT
    !.bytes = SOI \o ScanHeader \o <<1, 2, 3>> \o Comment \o ScanHeader \o <<11>> \o Comment \o EOI \o <<60>>,
    !.progressive = TRUE, !.rows = <<2, 1>>, !.later = <<1>>, !.upto = 25]

CutAt(j, n) == [j EXCEPT !.bytes = SubSeq(@, 1, n), !.upto = Least(n, @)]
Cuts(j) == {CutAt(j, n) : n \in 0 .. Len(j.bytes)}

Jpegs == Cuts(Baseline) \cup Cuts(Progressive2)
    \cup {[c EXCEPT !.aligned = FALSE, !.lost = 2, !.junk = 3, !.splits = {}] : c \in Cuts(Baseline)}
    \cup {[j EXCEPT !.stop = TRUE, !.upto = @ - 1] : j \in {Baseline, Progressive2}}
    \cup {[Baseline EXCEPT !.stop = TRUE, !.bytes[13] = 99],
          [Baseline EXCEPT !.bytes = @ \o @]}

CutInRow == [CutAt(Baseline, 10) EXCEPT !.lost = 1, !.junk = 2]
Broken(f) == [f EXCEPT !.sound = FALSE]

\* Other encoders leave the two bytes of garbage in the last segment too, and
\* count restart markers at the end of the scan instead of keeping them as garbage.
Foreign(good, cut) == {
    [cut EXCEPT !.sections[3].data[2].segment_size = 3],
    [good EXCEPT !.jpeg = Take(@, 11) \o <<FF, RST0 + 7, FF, RST0>> \o EOI, !.size = 17, !.markers = 7,
                 !.sections = SubSeq(@, 1, 3) \o Section("CRS", <<7>>) \o Section("FRS", <<2>>)] }

BrokenFiles(good, progressive2) ==
    {Broken(f) : f \in {
        [good EXCEPT !.declared = 9],                \* wrong appended size
        [good EXCEPT !.bytes[1] = "X"],              \* bad fixed header
        [good EXCEPT !.bytes[4] = "X"],              \* no CMP marker
        [good EXCEPT !.bytes[3] = "X"],              \* bad compressed header
        [good EXCEPT !.sections[2].marker = "X"],    \* an unknown section
        [good EXCEPT !.sections = SubSeq(@, 1, 2)],  \* no handoffs
        [good EXCEPT !.bad = 2],                     \* a thread fails
        [progressive2 EXCEPT !.bad = 1],
        [good EXCEPT !.needs = <<1, 3>>],            \* a thread runs out of input
        [good EXCEPT !.bytes = SubSeq(@, 1, 7)],     \* truncated
        [good EXCEPT !.bytes = SubSeq(@, 1, 5)],
        [good EXCEPT !.bytes = SubSeq(@, 1, 3)] }}

OtherFiles(good, cut, progressive2) == Foreign(good, cut) \cup BrokenFiles(good, progressive2)

MCFiles == {EncodeLepton(j) : j \in {c \in Jpegs : Accepts(c)}}
    \cup OtherFiles(EncodeLepton(Baseline), EncodeLepton(CutInRow), EncodeLepton(Progressive2))
=============================================================================
