---------------------------- MODULE MCJpegScans -----------------------------
(***************************************************************************)
(* First scans: pictures of up to 5 by 5 blocks, with the sampling factors *)
(* the code accepts (1 and 2), interleaved or with a single component, and *)
(* restart intervals that divide the rows, that do not, and none. AC scans: *)
(* the luma component of a picture of up to 6 blocks, alone or subsampled  *)
(* by 2 (so that the interleaved grid has padding blocks). Blocks of five  *)
(* coefficients, in later passes with every choice of those that are       *)
(* nonzero already. Huffman tables of up to four codes of any lengths, and *)
(* larger ones that fill the tree or do not fit into it. Files of every    *)
(* sequence of up to three scans of seven kinds, sound or not, some with   *)
(* up to five in which every coefficient is refined twice, and files       *)
(* whose segments are incomplete, repeated, redefined or refused. Bytes of *)
(* scans, for a register of 3 bytes, with runs long enough for the fast    *)
(* path, escaped 0xFF bytes at the start, inside and at the end of such    *)
(* runs, reset codes, and every way of ending: a marker, the last byte, an *)
(* 0xFF cut from its escape.                                               *)
(***************************************************************************)
EXTENDS JpegScans, JpegPosition

SF(v, h) == [v |-> v, h |-> h]
Lengths == 1 .. 5

Interleaved ==
    {Header(height, width, sf, [i \in DOMAIN sf |-> i], rsti, sequential) :
        height \in Lengths, width \in Lengths,
        sf \in { <<SF(1, 1), SF(1, 1)>>, <<SF(2, 1), SF(1, 1)>>, <<SF(1, 2), SF(1, 1)>>,
                 <<SF(2, 2), SF(1, 1)>>, <<SF(2, 2), SF(1, 2)>>, <<SF(1, 1), SF(2, 2)>> },
        rsti \in {0, 1, 2, 3, 4}, sequential \in BOOLEAN}

\* One component: a grey picture, or the first scan of one that is not interleaved.
\* (With sampling factors above 1 and a restart interval the reader counts blocks
\* and the writer MCUs; such a file is refused by the verification.)
Single(sf, intervals) ==
    {Header(height, width, sf, <<1>>, rsti, sequential) :
        height \in Lengths, width \in Lengths, rsti \in intervals, sequential \in {TRUE}}

MCHeaders == Interleaved \cup Single(<<SF(1, 1)>>, {0, 1, 2, 3, 4})
                \cup UNION {Single(<<SF(v, h)>>, {0}) : v \in {1, 2}, h \in {1, 2}}

Shapes == {<<1, 1>>, <<1, 5>>, <<2, 2>>, <<2, 3>>, <<3, 1>>, <<3, 2>>}

MCScans ==
    {Header(shape[1], shape[2], sf, <<1>>, rsti, FALSE) :
        shape \in Shapes, sf \in {<<SF(1, 1)>>, <<SF(2, 2), SF(1, 1)>>}, rsti \in {0, 2, 3}}

AllZero == [i \in 0 .. Last63 |-> 0]

MCBlockInputs ==
    {[pass |-> "seq", prior |-> AllZero, lastdc |-> dc] : dc \in {-Half, Half - 1}}
    \cup {[pass |-> "fs", prior |-> AllZero, lastdc |-> 0]}
    \cup {[pass |-> "sa", lastdc |-> 0, prior |-> [i \in 0 .. Last63 |-> IF i = 0 THEN 0 ELSE f[i]]] :
            f \in [1 .. Last63 -> {-2, 0, 2}]}

\* Symbols in and out of order, with one of them twice, and too few.
SymbolLists == {<<0, 1, 2, 3, 4, 5, 6, 7, 8>>, <<8, 7, 6, 5, 4, 3, 2, 1, 0>>,
                <<3, 6, 0, 3, 1, 1, 4, 7, 8>>, <<6, 1, 3>>}

CodesIn(counts) == counts[1] + counts[2] + counts[3] + counts[4] + counts[5]

MCSegments ==
    {[counts |-> c, symbols |-> SubSeq(list, 1, Min({Len(list), CodesIn(c)}))] :
        list \in SymbolLists,
        c \in {f \in [1 .. 5 -> 0 .. 3] : CodesIn(f) \in 1 .. 4}
              \cup {<<0, 0, 0, 0, 9>>, <<0, 0, 0, 1, 8>>, <<0, 0, 0, 8, 0>>, <<0, 0, 1, 4, 4>>}}

-----------------------------------------------------------------------------

MCDcValues == {-3, 9}
MCAcValues == {-2, 0, 1}

DHT(class, slot, table) == [t |-> "DHT", tables |-> <<[class |-> class, slot |-> slot, codes |-> table]>>]
DQT(slot, values) == [t |-> "DQT", tables |-> <<[precision |-> 0, slot |-> slot, values |-> values]>>]
DRI(n) == [t |-> "DRI", n |-> n]
Marker(t) == [t |-> t]
Frame(progressive, n) ==
    [t |-> "SOF", progressive |-> progressive, precision |-> 8, height |-> 8, width |-> 8,
     cmps |-> [i \in 1 .. n |-> [id |-> 10 + i, sfv |-> 1, sfh |-> 1, q |-> i - 1]]]
Scan(ids, from, to, sah, sal) ==
    [t |-> "SOS", cmps |-> [i \in DOMAIN ids |-> [id |-> 10 + ids[i], dc |-> 0, ac |-> 1]],
     from |-> from, to |-> to, sah |-> sah, sal |-> sal]

Features(reject, accept, size) ==
    [progressive |-> TRUE, reject_dqts_with_zeros |-> reject, accept_invalid_dht |-> accept,
     max_jpeg_height |-> size, max_jpeg_width |-> size]
Writing == Features(TRUE, FALSE, 16)      \* compat_lepton_vector_write
Reading == Features(FALSE, TRUE, 1000)    \* compat_lepton_vector_read
Lenient == Features(FALSE, FALSE, 16)

JpegFile(segs) == [segs |-> segs, features |-> Writing, reading |-> Reading]

Tables == <<DQT(0, <<3, 4>>), DQT(1, <<5, 6>>), DHT(0, 0, "d"), DHT(1, 1, "a")>>
Opening(progressive, n) == Tables \o <<Frame(progressive, n)>>
DcFirst(sal) == Scan(<<1>>, 0, 0, 0, sal)

\* One component: later scans in any order, and refinements of all coefficients.
DcBit(sah) == Scan(<<1>>, 0, 0, sah, sah - 1)
AcFirst(sal) == Scan(<<1>>, 1, 2, 0, sal)
AcBit(sah) == Scan(<<1>>, 1, 2, sah, sah - 1)
LaterScans == {DcBit(1), AcFirst(0), AcFirst(1), AcBit(1), AcBit(2),
               Scan(<<1>>, 0, 2, 0, 0), Scan(<<1>>, 0, 0, 0, 0)}
Refinements == {<<AcFirst(2), DcBit(2), AcBit(2), AcBit(1), DcBit(1)>>,
                <<DcBit(2), DcBit(1), AcFirst(1), AcBit(1)>>,
                <<AcFirst(2), AcBit(1), DcBit(2), AcBit(2)>>}

Progressions ==
    {JpegFile(Opening(TRUE, 1) \o <<DcFirst(p[1])>> \o p[2] \o <<Marker("EOI")>>) :
        p \in ((0 .. 1) \X UNION {[1 .. n -> LaterScans] : n \in 0 .. 2}) \cup ({2} \X Refinements)}

\* Two components, with segments between the scans that change what the next one uses.
Between == { << >>, <<DHT(1, 1, "b")>>, <<DHT(0, 0, "e"), DRI(2)>>, <<DQT(0, <<3, 4>>)>>, <<DQT(0, <<3, 7>>)>>,
             <<DQT(2, <<7, 7>>)>>, <<DHT(1, 1, "large")>>, <<Frame(TRUE, 1)>>, <<Marker("APP")>> }

Redefinitions ==
    {JpegFile(Opening(TRUE, 2) \o <<Scan(<<1, 2>>, 0, 0, 0, 1)>> \o one \o <<Scan(<<2>>, 1, 2, 0, 0)>>
                \o other \o <<Scan(<<2, 1>>, 0, 0, 1, 0)>> \o end) :
        one \in Between, other \in Between, end \in { << >>, <<DRI(1), Marker("EOI")>> }}

\* First headers in which something is missing, doubled or wrong.
WithoutOne == {[i \in 1 .. 4 |-> Opening(progressive, 1)[IF i < k THEN i ELSE i + 1]] :
                  k \in 1 .. 5, progressive \in BOOLEAN}
Firsts ==
    {JpegFile(front \o <<scan, Marker("EOI")>>) :
        front \in WithoutOne \cup {Tables}
                  \cup {Opening(p, n) \o x : p \in BOOLEAN, n \in {0, 1, 3, 4, 5},
                             x \in { << >>, <<Marker("RST")>>, <<Frame(TRUE, 1)>>, <<DHT(2, 0, "d")>>,
                                     <<DHT(1, 0, "bad")>>, <<DQT(0, <<0, 1>>)>> }},
        scan \in {Scan(<<1>>, 0, 2, 0, 0), DcFirst(1), Scan(<<2>>, 0, 0, 0, 0), Scan(<<1>>, 2, 1, 0, 0)}}
    \cup {JpegFile(Opening(TRUE, 1) \o <<Marker("EOI")>>)}

\* Zeros in a quantisation table, where the encoder lets them pass.
Zeros ==
    {[segs |-> Opening(progressive, 1) \o <<DQT(0, values), DcFirst(0)>>,
      features |-> Lenient, reading |-> reading] :
        progressive \in BOOLEAN, values \in {<<0, 8>>, <<8, 0>>}, reading \in {Lenient, Reading}}

MCFiles == {
    <<90, 165, 60, 195, 105, 150>>,
    <<254, 127, 128, 1, 255, 0, 85, 171>>,
    <<255, 0, 255, 0, 90, 60, 165, 240>>,
    <<90, 60, 127, 255, 208, 165, 195, 105, 0>>,
    <<90, 63, 255, 0, 255, 208, 91, 128, 255, 217>>,
    <<165, 90, 195, 60, 105, 255>> }

\* For a run of nothing but files: no picture, scan, block or table of its own.
NoInputs == {}

MCJpegFiles == Progressions \cup Redefinitions \cup Firsts \cup Zeros
=============================================================================
