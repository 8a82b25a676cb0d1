----------------------------- MODULE JpegHeader -----------------------------
(***************************************************************************)
(* The state that the segments of a JPEG file leave in a JpegHeader        *)
(* (jpeg_header.rs): tables, frame and scan parameters that later segments *)
(* replace one by one, and the checks on the way.                          *)
(*                                                                         *)
(* A segment is a record with its type t:                                  *)
(*   DHT  tables: a sequence of [class, slot, codes]; codes is a table, or *)
(*        "bad", or "large" if only the tree has no room (HuffmanTable)    *)
(*   DQT  tables: [precision, slot, values]                                *)
(*   DRI  n                                                                *)
(*   SOF  progressive, precision, height, width, cmps: [id, sfv, sfh, q]   *)
(*   SOS  cmps: [id, dc, ac], from, to, sah, sal                           *)
(*   APP  and comments; EOI; anything else, a segment that is too short    *)
(*        among them, is refused.                                          *)
(***************************************************************************)
EXTENDS Integers, Sequences

CONSTANTS NumQ,      \* values of a quantisation table (64)
          LastBand   \* the last coefficient (63)

None == "none"

DefaultHeader ==
    [jpeg_type |-> "Unknown", img_height |-> 0, img_width |-> 0, cmp_info |-> << >>,
     q_tables |-> [slot \in 0 .. 3 |-> [i \in 1 .. NumQ |-> 0]],
     h_codes |-> [class \in 0 .. 1 |-> [slot \in 0 .. 3 |-> None]],
     rsti |-> 0, cs |-> [cmp |-> << >>, from |-> 0, to |-> 0, sah |-> 0, sal |-> 0]]

Continue(h) == [what |-> "Continue", h |-> h]
Refuse(h) == [what |-> "Error", h |-> h]

-----------------------------------------------------------------------------
(* The segments; features are the EnabledFeatures.                         *)

DefineHuffman(h, seg, features) ==
    LET Bad(t) == \/ t.class >= 2 \/ t.slot >= 4 \/ t.codes = "bad"
                  \/ t.codes = "large" /\ ~features.accept_invalid_dht
        with[i \in 0 .. Len(seg.tables)] ==
            IF i = 0 THEN h.h_codes
            ELSE [with[i - 1] EXCEPT ![seg.tables[i].class][seg.tables[i].slot] = seg.tables[i].codes]
    IN  IF \E i \in DOMAIN seg.tables : Bad(seg.tables[i]) THEN Refuse(h)
        ELSE Continue([h EXCEPT !.h_codes = with[Len(seg.tables)]])

\* Values up to the first 0, which is taken over too; those behind it stay.
DefineQuantisation(h, seg, features) ==
    LET Zeros(t) == {i \in 1 .. NumQ : t.values[i] = 0}
        Bad(t) == \/ t.precision >= 2 \/ t.slot >= 4
                  \/ features.reject_dqts_with_zeros /\ Zeros(t) # {}
        Over(old, t) == [i \in 1 .. NumQ |-> IF \E z \in Zeros(t) : z < i THEN old[i] ELSE t.values[i]]
        with[i \in 0 .. Len(seg.tables)] ==
            IF i = 0 THEN h.q_tables
            ELSE [with[i - 1] EXCEPT ![seg.tables[i].slot] = Over(@, seg.tables[i])]
    IN  IF \E i \in DOMAIN seg.tables : Bad(seg.tables[i]) THEN Refuse(h)
        ELSE Continue([h EXCEPT !.q_tables = with[Len(seg.tables)]])

StartFrame(h, seg, features) ==
    LET Info(c) == [jid |-> c.id, sfv |-> c.sfv, sfh |-> c.sfh, q_table_index |-> c.q,
                    huff_dc |-> 255, huff_ac |-> 255]
    IN  IF \/ h.jpeg_type # "Unknown"
           \/ seg.precision # 8
           \/ seg.height = 0 \/ seg.height > features.max_jpeg_height
           \/ seg.width = 0 \/ seg.width > features.max_jpeg_width
           \/ Len(seg.cmps) > 4
           \/ \E i \in DOMAIN seg.cmps : seg.cmps[i].sfv > 2 \/ seg.cmps[i].sfh > 2 \/ seg.cmps[i].q >= 4
        THEN Refuse(h)
        ELSE Continue([h EXCEPT
                 !.jpeg_type = IF seg.progressive THEN "Progressive" ELSE "Sequential",
                 !.img_height = seg.height, !.img_width = seg.width,
                 !.cmp_info = [i \in DOMAIN seg.cmps |-> Info(seg.cmps[i])]])

\* The components of a scan are named by their ids, of which the first match counts;
\* a component keeps the numbers of its Huffman tables for the scans that follow.
StartScan(h, seg) ==
    LET Matches(id) == {c \in DOMAIN h.cmp_info : h.cmp_info[c].jid = id}
        First(id)   == CHOOSE c \in Matches(id) : \A d \in Matches(id) : c <= d
        Last(c)     == LET at == {i \in DOMAIN seg.cmps : First(seg.cmps[i].id) = c}
                       IN  seg.cmps[CHOOSE i \in at : \A j \in at : j <= i]
        Info(c)     == IF \E i \in DOMAIN seg.cmps : First(seg.cmps[i].id) = c
                       THEN [h.cmp_info[c] EXCEPT !.huff_dc = Last(c).dc, !.huff_ac = Last(c).ac]
                       ELSE h.cmp_info[c]
    IN  IF \/ Len(seg.cmps) = 0 \/ Len(seg.cmps) > Len(h.cmp_info)
           \/ \E i \in DOMAIN seg.cmps : \/ Matches(seg.cmps[i].id) = {}
                                         \/ seg.cmps[i].dc >= 4 \/ seg.cmps[i].ac >= 4
           \/ seg.from > seg.to \/ seg.to > LastBand
           \/ seg.sah >= 12 \/ seg.sal >= 12
        THEN Refuse(h)
        ELSE [what |-> "SOS",
              h |-> [h EXCEPT !.cmp_info = [c \in DOMAIN h.cmp_info |-> Info(c)],
                              !.cs = [cmp |-> [i \in DOMAIN seg.cmps |-> First(seg.cmps[i].id)],
                                      from |-> seg.from, to |-> seg.to,
                                      sah |-> seg.sah, sal |-> seg.sal]]]

ParseNextSegment(h, seg, features) ==
    CASE seg.t = "DHT" -> DefineHuffman(h, seg, features)
      [] seg.t = "DQT" -> DefineQuantisation(h, seg, features)
      [] seg.t = "DRI" -> Continue([h EXCEPT !.rsti = seg.n])
      [] seg.t = "SOF" -> StartFrame(h, seg, features)
      [] seg.t = "SOS" -> StartScan(h, seg)
      [] seg.t = "APP" -> Continue(h)
      [] seg.t = "EOI" -> [what |-> "EOI", h |-> h]
      [] OTHER -> Refuse(h)

-----------------------------------------------------------------------------
(* parse: segments from the pos-th one on until a scan or the end          *)

Incomplete(h) ==
    \/ h.cmp_info = << >>
    \/ h.jpeg_type = "Unknown"
    \/ \E c \in DOMAIN h.cmp_info :
           \/ h.cmp_info[c].sfv = 0 \/ h.cmp_info[c].sfh = 0
           \/ h.q_tables[h.cmp_info[c].q_table_index][1] = 0

Parse(h, segs, pos, features) ==
    LET after[i \in pos - 1 .. Len(segs)] ==
            IF i = pos - 1 THEN [what |-> "Continue", h |-> h, next |-> pos]
            ELSE LET before == after[i - 1]
                     r == ParseNextSegment(before.h, segs[i], features)
                 IN  IF before.what # "Continue" THEN before
                     ELSE [what |-> r.what, h |-> r.h, next |-> i + 1]
        end == after[Len(segs)]
    IN  CASE end.what = "Continue" -> [end EXCEPT !.what = "EOI"]
          [] end.what = "SOS" /\ Incomplete(end.h) -> [end EXCEPT !.what = "Error"]
          [] OTHER -> end

\* verify_huffman_table: the components of the scan have the tables of a class.
TablesSet(h, class) ==
    \A i \in DOMAIN h.cs.cmp :
        LET info == h.cmp_info[h.cs.cmp[i]]
        IN  h.h_codes[class][IF class = 0 THEN info.huff_dc ELSE info.huff_ac] # None
=============================================================================
