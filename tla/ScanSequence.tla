---------------------------- MODULE ScanSequence ----------------------------
(***************************************************************************)
(* The scans of a JPEG file as a whole: read_jpeg_file, which parses the   *)
(* segments before each scan and adds what the scan codes to the           *)
(* coefficients, and process_progressive of lepton_file_reader.rs, which   *)
(* parses the same segments again and writes each scan from the final      *)
(* coefficients: what an earlier scan knew of a coefficient has to be      *)
(* derived from it. One block stands for a component's blocks, and a scan  *)
(* is the values it codes for it (BlockCodes has their symbols).           *)
(***************************************************************************)
EXTENDS JpegHeader

CONSTANTS HalfI16,    \* a coefficient is in -HalfI16 .. HalfI16 - 1 (2^15)
          DcValues,   \* what a first DC scan may code
          AcValues,   \* what a first AC scan may code
          JpegFiles   \* [segs, features, reading]: the segments without scan data,
                      \* the encoder's and the decoder's EnabledFeatures

VARIABLES jpeg,       \* one of JpegFiles
          hdr,        \* the encoder's JpegHeader
          next,       \* the next segment it parses, then the one the decoder does
          coefs,      \* the coefficients: a function of component and position
          known,      \* down to which bit the scans have coded each of them
          codes,      \* what the scans were read with
          sta,        \* "header", "scan", "coded", "write", "next", "written", "Error",
                      \* "Refused" by the decoder, or "Inconsistent"
          odd,        \* what no sound file has but passes
          dec,        \* the decoder's JpegHeader
          out         \* what the scans are written with

vars == <<jpeg, hdr, next, coefs, known, codes, sta, odd, dec, out>>

Bands == 0 .. LastBand
NotYet == 12     \* above every cs_sah
Wrapped16(v) == ((v + HalfI16) % (2 * HalfI16)) - HalfI16
Shl(v, n) == Wrapped16(v * 2^n)
Shr(v, n) == v \div 2^n                          \* >>
DivPow2(v, n) == IF v < 0 THEN -((-v) \div 2^n) ELSE v \div 2^n
Sign(v) == IF v > 0 THEN 1 ELSE -1

InScan(h) == {h.cs.cmp[i] : i \in DOMAIN h.cs.cmp}
Sequential(h) == h.jpeg_type = "Sequential"

\* What the coding of a scan depends on besides the coefficients.
Parameters(h) ==
    [type |-> h.jpeg_type, rsti |-> h.rsti, cs |-> h.cs,
     tables |-> [i \in DOMAIN h.cs.cmp |->
                    <<h.h_codes[0][h.cmp_info[h.cs.cmp[i]].huff_dc],
                      h.h_codes[1][h.cmp_info[h.cs.cmp[i]].huff_ac]>>]]

\* QuantizationTables::construct_quantization_tables
Quantisers(h) == [c \in DOMAIN h.cmp_info |-> h.q_tables[h.cmp_info[c].q_table_index]]

Init ==
    /\ jpeg \in JpegFiles
    /\ hdr = DefaultHeader /\ dec = DefaultHeader
    /\ next = 1
    /\ coefs = << >> /\ known = << >>
    /\ codes = << >> /\ out = << >>
    /\ sta = "header"
    /\ odd = {}

-----------------------------------------------------------------------------
(* The encoder                                                             *)

MaxChannels == 3     \* COLOR_CHANNEL_NUM_BLOCK_TYPES

\* prepare_to_decode_next_scan; before the first scan also the checks of
\* read_jpeg_file and the images. A file without a scan is refused.
ReadHeader ==
    LET r     == Parse(hdr, jpeg.segs, next, jpeg.features)
        first == codes = << >>
        empty == [c \in DOMAIN r.h.cmp_info |-> [p \in Bands |-> 0]]
        new   == [c \in DOMAIN r.h.cmp_info |-> [p \in Bands |-> NotYet]]
    IN  /\ sta = "header"
        /\ sta' = CASE r.what = "Error" -> "Error"
                    [] r.what = "EOI" -> IF first THEN "Error" ELSE "coded"
                    [] r.what = "SOS" ->
                           IF first /\ \/ r.h.jpeg_type = "Progressive" /\ ~jpeg.features.progressive
                                       \/ Len(r.h.cmp_info) > MaxChannels
                           THEN "Error" ELSE "scan"
        /\ hdr' = r.h
        /\ next' = r.next
        /\ coefs' = IF first THEN empty ELSE coefs
        /\ known' = IF first THEN new ELSE known
        /\ odd' = IF first \/ Quantisers(r.h) = Quantisers(hdr) THEN odd ELSE odd \cup {"DQT"}
        /\ UNCHANGED <<jpeg, codes, dec, out>>

\* The kind of the scan, "none" if read_first_scan or read_progressive_scan refuses it.
Pass(h, first) ==
    LET cs == h.cs
    IN  CASE first /\ Sequential(h) -> IF TablesSet(h, 0) /\ TablesSet(h, 1) THEN "seq" ELSE "none"
          [] first /\ ~Sequential(h) ->
                 IF cs.to = 0 /\ cs.sah = 0 /\ TablesSet(h, 0) THEN "dc" ELSE "none"
          [] ~first /\ cs.to = 0 -> IF cs.sah # 0 /\ TablesSet(h, 0) THEN "dcbit" ELSE "none"
          [] ~first /\ cs.to # 0 ->
                 IF cs.from = 0 \/ cs.from = cs.to \/ ~TablesSet(h, 1) THEN "none"
                 ELSE IF cs.sah # 0 THEN "sa" ELSE IF Len(cs.cmp) # 1 THEN "none" ELSE "fs"

\* The positions a pass codes.
Coded(pass, cs) == CASE pass = "seq" -> Bands [] pass \in {"dc", "dcbit"} -> {0} [] OTHER -> cs.from .. cs.to

\* What it may code for a coefficient that is v.
Choices(pass, p, v) ==
    CASE pass = "dc" \/ (pass = "seq" /\ p = 0) -> DcValues
      [] pass = "fs" \/ (pass = "seq" /\ p # 0) -> AcValues
      [] pass = "dcbit" \/ (pass = "sa" /\ v # 0) -> {0, 1}
      [] OTHER -> {-1, 0, 1}
AllChoices(pass) == UNION {Choices(pass, p, 0) : p \in {0, 1}}

\* The coefficient after the pass coded x for it. A first AC pass leaves alone what
\* is behind the end of the block; behind is whether all from there on is 0.
Added(pass, cs, v, x, behind) ==
    CASE pass = "seq" -> x
      [] pass = "dc" -> Shl(x, cs.sal)
      [] pass = "fs" -> IF behind THEN v ELSE Shl(x, cs.sal)
      [] pass = "dcbit" -> Wrapped16(v + Shl(x, cs.sal))
      [] pass = "sa" -> Wrapped16(v + Shl(IF v = 0 THEN x ELSE Sign(v) * x, cs.sal))

\* Scans in an order that refines nothing, or again, or with values that have no room.
Unsound(pass, cs, c, p, x) ==
    \/ known[c][p] # (IF pass \in {"seq", "dc", "fs"} THEN NotYet ELSE cs.sah)
    \/ pass \in {"dcbit", "sa"} /\ cs.sah # cs.sal + 1
    \/ pass \in {"dc", "fs"} /\ x * 2^cs.sal \notin -HalfI16 .. HalfI16 - 1

ReadScan ==
    LET first == codes = << >>
        cs    == hdr.cs
        pass  == Pass(hdr, first)
        at    == InScan(hdr) \X Coded(pass, cs)
    IN  /\ sta = "scan"
        /\ IF pass = "none"
           THEN sta' = "Error" /\ UNCHANGED <<coefs, known, codes, odd>>
           ELSE \E x \in [at -> AllChoices(pass)] :
                /\ \A <<c, p>> \in at : x[c, p] \in Choices(pass, p, coefs[c][p])
                /\ coefs' = [c \in DOMAIN coefs |-> [p \in Bands |->
                       IF <<c, p>> \in at
                       THEN Added(pass, cs, coefs[c][p], x[c, p],
                                  \A q \in p .. cs.to : <<c, q>> \in at => x[c, q] = 0)
                       ELSE coefs[c][p]]]
                /\ known' = [c \in DOMAIN coefs |-> [p \in Bands |->
                       IF <<c, p>> \in at THEN (IF pass = "seq" THEN 0 ELSE cs.sal) ELSE known[c][p]]]
                /\ odd' = IF \E <<c, p>> \in at : Unsound(pass, cs, c, p, x[c, p])
                          THEN odd \cup {"order"} ELSE odd
                /\ codes' = Append(codes, [par |-> Parameters(hdr), x |-> x])
                /\ sta' = IF Sequential(hdr) THEN "coded" ELSE "header"
        /\ UNCHANGED <<jpeg, hdr, next, dec, out>>

-----------------------------------------------------------------------------
(* The decoder                                                             *)

\* raw_jpeg_header: what the encoder parsed, without the end of image
RawHeader == SelectSeq(SubSeq(jpeg.segs, 1, next - 1), LAMBDA seg : seg.t # "EOI")

\* read_compressed_lepton_header parses the first header; then the blocks are
\* decoded with its quantisers, where the encoder coded them with those it had in
\* the end.
Decode ==
    LET r == Parse(DefaultHeader, RawHeader, 1, jpeg.reading)
    IN  /\ sta = "coded"
        /\ sta' = CASE r.what # "SOS" -> "Refused"
                    [] Quantisers(r.h) # Quantisers(hdr) -> "Inconsistent"
                    [] OTHER -> "write"
        /\ dec' = r.h
        /\ jpeg' = [jpeg EXCEPT !.segs = RawHeader]
        /\ next' = r.next
        /\ UNCHANGED <<hdr, coefs, known, codes, odd, out>>

\* What recode_one_mcu_row derives for a scan from the final coefficient v.
Derived(h, p, v) ==
    CASE Sequential(h) -> v
      [] ~Sequential(h) /\ h.cs.to = 0 ->
             IF h.cs.sah = 0 THEN Shr(v, h.cs.sal) ELSE Shr(v, h.cs.sal) % 2
      [] OTHER ->
             LET w == DivPow2(v, h.cs.sal)
             IN  IF h.cs.sah = 0 \/ w \in {-1, 0, 1} THEN w
                 ELSE (IF w < 0 THEN -w ELSE w) % 2

\* jpeg_write_entire_scan, and the rows of a sequential picture
WriteScan ==
    LET bands == IF Sequential(dec) THEN Bands ELSE dec.cs.from .. dec.cs.to
        at    == InScan(dec) \X bands
    IN  /\ sta = "write"
        /\ out' = Append(out, [par |-> Parameters(dec),
                               x |-> [cp \in at |-> Derived(dec, cp[2], coefs[cp[1]][cp[2]])]])
        /\ sta' = IF Sequential(dec) THEN "written" ELSE "next"
        /\ UNCHANGED <<jpeg, hdr, next, coefs, known, codes, odd, dec>>

AdvanceNextHeaderSegment ==
    LET r == Parse(dec, jpeg.segs, next, jpeg.reading)
    IN  /\ sta = "next"
        /\ sta' = CASE r.what = "Error" -> "Refused"
                    [] r.what = "EOI" -> "written"
                    [] r.what = "SOS" -> "write"
        /\ dec' = r.h
        /\ next' = r.next
        /\ UNCHANGED <<jpeg, hdr, coefs, known, codes, odd, out>>

Finished ==
    /\ sta \in {"written", "Error", "Refused", "Inconsistent"}
    /\ UNCHANGED vars

Next ==
    \/ ReadHeader
    \/ ReadScan
    \/ Decode
    \/ WriteScan
    \/ AdvanceNextHeaderSegment
    \/ Finished

Spec == Init /\ [][Next]_vars

-----------------------------------------------------------------------------

\* Every scan is written with the tables, the parameters and the values that it was
\* read with, although the headers are parsed a second time under other features
\* and the values are derived from the final coefficients: if the scans are a sound
\* progression. The decoder refuses no header, and it loses step with the blocks
\* only if a quantisation table was redefined after the first scan.
Rewritten ==
    /\ sta = "written" /\ odd = {} => out = codes
    /\ sta # "Refused"
    /\ sta = "Inconsistent" => "DQT" \in odd

\* The comment of read_progressive_scan (jpeg_read.rs:382) expects "updated Huffman
\* tables and quantization tables" between the scans: a sound progression is written
\* back also if they are. It does not hold for quantization tables: the encoder codes
\* the blocks with the last ones, the decoder has the first ones.
UpdatedTablesRestored ==
    sta \in {"written", "Inconsistent"} /\ odd \subseteq {"DQT"} => out = codes
=============================================================================
