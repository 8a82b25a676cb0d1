---------------------------- MODULE HuffmanTable ----------------------------
(***************************************************************************)
(* A Huffman table of a JPEG file (jpeg_header.rs): the codes that         *)
(* HuffCodes::construct_from_segment gives to the symbols, the tree and    *)
(* the peek table that HuffTree::construct_hufftree builds of them; and a  *)
(* coefficient that read_coef of jpeg_read.rs reads with the tree and      *)
(* write_coef of jpeg_write.rs writes again with the codes.                *)
(*                                                                         *)
(* A symbol is z * Sizes + s: z zeros and a coefficient of s bits. Bits in *)
(* a row are a number and how many they are, <<n, value>>. The tables may  *)
(* be ill formed.                                                          *)
(***************************************************************************)
EXTENDS Integers, Sequences, FiniteSets, FiniteSetsExt

CONSTANTS Runs,       \* z is in 0 .. Runs - 1 (16); Runs - 1 is no end-of-block run
          Sizes,      \* s is in 0 .. Sizes - 1 (16)
          MaxLen,     \* the longest code (16)
          PeekBits,   \* how many bits are looked up at once (8)
          Segments    \* the tables: [counts, symbols] as in the DHT segment

VARIABLES segment,    \* one of Segments
          table,      \* the HuffCodes and the HuffTree built of it
          sta,        \* "table", "ready", "read", "written" or "Error"
          codes,      \* the bits read
          coef,       \* the run and the coefficient read: <<z, v>>
          out         \* the bits written

vars == <<segment, table, sta, codes, coef, out>>

NumSymbols == Runs * Sizes                 \* 256, also the number of tree nodes
Symbols == 0 .. NumSymbols - 1
Leaf(sym) == sym + NumSymbols
Illegal == 2 * NumSymbols                  \* 0xffff
IsNode(link) == link < NumSymbols

\* Bit i, from 1, of n bits in a row.
Bit(n, value, i) == (value \div 2^(n - i)) % 2

-----------------------------------------------------------------------------
(* HuffCodes                                                               *)

\* construct_from_segment: codes of each length count on from those of the length
\* before, in a u16. upto[l] is the state after the codes of length l. Of a symbol
\* that has two codes the later one stays.
ConstructFromSegment(seg) ==
    LET Sym(k) == seg.symbols[(k % NumSymbols) + 1]
        start == [err |-> FALSE, k |-> 0, code |-> 0,
                  c_len |-> [y \in Symbols |-> 0], c_val |-> [y \in Symbols |-> 0]]
        upto[l \in 0 .. MaxLen] ==
            IF l = 0 THEN start
            ELSE LET h     == upto[l - 1]
                     n     == seg.counts[l]
                     last  == h.code + n - 1
                     Of(y) == {j \in 0 .. n - 1 : Sym(h.k + j) = y}
                 IN  IF h.err THEN h
                     ELSE IF n > 0 /\ (\/ h.k + n > Len(seg.symbols)
                                       \/ last >= 2^l
                                       \/ last = 2^MaxLen - 1)
                     THEN [h EXCEPT !.err = TRUE]
                     ELSE [err |-> FALSE, k |-> h.k + n, code |-> ((h.code + n) * 2) % 2^MaxLen,
                           c_len |-> [y \in Symbols |-> IF Of(y) = {} THEN h.c_len[y] ELSE l],
                           c_val |-> [y \in Symbols |-> IF Of(y) = {} THEN h.c_val[y]
                                                        ELSE h.code + Max(Of(y))]]
    IN  upto[MaxLen]

\* post_initialize: the longest run of empty blocks that has a code
MaxEobRun(hc) ==
    Max({0} \cup {2^(z + 1) - 1 : z \in {y \in 0 .. Runs - 2 : hc.c_len[y * Sizes] > 0}})

-----------------------------------------------------------------------------
(* HuffTree                                                                *)

\* The links that the code of sym adds to the tree t: nodes up to its last bit,
\* then a leaf, which replaces what was there. A link is 0 as long as it is unset.
Insert(t, hc, sym) ==
    LET n == hc.c_len[sym]
        to[i \in 0 .. n - 1] ==
            IF i = 0 THEN [t EXCEPT !.at = 0]
            ELSE LET u == to[i - 1]
                     b == Bit(n, hc.c_val[sym], i)
                 IN  IF ~IsNode(u.at) THEN [u EXCEPT !.err = TRUE]
                     ELSE IF u.node[u.at][b] # 0 THEN [u EXCEPT !.at = u.node[u.at][b]]
                     ELSE [u EXCEPT !.node[u.at][b] = u.nextfree, !.at = u.nextfree,
                                    !.nextfree = @ + 1]
        end == to[n - 1]
    IN  IF n = 0 THEN t
        ELSE IF ~IsNode(end.at) THEN [end EXCEPT !.err = TRUE]
        ELSE [end EXCEPT !.node[end.at][hc.c_val[sym] % 2] = Leaf(sym)]

\* Where the first bits of a row of n lead: the link, and after how many bits it
\* was no node any more (n if it still is one).
Follow(node, n, value) ==
    LET link[i \in 0 .. n] ==
            IF i = 0 THEN 0
            ELSE IF IsNode(link[i - 1]) THEN node[link[i - 1]][Bit(n, value, i)]
            ELSE link[i - 1]
    IN  [link |-> link[n], len |-> Min({i \in 1 .. n : ~IsNode(link[i])} \cup {n})]

TooLong == PeekBits + MaxLen               \* 0xff

\* construct_hufftree, as the encoder calls it (no accept_invalid_dht). The tree
\* stays as it is after an error.
ConstructHuffTree(hc) ==
    LET start == [node |-> [m \in Symbols |-> [b \in 0 .. 1 |-> 0]], nextfree |-> 1,
                  at |-> 0, err |-> FALSE]
        with[n \in 0 .. NumSymbols] ==
            IF n = 0 THEN start
            ELSE LET t == with[n - 1] IN IF t.err THEN t ELSE Insert(t, hc, n - 1)
        built == with[NumSymbols]
        node  == [m \in Symbols |-> [b \in 0 .. 1 |->
                     IF built.node[m][b] = 0 THEN Illegal ELSE built.node[m][b]]]
        Peek(byte) == LET f == Follow(node, PeekBits, byte)
                      IN  IF IsNode(f.link) \/ f.link = Illegal THEN <<0, TooLong>>
                          ELSE <<f.link - NumSymbols, f.len>>
    IN  IF built.err THEN [err |-> TRUE]
        ELSE [err |-> FALSE, node |-> node, peek |-> [byte \in 0 .. 2^PeekBits - 1 |-> Peek(byte)]]

-----------------------------------------------------------------------------

Init ==
    /\ segment \in Segments
    /\ table = << >>
    /\ sta = "table"
    /\ codes = << >>
    /\ coef = << >>
    /\ out = << >>

\* The DHT branch of parse_next_segment, for one table
Define ==
    LET hc   == ConstructFromSegment(segment)
        tree == IF hc.err THEN [err |-> TRUE] ELSE ConstructHuffTree(hc)
    IN  /\ sta = "table"
        /\ IF tree.err
           THEN sta' = "Error" /\ UNCHANGED table
           ELSE /\ table' = [c_len |-> hc.c_len, c_val |-> hc.c_val,
                             node |-> tree.node, peek |-> tree.peek]
                /\ sta' = "ready"
        /\ UNCHANGED <<segment, codes, coef, out>>

\* next_huff_code
NextHuffCode(stream) ==
    LET f == Follow(table.node, MaxLen, stream)
    IN  IF f.link = Illegal THEN <<Illegal, f.len>> ELSE <<f.link - NumSymbols, f.len>>

\* The code that read_coef takes off the bits to come, of which the register
\* holds held: what is looked up has zeros for the bits that it does not hold yet.
CodeAt(stream, held) ==
    LET byte    == stream \div 2^(MaxLen - PeekBits)
        Seen(h) == LET unseen == 2^(PeekBits - h) IN (byte \div unseen) * unseen
        at1     == table.peek[Seen(held)]
        at2     == table.peek[byte]
    IN  IF at1[2] <= held THEN at1
        ELSE IF held < PeekBits /\ at2[2] <= PeekBits THEN at2
        ELSE NextHuffCode(stream)

Devli(s, value) == IF value >= 2^s \div 2 THEN value ELSE value + 1 - 2^s
AbsOf(v) == Max({v, -v})
SizeOf(v) == Min({n \in 0 .. Sizes : 2^n > AbsOf(v)})

\* read_coef; value is the literal that follows the code.
ReadCoef(stream, held, value) ==
    LET c == CodeAt(stream, held)
        s == c[1] % Sizes
    IN  /\ sta = "ready"
        /\ IF c[1] = Illegal
           THEN /\ sta' = "Error"
                /\ value = 0
                /\ codes' = <<MaxLen, stream>>
                /\ UNCHANGED coef
           ELSE /\ sta' = "read"
                /\ value < 2^s
                /\ codes' = <<c[2] + s, (stream \div 2^(MaxLen - c[2])) * 2^s + value>>
                /\ coef' = IF c[1] # 0 THEN <<c[1] \div Sizes, Devli(s, value)>> ELSE <<0, 0>>
        /\ UNCHANGED <<segment, table, out>>

\* write_coef: a negative coefficient is its absolute value exclusive or ones.
WriteCoef ==
    LET abs == AbsOf(coef[2])
        s   == SizeOf(coef[2])
        hc  == coef[1] * Sizes + s
        literal == IF coef[2] < 0 THEN 2^s - 1 - abs ELSE abs
    IN  /\ sta = "read"
        /\ out' = <<table.c_len[hc] + s, table.c_val[hc] * 2^s + literal>>
        /\ sta' = "written"
        /\ UNCHANGED <<segment, table, codes, coef>>

Finished ==
    /\ sta \in {"written", "Error"}
    /\ UNCHANGED vars

Next ==
    \/ Define
    \/ \E stream \in 0 .. 2^MaxLen - 1, held \in 0 .. PeekBits, value \in 0 .. 2^(Sizes - 1) - 1 :
           ReadCoef(stream, held, value)
    \/ WriteCoef
    \/ Finished

Spec == Init /\ [][Next]_vars

-----------------------------------------------------------------------------

\* read_coef and write_coef, over any table that was accepted: the bits that were
\* read for a coefficient are the bits written for it, whether the peek table or
\* the tree decoded them; and a run of empty blocks that has a code is no longer
\* than the runs that the writer gathers (max_eob_run).
Rewritten ==
    sta = "written" =>
        /\ out = codes
        /\ coef[2] = 0 /\ coef[1] < Runs - 1 => 2^(coef[1] + 1) - 1 <= MaxEobRun(table)

\* A table as the JPEG standard has it: a code for each of distinct symbols, no
\* code of ones alone, and as many nodes as the tree has room for.
WellFormed ==
    LET total[l \in 0 .. MaxLen] == IF l = 0 THEN 0 ELSE 2 * total[l - 1] + segment.counts[l]
        used[l \in 0 .. MaxLen]  == IF l = 0 THEN 0 ELSE used[l - 1] + segment.counts[l]
        hc == ConstructFromSegment(segment)
        heads == {<<n, hc.c_val[y] \div 2^(hc.c_len[y] - n)>> :
                     <<y, n>> \in {p \in Symbols \X (0 .. MaxLen - 1) : p[2] < hc.c_len[p[1]]}}
    IN  /\ Len(segment.symbols) = used[MaxLen]
        /\ \A i, j \in DOMAIN segment.symbols : segment.symbols[i] = segment.symbols[j] => i = j
        /\ total[MaxLen] < 2^MaxLen
        /\ Cardinality(heads) <= NumSymbols

\* No well-formed table is refused, and no bits that begin with a symbol's code.
NoSpuriousRefusal ==
    sta = "Error" =>
        IF table = << >> THEN ~WellFormed
        ELSE \A y \in Symbols : table.c_len[y] > 0 =>
                 table.c_val[y] # codes[2] \div 2^(MaxLen - table.c_len[y])
=============================================================================
