----------------------------- MODULE BlockCodes -----------------------------
(***************************************************************************)
(* The symbols of one block of a scan: read (decode_block_seq,             *)
(* decode_ac_prg_fs and decode_ac_prg_sa of jpeg_read.rs) and written      *)
(* again from the coefficients alone (encode_block_seq, encode_ac_prg_fs   *)
(* and encode_ac_prg_sa of jpeg_write.rs). The file is restored only if    *)
(* the writer chooses the very symbols the reader met, so the reader is    *)
(* given any symbols and must refuse, where it can, those that the writer  *)
(* would not have chosen.                                                  *)
(*                                                                         *)
(* A symbol <<"coef", z, v>> is a run of z zeros and the value v, which a  *)
(* symbol of size 0 leaves 0; <<"eob", 0, 0>> ends the block, <<"dc", z,   *)
(* d>> is the difference of the DC values, <<"bit", 0, n>> a correction    *)
(* bit. Values are those the pass sees: shifted by the scan's cs_sal. The  *)
(* runs of blocks that an end of block may begin are AcScan's.             *)
(***************************************************************************)
EXTENDS Integers, Sequences, FiniteSetsExt, SequencesExt

CONSTANTS Last63,     \* the last position of a block (63)
          MaxZeros,   \* the longest run of a symbol (15)
          MaxSize,    \* the largest size of a coefficient (15)
          Half,       \* a DC value is in -Half .. Half - 1 (2^15)
          BlockInputs \* the passes: [pass, prior, lastdc], prior the block before

VARIABLES input,      \* one of BlockInputs
          block,      \* the coefficients read
          bpos,       \* the next position to read
          codes,      \* the symbols read
          sta,        \* "dc", "ac", "read", "written" or "Error"
          odd,        \* symbols no encoder needs that the reader lets pass
          out         \* the symbols written

vars == <<input, block, bpos, codes, sta, odd, out>>

Eob == <<"eob", 0, 0>>
Coef(z, v) == <<"coef", z, v>>

\* The number of bits of a value (write_coef), and what a literal of that many
\* bits can stand for (devli).
Size(v) == CHOOSE n \in 0 .. 16 : 2^n > Max({v, -v}) /\ (n = 0 \/ 2^(n - 1) <= Max({v, -v}))
Devli(size, bits) == IF bits >= 2^size \div 2 THEN bits ELSE bits + 1 - 2^size
Literals(size) == {Devli(size, bits) : bits \in 0 .. 2^size - 1}

\* i16 arithmetic
Wrapped(d) == ((d + Half) % (2 * Half)) - Half

Positions == 1 .. Last63

Init ==
    /\ input \in BlockInputs
    /\ block = input.prior
    /\ bpos = 1
    /\ codes = << >>
    /\ sta = IF input.pass = "seq" THEN "dc" ELSE "ac"
    /\ odd = {}
    /\ out = << >>

-----------------------------------------------------------------------------
(* The reader                                                              *)

\* read_dc, and "fix dc" of decode_baseline_rst
ReadDc(z, d) ==
    /\ sta = "dc"
    /\ codes' = Append(codes, <<"dc", z, d>>)
    /\ sta' = IF z # 0 THEN "Error" ELSE "ac"
    /\ block' = IF z # 0 THEN block ELSE [block EXCEPT ![0] = Wrapped(d + input.lastdc)]
    /\ UNCHANGED <<input, bpos, odd, out>>

\* What the symbols read leave after position at, the last of which has the
\* value v there: a block that is full ends without a symbol. decode_baseline_rst
\* refuses coded zeros at the end of a block, the progressive passes let them pass.
After(at, v) == IF at < Last63 THEN "ac"
                ELSE IF v = 0 /\ input.pass = "seq" THEN "Error" ELSE "read"

\* Symbols that the writer never chooses although the reader accepts them:
\* zeros without a coefficient, other than the longest run, in a sequential
\* scan, and zeros coded before the end of the block in a progressive one.
Shortcut(z, v) == IF v = 0 /\ z < MaxZeros THEN {"zeros"} ELSE {}
Trailing(zeros) == IF zeros /\ input.pass # "seq" THEN {"tail"} ELSE {}

\* A coefficient of decode_block_seq or decode_ac_prg_fs: zeros are skipped (they
\* are 0 already), and a run past the block is refused. (At the end of the file
\* decode_block_seq reads 0 bits for ever and ends the block there instead.)
Store(z, v) ==
    /\ codes' = Append(codes, Coef(z, v))
    /\ odd' = odd \cup Shortcut(z, v) \cup Trailing(v = 0 /\ bpos + z = Last63)
    /\ IF z + bpos > Last63
       THEN sta' = "Error" /\ UNCHANGED <<block, bpos>>
       ELSE /\ block' = [block EXCEPT ![bpos + z] = v]
            /\ bpos' = bpos + z + 1
            /\ sta' = After(bpos + z, v)

\* The coefficients that a later pass passes over from p up to q.
Corrected(p, q) == {i \in p .. q : block[i] # 0}

\* Their correction bits, as values and as symbols.
WithBits(p, q, n) ==
    [i \in DOMAIN block |-> IF i \in Corrected(p, q)
                            THEN block[i] + (IF block[i] > 0 THEN n[i] ELSE -n[i]) ELSE block[i]]
BitSymbols(p, q, n) ==
    LET from[i \in p .. q + 1] ==
            IF i > q THEN << >>
            ELSE IF i \in Corrected(p, q) THEN << <<"bit", 0, n[i]>> >> \o from[i + 1]
            ELSE from[i + 1]
    IN  from[p]

\* A coefficient of decode_ac_prg_sa: v goes to the zero after z zeros; the
\* coefficients on the way, which are no part of the run, have a bit each. If the
\* block ends first, the bits up to its end are read and the scan is refused.
Refine(z, v) ==
    LET zeros == {i \in bpos .. Last63 : block[i] = 0}
        there == {i \in zeros : Cardinality({j \in zeros : j < i}) = z}
        at    == IF there = {} THEN Last63 ELSE CHOOSE i \in there : TRUE
    IN  /\ odd' = odd \cup Trailing(v = 0 /\ at = Last63)
        /\ IF Size(v) > 1
           THEN /\ sta' = "Error"
                /\ codes' = Append(codes, Coef(z, v))
                /\ UNCHANGED <<block, bpos>>
           ELSE \E n \in [Corrected(bpos, at) -> {0, 1}] :
                    /\ codes' = Append(codes, Coef(z, v)) \o BitSymbols(bpos, at, n)
                    /\ IF there = {}
                       THEN sta' = "Error" /\ UNCHANGED <<block, bpos>>
                       ELSE /\ block' = [WithBits(bpos, at, n) EXCEPT ![at] = v]
                            /\ bpos' = at + 1
                            /\ sta' = After(at, v)

\* A symbol other than the end of the block. In a progressive scan zeros without
\* a coefficient are a symbol of that kind only as the longest run.
ReadCoef(z, v) ==
    /\ sta = "ac"
    /\ <<z, v>> # <<0, 0>>
    /\ input.pass = "seq" \/ v # 0 \/ z = MaxZeros
    /\ IF input.pass = "sa" THEN Refine(z, v) ELSE Store(z, v)
    /\ UNCHANGED <<input, out>>

\* The end of the block; a later pass has the bits of the rest.
ReadEob ==
    LET zeros == bpos > 1 /\ block[bpos - 1] = 0
        rest  == IF input.pass = "sa" THEN Corrected(bpos, Last63) ELSE {}
    IN  /\ sta = "ac"
        /\ \E n \in [rest -> {0, 1}] :
               /\ codes' = Append(codes, Eob) \o (IF rest = {} THEN << >>
                                                ELSE BitSymbols(bpos, Last63, n))
               /\ block' = IF rest = {} THEN block ELSE WithBits(bpos, Last63, n)
        /\ odd' = odd \cup Trailing(zeros)
        /\ sta' = IF zeros /\ input.pass = "seq" THEN "Error" ELSE "read"
        /\ UNCHANGED <<input, bpos, out>>

-----------------------------------------------------------------------------
(* The writer                                                              *)

\* The first coefficient at or after p, one past the end if there is none.
NextNonzero(b, p) == Min({i \in p .. Last63 : b[i] # 0} \cup {Last63 + 1})

\* encode_block_seq: a run of more than MaxZeros zeros is cut, and the zero after
\* it becomes the symbol's coefficient.
EncodeBlockSeq(b, lastdc) ==
    LET from[p \in 1 .. Last63 + 1] ==
            LET q == Min({NextNonzero(b, p), p + MaxZeros})
            IN  IF p > Last63 THEN << >>
                ELSE IF NextNonzero(b, p) > Last63 THEN <<Eob>>
                ELSE <<Coef(q - p, b[q])>> \o from[q + 1]
    IN  << <<"dc", 0, Wrapped(b[0] - lastdc)>> >> \o from[1]

\* encode_ac_prg_fs
EncodeAcPrgFs(b) ==
    LET from[p \in 1 .. Last63 + 1] ==
            LET q == NextNonzero(b, p)
                z == q - p
            IN  IF p > Last63 THEN << >>
                ELSE IF q > Last63 THEN <<Eob>>
                ELSE [i \in 1 .. z \div (MaxZeros + 1) |-> Coef(MaxZeros, 0)]
                     \o <<Coef(z % (MaxZeros + 1), b[q])>> \o from[q + 1]
    IN  from[1]

\* encode_ac_prg_sa: the bits of the coefficients that are passed over follow the
\* symbol that passes over them.
EncodeAcPrgSa(b) ==
    LET new == {i \in Positions : b[i] \in {-1, 1}}
        eob == IF new = {} THEN 1 ELSE Max(new) + 1
        Bit(i) == <<"bit", 0, b[i] % 2>>
        upto[p \in 0 .. eob - 1] ==
            IF p = 0 THEN [z |-> 0, bits |-> << >>, out |-> << >>]
            ELSE LET w == upto[p - 1]
                     Symbol(sym) == [z |-> 0, bits |-> << >>, out |-> Append(w.out, sym) \o w.bits]
                 IN  IF b[p] = 0 /\ w.z = MaxZeros THEN Symbol(Coef(MaxZeros, 0))
                     ELSE IF b[p] = 0 THEN [w EXCEPT !.z = @ + 1]
                     ELSE IF p \in new THEN Symbol(Coef(w.z, b[p]))
                     ELSE [w EXCEPT !.bits = Append(@, Bit(p))]
        rest[p \in eob .. Last63 + 1] ==
            IF p > Last63 THEN << >>
            ELSE IF b[p] # 0 THEN <<Bit(p)>> \o rest[p + 1] ELSE rest[p + 1]
    IN  upto[eob - 1].out
        \o (IF eob <= Last63 THEN <<Eob>> \o rest[eob] ELSE << >>)

Encode(in, b) ==
    CASE in.pass = "seq" -> EncodeBlockSeq(b, in.lastdc)
      [] in.pass = "fs"  -> EncodeAcPrgFs(b)
      [] in.pass = "sa"  -> EncodeAcPrgSa(b)

Write ==
    /\ sta = "read"
    /\ out' = Encode(input, block)
    /\ sta' = "written"
    /\ UNCHANGED <<input, block, bpos, codes, odd>>

Finished ==
    /\ sta \in {"written", "Error"}
    /\ UNCHANGED vars

Next ==
    \/ \E z \in 0 .. 1, d \in 1 - Half .. Half - 1 : ReadDc(z, d)
    \/ \E z \in 0 .. MaxZeros, size \in 0 .. MaxSize : \E v \in Literals(size) : ReadCoef(z, v)
    \/ ReadEob
    \/ Write
    \/ Finished

Spec == Init /\ [][Next]_vars

-----------------------------------------------------------------------------

\* The blocks that the pass can still lead to, after the symbols before bpos.
Values == UNION {Literals(size) : size \in 0 .. MaxSize}

Outcomes ==
    {[i \in 0 .. Last63 |-> IF i < bpos THEN block[i]
                            ELSE IF input.prior[i] = 0 THEN f[i]
                            ELSE input.prior[i] + (f[i] % 2) * (input.prior[i] \div 2)] :
        f \in [bpos .. Last63 -> IF input.pass = "sa" THEN {-1, 0, 1} ELSE Values]}

\* decode_block_seq and encode_block_seq, decode_ac_prg_fs and encode_ac_prg_fs,
\* decode_ac_prg_sa and encode_ac_prg_sa: a block that was accepted is written
\* back symbol for symbol, bits included, unless zeros were coded in one of the
\* two ways the reader lets pass.
Rewritten == sta = "written" /\ odd = {} => out = codes

\* The reader refuses a block only for symbols that the writer writes for no
\* block: none that agrees with what was read before them.
NoSpuriousRefusal ==
    sta = "Error" => \A b \in Outcomes : ~IsPrefix(codes, Encode(input, b))
=============================================================================
