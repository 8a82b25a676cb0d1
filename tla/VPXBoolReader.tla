--------------------------- MODULE VPXBoolReader ----------------------------
(***************************************************************************)
(* The registers of the arithmetic decoder, VPXBoolReader of               *)
(* rust/lib/src/structs/vpx_bool_reader.rs, in a word of the same scaled   *)
(* width as the writer's. value holds the stream bits on top, then a set   *)
(* guard bit; range holds its 8 bits in the top byte.                      *)
(*                                                                         *)
(* A reader is a record [value, range, branches, pos]; pos counts the      *)
(* bytes read from the stream. An upstream read that fails ends the        *)
(* decoding, and the reader is dropped: only end of stream is modelled.    *)
(***************************************************************************)
EXTENDS VPXBoolWriter

\* The gets that one fill allows: it leaves at least Bits - 8 stream bits, a get
\* needs 8 and consumes at most 7. It is 7 in the code.
GetsPerFill == (Bits - 16) \div 7 + 1

\* The position of the lowest set bit.
TrailingZeros(x) == CHOOSE n \in 0 .. Bits - 1 : x % 2^n = 0 /\ x % 2^(n + 1) # 0

\* mul_prob: the split, in the top byte.
MulProb(range, probability) ==
    LET one == 2^(Bits - 8)
        product == ((range - one) \div 256) * probability
    IN  ((product \div one) % 256) * one + one

\* vpx_reader_fill: the guard moves down by whole bytes and as many bytes as
\* there are take its place, down to a last shift above 0.
Fill(r, stream) ==
    IF r.value % 256 # 0 THEN r
    ELSE LET shift == TrailingZeros(r.value)
             wanted == shift \div 8
             n      == IF wanted < Len(stream) - r.pos THEN wanted ELSE Len(stream) - r.pos
         IN  [r EXCEPT !.value = FoldLeft(LAMBDA v, k : v + stream[r.pos + k] * 2^(shift + 1 - 8 * k),
                                          r.value - 2^shift + 2^(shift % 8), [k \in 1 .. n |-> k]),
                       !.pos = @ + n]

\* The condition of get_bit and get_n_bits: the guard has reached the first byte.
FillIfLow(r, stream) == IF r.value % 2^(Bits - 8) = 0 THEN Fill(r, stream) ELSE r

\* get decodes one bit in the context branches[i].
GetBitOf(r, i) == r.value >= MulProb(r.range, B!Probability(r.branches[i]))

MutGetKeepsValue(r, i) ==
    LET split == MulProb(r.range, B!Probability(r.branches[i]))
        bit   == r.value >= split
        range == IF bit THEN r.range - split ELSE split
        shift == Bits - BitLength(range)
    IN  [r EXCEPT !.branches[i] = B!RecordAndUpdateBit(@, bit),
                  !.value = (r.value * 2^shift) % 2^Bits,
                  !.range = (range * 2^shift) % 2^Bits]

Get(r, i) ==
    LET split == MulProb(r.range, B!Probability(r.branches[i]))
        bit   == r.value >= split
        range == IF bit THEN r.range - split ELSE split
        value == IF bit THEN r.value - split ELSE r.value
        shift == Bits - BitLength(range)
    IN  [r EXCEPT !.branches[i] = B!RecordAndUpdateBit(@, bit),
                  !.value = (value * 2^shift) % 2^Bits,
                  !.range = (range * 2^shift) % 2^Bits]

-----------------------------------------------------------------------------
(* The operations return << reader, value >>.                              *)

Bit01(b) == IF b THEN 1 ELSE 0

GetBit(r, stream, i) ==
    LET f == FillIfLow(r, stream) IN <<Get(f, i), Bit01(GetBitOf(f, i))>>

\* get_grid of n bits: one fill, then n gets.
GetGrid(r, stream, n) ==
    LET step(s, k) == <<Get(s[1], s[2]), 2 * s[2] + Bit01(GetBitOf(s[1], s[2]))>>
        end == FoldLeft(step, <<Fill(r, stream), 1>>, [k \in 1 .. n |-> k])
    IN  <<end[1], end[2] - 2^n>>

\* get_n_bits: a fill whenever the guard has reached the first byte.
GetNBits(r, stream, n) ==
    LET step(s, i) == LET f == FillIfLow(s[1], stream)
                      IN  <<Get(f, i), s[2] + 2^i * Bit01(GetBitOf(f, i))>>
    IN  FoldLeft(step, <<r, 0>>, [k \in 1 .. n |-> n - k])

\* get_unary_encoded over a contexts: counts true bits up to the first false
\* one; a fill before the first get and before get GetsPerFill.
GetUnaryEncoded(r, stream, a) ==
    LET step(s, i) ==
            IF s[2] < i THEN s
            ELSE LET f == IF i = 0 \/ i = GetsPerFill THEN Fill(s[1], stream) ELSE s[1]
                 IN  <<Get(f, i), s[2] + Bit01(GetBitOf(f, i))>>
    IN  FoldLeft(step, <<r, 0>>, [k \in 1 .. a |-> k - 1])

\* new: the guard bit, and the initial false bit. The result's value is the
\* marker bit, which must be 0.
NewReader(stream, branches) ==
    LET got == GetBit([value |-> 2^(Bits - 1), range |-> 255 * 2^(Bits - 8),
                       branches |-> [i \in {0} |-> 257], pos |-> 0], stream, 0)
    IN  <<[got[1] EXCEPT !.branches = branches], got[2]>>
=============================================================================
