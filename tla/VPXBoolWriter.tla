--------------------------- MODULE VPXBoolWriter ----------------------------
(***************************************************************************)
(* The registers of the arithmetic encoder, VPXBoolWriter of               *)
(* rust/lib/src/structs/vpx_bool_writer.rs. The code keeps low_value in 64 *)
(* bits and moves 6 bytes at a time to its buffer; FlushBytes scales both: *)
(* the word has 16 + 8 * FlushBytes bits, and every other constant of the  *)
(* code (the 8 bits of range, the 16 bits kept, the marker) is unchanged.  *)
(*                                                                         *)
(* A writer is a record [low, range, buffer, written, branches, panicked]; *)
(* written is what write_all has received so far.                          *)
(***************************************************************************)
EXTENDS Integers, Sequences, SequencesExt, FiniteSets

CONSTANT FlushBytes   \* 6 in the code, and at least 1

B == INSTANCE Branch WITH counts <- 0, original <- 0

Bits == 16 + 8 * FlushBytes

\* The number of significant bits of x (w - leading_zeros for a w-bit x).
BitLength(x) == CHOOSE n \in 0 .. Bits : x < 2^n /\ (n > 0 => x >= 2^(n - 1))

-----------------------------------------------------------------------------

MutCarryOneByte(w) ==
    IF w.buffer = << >> THEN [w EXCEPT !.panicked = TRUE]
    ELSE [w EXCEPT !.buffer[Len(w.buffer)] = (@ + 1) % 256]

\* carry: adds 1 to the bytes of buffer; 255s become 0. The index underflows,
\* and the assert fails, if there is no byte below 255.
Carry(w) ==
    LET stops == {i \in DOMAIN w.buffer : w.buffer[i] # 255}
        x     == Max(stops)
    IN  IF stops = {} THEN [w EXCEPT !.panicked = TRUE]
        ELSE [w EXCEPT !.buffer = [i \in DOMAIN @ |-> IF i < x THEN @[i]
                                                      ELSE IF i = x THEN @[i] + 1 ELSE 0]]

\* The end of put: once the marker has reached the top 7 bits, the word is rotated
\* so that the overflow bit comes to the bottom, and the bytes on top move to
\* the buffer. leftover is leading_zeros + 2.
Drain(w, value, range) ==
    IF value < 2^(Bits - 7) THEN [w EXCEPT !.low = value, !.range = range]
    ELSE LET leftover == Bits - BitLength(value) + 2
             aligned  == (value % 2^(Bits - leftover)) * 2^leftover + value \div 2^(Bits - leftover)
             carried  == IF aligned % 2 = 1 THEN Carry(w) ELSE w
             top      == [k \in 1 .. FlushBytes |-> (aligned \div 2^(Bits - 8 * k)) % 256]
         IN  [carried EXCEPT !.low = ((aligned % 65536) + 131072) \div 2^leftover,
                             !.range = range,
                             !.buffer = @ \o top]

\* put, for one bit in the context w.branches[i].
Put(w, bit, i) ==
    LET split   == B!Split(w.range, B!Probability(w.branches[i]))
        updated == [w EXCEPT !.branches[i] = B!RecordAndUpdateBit(@, bit)]
        range   == IF bit THEN w.range - split ELSE split
        value   == IF bit THEN w.low + split ELSE w.low
        shift   == 8 - BitLength(range)
    IN  Drain(updated, (value * 2^shift) % 2^Bits, range * 2^shift)

-----------------------------------------------------------------------------
(* The operations: each is a sequence of puts << bit, context >>.          *)

PutAll(w, puts) == FoldLeft(LAMBDA s, p : Put(s, p[1], p[2]), w, puts)

PutBit(w, value, i) == PutAll(w, << <<value, i>> >>)

\* put_grid of the n low bits of v: the context is the bits put so far below a
\* leading 1.
PutGrid(w, v, n) ==
    PutAll(w, [k \in 1 .. n |-> << (v \div 2^(n - k)) % 2 = 1, 2^(k - 1) + v \div 2^(n - k + 1) >>])

\* put_n_bits: the context is the weight of the bit.
PutNBits(w, v, n) ==
    PutAll(w, [k \in 1 .. n |-> << (v \div 2^(n - k)) % 2 = 1, n - k >>])

\* put_unary_encoded over a array of a contexts: v true bits, then a false one
\* unless v = a.
PutUnaryEncoded(w, v, a) ==
    PutAll(w, [k \in 1 .. (IF v < a THEN v + 1 ELSE a) |-> << v # k - 1, k - 1 >>])

\* new: the marker bit, and an initial false bit in a context of its own.
NewWriter(branches) ==
    [PutBit([low |-> 512, range |-> 255, buffer |-> << >>, written |-> << >>,
             branches |-> [i \in {0} |-> 257], panicked |-> FALSE], FALSE, 0)
     EXCEPT !.branches = branches]

-----------------------------------------------------------------------------

MutFlushKeepsLast(w) ==
    IF Len(w.buffer) <= 1 THEN w
    ELSE [w EXCEPT !.written = @ \o SubSeq(w.buffer, 1, Len(w.buffer) - 1),
                   !.buffer = <<w.buffer[Len(w.buffer)]>>]

\* flush_non_final_data: keeps the last byte below 255 and what follows it.
FlushNonFinal(w) ==
    LET stops == {i \in DOMAIN w.buffer : w.buffer[i] # 255}
        i     == Max(stops)
    IN  IF Len(w.buffer) <= 1 THEN w
        ELSE IF stops = {} THEN [w EXCEPT !.panicked = TRUE]
        ELSE [w EXCEPT !.written = @ \o SubSeq(w.buffer, 1, i - 1),
                       !.buffer = SubSeq(w.buffer, i, Len(w.buffer))]

\* The number of stream bits finish finds in low_value.
StreamBits(w) == BitLength(w.low) - 2

\* finish: shifts the stream bits below an overflow bit on top of the word, and
\* writes the bytes they need; the debug_assert is that no bit remains.
FinishWriter(w) ==
    LET bits    == StreamBits(w)
        value   == (w.low % 2^(bits + 1)) * 2^(Bits - 1 - bits)
        carried == IF value >= 2^(Bits - 1) THEN Carry(w) ELSE w
        n       == (bits + 7) \div 8
        rest    == [k \in 1 .. n |-> (value \div 2^(Bits - 1 - 8 * k)) % 256]
    IN  [carried EXCEPT !.written = @ \o carried.buffer \o rest,
                        !.buffer = @ \o rest,
                        !.panicked = @ \/ value % 2^(Bits - 1 - 8 * n) # 0]
=============================================================================
