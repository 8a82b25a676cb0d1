----------------------------- MODULE BitReader ------------------------------
(***************************************************************************)
(* The bit reader of a JPEG scan, rust/lib/src/jpeg/bit_reader.rs, and the *)
(* way read_coef of jpeg_read.rs peeks into it. The register has RegBytes  *)
(* bytes (8 in the code); the fast path fills it from the reader's buffer  *)
(* when the next RegBytes buffered bytes hold no 0xFF, the slow path one   *)
(* byte at a time, removing the escapes.                                   *)
(*                                                                         *)
(* A reader is a record. [bits, left, ahead, eof, tff, cpos] are bits,     *)
(* bits_left, read_ahead_bytes, eof, truncated_ff and cpos of the struct;  *)
(* [file, buf, pos, filled] is the BufRead below it: pos bytes of the file *)
(* are consumed, filled are in memory, and an empty buffer is refilled     *)
(* with up to buf bytes. err names the error an operation returned.        *)
(***************************************************************************)
EXTENDS Integers, Sequences, FiniteSetsExt, SequencesExt

CONSTANT RegBytes     \* 8 in the code, and at least 3

RegBits == 8 * RegBytes

\* x << k and the shift back, in a register of RegBits bits.
Shl(x, k) == (x % 2^(RegBits - k)) * 2^k
Shr(x, k) == x \div 2^k

NewBitReader(file, buf) ==
    [bits |-> 0, left |-> 0, ahead |-> 0, eof |-> FALSE, tff |-> FALSE, cpos |-> 0,
     file |-> file, buf |-> buf, pos |-> 0, filled |-> 0, err |-> "none"]

-----------------------------------------------------------------------------
(* The BufRead below.                                                      *)

FillBuf(r) ==
    IF r.pos = r.filled
    THEN [r EXCEPT !.filled = Min({Len(r.file), r.pos + r.buf})]
    ELSE r

\* consume: a BufReader would clamp an amount beyond its buffer, a Cursor would
\* not; an amount beyond the buffer is an error of the caller.
Consume(r, amount) ==
    IF r.pos + amount > r.filled THEN [r EXCEPT !.err = "overconsumed"]
    ELSE [r EXCEPT !.pos = @ + amount]

-----------------------------------------------------------------------------
(* Filling the register.                                                   *)

Push(r, b) == [r EXCEPT !.bits = Shl(@, 8) + b, !.left = @ + 8]

MutEscapeInBuffer(r) ==
    LET f    == FillBuf(r)
        one  == Consume(f, 1)
        both == Consume(one, 1)
    IN  IF f.pos = f.filled THEN [Push(f, 0) EXCEPT !.eof = TRUE]
        ELSE IF f.file[f.pos + 1] # 255 THEN Push(Consume(f, 1), f.file[f.pos + 1])
        ELSE IF one.pos < one.filled /\ one.file[one.pos + 1] = 0 THEN Push(both, 255)
        ELSE [both EXCEPT !.err = "marker"]

\* One turn of the loop of fill_register_slow.
FillSlowByte(r) ==
    LET f    == FillBuf(r)
        one  == FillBuf(Consume(f, 1))
        both == Consume(one, 1)
    IN  IF f.pos = f.filled THEN [Push(f, 0) EXCEPT !.eof = TRUE]
        ELSE IF f.file[f.pos + 1] # 255 THEN Push(Consume(f, 1), f.file[f.pos + 1])
        ELSE IF one.pos = one.filled THEN [Push(one, 255) EXCEPT !.tff = TRUE]
        ELSE IF one.file[one.pos + 1] = 0 THEN Push(both, 255)
        ELSE [both EXCEPT !.err = "marker"]

\* fill_register_slow: the loop runs until bits_to_read bits are there.
FillRegisterSlow(r, n) ==
    LET Turns[k \in Nat] ==
            IF k = 0 THEN FillSlowByte(r)
            ELSE LET prev == Turns[k - 1]
                 IN  IF prev.err # "none" \/ prev.left >= n THEN prev ELSE FillSlowByte(prev)
    IN  Turns[n \div 8 + 1]

\* The first count bytes of s as a big endian number.
BigEndian(s, count) == MapThenSumSet(LAMBDA i : s[i] * 2^(8 * (count - i)), 1 .. count)

\* fill_register, called with n = bits_to_read bits wanted: the bytes read ahead
\* last time are consumed now, and the bytes that n does not need are left in
\* the buffer although the register holds them.
FillRegister(r, n) ==
    LET f     == FillBuf(Consume(r, r.ahead))
        next  == SubSeq(f.file, f.pos + 1, f.pos + RegBytes)
        fast  == f.filled - f.pos >= RegBytes /\ \A i \in 1 .. RegBytes : next[i] # 255
        count == (RegBits - 1 - f.left) \div 8
        ahead == (f.left + 8 * count - n) \div 8
    IN  IF ~fast THEN FillRegisterSlow([f EXCEPT !.ahead = 0], n)
        ELSE Consume([f EXCEPT !.bits = Shl(@, 8 * count) + BigEndian(next, count),
                               !.left = @ + 8 * count,
                               !.ahead = ahead],
                     count - ahead)

\* undo_read_ahead
UndoReadAhead(r) ==
    LET back   == Min({r.left \div 8, r.ahead})
        rest   == r.ahead - back
    IN  Consume([r EXCEPT !.left = @ - 8 * back, !.bits = Shr(@, 8 * back), !.ahead = 0], rest)

-----------------------------------------------------------------------------
(* The operations. The ones that return bits give [r, val]: the reader     *)
(* after the call, with r.err # "none" if it failed, and the bits.         *)

\* read
Read(r, n) ==
    LET f == IF r.left < n THEN FillRegister(r, n) ELSE r
    IN  IF f.err # "none" THEN [r |-> f, val |-> 0]
        ELSE [r |-> [f EXCEPT !.left = @ - n], val |-> Shr(f.bits, f.left - n) % 2^n]

\* next_huff_code of jpeg_read.rs, for a code of n bits.
NextHuffCode(r, n) ==
    FoldLeft(LAMBDA s, k : IF s.r.err # "none" THEN s
                           ELSE LET one == Read(s.r, 1) IN [one EXCEPT !.val = 2 * s.val + @],
             [r |-> r, val |-> 0], [k \in 1 .. n |-> k])

\* peek: the next 8 bits, zeros standing in for the ones not there yet. Shifting
\* by the whole width is a shift by nothing, so an empty register shows its top.
PeekByte(r) ==
    LET k == RegBits - r.left
    IN  Shr(IF k = RegBits THEN r.bits ELSE Shl(r.bits, k), RegBits - 8)

\* read_coef of jpeg_read.rs up to its Huffman code, which has n bits in the
\* stream. The lookup in peek_code finds it if n <= 8 and the register holds it;
\* fewer bits show a longer code, and then the register is filled for 8 bits; a
\* code of more than 8 bits is read bit by bit.
ReadCode(r, n) ==
    LET f == IF r.left < n /\ r.left < 8 THEN FillRegister(r, 8) ELSE r
    IN  IF f.err # "none" THEN [r |-> f, val |-> 0]
        ELSE IF n > 8 THEN NextHuffCode(f, n)
        ELSE [r |-> [f EXCEPT !.left = @ - n], val |-> Shr(PeekByte(f), 8 - n)]

\* stream_position
StreamPosition(r) ==
    LET u == UndoReadAhead(r)
    IN  IF u.left > 0 /\ ~u.eof
        THEN IF u.bits % 256 = 255 /\ ~u.tff THEN u.pos - 2 ELSE u.pos - 1
        ELSE u.pos

MutOverhangUnmasked(r) ==
    LET u == UndoReadAhead(r)
    IN  [num |-> (RegBits - u.left) % 8, byte |-> u.bits % 256]

\* overhang: how many bits of the current byte are read, and those bits.
Overhang(r) ==
    LET u   == UndoReadAhead(r)
        num == (RegBits - u.left) % 8
    IN  [num |-> num, byte |-> Shl((u.bits % 256) \div 2^(8 - num), 8 - num)]

\* read_and_verify_fill_bits: pad is None (-1), 0 or 0xFF.
FillBitsValue(u) == u.bits % 2^u.left
FillBitsOk(u, pad) ==
    \/ pad = -1 /\ FillBitsValue(u) \in {0, 2^u.left - 1}
    \/ pad # -1 /\ FillBitsValue(u) = pad % 2^u.left

ReadFillBits(r, pad) ==
    LET u    == UndoReadAhead(r)
        some == u.left > 0 /\ ~u.eof
    IN  IF ~some THEN [r |-> u, pad |-> pad]
        ELSE IF ~FillBitsOk(u, pad) THEN [r |-> [u EXCEPT !.left = 0, !.err = "padding"], pad |-> pad]
        ELSE [r   |-> [u EXCEPT !.left = 0],
              pad |-> IF pad # -1 THEN pad ELSE IF FillBitsValue(u) = 0 THEN 0 ELSE 255]

\* verify_reset_code: RST0 is 0xD0.
VerifyResetCode(r) ==
    LET u    == UndoReadAhead(r)
        two  == u.pos + 2 <= Len(u.file)
        done == [u EXCEPT !.pos = @ + 2, !.filled = Max({@, u.pos + 2})]
    IN  IF ~two THEN [u EXCEPT !.err = "truncated"]
        ELSE IF SubSeq(u.file, u.pos + 1, u.pos + 2) # <<255, 208 + (u.cpos % 8)>>
             THEN [done EXCEPT !.err = "reset"]
             ELSE [done EXCEPT !.cpos = @ + 1, !.bits = 0, !.left = 0]
=============================================================================
