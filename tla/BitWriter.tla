----------------------------- MODULE BitWriter ------------------------------
(***************************************************************************)
(* The bit writer of a JPEG scan, rust/lib/src/jpeg/bit_writer.rs. Its     *)
(* register has RegBytes bytes (8 in the code) and fills from the top;     *)
(* current_bit is the number of bits still free. Whether a full register   *)
(* goes to the buffer in one piece or byte by byte (it holds an 0xFF, or   *)
(* the buffer has to grow) makes no difference to what is written.         *)
(*                                                                         *)
(* A writer is a record [data, reg, free] for data_buffer, fill_register   *)
(* and current_bit.                                                        *)
(***************************************************************************)
EXTENDS Integers, Sequences, SequencesExt

CONSTANT RegBytes     \* 8 in the code

RegBits == 8 * RegBytes

NewBitWriter == [data |-> << >>, reg |-> 0, free |-> RegBits]

\* Byte k of the register, k = 1 on top, as it enters the buffer.
ByteOf(reg, k) == (reg \div 2^(RegBits - 8 * k)) % 256
Escaped(b) == IF b = 255 THEN <<255, 0>> ELSE <<b>>
EscapedBytes(reg, count) == FlattenSeq([k \in 1 .. count |-> Escaped(ByteOf(reg, k))])

\* flush_whole_bytes
FlushWholeBytes(w) ==
    LET count == (RegBits - w.free) \div 8
    IN  [data |-> w.data \o EscapedBytes(w.reg, count),
         reg  |-> IF count = RegBytes THEN 0 ELSE (w.reg % 2^(RegBits - 8 * count)) * 2^(8 * count),
         free |-> w.free + 8 * count]

\* write
WriteBits(w, val, n) ==
    IF n <= w.free
    THEN [w EXCEPT !.reg = @ + val * 2^(w.free - n), !.free = @ - n]
    ELSE LET over == n - w.free
         IN  [data |-> w.data \o EscapedBytes(w.reg + val \div 2^over, RegBytes),
              reg  |-> (val % 2^over) * 2^(RegBits - over),
              free |-> RegBits - over]

\* pad: the bits up to the next byte boundary are the low bits of fillbit.
Pad(w, fillbit) ==
    FlushWholeBytes(
        FoldLeft(LAMBDA s, k : WriteBits(s, (fillbit \div 2^(k - 1)) % 2, 1), w,
                 [k \in 1 .. w.free % 8 |-> k]))

\* write_byte_unescaped, which asserts that the register is empty.
WriteByteUnescaped(w, b) == [w EXCEPT !.data = Append(@, b)]

\* detach_buffer: the bits of an unfinished byte stay in the register.
DetachBuffer(w) == [FlushWholeBytes(w) EXCEPT !.data = << >>]

\* reset_from_overhang_byte_and_num_bits
ResetFromOverhang(byte, num) ==
    [data |-> << >>, reg |-> byte * 2^(RegBits - 8), free |-> RegBits - num]
=============================================================================
