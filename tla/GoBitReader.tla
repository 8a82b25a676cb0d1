---------------------------- MODULE GoBitReader -----------------------------
(***************************************************************************)
(* The bit reader of the Go port, lepton/bit_reader.go: it takes byte      *)
(* after byte, only as many as it needs, so that it never reads ahead. Its *)
(* register, buffer and flags are those of BitReader, with ahead = 0, and  *)
(* its fillRegister is the loop of fill_register_slow.                     *)
(***************************************************************************)
EXTENDS BitReader

\* Read
GoRead(r, n) ==
    LET f == IF r.left < n THEN FillRegisterSlow(r, n) ELSE r
    IN  IF f.err # "none" THEN [r |-> f, val |-> 0]
        ELSE [r |-> [f EXCEPT !.left = @ - n], val |-> Shr(f.bits, f.left - n) % 2^n]

\* nextHuffCode of jpeg_read.go, for a code of n bits: looked up if the register
\* holds eight bits, otherwise read bit by bit.
GoNextHuffCode(r, n) ==
    IF r.left >= 8 /\ n <= 8
    THEN [r |-> [r EXCEPT !.left = @ - n], val |-> Shr(r.bits, r.left - n) % 2^n]
    ELSE FoldLeft(LAMBDA s, k : IF s.r.err # "none" THEN s
                                ELSE LET one == GoRead(s.r, 1) IN [one EXCEPT !.val = 2 * s.val + @],
                  [r |-> r, val |-> 0], [k \in 1 .. n |-> k])

\* ReadAndVerifyFillBits; pad is -1 as long as PadBit is nil.
GoReadFillBits(r, pad) ==
    IF r.left = 0 \/ r.eof THEN [r |-> r, pad |-> pad]
    ELSE [r   |-> [r EXCEPT !.left = 0, !.err = IF FillBitsOk(r, pad) THEN @ ELSE "padding"],
          pad |-> IF pad # -1 \/ ~FillBitsOk(r, pad) THEN pad
                  ELSE IF FillBitsValue(r) = 0 THEN 0 ELSE 255]

\* VerifyResetCode
GoVerifyResetCode(r) ==
    LET done == [r EXCEPT !.pos = @ + 2, !.filled = Max({@, r.pos + 2})]
    IN  IF r.pos + 2 > Len(r.file) THEN [r EXCEPT !.err = "truncated"]
        ELSE IF SubSeq(r.file, r.pos + 1, r.pos + 2) # <<255, 208 + (r.cpos % 8)>>
             THEN [done EXCEPT !.err = "reset"]
             ELSE [done EXCEPT !.cpos = @ + 1, !.bits = 0, !.left = 0]
=============================================================================
