------------------------------- MODULE Branch -------------------------------
(***************************************************************************)
(* The adaptive probability of one binary context of the arithmetic coder: *)
(* struct Branch of rust/lib/src/structs/branch.rs, its port in            *)
(* lepton/branch.go, and the C++ original the unit test compares it with.  *)
(* All at the real width: counts is a u16 whose top byte counts false bits *)
(* and whose bottom byte counts true bits.                                 *)
(***************************************************************************)
EXTENDS Integers

VARIABLES counts,     \* Branch::counts
          original    \* the state of OriginalImplForTest, fed the same bits

vars == <<counts, original>>

\* The u16 constants of the update.
Hff01 == 65281
Hff00 == 65280
H8100 == 33024
U16 == 65536

FalseCount(c) == c \div 256
TrueCount(c) == c % 256

-----------------------------------------------------------------------------
(* Rust                                                                    *)

\* u16::rotate_left(bit as u32 * 8).
RotateLeft(c, bit) == IF bit THEN TrueCount(c) * 256 + FalseCount(c) ELSE c

MutProbabilityRounds(c) ==
    IF c = 0 THEN 0
    ELSE ((FalseCount(c) * 256 + TrueCount(c)) \div (FalseCount(c) + TrueCount(c))) % 256

\* PROB_LOOKUP[counts]; index 0 keeps the table's initial 0.
Probability(c) ==
    IF c = 0 THEN 0
    ELSE ((FalseCount(c) * 256) \div (FalseCount(c) + TrueCount(c))) % 256

\* record_and_update_bit. On overflow sum is below 0x100, so or-ing the mask in
\* is an addition.
RecordAndUpdateBit(c, bit) ==
    LET orig == RotateLeft(c, bit)
        sum  == (orig + 256) % U16
        mask == IF orig = Hff01 THEN Hff00 ELSE H8100
        res  == IF orig + 256 >= U16 THEN (1 + sum) \div 2 + mask ELSE sum
    IN  RotateLeft(res, bit)

-----------------------------------------------------------------------------
(* Go port                                                                 *)

MutGoNoBias(c, bit) ==
    LET Swap(x) == (x \div 256) + ((x * 256) % U16)
        orig == IF bit THEN Swap(c) ELSE c
        sum  == (orig + 256) % U16
        res  == IF sum < orig THEN (1 + (sum % 256)) \div 2 + H8100 ELSE sum
    IN  IF bit THEN Swap(res) ELSE res

\* RecordAndUpdateBit: overflow is recognised by the sum having wrapped.
GoRecordAndUpdateBit(c, bit) ==
    LET Swap(x) == (x \div 256) + ((x * 256) % U16)
        orig == IF bit THEN Swap(c) ELSE c
        sum  == (orig + 256) % U16
        mask == IF orig = Hff01 THEN Hff00 ELSE H8100
        res  == IF sum < orig THEN (1 + (sum % 256)) \div 2 + mask ELSE sum
    IN  IF bit THEN Swap(res) ELSE res

\* probLookup, filled by init.
GoProbability(c) ==
    IF c >= 1 /\ FalseCount(c) + TrueCount(c) > 0
    THEN ((FalseCount(c) * 256) \div (FalseCount(c) + TrueCount(c))) % 256
    ELSE 0

-----------------------------------------------------------------------------
(* The C++ original: two u8 counters and a stored probability              *)

\* record_obs_and_update, with optimize in Optimized.
OriginalUpdate(o, bit) ==
    LET Optimized(f, t) == [f |-> f, t |-> t, probability |-> ((f * 256) \div (f + t)) % 256]
        overflow  == (IF bit THEN o.t ELSE o.f) = 255
        neverseen == (IF bit THEN o.f ELSE o.t) = 1
        Half(n)   == (1 + n) \div 2
    IN  IF overflow
        THEN IF neverseen
             THEN [o EXCEPT !.probability = IF bit THEN 0 ELSE 255]
             ELSE IF bit THEN Optimized(Half(o.f), 129) ELSE Optimized(129, Half(o.t))
        ELSE IF bit THEN Optimized(o.f, o.t + 1) ELSE Optimized(o.f + 1, o.t)

-----------------------------------------------------------------------------
(* One context of a coder: it starts at 0x0101 and sees any sequence of    *)
(* bits.                                                                   *)

Init == /\ counts = 257
        /\ original = [f |-> 1, t |-> 1, probability |-> 128]

Record(bit) == /\ counts' = RecordAndUpdateBit(counts, bit)
               /\ original' = OriginalUpdate(original, bit)

Next == \E bit \in BOOLEAN : Record(bit)

Spec == Init /\ [][Next]_vars

-----------------------------------------------------------------------------
(* How the coders use a probability: VPXBoolWriter::put.                   *)

MutSplitNoOne(range, probability) == ((range - 1) * probability) \div 256

Split(range, probability) == 1 + ((range - 1) * probability) \div 256

\* The ranges a normalised coder can be in before a bit is coded.
Ranges == 128 .. 255

-----------------------------------------------------------------------------
(* Properties                                                              *)

\* counts is a u16 and, as the struct's comment says, neither byte is ever 0,
\* whatever sequence of bits was recorded.
CountsPositive ==
    /\ counts \in 0 .. U16 - 1
    /\ FalseCount(counts) >= 1
    /\ TrueCount(counts) >= 1

\* Whatever was recorded, the split that put and get compute from a reachable
\* context leaves room for both bits: 1 <= split <= range - 1. With split =
\* range the range would become 0 on a true bit and leading_zeros would shift
\* the coder out of its word.
SplitInside ==
    \A range \in Ranges :
        /\ Split(range, Probability(counts)) >= 1
        /\ Split(range, Probability(counts)) <= range - 1

\* The branch-free update by rotation computes what the comment above
\* record_and_update_bit says: count up, or halve both when one is at 255 and the
\* other is not 1.
DocumentedUpdate(top, bottom) ==
    IF top < 255 THEN <<top + 1, bottom>>
    ELSE IF bottom # 1 THEN <<129, (bottom + 1) \div 2>>
    ELSE <<top, bottom>>

UpdateAsDocumented ==
    LET f == FalseCount(counts)
        t == TrueCount(counts)
        onFalse == RecordAndUpdateBit(counts, FALSE)
        onTrue  == RecordAndUpdateBit(counts, TRUE)
    IN  /\ <<FalseCount(onFalse), TrueCount(onFalse)>> = DocumentedUpdate(f, t)
        /\ <<TrueCount(onTrue), FalseCount(onTrue)>> = DocumentedUpdate(t, f)

\* A stream written by one implementation is read by the other only if their
\* contexts evolve alike: the Go port agrees with the Rust code on every
\* reachable context.
GoPortAgrees ==
    /\ GoProbability(counts) = Probability(counts)
    /\ \A bit \in BOOLEAN :
           GoRecordAndUpdateBit(counts, bit) = RecordAndUpdateBit(counts, bit)

\* The stored probability of the C++ original may differ (0 instead of 1 after
\* 255 or more true bits), but, as the unit test claims, never the split: files
\* written by the original decode to the same bits.
SameSplitAsOriginal ==
    \A range \in Ranges :
        Split(range, Probability(counts)) = Split(range, original.probability)
=============================================================================
