---------------------------- MODULE BranchProofs ----------------------------
(***************************************************************************)
(* The counts of a context stay positive bytes, and so the split of either *)
(* coder stays strictly inside its range; the Go port updates a context    *)
(* alike, and the C++ original, whose stored probability may differ, never *)
(* splits a range differently (OriginalInStep relates the two).            *)
(***************************************************************************)
EXTENDS Branch, TLAPS

\* What integer division returns, for a positive divisor.
LEMMA DivBounds == ASSUME NEW a \in Nat, NEW d \in Nat \ {0}
                   PROVE  /\ a \div d \in Nat
                          /\ d * (a \div d) <= a
                          /\ a < d * (a \div d) + d
  BY SMT

\* A u16 both of whose bytes are at least 1.
IsU16(c) == c \in Nat /\ c < U16
GoodCounts(c) == IsU16(c) /\ FalseCount(c) >= 1 /\ TrueCount(c) >= 1

\* Swapping the bytes of a u16 swaps the two counts.
LEMMA RotateSwaps ==
    ASSUME NEW c, IsU16(c)
    PROVE  /\ IsU16(RotateLeft(c, TRUE))
           /\ FalseCount(RotateLeft(c, TRUE)) = TrueCount(c)
           /\ TrueCount(RotateLeft(c, TRUE)) = FalseCount(c)
<1>1. RotateLeft(c, TRUE) = TrueCount(c) * 256 + FalseCount(c)
  BY Zenon DEF RotateLeft
<1>2. c \in Nat /\ c < 65536
  BY DEF IsU16, U16
<1>3. c \div 256 \in Nat /\ c \div 256 < 256 /\ c % 256 \in Nat /\ c % 256 < 256
  BY <1>2, SMT
<1> DEFINE f == c \div 256
           t == c % 256
<1>4. f \in Nat /\ f < 256 /\ t \in Nat /\ t < 256
  BY <1>3
<1> HIDE DEF f, t
<1>5. t * 256 + f \in Nat /\ t * 256 + f < U16
  BY <1>4, SMT DEF U16
<1>6. (t * 256 + f) \div 256 = t
  BY <1>4, SMT
<1>7. (t * 256 + f) % 256 = f
  BY <1>4, SMT
<1> QED  BY <1>1, <1>5, <1>6, <1>7, Zenon DEF IsU16, FalseCount, TrueCount, f, t

\* record_and_update_bit without its rotations: the top byte counts.
CountTop(c) == LET sum  == (c + 256) % U16
                   mask == IF c = Hff01 THEN Hff00 ELSE H8100
               IN  IF c + 256 >= U16 THEN (1 + sum) \div 2 + mask ELSE sum

\* The update counts in the top byte; for TRUE the bytes are swapped before and after.
LEMMA UpdateIsCountTop ==
    ASSUME NEW c
    PROVE  /\ RecordAndUpdateBit(c, FALSE) = CountTop(c)
           /\ RecordAndUpdateBit(c, TRUE) = RotateLeft(CountTop(RotateLeft(c, TRUE)), TRUE)
<1>1. ASSUME NEW x PROVE RotateLeft(x, FALSE) = x
  BY Zenon DEF RotateLeft
<1>2. RecordAndUpdateBit(c, FALSE) = RotateLeft(CountTop(RotateLeft(c, FALSE)), FALSE)
  BY Zenon DEF RecordAndUpdateBit, CountTop
<1>3. RecordAndUpdateBit(c, TRUE) = RotateLeft(CountTop(RotateLeft(c, TRUE)), TRUE)
  BY Zenon DEF RecordAndUpdateBit, CountTop
<1> QED  BY <1>1, <1>2, <1>3, Zenon

\* Counting in the top byte keeps both bytes positive.
LEMMA CountTopGood ==
    ASSUME NEW c, GoodCounts(c)
    PROVE  GoodCounts(CountTop(c))
<1>0. c \in Nat /\ c < 65536 /\ c \div 256 >= 1 /\ c % 256 >= 1
  BY DEF GoodCounts, IsU16, FalseCount, TrueCount, U16
<1>1. CASE c + 256 < 65536
  <2>1. CountTop(c) = c + 256
    BY <1>0, <1>1, SMT DEF CountTop, U16
  <2>2. (c + 256) \div 256 >= 1 /\ (c + 256) % 256 >= 1
    BY <1>0, <1>1, SMT
  <2> QED  BY <1>0, <1>1, <2>1, <2>2 DEF GoodCounts, IsU16, FalseCount, TrueCount, U16
<1>2. CASE c + 256 >= 65536
  <2> DEFINE sum == (c + 256) % 65536
             low == (1 + sum) \div 2
  <2>1. sum \in Nat /\ 1 <= sum /\ sum <= 255
    BY <1>0, <1>2, SMT
  <2>2. CountTop(c) = low + (IF c = Hff01 THEN Hff00 ELSE H8100)
    BY <1>2 DEF CountTop, U16
  <2> HIDE DEF sum
  <2>3. low \in Nat /\ 1 <= low /\ low <= 128
    BY <2>1, SMT
  <2> HIDE DEF low
  <2>4. CountTop(c) = low + 65280 \/ CountTop(c) = low + 33024
    BY <2>2 DEF Hff00, H8100
  <2>5. low + 65280 < 65536 /\ (low + 65280) \div 256 >= 1 /\ (low + 65280) % 256 >= 1
    BY <2>3, SMT
  <2>6. low + 33024 < 65536 /\ (low + 33024) \div 256 >= 1 /\ (low + 33024) % 256 >= 1
    BY <2>3, SMT
  <2> QED  BY <2>3, <2>4, <2>5, <2>6 DEF GoodCounts, IsU16, FalseCount, TrueCount, U16
<1> QED  BY <1>0, <1>1, <1>2, SMT

\* Either bit leaves a context whose two counts are positive.
LEMMA UpdateGood ==
    ASSUME NEW c, GoodCounts(c), NEW bit \in BOOLEAN
    PROVE  GoodCounts(RecordAndUpdateBit(c, bit))
<1>1. CASE bit = FALSE
  BY <1>1, UpdateIsCountTop, CountTopGood, Zenon
<1>2. CASE bit = TRUE
  <2>1. GoodCounts(RotateLeft(c, TRUE))
    BY RotateSwaps, Zenon DEF GoodCounts
  <2>2. GoodCounts(CountTop(RotateLeft(c, TRUE)))
    BY <2>1, CountTopGood, Zenon
  <2>3. GoodCounts(RotateLeft(CountTop(RotateLeft(c, TRUE)), TRUE))
    BY <2>2, RotateSwaps, Zenon DEF GoodCounts
  <2> QED  BY <1>2, <2>3, UpdateIsCountTop, Zenon
<1> QED  BY <1>1, <1>2, Zenon

\* The interval of the type invariant.
LEMMA U16Interval == \A c : c \in 0 .. U16 - 1 <=> IsU16(c)
<1>1. ASSUME NEW n \in Nat, NEW c PROVE c \in 0 .. n - 1 <=> c \in Nat /\ c < n
  BY SMT
<1>2. U16 \in Nat
  BY SMT DEF U16
<1> QED  BY <1>1, <1>2, Zenon DEF IsU16

\* CountsPositive says that counts is good.
LEMMA PositiveIsGood == CountsPositive <=> GoodCounts(counts)
  BY U16Interval, Zenon DEF CountsPositive, GoodCounts

\* record_and_update_bit never makes a count 0 and never leaves the u16: the
\* comment on the struct's field, for every sequence of bits.
THEOREM BranchSafe == Spec => []CountsPositive
<1>1. Init => CountsPositive
  BY SMT DEF Init, CountsPositive, FalseCount, TrueCount, U16
<1>2. CountsPositive /\ [Next]_vars => CountsPositive'
  <2> SUFFICES ASSUME CountsPositive, [Next]_vars
               PROVE  CountsPositive'
    OBVIOUS
  <2>1. CASE UNCHANGED vars
    BY <2>1, Zenon DEF vars, CountsPositive
  <2>2. ASSUME NEW bit \in BOOLEAN, Record(bit)
        PROVE  CountsPositive'
    <3>1. GoodCounts(counts)
      BY PositiveIsGood, Zenon
    <3>2. GoodCounts(RecordAndUpdateBit(counts, bit))
      BY <3>1, UpdateGood, Zenon
    <3>3. GoodCounts(counts')
      BY <2>2, <3>2, Zenon DEF Record
    <3>4. counts' \in 0 .. U16 - 1
      BY <3>3, U16Interval, Zenon DEF GoodCounts
    <3> QED  BY <3>3, <3>4, Zenon DEF CountsPositive, GoodCounts
  <2> QED  BY <2>1, <2>2, Zenon DEF Next
<1> QED  BY <1>1, <1>2, PTL DEF Spec

\* Counting in the top byte does what the comment says to the two counts.
LEMMA CountTopDocumented ==
    ASSUME NEW c, GoodCounts(c)
    PROVE  <<FalseCount(CountTop(c)), TrueCount(CountTop(c))>>
               = DocumentedUpdate(FalseCount(c), TrueCount(c))
<1> DEFINE f == FalseCount(c)
           t == TrueCount(c)
<1>0. c \in Nat /\ c < 65536
  BY DEF GoodCounts, IsU16, U16
<1>1. f \in Nat /\ f <= 255 /\ t \in Nat /\ 1 <= t /\ t <= 255 /\ c = f * 256 + t
  BY <1>0, SMT DEF GoodCounts, FalseCount, TrueCount
<1> HIDE DEF f, t
<1>2. CASE f < 255
  <2>1. CountTop(c) = c + 256
    BY <1>1, <1>2, SMT DEF CountTop, U16
  <2>2. (c + 256) \div 256 = f + 1 /\ (c + 256) % 256 = t
    BY <1>1, SMT
  <2> QED  BY <1>2, <2>1, <2>2, Zenon DEF FalseCount, TrueCount, DocumentedUpdate, f, t
<1>3. CASE f = 255 /\ t = 1
  <2>1. CountTop(c) = 65281
    BY <1>1, <1>3, SMT DEF CountTop, U16, Hff01, Hff00
  <2>2. FalseCount(CountTop(c)) = 255 /\ TrueCount(CountTop(c)) = 1
    BY <2>1, SMT DEF FalseCount, TrueCount
  <2> QED  BY <1>3, <2>2, SMT DEF DocumentedUpdate, f, t
<1>4. CASE f = 255 /\ t # 1
  <2> DEFINE low == (t + 1) \div 2
  <2>1. (c + 256) % U16 = t /\ c + 256 >= U16 /\ c # Hff01
    BY <1>1, <1>4, SMT DEF U16, Hff01
  <2>2. CountTop(c) = low + H8100
    BY <1>1, <2>1, SMT DEF CountTop
  <2>3. low \in Nat /\ low <= 128
    BY <1>1, SMT
  <2> HIDE DEF low
  <2>4. (low + H8100) \div 256 = 129 /\ (low + H8100) % 256 = low
    BY <2>3, SMT DEF H8100
  <2>5. FalseCount(CountTop(c)) = 129 /\ TrueCount(CountTop(c)) = low
    BY <2>2, <2>4, Zenon DEF FalseCount, TrueCount
  <2> QED  BY <1>4, <2>5, SMT DEF DocumentedUpdate, low, f, t
<1> QED  BY <1>1, <1>2, <1>3, <1>4, SMT

\* So does the whole update, for either bit.
LEMMA UpdateDocumented ==
    ASSUME NEW c, GoodCounts(c)
    PROVE  LET onFalse == RecordAndUpdateBit(c, FALSE)
               onTrue  == RecordAndUpdateBit(c, TRUE)
           IN  /\ <<FalseCount(onFalse), TrueCount(onFalse)>>
                       = DocumentedUpdate(FalseCount(c), TrueCount(c))
               /\ <<TrueCount(onTrue), FalseCount(onTrue)>>
                       = DocumentedUpdate(TrueCount(c), FalseCount(c))
<1> DEFINE rot == RotateLeft(c, TRUE)
<1>1. GoodCounts(rot) /\ FalseCount(rot) = TrueCount(c) /\ TrueCount(rot) = FalseCount(c)
  BY RotateSwaps, Zenon DEF GoodCounts
<1> HIDE DEF rot
<1>2. IsU16(CountTop(rot))
  BY <1>1, CountTopGood, Zenon DEF GoodCounts
<1>3. <<FalseCount(CountTop(c)), TrueCount(CountTop(c))>>
          = DocumentedUpdate(FalseCount(c), TrueCount(c))
  BY CountTopDocumented, Zenon
<1>4. <<FalseCount(CountTop(rot)), TrueCount(CountTop(rot))>>
          = DocumentedUpdate(TrueCount(c), FalseCount(c))
  BY <1>1, CountTopDocumented, Zenon
<1>5. /\ TrueCount(RotateLeft(CountTop(rot), TRUE)) = FalseCount(CountTop(rot))
      /\ FalseCount(RotateLeft(CountTop(rot), TRUE)) = TrueCount(CountTop(rot))
  BY <1>2, RotateSwaps, Zenon
<1>6. /\ RecordAndUpdateBit(c, FALSE) = CountTop(c)
      /\ RecordAndUpdateBit(c, TRUE) = RotateLeft(CountTop(rot), TRUE)
  BY UpdateIsCountTop, Zenon DEF rot
<1> QED  BY <1>3, <1>4, <1>5, <1>6, Zenon

\* The rotated, branch-free record_and_update_bit does to every reachable context
\* what the comment above it says: count up, or at 255 halve both counts unless
\* the other bit was never seen.
THEOREM BranchUpdate == Spec => []UpdateAsDocumented
<1>1. CountsPositive => UpdateAsDocumented
  BY UpdateDocumented, PositiveIsGood, Zenon DEF UpdateAsDocumented
<1> QED  BY <1>1, BranchSafe, PTL

\* The probability of a context with two positive counts is a positive byte.
LEMMA ProbabilityInside ==
    ASSUME NEW c, GoodCounts(c)
    PROVE  Probability(c) \in 1 .. 255
<1> DEFINE f == FalseCount(c)
           t == TrueCount(c)
           q == (f * 256) \div (f + t)
<1>0. c \in Nat /\ c < 65536 /\ c \div 256 >= 1 /\ c % 256 >= 1
  BY DEF GoodCounts, IsU16, FalseCount, TrueCount, U16
<1>1. f \in Nat /\ 1 <= f /\ f <= 255 /\ t \in Nat /\ 1 <= t /\ t <= 255
  BY <1>0, SMT DEF FalseCount, TrueCount
<1>2. c # 0
  BY <1>0, SMT
<1> HIDE DEF f, t
<1>3. q \in Nat /\ (f + t) * q <= f * 256 /\ f * 256 < (f + t) * q + (f + t)
  <2>1. f * 256 \in Nat /\ f + t \in Nat \ {0}
    BY <1>1, SMT
  <2> QED  BY <2>1, DivBounds, Zenon
<1> HIDE DEF q
<1>4. q >= 1
  <2> SUFFICES ASSUME q = 0 PROVE FALSE
    BY <1>3, SMT
  <2> QED  BY <1>1, <1>3, SMT
<1>5. q <= 255
  <2> SUFFICES ASSUME q >= 256 PROVE FALSE
    BY <1>3, SMT
  <2>1. (f + t) * q >= (f + t) * 256
    BY <1>1, <1>3, SMT
  <2> QED  BY <2>1, <1>1, <1>3, SMT
<1>6. q % 256 = q
  BY <1>3, <1>4, <1>5, SMT
<1> QED  BY <1>2, <1>4, <1>5, <1>6, <1>3, SMT DEF Probability, q, f, t

\* A positive byte of probability keeps the split strictly inside the range.
LEMMA SplitBounds ==
    ASSUME NEW range \in Ranges, NEW p \in 1 .. 255
    PROVE  Split(range, p) >= 1 /\ Split(range, p) <= range - 1
<1> DEFINE n == (range - 1) * p
           q == n \div 256
<1>1. range \in 128 .. 255
  BY DEF Ranges
<1>2. n \in Nat /\ n <= (range - 1) * 255
  BY <1>1, SMT
<1> HIDE DEF n
<1>3. q \in Nat /\ 256 * q <= n
  BY <1>2, SMT
<1> HIDE DEF q
<1>4. q <= range - 2
  BY <1>1, <1>2, <1>3, SMT
<1> QED  BY <1>1, <1>3, <1>4, SMT DEF Split, q, n

\* put and get always find a split that leaves room for a false and for a true
\* bit, whatever the context has seen and whatever the normalised range is.
THEOREM BranchSplit == Spec => []SplitInside
<1>1. CountsPositive => SplitInside
  <2> SUFFICES ASSUME CountsPositive, NEW range \in Ranges
               PROVE  /\ Split(range, Probability(counts)) >= 1
                      /\ Split(range, Probability(counts)) <= range - 1
    BY DEF SplitInside
  <2>1. Probability(counts) \in 1 .. 255
    BY ProbabilityInside, PositiveIsGood, Zenon
  <2> QED  BY <2>1, SplitBounds
<1> QED  BY <1>1, BranchSafe, PTL

-----------------------------------------------------------------------------
(* The Go port                                                             *)

\* How the port swaps the bytes, and its update without the swaps.
GoSwap(x) == (x \div 256) + ((x * 256) % U16)
GoCountTop(c) == LET sum  == (c + 256) % U16
                     mask == IF c = Hff01 THEN Hff00 ELSE H8100
                 IN  IF sum < c THEN (1 + (sum % 256)) \div 2 + mask ELSE sum

\* x * 256 cut to 16 bits is the bottom byte moved up.
LEMMA SwapIsRotate ==
    ASSUME NEW c, IsU16(c)
    PROVE  GoSwap(c) = RotateLeft(c, TRUE)
<1>1. c \in Nat /\ c < 65536
  BY DEF IsU16, U16
<1> DEFINE f == c \div 256
           t == c % 256
<1>2. f \in Nat /\ t \in Nat /\ t < 256 /\ c = f * 256 + t
  BY <1>1, SMT
<1>3. RotateLeft(c, TRUE) = t * 256 + f
  BY Zenon DEF RotateLeft, FalseCount, TrueCount
<1>4. GoSwap(c) = f + ((c * 256) % U16)
  BY Zenon DEF GoSwap
<1> HIDE DEF f, t
<1>5. c * 256 = f * 65536 + t * 256 /\ t * 256 \in Nat /\ t * 256 < 65536
  BY <1>2, SMT
<1>6. (c * 256) % U16 = t * 256
  BY <1>2, <1>5, SMT DEF U16
<1>7. f + t * 256 = t * 256 + f
  BY <1>2, SMT
<1> QED  BY <1>3, <1>4, <1>6, <1>7, Zenon

\* The sum has wrapped exactly when it is below what was added to.
LEMMA GoCountsTop ==
    ASSUME NEW c, IsU16(c)
    PROVE  GoCountTop(c) = CountTop(c)
<1>1. c \in Nat /\ c < 65536
  BY DEF IsU16, U16
<1>2. CASE c + 256 < 65536
  <2>1. (c + 256) % U16 = c + 256 /\ ~(c + 256 < c) /\ ~(c + 256 >= U16)
    BY <1>1, <1>2, SMT DEF U16
  <2> QED  BY <2>1, Zenon DEF GoCountTop, CountTop
<1>3. CASE c + 256 >= 65536
  <2> DEFINE sum == (c + 256) % U16
  <2>1. sum < c /\ sum % 256 = sum /\ c + 256 >= U16
    BY <1>1, <1>3, SMT DEF U16
  <2> QED  BY <2>1, Zenon DEF GoCountTop, CountTop
<1> QED  BY <1>1, <1>2, <1>3, SMT

\* So does the update of the Go port, in its own words.
LEMMA GoUpdateIsCountTop ==
    ASSUME NEW c
    PROVE  /\ GoRecordAndUpdateBit(c, FALSE) = GoCountTop(c)
           /\ GoRecordAndUpdateBit(c, TRUE) = GoSwap(GoCountTop(GoSwap(c)))
<1>1. GoRecordAndUpdateBit(c, FALSE) = GoCountTop(c)
  BY DEF GoRecordAndUpdateBit, GoCountTop
<1>2. GoRecordAndUpdateBit(c, TRUE) = GoSwap(GoCountTop(GoSwap(c)))
  BY DEF GoRecordAndUpdateBit, GoCountTop, GoSwap
<1> QED  BY <1>1, <1>2

\* A stream written by the Rust encoder and read by the Go port (or the other way
\* round) keeps both in step: lookup and update agree on every reachable context.
THEOREM BranchGoPort == Spec => []GoPortAgrees
<1>1. CountsPositive => GoPortAgrees
  <2> SUFFICES ASSUME CountsPositive PROVE GoPortAgrees
    OBVIOUS
  <2> DEFINE rot == RotateLeft(counts, TRUE)
  <2>1. GoodCounts(counts) /\ IsU16(counts)
    BY PositiveIsGood, Zenon DEF GoodCounts
  <2>2. GoodCounts(rot) /\ IsU16(rot)
    BY <2>1, RotateSwaps, Zenon DEF GoodCounts
  <2>3. IsU16(CountTop(rot))
    BY <2>2, CountTopGood, Zenon DEF GoodCounts
  <2>4. /\ GoRecordAndUpdateBit(counts, FALSE) = GoCountTop(counts)
        /\ GoRecordAndUpdateBit(counts, TRUE) = GoSwap(GoCountTop(GoSwap(counts)))
    BY GoUpdateIsCountTop, Zenon
  <2> HIDE DEF rot
  <2>5. GoRecordAndUpdateBit(counts, FALSE) = RecordAndUpdateBit(counts, FALSE)
    BY <2>1, <2>4, GoCountsTop, UpdateIsCountTop, Zenon
  <2>6. GoRecordAndUpdateBit(counts, TRUE) = RecordAndUpdateBit(counts, TRUE)
    <3>1. GoSwap(counts) = rot /\ GoCountTop(rot) = CountTop(rot)
      BY <2>1, <2>2, GoCountsTop, SwapIsRotate, Zenon DEF rot
    <3>2. GoSwap(CountTop(rot)) = RotateLeft(CountTop(rot), TRUE)
      BY <2>3, SwapIsRotate, Zenon
    <3>3. RecordAndUpdateBit(counts, TRUE) = RotateLeft(CountTop(rot), TRUE)
      BY UpdateIsCountTop, Zenon DEF rot
    <3> QED  BY <2>4, <3>1, <3>2, <3>3, Zenon
  <2>7. GoProbability(counts) = Probability(counts)
    <3>1. counts \in Nat /\ FalseCount(counts) >= 1 /\ TrueCount(counts) >= 1
          /\ FalseCount(counts) \in Nat /\ TrueCount(counts) \in Nat
      BY <2>1, SMT DEF GoodCounts, IsU16, FalseCount, TrueCount
    <3>2. counts >= 1 /\ counts # 0 /\ FalseCount(counts) + TrueCount(counts) > 0
      <4>1. FalseCount(counts) + TrueCount(counts) > 0
        BY <3>1, SMT
      <4>2. counts # 0
        BY <3>1, SMT DEF FalseCount
      <4> QED  BY <3>1, <4>1, <4>2, SMT
    <3> QED  BY <3>2, Zenon DEF GoProbability, Probability
  <2> QED  BY <2>5, <2>6, <2>7, Zenon DEF GoPortAgrees
<1> QED  BY <1>1, BranchSafe, PTL

-----------------------------------------------------------------------------
(* The C++ original                                                        *)

\* PROB_LOOKUP and the original's optimize divide alike.
ProbabilityOf(f, t) == ((f * 256) \div (f + t)) % 256

\* The stored probability is that of the two counts.
LEMMA ProbabilityFromCounts ==
    ASSUME NEW c, GoodCounts(c)
    PROVE  Probability(c) = ProbabilityOf(FalseCount(c), TrueCount(c))
<1>1. c # 0
  BY SMT DEF GoodCounts, FalseCount
<1> QED  BY <1>1, Zenon DEF Probability, ProbabilityOf

\* The original counts like the two bytes, and stores their probability except for
\* the 0 it stores where only true bits were seen and the table says 1.
AgreesWith(c, o) ==
    /\ o \in [f : Nat, t : Nat, probability : Nat]
    /\ o.f = FalseCount(c)
    /\ o.t = TrueCount(c)
    /\ \/ o.probability = Probability(c)
       \/ o.probability = 0 /\ Probability(c) = 1

OriginalInStep == AgreesWith(counts, original)

\* One bit keeps the original in step with the two bytes.
LEMMA OriginalStep ==
    ASSUME NEW c, GoodCounts(c), NEW o, AgreesWith(c, o), NEW bit \in BOOLEAN
    PROVE  AgreesWith(RecordAndUpdateBit(c, bit), OriginalUpdate(o, bit))
<1> DEFINE f == FalseCount(c)
           t == TrueCount(c)
           n == RecordAndUpdateBit(c, bit)
           Half(x) == (1 + x) \div 2
<1>1. f \in Nat /\ 1 <= f /\ f <= 255 /\ t \in Nat /\ 1 <= t /\ t <= 255
  BY SMT DEF GoodCounts, IsU16, FalseCount, TrueCount, U16
<1>2. o \in [f : Nat, t : Nat, probability : Nat] /\ o.f = f /\ o.t = t
  BY DEF AgreesWith
<1>3. GoodCounts(n) /\ Probability(n) = ProbabilityOf(FalseCount(n), TrueCount(n))
  BY UpdateGood, ProbabilityFromCounts, Zenon
<1>4. Probability(n) \in Nat
  <2>1. Probability(n) \in 1 .. 255
    BY <1>3, ProbabilityInside, Zenon
  <2> QED  BY <2>1, SMT
<1>5. /\ ~bit => <<FalseCount(n), TrueCount(n)>> = DocumentedUpdate(f, t)
      /\ bit => <<TrueCount(n), FalseCount(n)>> = DocumentedUpdate(t, f)
  BY UpdateDocumented, Zenon
<1> HIDE DEF f, t, n
<1>6. ASSUME NEW x \in Nat, NEW y \in Nat, FalseCount(n) = x, TrueCount(n) = y,
             OriginalUpdate(o, bit) = [f |-> x, t |-> y, probability |-> ProbabilityOf(x, y)]
      PROVE  AgreesWith(n, OriginalUpdate(o, bit))
  BY <1>3, <1>4, <1>6 DEF AgreesWith
<1>7. Half(f) \in Nat /\ Half(t) \in Nat /\ Half(f) = (f + 1) \div 2 /\ Half(t) = (t + 1) \div 2
  BY <1>1, SMT
<1>8. CASE ~bit /\ f # 255
  <2>1. FalseCount(n) = f + 1 /\ TrueCount(n) = t
    BY <1>1, <1>5, <1>8, SMT DEF DocumentedUpdate
  <2>2. OriginalUpdate(o, bit)
            = [f |-> f + 1, t |-> t, probability |-> ProbabilityOf(f + 1, t)]
    BY <1>2, <1>8, Zenon DEF OriginalUpdate, ProbabilityOf
  <2>3. f + 1 \in Nat
    BY <1>1, SMT
  <2> QED  BY <1>1, <1>6, <2>1, <2>2, <2>3, Zenon DEF n
<1>9. CASE bit /\ t # 255
  <2>1. FalseCount(n) = f /\ TrueCount(n) = t + 1
    BY <1>1, <1>5, <1>9, SMT DEF DocumentedUpdate
  <2>2. OriginalUpdate(o, bit)
            = [f |-> f, t |-> t + 1, probability |-> ProbabilityOf(f, t + 1)]
    BY <1>2, <1>9, Zenon DEF OriginalUpdate, ProbabilityOf
  <2>3. t + 1 \in Nat
    BY <1>1, SMT
  <2> QED  BY <1>1, <1>6, <2>1, <2>2, <2>3, Zenon DEF n
<1>10. CASE ~bit /\ f = 255 /\ t # 1
  <2>1. FalseCount(n) = 129 /\ TrueCount(n) = (t + 1) \div 2
    BY <1>1, <1>5, <1>10, SMT DEF DocumentedUpdate
  <2>2. OriginalUpdate(o, bit)
            = [f |-> 129, t |-> Half(t), probability |-> ProbabilityOf(129, Half(t))]
    BY <1>2, <1>10, Zenon DEF OriginalUpdate, ProbabilityOf
  <2>3. 129 \in Nat /\ TrueCount(n) = Half(t)
    BY <1>7, <2>1, SMT
  <2> HIDE DEF Half
  <2>4. AgreesWith(n, OriginalUpdate(o, bit))
    BY <1>6, <1>7, <2>1, <2>2, <2>3
  <2> QED  BY <2>4 DEF n
<1>11. CASE bit /\ t = 255 /\ f # 1
  <2>1. TrueCount(n) = 129 /\ FalseCount(n) = (f + 1) \div 2
    BY <1>1, <1>5, <1>11, SMT DEF DocumentedUpdate
  <2>2. OriginalUpdate(o, bit)
            = [f |-> Half(f), t |-> 129, probability |-> ProbabilityOf(Half(f), 129)]
    BY <1>2, <1>11, Zenon DEF OriginalUpdate, ProbabilityOf
  <2>3. 129 \in Nat /\ FalseCount(n) = Half(f)
    BY <1>7, <2>1, SMT
  <2> HIDE DEF Half
  <2>4. AgreesWith(n, OriginalUpdate(o, bit))
    BY <1>6, <1>7, <2>1, <2>2, <2>3
  <2> QED  BY <2>4 DEF n
<1>12. CASE ~bit /\ f = 255 /\ t = 1
  <2>1. FalseCount(n) = 255 /\ TrueCount(n) = 1
    BY <1>1, <1>5, <1>12, SMT DEF DocumentedUpdate
  <2>2. Probability(n) = 255
    BY <1>3, <2>1, SMT DEF ProbabilityOf
  <2>3. OriginalUpdate(o, bit) = [o EXCEPT !.probability = 255]
    BY <1>2, <1>12, Zenon DEF OriginalUpdate
  <2> QED  BY <1>2, <1>12, <2>1, <2>2, <2>3, SMT DEF AgreesWith, n
<1>13. CASE bit /\ t = 255 /\ f = 1
  <2>1. FalseCount(n) = 1 /\ TrueCount(n) = 255
    BY <1>1, <1>5, <1>13, SMT DEF DocumentedUpdate
  <2>2. Probability(n) = 1
    BY <1>3, <2>1, SMT DEF ProbabilityOf
  <2>3. OriginalUpdate(o, bit) = [o EXCEPT !.probability = 0]
    BY <1>2, <1>13, Zenon DEF OriginalUpdate
  <2>4. OriginalUpdate(o, bit) = [f |-> 1, t |-> 255, probability |-> 0]
    BY <1>2, <1>13, <2>3
  <2>5. AgreesWith(n, OriginalUpdate(o, bit))
    BY <2>1, <2>2, <2>4 DEF AgreesWith
  <2> QED  BY <2>5 DEF n
<1> QED  BY <1>8, <1>9, <1>10, <1>11, <1>12, <1>13, Zenon DEF n

\* With probability 0 or 1 the split is the same, because no range reaches 256.
LEMMA SplitZeroOne == ASSUME NEW range \in Ranges PROVE Split(range, 0) = Split(range, 1)
<1>1. range \in 128 .. 255
  BY DEF Ranges
<1>2. (range - 1) * 0 = 0 /\ (range - 1) * 1 = range - 1
  BY <1>1, SMT
<1>3. (range - 1) \div 256 = 0 /\ 0 \div 256 = 0
  BY <1>1, SMT
<1> QED  BY <1>2, <1>3, Zenon DEF Split

\* Files written by the C++ original decode to the same bits: whatever the bits,
\* the split computed from the table is the one from the original's probability.
THEOREM BranchSameSplit == Spec => []SameSplitAsOriginal
<1>1. Init => OriginalInStep
  <2> SUFFICES ASSUME Init PROVE OriginalInStep
    OBVIOUS
  <2>1. counts = 257 /\ original = [f |-> 1, t |-> 1, probability |-> 128]
    BY DEF Init
  <2>2. FalseCount(counts) = 1 /\ TrueCount(counts) = 1 /\ counts # 0
    BY <2>1, SMT DEF FalseCount, TrueCount
  <2>3. Probability(counts) = 128
    BY <2>2, SMT DEF Probability
  <2> QED  BY <2>1, <2>2, <2>3, SMT DEF OriginalInStep, AgreesWith
<1>2. CountsPositive /\ OriginalInStep /\ [Next]_vars => OriginalInStep'
  <2> SUFFICES ASSUME CountsPositive, OriginalInStep, [Next]_vars
               PROVE  OriginalInStep'
    OBVIOUS
  <2>1. CASE UNCHANGED vars
    BY <2>1, Zenon DEF vars, OriginalInStep
  <2>2. ASSUME NEW bit \in BOOLEAN, Record(bit)
        PROVE  OriginalInStep'
    <3>1. GoodCounts(counts) /\ AgreesWith(counts, original)
      BY PositiveIsGood, Zenon DEF OriginalInStep
    <3>2. AgreesWith(RecordAndUpdateBit(counts, bit), OriginalUpdate(original, bit))
      BY <3>1, OriginalStep, Zenon
    <3> QED  BY <2>2, <3>2, Zenon DEF Record, OriginalInStep
  <2> QED  BY <2>1, <2>2, Zenon DEF Next
<1>3. OriginalInStep => SameSplitAsOriginal
  BY SplitZeroOne, Zenon DEF OriginalInStep, AgreesWith, SameSplitAsOriginal
<1> QED  BY <1>1, <1>2, <1>3, BranchSafe, PTL DEF Spec
=============================================================================
