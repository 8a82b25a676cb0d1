-------------------------- MODULE RowRangesProofs ---------------------------
(***************************************************************************)
(* The division of a picture between threads, for every picture of up to   *)
(* three components, cut off after any block, and any number of threads:   *)
(* every row is coded by exactly one thread, and the end, once met, stays  *)
(* the end.                                                                *)
(***************************************************************************)
EXTENDS RowRanges, StreamLemmas, FiniteSetTheorems

\* Unless there is only one component, the first scan does not begin with the last one.
LastNotFirst(j) == Len(j.cmp_info) > 1 => j.cs_cmp[1] # Len(j.cmp_info)

\* Rows of component c in an MCU row, and the MCU row of its block number d.
V(c) == jf.cmp_info[c].sfh
RowOf(c, d) == d \div (V(c) * ci(c).bch)
First == jf.cs_cmp[1]

\* MCU rows of component c that are coded.
McuRows(c) == IF early_eof THEN RowOf(c, max_dpos[c]) + 1 ELSE jf.mcuv

-----------------------------------------------------------------------------
(* The inductive invariant                                                 *)

Positions == [cmp : Nat, mcu : Nat, csc : Nat, sub : Nat, dpos : Nat,
              rstw : Int, eobrun : Int, prev_eobrun : Int]

\* The reader's position, and its place in the MCU rows noted so far.
PositionInv ==
    /\ s \in Positions
    /\ s.csc < Len(jf.cs_cmp) /\ s.cmp = jf.cs_cmp[s.csc + 1]
    /\ s.dpos < ci(s.cmp).bc
    /\ RowOf(s.cmp, s.dpos) = s.mcu \div jf.mcuh
    /\ Len(jf.cs_cmp) > 1 => s.mcu < jf.mcuc
    /\ Len(jf.cs_cmp) = 1 => s.mcu = s.dpos \div (ci(s.cmp).sfv * ci(s.cmp).sfh)
    /\ s.csc > 0 => s.mcu \div jf.mcuh <= RowOf(First, max_dpos[First])
    /\ s.mcu \div jf.mcuh = IF due THEN Len(rows) ELSE Len(rows) - 1

\* What was read: the rows noted are consecutive, and no component is ahead of the one
\* that the scan begins with.
ReadInv ==
    /\ jf \in Pictures /\ due \in BOOLEAN /\ early_eof \in BOOLEAN
    /\ rows \in Seq([luma_y_start : Nat, luma_y_end : Nat])
    /\ \A k \in 1 .. Len(rows) :
           rows[k].luma_y_start = V(1) * (k - 1) /\ rows[k].luma_y_end = V(1) * k
    /\ max_dpos \in [Components -> Nat]
    /\ \A c \in Components : max_dpos[c] < ci(c).bc /\ RowOf(c, max_dpos[c]) <= RowOf(First, max_dpos[First])
    /\ image \in [Components -> Seq(Int \X Int)]
    /\ \A c \in Components : Len(image[c]) <= max_dpos[c] + 1
    /\ phase \in {"read", "split", "encode", "decode", "done"}
    /\ phase = "read" => PositionInv /\ sta = "DecodeInProgress"
    /\ phase # "read" => rows # <<>>

\* The threads' ranges follow one another, from the first row on.
RangesInv ==
    /\ handoffs \in Seq([luma_y_start : Nat, luma_y_end : Nat]) /\ handoffs # <<>>
    /\ handoffs[1].luma_y_start = 0
    /\ \A i \in 1 .. Len(handoffs) - 1 : handoffs[i].luma_y_end = handoffs[i + 1].luma_y_start
    /\ \A i, j \in 1 .. Len(handoffs) : i < j => handoffs[i].luma_y_end <= handoffs[j].luma_y_start

\* The number of row y of component c in the order of RowSpec, and its luma_y.
Height(c) == IF c \in Components THEN V(c) ELSE 0
Before(c) == IF c = 0 THEN Height(1) + Height(2) + Height(3)
             ELSE IF c = 1 THEN Height(2) + Height(3)
             ELSE IF c = 2 THEN Height(3) ELSE 0
IndexOf(c, y) == (y \div V(c)) * Before(0) + Before(c) + (y % V(c))
Luma(c, y) == IF c = 1 THEN y ELSE (y \div V(c)) * V(1)

\* Row y of component c is one that thread i is to code.
InRange(i, c, y) ==
    /\ y < V(c) * McuRows(c)
    /\ handoffs[i].luma_y_start <= Luma(c, y)
    /\ i < Len(handoffs) => Luma(c, y) < handoffs[i].luma_y_end

\* The threads before t have coded all of their rows, thread t those before index.
EncodeInv ==
    /\ RangesInv
    /\ t \in 1 .. Len(handoffs) /\ index \in Nat
    /\ coded \subseteq (1 .. Len(handoffs)) \X Components \X Nat
    /\ \A i \in 1 .. Len(handoffs), c \in Components, y \in Nat :
           <<i, c, y>> \in coded <=> InRange(i, c, y) /\ (i < t \/ (i = t /\ IndexOf(c, y) < index))

\* Each row was coded by one thread.
CodedInv ==
    /\ coded \subseteq (DOMAIN handoffs) \X Components \X Nat
    /\ \A r \in coded : r[3] < V(r[2]) * McuRows(r[2])
    /\ \A c \in Components : \A y \in Nat :
           y < V(c) * McuRows(c) => \E i \in DOMAIN handoffs : {k \in DOMAIN handoffs : <<k, c, y>> \in coded} = {i}

Inv ==
    /\ ReadInv
    /\ phase \in {"read", "split"} => t = 1 /\ index = 0 /\ coded = {}
    /\ phase = "encode" => EncodeInv
    /\ phase \in {"decode", "done"} => CodedInv

-----------------------------------------------------------------------------
(* Numbers                                                                 *)

\* A number between two neighbouring multiples has the smaller one's quotient.
LEMMA Quotient ==
    ASSUME NEW m \in Nat \ {0}, NEW q \in Nat, NEW n \in Nat, m * q <= n, n < m * q + m
    PROVE  n \div m = q /\ n % m = n - m * q
<1>1. n - m * q \in Nat /\ n - m * q < m /\ n = m * q + (n - m * q)
  OBVIOUS
<1> QED  BY <1>1, QuotientFacts

\* Products keep the order of their factors.
LEMMA ProductOrder ==
    ASSUME NEW m \in Nat, NEW a \in Nat, NEW b \in Nat, a <= b
    PROVE  m * a <= m * b /\ a * m <= b * m
  OBVIOUS

\* A smaller number of whole rows ends before the next one.
LEMMA ProductBelow ==
    ASSUME NEW m \in Nat, NEW a \in Nat, NEW b \in Nat, a < b
    PROVE  m * a + m <= m * b
<1>1. m * (a + 1) <= m * b
  BY ProductOrder
<1> QED  BY <1>1

\* The quotient of a number below a product.
LEMMA QuotientBelow ==
    ASSUME NEW m \in Nat \ {0}, NEW n \in Nat, NEW k \in Nat, n < m * k
    PROVE  n \div m \in Nat /\ n \div m < k
<1>1. n \div m \in Nat /\ m * (n \div m) <= n
  BY QuotientExists
<1>2. ASSUME k <= n \div m PROVE FALSE
  <2>1. m * k <= m * (n \div m)
    BY <1>1, <1>2, ProductOrder
  <2> QED  BY <1>1, <2>1
<1> QED  BY <1>1, <1>2

\* Quotients keep the order.
LEMMA QuotientOrder ==
    ASSUME NEW m \in Nat \ {0}, NEW a \in Nat, NEW b \in Nat, a <= b
    PROVE  a \div m <= b \div m
<1>1. a \div m \in Nat /\ m * (a \div m) <= a
  BY QuotientExists
<1> QED  BY <1>1, QuotientLargest

\* Dividing twice is dividing by the product.
LEMMA QuotientTwice ==
    ASSUME NEW a \in Nat \ {0}, NEW b \in Nat \ {0}, NEW n \in Nat
    PROVE  (n \div a) \div b = n \div (b * a)
<1> DEFINE q == n \div a
           r == n % a
           p == q \div b
           d == q % b
<1>1. q \in Nat /\ r \in Nat /\ r < a /\ n = a * q + r
  BY QuotientExists
<1>2. p \in Nat /\ d \in Nat /\ d < b /\ q = b * p + d
  BY <1>1, QuotientExists
<1> HIDE DEF q, r, p, d
<1>3. a * q = (b * a) * p + a * d
  BY <1>2
<1>4. a * d + a <= a * b
  BY <1>2, ProductBelow
<1>5. a * d + r \in Nat /\ a * d + r < b * a /\ b * a \in Nat \ {0} /\ n = (b * a) * p + (a * d + r)
  BY <1>1, <1>2, <1>3, <1>4
<1>6. n \div (b * a) = p
  BY <1>2, <1>5, QuotientFacts
<1> QED  BY <1>6 DEF p, q

\* The least of two numbers.
LEMMA LeastOfTwo ==
    ASSUME NEW a \in Int, NEW b \in Int
    PROVE  Min({a, b}) = IF a <= b THEN a ELSE b
<1> DEFINE P(x) == x \in {a, b} /\ \A y \in {a, b} : x <= y
           m == IF a <= b THEN a ELSE b
<1>1. P(m)
  OBVIOUS
<1>2. \A x : P(x) => x = m
  OBVIOUS
<1> HIDE DEF P, m
<1>3. P(CHOOSE x : P(x))
  BY <1>1, Zenon
<1>4. Min({a, b}) = CHOOSE x \in {a, b} : \A y \in {a, b} : x <= y
  BY Zenon DEF Min
<1>5. Min({a, b}) = CHOOSE x : P(x)
  BY <1>4, Zenon DEF P
<1> QED  BY <1>2, <1>3, <1>5, Zenon DEF m

\* The greatest of two numbers.
LEMMA GreatestOfTwo ==
    ASSUME NEW a \in Int, NEW b \in Int
    PROVE  Max({a, b}) = IF a >= b THEN a ELSE b
<1> DEFINE P(x) == x \in {a, b} /\ \A y \in {a, b} : x >= y
           m == IF a >= b THEN a ELSE b
<1>1. P(m)
  OBVIOUS
<1>2. \A x : P(x) => x = m
  OBVIOUS
<1> HIDE DEF P, m
<1>3. P(CHOOSE x : P(x))
  BY <1>1, Zenon
<1>4. Max({a, b}) = CHOOSE x \in {a, b} : \A y \in {a, b} : x >= y
  BY Zenon DEF Max
<1>5. Max({a, b}) = CHOOSE x : P(x)
  BY <1>4, Zenon DEF P
<1> QED  BY <1>2, <1>3, <1>5, Zenon DEF m

-----------------------------------------------------------------------------
(* The picture                                                             *)

\* The counts of a picture.
LEMMA PictureFacts ==
    ASSUME jf \in Pictures
    PROVE  /\ Len(jf.cmp_info) \in 1 .. 3
           /\ Components = 1 .. Len(jf.cmp_info)
           /\ jf.mcuv \in Nat \ {0} /\ jf.mcuh \in Nat \ {0} /\ jf.mcuc = jf.mcuv * jf.mcuh
           /\ jf.rsti \in Nat /\ jf.sequential
           /\ Len(jf.cs_cmp) \in Nat \ {0}
           /\ \A i \in 1 .. Len(jf.cs_cmp) : jf.cs_cmp[i] \in Components
           /\ First \in Components
<1> DEFINE I == [sfv : Nat \ {0}, sfh : Nat \ {0}, mbs : Nat, bcv : Nat, bch : Nat,
                 bc : Nat, ncv : Nat, nch : Nat]
<1>1. Geometry(jf)
  BY PicturesAssumption, Zenon
<1>2. jf.cmp_info \in Seq(I) /\ jf.cs_cmp \in Seq(Components) /\ jf.cs_cmp # <<>>
  BY <1>1, Zenon DEF Geometry, Components
<1> HIDE DEF I
<1>3. Components = 1 .. Len(jf.cmp_info)
  BY <1>2, LenProperties DEF Components
<1>4. Len(jf.cs_cmp) \in Nat \ {0}
  BY <1>2, EmptySeq, LenProperties
<1>5. \A i \in 1 .. Len(jf.cs_cmp) : jf.cs_cmp[i] \in Components
  BY <1>2, ElementOfSeq
<1>6. First \in Components
  BY <1>4, <1>5 DEF First
<1> QED  BY <1>1, <1>3, <1>4, <1>5, <1>6, Zenon DEF Geometry

\* The counts of a component.
LEMMA ComponentFacts ==
    ASSUME jf \in Pictures, NEW c \in Components
    PROVE  /\ V(c) \in Nat \ {0} /\ ci(c).sfh = V(c) /\ ci(c).sfv \in Nat \ {0}
           /\ ci(c).bcv \in Nat \ {0} /\ ci(c).bcv = jf.mcuv * V(c)
           /\ ci(c).bch \in Nat \ {0} /\ ci(c).bch = jf.mcuh * ci(c).sfv
           /\ ci(c).bc \in Nat \ {0} /\ ci(c).bc = ci(c).bcv * ci(c).bch
           /\ ci(c).mbs = ci(c).sfv * V(c)
           /\ ci(c).ncv \in 1 .. ci(c).bcv /\ ci(c).nch \in 1 .. ci(c).bch
           /\ V(c) * ci(c).bch \in Nat \ {0}
           /\ ci(c).bc = (V(c) * ci(c).bch) * jf.mcuv
           /\ ComponentMultiple(c) = V(c)
<1> DEFINE I == [sfv : Nat \ {0}, sfh : Nat \ {0}, mbs : Nat, bcv : Nat, bch : Nat,
                 bc : Nat, ncv : Nat, nch : Nat]
<1>1. Geometry(jf)
  BY PicturesAssumption, Zenon
<1>2. /\ ci(c).bcv = jf.mcuv * ci(c).sfh /\ ci(c).bch = jf.mcuh * ci(c).sfv
      /\ ci(c).bc = ci(c).bcv * ci(c).bch /\ ci(c).mbs = ci(c).sfv * ci(c).sfh
      /\ ci(c).ncv \in 1 .. ci(c).bcv /\ ci(c).nch \in 1 .. ci(c).bch
      /\ jf.mcuv \in Nat \ {0} /\ jf.mcuh \in Nat \ {0}
  BY <1>1, Zenon DEF Geometry, Components, ci
<1>3. jf.cmp_info \in Seq(I)
  BY <1>1, Zenon DEF Geometry
<1>4. c \in 1 .. Len(jf.cmp_info)
  BY PictureFacts, Zenon
<1>5. ci(c) \in I
  <2> HIDE DEF I
  <2> QED  BY <1>3, <1>4, ElementOfSeq DEF ci
<1>6. ci(c).sfv \in Nat \ {0} /\ ci(c).sfh \in Nat \ {0}
  BY <1>5
<1>7. V(c) = ci(c).sfh
  BY DEF V, ci
<1>8. \A a, b, d \in Nat \ {0} : a * b \in Nat \ {0} /\ (a * b) * d = (b * d) * a
  OBVIOUS
<1>9. \A a, b \in Nat \ {0} : (a * b) \div a = b
  <2> TAKE a, b \in Nat \ {0}
  <2>1. (a * b + 0) \div a = b
    BY QuotientFacts
  <2> QED  BY <2>1
<1>10. ci(c).bcv \in Nat \ {0} /\ ci(c).bch \in Nat \ {0}
  BY <1>2, <1>6, <1>8
<1>11. ci(c).bc = (V(c) * ci(c).bch) * jf.mcuv
  BY <1>2, <1>6, <1>7, <1>8, <1>10
<1>12. ComponentMultiple(c) = V(c)
  BY <1>2, <1>6, <1>7, <1>9 DEF ComponentMultiple
<1>13. ci(c).bc \in Nat \ {0} /\ V(c) * ci(c).bch \in Nat \ {0}
  BY <1>2, <1>6, <1>7, <1>8, <1>10
<1> QED  BY <1>2, <1>6, <1>7, <1>10, <1>11, <1>12, <1>13, Zenon

\* MCU rows of blocks lie in the picture.
LEMMA RowOfFacts ==
    ASSUME jf \in Pictures, NEW c \in Components, NEW d \in Nat, d < ci(c).bc
    PROVE  RowOf(c, d) \in Nat /\ RowOf(c, d) < jf.mcuv
<1>1. /\ V(c) * ci(c).bch \in Nat \ {0} /\ jf.mcuv \in Nat
      /\ ci(c).bc = (V(c) * ci(c).bch) * jf.mcuv
  BY PictureFacts, ComponentFacts, Zenon
<1>2. d < (V(c) * ci(c).bch) * jf.mcuv
  BY <1>1
<1> QED  BY <1>1, <1>2, QuotientBelow, Zenon DEF RowOf

\* The types that the coded heights are made of.
HeightType ==
    /\ jf \in Pictures /\ early_eof \in BOOLEAN /\ max_dpos \in [Components -> Nat]
    /\ \A c \in Components : max_dpos[c] < ci(c).bc

\* The MCU rows that are coded.
LEMMA McuRowsFacts ==
    ASSUME HeightType, NEW c \in Components
    PROVE  McuRows(c) \in Nat \ {0} /\ McuRows(c) <= jf.mcuv
<1>1. jf.mcuv \in Nat \ {0}
  BY PictureFacts, Zenon DEF HeightType
<1>2. RowOf(c, max_dpos[c]) \in Nat /\ RowOf(c, max_dpos[c]) < jf.mcuv
  BY RowOfFacts DEF HeightType
<1> QED  BY <1>1, <1>2 DEF McuRows

\* Coded heights are whole MCU rows, up to the one with the last block read.
LEMMA HeightFacts ==
    ASSUME HeightType, NEW c \in Components
    PROVE  MaxCodedHeight(c) = V(c) * McuRows(c)
<1> DEFINE b == ci(c).bch
           v == V(c)
           m == max_dpos[c]
           q == m \div b
           r == q \div v
<1>1. /\ v \in Nat \ {0} /\ b \in Nat \ {0} /\ jf.mcuv \in Nat \ {0}
      /\ ci(c).bcv = jf.mcuv * v /\ ci(c).bcv \in Nat \ {0}
      /\ ci(c).bc = ci(c).bcv * b /\ ComponentMultiple(c) = v
  BY PictureFacts, ComponentFacts, Zenon DEF HeightType
<1>2. m \in Nat /\ m < ci(c).bc
  BY DEF HeightType
<1>3. CASE ~early_eof
  <2>1. MaxCodedHeight(c) = ci(c).bcv /\ McuRows(c) = jf.mcuv
    BY <1>3 DEF MaxCodedHeight, McuRows
  <2> QED  BY <2>1, <1>1
<1>4. CASE early_eof
  <2>1. m < b * ci(c).bcv
    BY <1>1, <1>2
  <2>2. q \in Nat /\ q < ci(c).bcv
    <3> HIDE DEF b, m
    <3> QED  BY <1>1, <1>2, <2>1, QuotientBelow, Zenon
  <2>3. r = RowOf(c, m)
    <3>1. (m \div b) \div v = m \div (v * b)
      <4> HIDE DEF b, m, v
      <4> QED  BY <1>1, <1>2, QuotientTwice
    <3> QED  BY <3>1 DEF RowOf
  <2>4. r \in Nat /\ r < jf.mcuv
    BY <1>2, <2>3, RowOfFacts DEF HeightType
  <2>5. CeilDiv(m + 1, b) = q + 1
    <3>1. m % b \in Nat /\ m % b < b /\ m = b * q + (m % b)
      <4> HIDE DEF b, m
      <4> QED  BY <1>1, <1>2, QuotientExists DEF q
    <3>2. m + 1 + b - 1 = b * (q + 1) + (m % b)
      <4> HIDE DEF b, m, q
      <4> QED  BY <3>1, <1>1, <1>2, <2>2
    <3>3. (b * (q + 1) + (m % b)) \div b = q + 1
      <4> HIDE DEF b, m, q
      <4> QED  BY <1>1, <3>1, <2>2, QuotientFacts
    <3> QED  BY <3>2, <3>3, Zenon DEF CeilDiv
  <2>6. CeilDiv(q + 1, v) = r + 1
    <3>1. q % v \in Nat /\ q % v < v /\ q = v * r + (q % v)
      <4> HIDE DEF q, v
      <4> QED  BY <1>1, <2>2, QuotientExists DEF r
    <3>2. q + 1 + v - 1 = v * (r + 1) + (q % v)
      <4> HIDE DEF q, v, r
      <4>1. v * (r + 1) = v * r + v
        BY <1>1, <2>4
      <4> DEFINE d == q % v
      <4>2. d \in Nat /\ q = v * r + d /\ q \in Nat /\ v * r \in Nat
        BY <3>1, <1>1, <2>2, <2>4
      <4> HIDE DEF d
      <4>3. q + 1 + v - 1 = v * (r + 1) + d
        BY <4>1, <4>2, <1>1
      <4> QED  BY <4>3 DEF d
    <3>3. (v * (r + 1) + (q % v)) \div v = r + 1
      <4> HIDE DEF q, v, r
      <4> QED  BY <1>1, <3>1, <2>4, QuotientFacts
    <3> QED  BY <3>2, <3>3, Zenon DEF CeilDiv
  <2>7. Min({CeilDiv(m + 1, b), ci(c).bcv}) = q + 1
    <3> HIDE DEF m, b, q
    <3> QED  BY <2>5, <2>2, <1>1, LeastOfTwo
  <2>8. TruncatedHeight(c) = Min({CeilDiv(q + 1, v) * v, ci(c).bcv})
    <3> HIDE DEF q
    <3> QED  BY <2>7, <1>1, Zenon DEF TruncatedHeight, m, b, ComponentMultiple
  <2>9. (r + 1) * v \in Nat /\ (r + 1) * v <= ci(c).bcv
    <3> HIDE DEF r, v
    <3>1. r + 1 \in Nat /\ r + 1 <= jf.mcuv
      BY <1>1, <2>4
    <3> QED  BY <3>1, <1>1, ProductOrder
  <2>10. TruncatedHeight(c) = (r + 1) * v
    <3> HIDE DEF r, v, q
    <3> QED  BY <2>6, <2>8, <2>9, <1>1, LeastOfTwo
  <2>11. McuRows(c) = r + 1
    BY <2>3, <1>4 DEF McuRows
  <2>12. MaxCodedHeight(c) = TruncatedHeight(c)
    BY <1>4 DEF MaxCodedHeight
  <2> HIDE DEF r, v
  <2> QED  BY <2>4, <2>10, <2>11, <2>12, <1>1 DEF v
<1> QED  BY <1>3, <1>4 DEF HeightType

-----------------------------------------------------------------------------
(* The order of the rows                                                   *)

\* The rows of the components behind c.
LEMMA RowsBeforeFacts ==
    ASSUME jf \in Pictures
    PROVE  \A c \in 0 .. Len(jf.cmp_info) : RowsBefore[c] = Before(c)
<1> DEFINE n == Len(jf.cmp_info)
           Body(f, c) == IF c = n THEN 0 ELSE f[c + 1] + ComponentMultiple(c + 1)
           g == [c \in 0 .. n |-> Before(c)]
<1>1. n \in 1 .. 3 /\ Components = 1 .. n
  BY PictureFacts, Zenon
<1>2. \A c \in 1 .. n : ComponentMultiple(c) = Height(c) /\ Height(c) \in Nat
  BY <1>1, ComponentFacts DEF Height
<1>3. \A c \in (n + 1) .. 3 : Height(c) = 0
  BY <1>1 DEF Height
<1>4. \A c \in 0 .. n : Before(c) = Body(g, c)
  <2> HIDE DEF n
  <2>1. CASE n = 1
    BY <2>1, <1>1, <1>2, <1>3 DEF Before
  <2>2. CASE n = 2
    BY <2>2, <1>1, <1>2, <1>3 DEF Before
  <2>3. CASE n = 3
    BY <2>3, <1>1, <1>2, <1>3 DEF Before
  <2> QED  BY <1>1, <2>1, <2>2, <2>3
<1>5. g = [c \in 0 .. n |-> Body(g, c)]
  <2> HIDE DEF Body, n
  <2> QED  BY <1>4, Zenon
<1>6. RowsBefore = CHOOSE f : f = [c \in 0 .. n |-> Body(f, c)]
  BY Zenon DEF RowsBefore
<1>7. RowsBefore = [c \in 0 .. n |-> Body(RowsBefore, c)]
  <2> HIDE DEF Body, n, g
  <2> QED  BY <1>5, <1>6, Zenon
<1>8. \A c \in 0 .. n : RowsBefore[c] = Body(RowsBefore, c)
  <2> HIDE DEF Body, n
  <2> QED  BY <1>7, Zenon
<1> HIDE DEF n
<1>9. ASSUME n = 1 PROVE \A c \in 0 .. n : RowsBefore[c] = Before(c)
  BY <1>9, <1>1, <1>2, <1>3, <1>8 DEF Before
<1>10. ASSUME n = 2 PROVE \A c \in 0 .. n : RowsBefore[c] = Before(c)
  BY <1>10, <1>1, <1>2, <1>3, <1>8 DEF Before
<1>11. ASSUME n = 3 PROVE \A c \in 0 .. n : RowsBefore[c] = Before(c)
  BY <1>11, <1>1, <1>2, <1>3, <1>8 DEF Before
<1>12. \A c \in 0 .. n : RowsBefore[c] = Before(c)
  BY <1>1, <1>9, <1>10, <1>11
<1> QED  BY <1>12 DEF n

\* The rows of a component in an MCU row do not overlap those of another one.
LEMMA BeforeFacts ==
    ASSUME jf \in Pictures
    PROVE  /\ Before(0) \in Nat \ {0}
           /\ \A c \in Components : Before(c) \in Nat /\ Before(c) + V(c) <= Before(0)
           /\ \A c, d \in Components : d < c => Before(c) + V(c) <= Before(d)
           /\ \A p \in Nat : p < Before(0)
                  => \E c \in Components : Before(c) <= p /\ p < Before(c) + V(c)
<1> DEFINE n == Len(jf.cmp_info)
<1>1. n \in 1 .. 3 /\ Components = 1 .. n
  BY PictureFacts, Zenon
<1>2. \A c \in 1 .. n : V(c) \in Nat \ {0} /\ Height(c) = V(c)
  BY <1>1, ComponentFacts DEF Height
<1>3. \A c \in (n + 1) .. 3 : Height(c) = 0
  BY <1>1 DEF Height
<1> DEFINE Goal == /\ Before(0) \in Nat \ {0}
                   /\ \A c \in 1 .. n : Before(c) \in Nat /\ Before(c) + V(c) <= Before(0)
                   /\ \A c, d \in 1 .. n : d < c => Before(c) + V(c) <= Before(d)
                   /\ \A p \in Nat : p < Before(0)
                         => \E c \in 1 .. n : Before(c) <= p /\ p < Before(c) + V(c)
<1> HIDE DEF n
<1>4. ASSUME n = 1 PROVE Goal
  BY <1>4, <1>2, <1>3 DEF Before
<1>5. ASSUME n = 2 PROVE Goal
  BY <1>5, <1>2, <1>3 DEF Before
<1>6. ASSUME n = 3 PROVE Goal
  BY <1>6, <1>2, <1>3 DEF Before
<1>7. Goal
  <2> HIDE DEF Goal
  <2> QED  BY <1>1, <1>4, <1>5, <1>6
<1> QED  BY <1>7, <1>1, Zenon

\* A row's number in the order of RowSpec tells its MCU row and its place there.
LEMMA IndexFacts ==
    ASSUME jf \in Pictures, NEW c \in Components, NEW y \in Nat
    PROVE  /\ y \div V(c) \in Nat /\ y % V(c) \in Nat /\ y % V(c) < V(c)
           /\ y = V(c) * (y \div V(c)) + (y % V(c))
           /\ IndexOf(c, y) \in Nat
           /\ IndexOf(c, y) \div Before(0) = y \div V(c)
           /\ IndexOf(c, y) % Before(0) = Before(c) + (y % V(c))
<1> DEFINE v == V(c)
           q == y \div v
           r == y % v
           b == Before(c)
           w == Before(0)
<1>1. v \in Nat \ {0} /\ b \in Nat /\ w \in Nat \ {0} /\ b + v <= w
  BY ComponentFacts, BeforeFacts, Zenon
<1>2. q \in Nat /\ r \in Nat /\ r < v /\ y = v * q + r
  <2> HIDE DEF v
  <2> QED  BY <1>1, QuotientExists
<1>3. IndexOf(c, y) = q * w + b + r
  BY Zenon DEF IndexOf
<1> HIDE DEF q, r, v, b, w
<1>4. IndexOf(c, y) = w * q + (b + r) /\ b + r \in Nat /\ b + r < w /\ w * q \in Nat
  BY <1>1, <1>2, <1>3
<1>5. IndexOf(c, y) \div w = q /\ IndexOf(c, y) % w = b + r /\ IndexOf(c, y) \in Nat
  <2> DEFINE e == b + r
  <2> HIDE DEF e
  <2>1. e \in Nat /\ e < w /\ IndexOf(c, y) = w * q + e
    BY <1>4 DEF e
  <2>2. (w * q + e) \div w = q /\ (w * q + e) % w = e
    BY <1>1, <1>2, <2>1, QuotientFacts
  <2>3. w * q + e \in Nat
    BY <1>4, <2>1
  <2> QED  BY <2>1, <2>2, <2>3, Zenon DEF e
<1> QED  BY <1>2, <1>5, Zenon DEF q, r, v, b, w

\* Two rows do not have the same number.
LEMMA IndexUnique ==
    ASSUME jf \in Pictures, NEW c \in Components, NEW y \in Nat,
           NEW d \in Components, NEW z \in Nat, IndexOf(c, y) = IndexOf(d, z)
    PROVE  c = d /\ y = z
<1>1. /\ y \div V(c) = z \div V(d)
      /\ Before(c) + (y % V(c)) = Before(d) + (z % V(d))
  BY IndexFacts
<1>2. /\ y % V(c) \in Nat /\ y % V(c) < V(c) /\ z % V(d) \in Nat /\ z % V(d) < V(d)
      /\ y = V(c) * (y \div V(c)) + (y % V(c)) /\ z = V(d) * (z \div V(d)) + (z % V(d))
  BY IndexFacts
<1>3. /\ Before(c) \in Nat /\ Before(d) \in Nat
      /\ d < c => Before(c) + V(c) <= Before(d)
      /\ c < d => Before(d) + V(d) <= Before(c)
  BY BeforeFacts, Zenon
<1>4. c \in Nat /\ d \in Nat
  BY PictureFacts
<1>5. V(c) \in Nat /\ V(d) \in Nat
  BY ComponentFacts
<1>6. c = d
  <2> DEFINE m == y % V(c)
             k == z % V(d)
  <2>1. m \in Nat /\ k \in Nat /\ m < V(c) /\ k < V(d) /\ Before(c) + m = Before(d) + k
    BY <1>1, <1>2
  <2> HIDE DEF m, k
  <2> QED  BY <2>1, <1>3, <1>4, <1>5
<1>7. y % V(c) = z % V(d)
  <2> DEFINE m == y % V(c)
             k == z % V(d)
  <2>1. m \in Nat /\ k \in Nat /\ Before(c) + m = Before(c) + k
    BY <1>1, <1>2, <1>6, Zenon
  <2> HIDE DEF m, k
  <2>2. m = k
    BY <2>1, <1>3
  <2> QED  BY <2>2 DEF m, k
<1>8. y = z
  BY <1>1, <1>2, <1>6, <1>7, Zenon
<1> QED  BY <1>6, <1>8

\* Later rows do not lie higher.
LEMMA IndexOrder ==
    ASSUME jf \in Pictures, NEW c \in Components, NEW y \in Nat,
           NEW d \in Components, NEW z \in Nat, IndexOf(c, y) <= IndexOf(d, z)
    PROVE  Luma(c, y) <= Luma(d, z) /\ y \div V(c) <= z \div V(d)
<1> DEFINE q == y \div V(c)
           p == z \div V(d)
           v == V(1)
<1>1. /\ q \in Nat /\ p \in Nat
      /\ y % V(c) \in Nat /\ y % V(c) < V(c) /\ z % V(d) \in Nat /\ z % V(d) < V(d)
      /\ y = V(c) * q + (y % V(c)) /\ z = V(d) * p + (z % V(d))
      /\ IndexOf(c, y) \in Nat /\ IndexOf(d, z) \in Nat
      /\ IndexOf(c, y) \div Before(0) = q /\ IndexOf(d, z) \div Before(0) = p
      /\ IndexOf(c, y) % Before(0) = Before(c) + (y % V(c))
      /\ IndexOf(d, z) % Before(0) = Before(d) + (z % V(d))
  BY IndexFacts
<1>2. /\ Before(0) \in Nat \ {0} /\ Before(c) \in Nat /\ Before(d) \in Nat
      /\ d < c => Before(c) + V(c) <= Before(d)
      /\ c < d => Before(d) + V(d) <= Before(c)
      /\ c \in Nat \ {0} /\ d \in Nat \ {0} /\ V(c) \in Nat /\ V(d) \in Nat /\ 1 \in Components /\ v \in Nat \ {0}
  <2>1. 1 \in Components /\ c \in Nat \ {0} /\ d \in Nat \ {0}
    BY PictureFacts
  <2>2. V(c) \in Nat /\ V(d) \in Nat /\ v \in Nat \ {0}
    BY <2>1, ComponentFacts
  <2>3. /\ Before(0) \in Nat \ {0} /\ Before(c) \in Nat /\ Before(d) \in Nat
        /\ d < c => Before(c) + V(c) <= Before(d)
        /\ c < d => Before(d) + V(d) <= Before(c)
    BY BeforeFacts, Zenon
  <2> QED  BY <2>1, <2>2, <2>3
<1>3. q <= p
  BY <1>1, <1>2, QuotientOrder
<1>4. Luma(c, y) \in Nat /\ v * q <= Luma(c, y) /\ Luma(c, y) < v * q + v
  <2>1. CASE c = 1
    <3> DEFINE e == y % V(c)
    <3>1. Luma(c, y) = y /\ v = V(c)
      BY <2>1 DEF Luma
    <3>2. e \in Nat /\ e < v /\ y = v * q + e
      BY <3>1, <1>1, Zenon
    <3>3. v \in Nat /\ q \in Nat
      BY <1>1, <1>2
    <3> HIDE DEF e, v, q
    <3>4. v * q \in Nat
      BY <3>3
    <3> QED  BY <3>1, <3>2, <3>3, <3>4
  <2>2. CASE c # 1
    <3>1. Luma(c, y) = q * v
      BY <2>2 DEF Luma
    <3>2. q \in Nat /\ v \in Nat \ {0}
      BY <1>1, <1>2
    <3> HIDE DEF q, v
    <3>3. q * v \in Nat /\ v * q = q * v
      BY <3>2
    <3> QED  BY <3>1, <3>2, <3>3
  <2> QED  BY <2>1, <2>2
<1>5. Luma(d, z) \in Nat /\ v * p <= Luma(d, z)
  <2>1. CASE d = 1
    BY <2>1, <1>1, <1>2 DEF Luma
  <2>2. CASE d # 1
    <3>1. Luma(d, z) = p * v
      BY <2>2 DEF Luma
    <3> HIDE DEF p, v
    <3> QED  BY <3>1, <1>1, <1>2
  <2> QED  BY <2>1, <2>2
<1>6. CASE q < p
  <2> HIDE DEF q, p, v
  <2>1. v * q + v <= v * p
    BY <1>1, <1>2, <1>6, ProductBelow
  <2>2. v * q \in Nat /\ v * p \in Nat
    BY <1>1, <1>2
  <2>3. Luma(c, y) <= Luma(d, z)
    BY <2>1, <2>2, <1>1, <1>2, <1>4, <1>5
  <2> QED  BY <2>3, <1>3 DEF q, p
<1>7. CASE q = p
  <2>1. Before(c) + (y % V(c)) <= Before(d) + (z % V(d))
    <3>1. /\ IndexOf(c, y) = Before(0) * q + (Before(c) + (y % V(c)))
          /\ IndexOf(d, z) = Before(0) * p + (Before(d) + (z % V(d)))
      <4> DEFINE w == Before(0)
                 k == IndexOf(c, y)
                 m == IndexOf(d, z)
      <4>1. w \in Nat \ {0} /\ k \in Nat /\ m \in Nat
        BY <1>1, <1>2
      <4> HIDE DEF w, k, m
      <4>2. k = w * (k \div w) + (k % w) /\ m = w * (m \div w) + (m % w)
        BY <4>1, QuotientExists
      <4> QED  BY <4>2, <1>1, Zenon DEF w, k, m
    <3> HIDE DEF q, p, v
    <3>2. Before(0) * q \in Nat
      BY <1>1, <1>2
    <3> QED  BY <3>1, <3>2, <1>1, <1>2, <1>7
  <2>2. c # 1 => Luma(c, y) = v * q
    <3>1. c # 1 => Luma(c, y) = q * v
      BY DEF Luma
    <3> HIDE DEF q, v
    <3> QED  BY <3>1, <1>1, <1>2
  <2>3. CASE c # 1
    BY <2>2, <2>3, <1>1, <1>3, <1>5, <1>7
  <2>4. CASE c = 1
    <3>1. d = 1
      BY <2>1, <2>4, <1>1, <1>2
    <3>2. y % V(1) <= z % V(1)
      BY <2>1, <2>4, <3>1, <1>1, <1>2
    <3>3. Luma(c, y) = y /\ Luma(d, z) = z
      BY <2>4, <3>1 DEF Luma
    <3> QED  BY <3>1, <3>2, <3>3, <2>4, <1>1, <1>2, <1>3, <1>7
  <2> QED  BY <2>3, <2>4
<1> QED  BY <1>1, <1>3, <1>6, <1>7

\* The component that has a row at this place of an MCU row.
LEMMA ComponentAtFacts ==
    ASSUME jf \in Pictures, NEW p \in Nat, p < Before(0)
    PROVE  /\ ComponentAt(p) \in Components
           /\ Before(ComponentAt(p)) <= p /\ p < Before(ComponentAt(p)) + V(ComponentAt(p))
           /\ RowsBefore[ComponentAt(p)] = Before(ComponentAt(p))
<1> DEFINE Holds(c) == RowsBefore[c] <= p /\ p < RowsBefore[c] + ComponentMultiple(c)
<1>1. \A c \in Components : RowsBefore[c] = Before(c) /\ ComponentMultiple(c) = V(c)
  <2>1. \A c \in Components : c \in 0 .. Len(jf.cmp_info)
    BY PictureFacts
  <2> QED  BY <2>1, RowsBeforeFacts, ComponentFacts, Zenon
<1>2. \E c \in Components : Before(c) <= p /\ p < Before(c) + V(c)
  BY BeforeFacts, Zenon
<1>3. \E c \in Components : Holds(c)
  BY <1>1, <1>2, Zenon
<1>4. ComponentAt(p) = CHOOSE c \in Components : Holds(c)
  BY Zenon DEF ComponentAt
<1>5. ComponentAt(p) \in Components /\ Holds(ComponentAt(p))
  <2> HIDE DEF Holds
  <2> QED  BY <1>3, <1>4, Zenon
<1> QED  BY <1>1, <1>5, Zenon

\* What RowSpec tells of row number k of the order.
SpecIs(k, c, y) ==
    /\ RowSpec(k).component = c /\ RowSpec(k).curr_y = y
    /\ IndexOf(c, y) = k /\ y \div V(c) = k \div Before(0)
    /\ RowSpec(k).mcu_row_index = y \div V(c)
    /\ RowSpec(k).luma_y = Luma(c, y)
    /\ RowSpec(k).skip = (y >= V(c) * McuRows(c))
    /\ RowSpec(k).done = (/\ y >= V(c) * McuRows(c)
                          /\ \A j \in Components : j < Len(jf.cmp_info) => McuRows(j) <= y \div V(c))
    /\ RowSpec(k).last_row_to_complete_mcu = (c = 1 /\ (y % V(c)) + 1 = V(c))

\* RowSpec goes through the rows in order.
LEMMA SpecFacts ==
    ASSUME HeightType, NEW k \in Nat
    PROVE  \E c \in Components, y \in Nat : SpecIs(k, c, y)
<1> DEFINE w == Before(0)
           row == k \div w
           place == k % w
           c == ComponentAt(place)
           v == V(c)
           off == place - Before(c)
           y == row * v + off
<1>0. jf \in Pictures
  BY DEF HeightType
<1>1. w \in Nat \ {0}
  BY <1>0, BeforeFacts, Zenon
<1>2. row \in Nat /\ place \in Nat /\ place < w /\ k = w * row + place
  <2> HIDE DEF w
  <2> QED  BY <1>1, QuotientExists
<1>3. /\ c \in Components /\ Before(c) <= place /\ place < Before(c) + v
      /\ RowsBefore[c] = Before(c)
  <2> HIDE DEF place
  <2> QED  BY <1>0, <1>2, ComponentAtFacts DEF w
<1>4. v \in Nat \ {0} /\ ComponentMultiple(c) = v /\ Before(c) \in Nat /\ Before(c) + v <= w
  BY <1>0, <1>3, ComponentFacts, BeforeFacts, Zenon
<1>5. off \in Nat /\ off < v /\ place = Before(c) + off
  <2> HIDE DEF c, v, place
  <2> QED  BY <1>2, <1>3, <1>4
<1>6. y \in Nat /\ y = v * row + off
  <2> HIDE DEF off, v, row
  <2>1. row * v \in Nat /\ row * v = v * row
    BY <1>2, <1>4
  <2> QED  BY <2>1, <1>5
<1>7. y \div v = row /\ y % v = off
  <2> HIDE DEF off, v, row, y
  <2> QED  BY <1>2, <1>4, <1>5, <1>6, QuotientFacts
<1>8. RowsBefore[0] = w
  <2>1. 0 \in 0 .. Len(jf.cmp_info)
    BY <1>0, PictureFacts
  <2> QED  BY <2>1, <1>0, RowsBeforeFacts, Zenon
<1>9. row * ComponentMultiple(c) + place - RowsBefore[c] = y
  <2>1. ComponentMultiple(c) = v /\ RowsBefore[c] = Before(c) /\ row * v \in Nat /\ place \in Nat /\ Before(c) \in Nat
    <3> HIDE DEF off, v, row, y, place, c
    <3> QED  BY <1>2, <1>3, <1>4
  <2> HIDE DEF v, row, place, c
  <2> QED  BY <2>1
<1>10. place - RowsBefore[c] = off
  BY <1>3
<1>11. IndexOf(c, y) = k
  <2>1. IndexOf(c, y) = row * w + Before(c) + off
    BY <1>7, Zenon DEF IndexOf
  <2> HIDE DEF w, row, off, place, c, y
  <2>2. row * w \in Nat /\ row * w = w * row
    BY <1>1, <1>2
  <2> QED  BY <2>1, <2>2, <1>2, <1>4, <1>5
<1>12. MaxCodedHeight(c) = v * McuRows(c)
  <2> HIDE DEF c
  <2> QED  BY <1>3, HeightFacts DEF v
<1>13. \A j \in Components :
          /\ MaxCodedHeight(j) = V(j) * McuRows(j) /\ ComponentMultiple(j) = V(j)
          /\ row * V(j) >= V(j) * McuRows(j) <=> McuRows(j) <= row
  <2> TAKE j \in Components
  <2>1. MaxCodedHeight(j) = V(j) * McuRows(j) /\ ComponentMultiple(j) = V(j)
    BY <1>0, HeightFacts, ComponentFacts, Zenon
  <2>2. V(j) \in Nat \ {0} /\ McuRows(j) \in Nat
    BY <1>0, McuRowsFacts, ComponentFacts
  <2> HIDE DEF row
  <2>3. V(j) * McuRows(j) \in Nat /\ row * V(j) \in Nat /\ row * V(j) = V(j) * row
    BY <2>2, <1>2
  <2>4. McuRows(j) <= row => V(j) * McuRows(j) <= V(j) * row
    BY <2>2, <1>2, ProductOrder
  <2>5. row < McuRows(j) => V(j) * row + V(j) <= V(j) * McuRows(j)
    BY <2>2, <1>2, ProductBelow
  <2>6. row * V(j) >= V(j) * McuRows(j) <=> McuRows(j) <= row
    BY <2>2, <2>3, <2>4, <2>5, <1>2
  <2> QED  BY <2>1, <2>6
<1>14. /\ 1 \in Components /\ \A j : j \in 1 .. Len(jf.cmp_info) - 1 <=> j \in Components /\ j < Len(jf.cmp_info)
  BY <1>0, PictureFacts
<1>15. RowSpec(k) =
         [component |-> c, curr_y |-> y, mcu_row_index |-> row,
          luma_y |-> IF c = 1 THEN y ELSE row * ComponentMultiple(1),
          last_row_to_complete_mcu |-> c = 1 /\ off + 1 = ComponentMultiple(c),
          skip |-> y >= MaxCodedHeight(c),
          done |-> y >= MaxCodedHeight(c) /\ \A j \in 1 .. Len(jf.cmp_info) - 1 :
                              row * ComponentMultiple(j) >= MaxCodedHeight(j)]
  BY <1>8, <1>9, <1>10, Zenon DEF RowSpec
<1>16. /\ RowSpec(k).component = c /\ RowSpec(k).curr_y = y
       /\ RowSpec(k).mcu_row_index = row
       /\ RowSpec(k).luma_y = (IF c = 1 THEN y ELSE row * ComponentMultiple(1))
       /\ RowSpec(k).last_row_to_complete_mcu = (c = 1 /\ off + 1 = ComponentMultiple(c))
       /\ RowSpec(k).skip = (y >= MaxCodedHeight(c))
       /\ RowSpec(k).done = (y >= MaxCodedHeight(c) /\ \A j \in 1 .. Len(jf.cmp_info) - 1 :
                               row * ComponentMultiple(j) >= MaxCodedHeight(j))
  <2> DEFINE luma == IF c = 1 THEN y ELSE row * ComponentMultiple(1)
             last == c = 1 /\ off + 1 = ComponentMultiple(c)
             skp == y >= MaxCodedHeight(c)
             end == skp /\ \A j \in 1 .. Len(jf.cmp_info) - 1 :
                               row * ComponentMultiple(j) >= MaxCodedHeight(j)
             sp == RowSpec(k)
  <2>1. sp = [component |-> c, curr_y |-> y, mcu_row_index |-> row, luma_y |-> luma,
              last_row_to_complete_mcu |-> last, skip |-> skp, done |-> end]
    BY <1>15, Zenon
  <2> HIDE DEF c, y, row, off, luma, last, skp, end, sp
  <2>2. /\ sp.component = c /\ sp.curr_y = y /\ sp.mcu_row_index = row /\ sp.luma_y = luma
        /\ sp.last_row_to_complete_mcu = last /\ sp.skip = skp /\ sp.done = end
    BY <2>1
  <2> QED  BY <2>2, Zenon DEF luma, last, skp, end, sp
<1>17. (\A j \in 1 .. Len(jf.cmp_info) - 1 : row * ComponentMultiple(j) >= MaxCodedHeight(j))
         <=> (\A j \in Components : j < Len(jf.cmp_info) => McuRows(j) <= row)
  <2> HIDE DEF row
  <2>1. \A j \in Components : row * ComponentMultiple(j) >= MaxCodedHeight(j) <=> McuRows(j) <= row
    <3> TAKE j \in Components
    <3>1. /\ MaxCodedHeight(j) = V(j) * McuRows(j) /\ ComponentMultiple(j) = V(j)
          /\ row * V(j) >= V(j) * McuRows(j) <=> McuRows(j) <= row
      BY <1>13
    <3> QED  BY <3>1, Zenon
  <2> QED  BY <2>1, <1>14, Zenon
<1>18. RowSpec(k).luma_y = Luma(c, y)
  <2>1. ComponentMultiple(1) = V(1)
    BY <1>0, <1>14, ComponentFacts, Zenon
  <2>2. y \div V(c) = row
    BY <1>7, Zenon
  <2> HIDE DEF c, y, row
  <2> QED  BY <1>16, <2>1, <2>2, Zenon DEF Luma
<1>19. SpecIs(k, c, y)
  <2>1. y \div V(c) = row /\ y % V(c) = off /\ row = k \div Before(0)
        /\ ComponentMultiple(c) = V(c) /\ MaxCodedHeight(c) = V(c) * McuRows(c)
    BY <1>4, <1>7, <1>12, Zenon
  <2> DEFINE ahead == \A j \in 1 .. Len(jf.cmp_info) - 1 : row * ComponentMultiple(j) >= MaxCodedHeight(j)
             over == \A j \in Components : j < Len(jf.cmp_info) => McuRows(j) <= row
             skp == y >= V(c) * McuRows(c)
  <2>2. ahead = over
    <3>1. ahead <=> over
      BY <1>17, Zenon
    <3>2. ahead \in BOOLEAN /\ over \in BOOLEAN
      BY Zenon
    <3> HIDE DEF ahead, over
    <3> QED  BY <3>1, <3>2
  <2>3. RowSpec(k).done = (skp /\ over)
    <3>1. RowSpec(k).done = (skp /\ ahead)
      <4> HIDE DEF c, y, row
      <4> QED  BY <1>16, <2>1, Zenon
    <3> HIDE DEF ahead, over, skp
    <3> QED  BY <2>2, <3>1, Zenon
  <2> HIDE DEF c, y, row, off
  <2>4. RowSpec(k).skip = skp
    BY <1>16, <2>1, Zenon
  <2>5. RowSpec(k).last_row_to_complete_mcu = (c = 1 /\ (y % V(c)) + 1 = V(c))
    BY <1>16, <2>1, Zenon
  <2>6. over = (\A j \in Components : j < Len(jf.cmp_info) => McuRows(j) <= y \div V(c))
    BY <2>1, Zenon
  <2> HIDE DEF over
  <2> QED  BY <1>11, <1>16, <1>18, <2>1, <2>3, <2>4, <2>5, <2>6, Zenon DEF SpecIs
<1> QED  BY <1>19, <1>3, <1>6

\* Every row has its turn.
LEMMA SpecAt ==
    ASSUME HeightType, NEW c \in Components, NEW y \in Nat
    PROVE  SpecIs(IndexOf(c, y), c, y)
<1>1. jf \in Pictures
  BY DEF HeightType
<1>2. IndexOf(c, y) \in Nat
  BY <1>1, IndexFacts
<1>3. PICK d \in Components, z \in Nat : SpecIs(IndexOf(c, y), d, z)
  BY <1>2, SpecFacts
<1>4. IndexOf(d, z) = IndexOf(c, y)
  BY <1>3 DEF SpecIs
<1>5. d = c /\ z = y
  BY <1>1, <1>4, IndexUnique
<1> QED  BY <1>3, <1>5, Zenon

LEMMA ReadHeights == ReadInv => HeightType
  BY Zenon DEF ReadInv, HeightType

\* When the end is met no component has a coded row left: the last one, which is not
\* looked at, is not ahead of the one that the first scan begins with.
LEMMA EndFacts ==
    ASSUME ReadInv, LastNotFirst(jf), NEW k \in Nat, RowSpec(k).done
    PROVE  \A c \in Components : McuRows(c) <= k \div Before(0)
<1>0. HeightType /\ jf \in Pictures
  BY ReadHeights DEF ReadInv
<1> DEFINE n == Len(jf.cmp_info)
           row == k \div Before(0)
<1>1. PICK d \in Components, y \in Nat : SpecIs(k, d, y)
  BY <1>0, SpecFacts
<1>2. /\ y \div V(d) = row /\ y >= V(d) * McuRows(d)
      /\ \A j \in Components : j < n => McuRows(j) <= row
  BY <1>1, Zenon DEF SpecIs
<1>3. n \in 1 .. 3 /\ Components = 1 .. n /\ First \in Components
  BY <1>0, PictureFacts, Zenon
<1>4. V(d) \in Nat \ {0} /\ McuRows(d) \in Nat
  BY <1>0, ComponentFacts, McuRowsFacts
<1>5. row \in Nat
  BY <1>2, <1>4, QuotientExists
<1>6. CASE n = 1
  <2>1. McuRows(d) <= y \div V(d)
    BY <1>2, <1>4, QuotientLargest
  <2>2. \A c \in Components : c = d
    BY <1>3, <1>6
  <2> QED  BY <2>1, <2>2, <1>2, Zenon
<1>7. CASE n > 1
  <2>1. First < n
    BY <1>3, <1>7 DEF LastNotFirst, First
  <2>2. McuRows(First) <= row
    BY <1>2, <1>3, <2>1
  <2>3. McuRows(n) <= McuRows(First)
    <3>1. n \in Components
      BY <1>3
    <3>2. RowOf(n, max_dpos[n]) <= RowOf(First, max_dpos[First])
      BY <3>1 DEF ReadInv
    <3>3. RowOf(n, max_dpos[n]) \in Nat /\ RowOf(First, max_dpos[First]) \in Nat /\ jf.mcuv \in Nat
      BY <1>0, <1>3, <3>1, RowOfFacts, PictureFacts DEF HeightType
    <3> HIDE DEF n
    <3> QED  BY <3>2, <3>3, <1>0 DEF McuRows, HeightType
  <2>4. McuRows(n) \in Nat /\ McuRows(First) \in Nat
    BY <1>0, <1>3, McuRowsFacts
  <2> HIDE DEF n, row
  <2>5. McuRows(n) <= row
    BY <2>2, <2>3, <2>4, <1>5
  <2> QED  BY <2>5, <1>2, <1>3 DEF row
<1>8. n = 1 \/ n > 1
  BY <1>3
<1> QED  BY <1>6, <1>7, <1>8, Zenon

\* Every row after the end is passed over, and is the end again.
LEMMA EndStays ==
    ASSUME ReadInv, LastNotFirst(jf), NEW k \in Nat, RowSpec(k).done, NEW m \in Nat, k <= m
    PROVE  RowSpec(m).skip /\ RowSpec(m).done
<1>0. HeightType /\ jf \in Pictures
  BY ReadHeights DEF ReadInv
<1>1. PICK c \in Components, y \in Nat : SpecIs(m, c, y)
  BY <1>0, SpecFacts
<1>2. /\ Before(0) \in Nat \ {0} /\ V(c) \in Nat \ {0}
      /\ \A j \in Components : McuRows(j) \in Nat
  BY <1>0, BeforeFacts, ComponentFacts, McuRowsFacts, Zenon
<1>3. k \div Before(0) \in Nat /\ m \div Before(0) \in Nat /\ k \div Before(0) <= m \div Before(0)
  BY <1>2, QuotientExists, QuotientOrder
<1>4. \A j \in Components : McuRows(j) <= m \div Before(0)
  BY <1>2, <1>3, EndFacts
<1>5. y \div V(c) = m \div Before(0)
  BY <1>1 DEF SpecIs
<1>6. y >= V(c) * McuRows(c)
  <2>1. V(c) * McuRows(c) <= V(c) * (y \div V(c))
    BY <1>2, <1>3, <1>4, <1>5, ProductOrder
  <2>2. V(c) * (y \div V(c)) <= y /\ V(c) * (y \div V(c)) \in Nat
    BY <1>2, QuotientExists
  <2>3. V(c) * McuRows(c) \in Nat
    BY <1>2
  <2> QED  BY <2>1, <2>2, <2>3
<1> QED  BY <1>1, <1>4, <1>5, <1>6, Zenon DEF SpecIs

-----------------------------------------------------------------------------
(* The positions of a scan                                                 *)

\* A block of MCU row r, counted from the beginning of that row.
LEMMA RowOfPlace ==
    ASSUME jf \in Pictures, NEW c \in Components, NEW r \in Nat, r < jf.mcuv,
           NEW e \in Nat, e < V(c) * ci(c).bch, NEW d, d = (V(c) * ci(c).bch) * r + e
    PROVE  d \in Nat /\ d < ci(c).bc /\ RowOf(c, d) = r
<1> DEFINE w == V(c) * ci(c).bch
<1>1. w \in Nat \ {0} /\ ci(c).bc = w * jf.mcuv /\ jf.mcuv \in Nat
  BY PictureFacts, ComponentFacts, Zenon
<1> HIDE DEF w
<1>2. d = w * r + e /\ e < w
  BY DEF w
<1>3. d \div w = r
  BY <1>1, <1>2, QuotientFacts
<1>4. w * r + w <= w * jf.mcuv
  BY <1>1, ProductBelow
<1>5. w * r \in Nat /\ w * jf.mcuv \in Nat
  BY <1>1
<1> QED  BY <1>1, <1>2, <1>3, <1>4, <1>5 DEF RowOf, w

\* The blocks of an MCU lie in its MCU row.
LEMMA BlockInMcuFacts ==
    ASSUME jf \in Pictures, NEW c \in Components, NEW mcu \in Nat, mcu < jf.mcuc,
           NEW sub \in Nat, sub < ci(c).mbs
    PROVE  LET d == BlockInMcu(jf, c, mcu, sub)
           IN  d \in Nat /\ d < ci(c).bc /\ RowOf(c, d) = mcu \div jf.mcuh
<1> DEFINE r == mcu \div jf.mcuh
           k == mcu % jf.mcuh
           f == ci(c).sfv
           v == V(c)
           b == ci(c).bch
           d == BlockInMcu(jf, c, mcu, sub)
<1>1. /\ jf.mcuh \in Nat \ {0} /\ jf.mcuv \in Nat \ {0} /\ jf.mcuc = jf.mcuv * jf.mcuh
      /\ f \in Nat \ {0} /\ v \in Nat \ {0} /\ b \in Nat \ {0} /\ b = jf.mcuh * f
      /\ ci(c).mbs = f * v /\ ci(c).sfh = v /\ v * b \in Nat \ {0}
  BY PictureFacts, ComponentFacts, Zenon
<1>2. r \in Nat /\ k \in Nat /\ k < jf.mcuh /\ mcu = jf.mcuh * r + k
  BY <1>1, QuotientExists
<1>3. r < jf.mcuv
  <2>1. mcu < jf.mcuh * jf.mcuv
    BY <1>1
  <2> QED  BY <1>1, <2>1, QuotientBelow
<1>4. d = IF v > 1 THEN (r * v + (sub \div f)) * b + k * f + (sub % f)
          ELSE IF f > 1 THEN mcu * (f * v) + sub ELSE mcu
  BY <1>1, Zenon DEF BlockInMcu, ci
<1> HIDE DEF d, r, k, f, v, b
<1>5. \A x \in Nat : x < f => k * f + x \in Nat /\ k * f + x < b
  <2> TAKE x \in Nat
  <2> HAVE x < f
  <2>1. f * k + f <= f * jf.mcuh
    BY <1>1, <1>2, ProductBelow
  <2>2. f * k = k * f /\ k * f \in Nat /\ f * jf.mcuh = b
    BY <1>1, <1>2
  <2> QED  BY <2>1, <2>2, <1>1
<1>6. \E e \in Nat : e < v * b /\ d = (v * b) * r + e
  <2>1. CASE v > 1
    <3> DEFINE a == sub \div f
               x == sub % f
    <3>1. a \in Nat /\ a < v
      BY <1>1, QuotientBelow
    <3>2. x \in Nat /\ x < f
      BY <1>1, QuotientExists
    <3> HIDE DEF a, x
    <3>3. k * f + x \in Nat /\ k * f + x < b
      BY <1>5, <3>2
    <3> DEFINE e == a * b + (k * f + x)
    <3>4. b * a + b <= b * v
      BY <1>1, <3>1, ProductBelow
    <3>5. a * b \in Nat /\ a * b = b * a /\ b * v = v * b
      BY <1>1, <3>1
    <3>6. e \in Nat /\ e < v * b
      BY <1>1, <3>3, <3>4, <3>5
    <3>7. d = (r * v + a) * b + k * f + x
      BY <2>1, <1>4 DEF a, x
    <3>8. (r * v + a) * b = (v * b) * r + a * b
      BY <1>1, <1>2, <3>1
    <3>9. k * f \in Nat /\ (v * b) * r \in Nat
      BY <1>1, <1>2
    <3>10. d = (v * b) * r + e
      BY <3>2, <3>5, <3>7, <3>8, <3>9
    <3> QED  BY <3>6, <3>10
  <2>2. CASE v = 1 /\ f > 1
    <3>1. sub < f
      BY <1>1, <2>2
    <3>2. k * f + sub \in Nat /\ k * f + sub < b
      BY <1>5, <3>1
    <3>3. d = mcu * f + sub
      BY <1>1, <1>4, <2>2
    <3>4. mcu * f = b * r + k * f
      BY <1>1, <1>2
    <3>5. k * f \in Nat /\ b * r \in Nat
      BY <1>1, <1>2
    <3>6. d = b * r + (k * f + sub)
      BY <3>3, <3>4, <3>5
    <3>7. v * b = b
      BY <1>1, <2>2
    <3> QED  BY <3>2, <3>6, <3>7
  <2>3. CASE v = 1 /\ f = 1
    <3>1. d = mcu /\ b = jf.mcuh /\ v * b = b
      BY <1>1, <1>4, <2>3
    <3> QED  BY <3>1, <1>2
  <2> QED  BY <1>1, <2>1, <2>2, <2>3
<1>7. d \in Nat /\ d < ci(c).bc /\ RowOf(c, d) = r
  BY <1>2, <1>3, <1>6, RowOfPlace DEF v, b
<1> QED  BY <1>7 DEF d, r

\* Counting MCUs up, a new MCU row begins with a multiple of its length.
LEMMA NextMcuRow ==
    ASSUME NEW m \in Nat \ {0}, NEW n \in Nat
    PROVE  (n + 1) \div m = IF (n + 1) % m = 0 THEN n \div m + 1 ELSE n \div m
<1> DEFINE q == n \div m
           r == n % m
<1>1. q \in Nat /\ r \in Nat /\ r < m /\ n = m * q + r
  BY QuotientExists
<1> HIDE DEF q, r
<1>2. CASE r + 1 = m
  <2>1. n + 1 = m * (q + 1) + 0
    BY <1>1, <1>2
  <2>2. (m * (q + 1) + 0) \div m = q + 1 /\ (m * (q + 1) + 0) % m = 0
    BY <1>1, QuotientFacts
  <2>3. (n + 1) \div m = q + 1 /\ (n + 1) % m = 0
    BY <2>1, <2>2, Zenon
  <2> QED  BY <2>3 DEF q
<1>3. CASE r + 1 < m
  <2>1. n + 1 = m * q + (r + 1)
    BY <1>1
  <2>2. (m * q + (r + 1)) \div m = q /\ (m * q + (r + 1)) % m = r + 1
    BY <1>1, <1>3, QuotientFacts
  <2>3. (n + 1) \div m = q /\ (n + 1) % m # 0
    BY <1>1, <2>1, <2>2
  <2> QED  BY <2>3 DEF q
<1> QED  BY <1>1, <1>2, <1>3

\* With u blocks per MCU, m MCUs per MCU row and v rows of b blocks in it, e is a later
\* block than d, in the same row of blocks or the first one of the next.
InRowOrNext(u, m, v, b, d, e) == v * b = m * u /\ d < e /\ e <= b * (d \div b) + b

\* The MCU row of e is known from that of d and the MCUs of both.
RowAfter(u, m, w, d, e) ==
    e \div w = IF (e \div u) % m = 0 /\ d \div u # e \div u THEN d \div w + 1 ELSE d \div w

\* In a scan of one component the MCU changes to the first one of an MCU row exactly
\* when the block does.
LEMMA NextBlockRow ==
    ASSUME NEW u \in Nat \ {0}, NEW m \in Nat \ {0}, NEW v \in Nat \ {0}, NEW b \in Nat \ {0},
           NEW d \in Nat, NEW e \in Nat, InRowOrNext(u, m, v, b, d, e)
    PROVE  RowAfter(u, m, v * b, d, e)
<1> SUFFICES ASSUME v * b = m * u, d < e, e <= b * (d \div b) + b
             PROVE  e \div (v * b) = IF (e \div u) % m = 0 /\ d \div u # e \div u
                                    THEN d \div (v * b) + 1 ELSE d \div (v * b)
  BY Zenon DEF RowAfter, InRowOrNext
<1> DEFINE w == v * b
           r == d \div w
           k == d \div b
           i == d \div u
           j == e \div u
<1>1. w \in Nat \ {0} /\ w = m * u
  OBVIOUS
<1>2. /\ r \in Nat /\ w * r <= d /\ d < w * r + w
      /\ k \in Nat /\ b * k <= d
      /\ i \in Nat /\ u * i <= d /\ d < u * i + u
      /\ j \in Nat /\ u * j <= e /\ e < u * j + u
  <2> HIDE DEF w
  <2>1. r \in Nat /\ w * r <= d /\ d < w * r + w
    <3> DEFINE x == d % w
    <3>1. r \in Nat /\ x \in Nat /\ x < w /\ d = w * r + x
      BY <1>1, QuotientExists
    <3> HIDE DEF r, x
    <3>2. w * r \in Nat
      BY <1>1, <3>1
    <3> QED  BY <1>1, <3>1, <3>2
  <2>2. k \in Nat /\ b * k <= d
    BY QuotientExists
  <2>3. i \in Nat /\ u * i <= d /\ d < u * i + u
    BY QuotientExists
  <2>4. j \in Nat /\ u * j <= e /\ e < u * j + u
    BY QuotientExists
  <2> QED  BY <2>1, <2>2, <2>3, <2>4
<1>3. i \div m = r /\ j \div m = e \div w
  <2> HIDE DEF w
  <2>1. i \div m = d \div (m * u) /\ j \div m = e \div (m * u)
    BY QuotientTwice
  <2> QED  BY <2>1, <1>1
<1>4. e <= w * r + w
  <2>1. b * k + b <= b * (v * (r + 1))
    <3>1. d < b * (v * (r + 1))
      <4>1. w * r + w = b * (v * (r + 1))
        <5> HIDE DEF r
        <5> QED  BY <1>2
      <4> QED  BY <4>1, <1>2
    <3>2. v * (r + 1) \in Nat
      <4> HIDE DEF r
      <4> QED  BY <1>2
    <3>3. k < v * (r + 1)
      <4> HIDE DEF r
      <4> QED  BY <3>1, <3>2, QuotientBelow
    <3> HIDE DEF k, r
    <3> QED  BY <1>2, <3>2, <3>3, ProductBelow
  <2>2. b * (v * (r + 1)) = w * r + w /\ w * r \in Nat
    <3> HIDE DEF r
    <3> QED  BY <1>2
  <2>3. e <= b * k + b /\ b * k \in Nat
    BY <1>2
  <2> HIDE DEF w, r, k
  <2> QED  BY <2>1, <2>2, <2>3, <1>1
<1>5. i <= j
  <2>1. d <= e
    OBVIOUS
  <2> QED  BY <2>1, QuotientOrder, Zenon
<1> HIDE DEF w, r, k, i, j
<1>6. CASE e = w * r + w
  <2>1. w * r + w = w * (r + 1) /\ w * (r + 1) = u * (m * (r + 1)) /\ m * (r + 1) \in Nat
    BY <1>1, <1>2
  <2>2. e \div w = r + 1
    <3>1. (w * (r + 1) + 0) \div w = r + 1
      BY <1>1, <1>2, QuotientFacts
    <3>2. e = w * (r + 1) + 0
      BY <1>1, <1>2, <1>6, <2>1
    <3> QED  BY <3>1, <3>2, Zenon
  <2>3. j = m * (r + 1)
    <3>1. (u * (m * (r + 1)) + 0) \div u = m * (r + 1)
      <4> DEFINE x == m * (r + 1)
      <4>1. x \in Nat
        BY <2>1
      <4> HIDE DEF x
      <4>2. (u * x + 0) \div u = x
        BY <4>1, QuotientFacts
      <4> QED  BY <4>2 DEF x
    <3>2. e = u * (m * (r + 1)) + 0
      BY <1>1, <1>2, <1>6, <2>1
    <3> QED  BY <3>1, <3>2, Zenon DEF j
  <2>4. j % m = 0
    <3>1. (m * (r + 1) + 0) % m = 0
      <4>1. r + 1 \in Nat /\ 0 \in Nat /\ 0 < m
        BY <1>2
      <4> QED  BY <4>1, QuotientFacts, Zenon
    <3>2. j = m * (r + 1) + 0
      BY <2>1, <2>3
    <3> QED  BY <3>1, <3>2, Zenon
  <2>5. i # j
    <3>1. ASSUME i = j PROVE FALSE
      <4>1. u * i = e
        BY <1>1, <1>2, <1>6, <2>1, <2>3, <3>1
      <4> QED  BY <4>1, <1>2
    <3> QED  BY <3>1
  <2> QED  BY <2>2, <2>4, <2>5, Zenon DEF i, j, w, r
<1>7. CASE e < w * r + w
  <2>1. e \div w = r
    <3>1. w * r <= e
      BY <1>1, <1>2
    <3> QED  BY <1>1, <1>2, <1>7, <3>1, Quotient
  <2>2. ASSUME j % m = 0 PROVE i = j
    <3>1. j = m * (j \div m) + (j % m) /\ i = m * (i \div m) + (i % m) /\ i % m \in Nat
      BY <1>2, QuotientExists
    <3>2. j \div m = r /\ i \div m = r
      BY <1>3, <2>1
    <3>3. j = m * r + 0
      BY <3>1, <3>2, <2>2, Zenon
    <3>4. i = m * r + (i % m) /\ m * r \in Nat
      BY <3>1, <3>2, <1>2
    <3> DEFINE x == i % m
    <3> HIDE DEF x
    <3>5. i = m * r + x /\ x \in Nat
      BY <3>1, <3>4 DEF x
    <3> QED  BY <3>3, <3>4, <3>5, <1>2, <1>5
  <2> QED  BY <2>1, <2>2, Zenon DEF i, j, w, r
<1>8. e = w * r + w \/ e < w * r + w
  BY <1>1, <1>2, <1>4
<1> QED  BY <1>6, <1>7, <1>8

\* The next block in a scan of one component: the padding to the right is skipped.
LEMMA NextBlock ==
    ASSUME NEW b \in Nat \ {0}, NEW n \in 1 .. b, NEW d \in Nat
    PROVE  LET e == IF b # n /\ (d + 1) % b = n THEN d + 1 + b - n ELSE d + 1
           IN  e \in Nat /\ d < e /\ e <= b * (d \div b) + b
<1> DEFINE q == d \div b
           r == d % b
<1>1. q \in Nat /\ r \in Nat /\ r < b /\ d = b * q + r
  BY QuotientExists
<1> HIDE DEF q, r
<1>2. b * q \in Nat
  BY <1>1
<1>3. CASE r + 1 < b
  <2>1. (b * q + (r + 1)) % b = r + 1
    BY <1>1, <1>3, QuotientFacts
  <2>2. d + 1 = b * q + (r + 1)
    BY <1>1, <1>2
  <2>3. (d + 1) % b = r + 1
    BY <2>1, <2>2
  <2> QED  BY <1>1, <1>2, <1>3, <2>3 DEF q
<1>4. CASE r + 1 = b
  <2>1. (b * (q + 1) + 0) % b = 0
    BY <1>1, QuotientFacts
  <2>2. d + 1 = b * (q + 1) + 0 /\ d + 1 = b * q + b
    BY <1>1, <1>2, <1>4
  <2>3. (d + 1) % b = 0
    BY <2>1, <2>2
  <2> QED  BY <1>1, <1>2, <2>2, <2>3 DEF q
<1> QED  BY <1>1, <1>3, <1>4

\* Stepped changes the restart counter only.
LEMMA SteppedFacts ==
    ASSUME jf \in Pictures, NEW p \in Positions, NEW complete \in BOOLEAN
    PROVE  LET next == Stepped(jf, p, complete)
           IN  /\ next.s \in Positions
               /\ next.s.cmp = p.cmp /\ next.s.mcu = p.mcu /\ next.s.csc = p.csc
               /\ next.s.sub = p.sub /\ next.s.dpos = p.dpos
               /\ next.sta = "ScanCompleted" <=> complete
<1> DEFINE q == IF ~complete /\ jf.rsti > 0 THEN [p EXCEPT !.rstw = @ - 1] ELSE p
           next == Stepped(jf, p, complete)
<1>1. /\ q \in Positions
      /\ q.cmp = p.cmp /\ q.mcu = p.mcu /\ q.csc = p.csc /\ q.sub = p.sub /\ q.dpos = p.dpos
  <2>1. [p EXCEPT !.rstw = @ - 1] \in Positions
    BY DEF Positions
  <2> QED  BY <2>1 DEF Positions
<1>2. next = [s |-> q, sta |-> IF complete THEN "ScanCompleted"
                               ELSE IF jf.rsti > 0 /\ q.rstw = 0 THEN "RestartIntervalExpired"
                               ELSE "DecodeInProgress"]
  BY Zenon DEF Stepped
<1>3. next.s = q /\ next.sta = IF complete THEN "ScanCompleted"
                                ELSE IF jf.rsti > 0 /\ q.rstw = 0 THEN "RestartIntervalExpired"
                                ELSE "DecodeInProgress"
  <2> HIDE DEF q, next
  <2> QED  BY <1>2
<1> HIDE DEF q, next
<1>4. next.sta = "ScanCompleted" <=> complete
  BY <1>3
<1> QED  BY <1>1, <1>3, <1>4, Zenon DEF next

\* From the reader's position to p, the next one.
Follows(p) ==
    /\ p \in Positions
    /\ p.csc < Len(jf.cs_cmp) /\ p.cmp = jf.cs_cmp[p.csc + 1]
    /\ p.dpos < ci(p.cmp).bc
    /\ RowOf(p.cmp, p.dpos) = p.mcu \div jf.mcuh
    /\ Len(jf.cs_cmp) > 1 => p.mcu < jf.mcuc
    /\ Len(jf.cs_cmp) = 1 => p.mcu = p.dpos \div (ci(p.cmp).sfv * ci(p.cmp).sfh)
    /\ p.csc > 0 => p.mcu = s.mcu
    /\ p.mcu \div jf.mcuh = IF p.mcu % jf.mcuh = 0 /\ s.mcu # p.mcu
                            THEN s.mcu \div jf.mcuh + 1 ELSE s.mcu \div jf.mcuh

\* In a scan of one component.
LEMMA NextSingle ==
    ASSUME jf \in Pictures, PositionInv, Len(jf.cs_cmp) = 1
    PROVE  LET next == NextMcuPos(jf, s)
           IN  next.s \in Positions /\ (next.sta # "ScanCompleted" => Follows(next.s))
<1> DEFINE c == s.cmp
           i == jf.cmp_info[c]
           d == s.dpos
           e == IF i.bch # i.nch /\ (d + 1) % i.bch = i.nch THEN d + 1 + i.bch - i.nch ELSE d + 1
           f == IF i.bcv # i.ncv /\ e \div i.bch = i.ncv THEN i.bc ELSE e
           u == i.sfv * i.sfh
           p == [s EXCEPT !.dpos = f, !.mcu = f \div u]
           next == NextMcuPos(jf, s)
<1>1. s \in Positions /\ s.csc = 0 /\ c = jf.cs_cmp[1] /\ c \in Components /\ d \in Nat /\ s.mcu \in Nat
  <2>1. s \in Positions /\ s.csc < 1 /\ c = jf.cs_cmp[s.csc + 1]
    BY Zenon DEF PositionInv
  <2>2. s.csc \in Nat /\ d \in Nat /\ s.mcu \in Nat
    BY <2>1 DEF Positions
  <2>3. s.csc = 0
    BY <2>1, <2>2
  <2>4. jf.cs_cmp[1] \in Components
    BY PictureFacts DEF First
  <2> QED  BY <2>1, <2>2, <2>3, <2>4
<1>2. /\ i.sfh \in Nat \ {0} /\ i.sfv \in Nat \ {0} /\ i.bch \in Nat \ {0} /\ i.bc \in Nat \ {0}
      /\ i.nch \in 1 .. i.bch /\ i.bch = jf.mcuh * i.sfv /\ V(c) = i.sfh /\ ci(c) = i
      /\ jf.mcuh \in Nat \ {0}
  BY <1>1, ComponentFacts, PictureFacts, Zenon DEF ci
<1> HIDE DEF c, d, i
<1>3. u \in Nat \ {0} /\ i.sfh * i.bch = jf.mcuh * u
  BY <1>2
<1>4. e \in Nat /\ d < e /\ e <= i.bch * (d \div i.bch) + i.bch
  BY <1>1, <1>2, NextBlock, Zenon
<1>5. f \in Nat
  BY <1>2, <1>4
<1>6. next = Stepped(jf, p, f >= i.bc)
  <2>1. next = NextNonInterleaved(jf, s)
    BY Zenon DEF NextMcuPos
  <2>2. jf.sequential
    BY PictureFacts, Zenon
  <2> QED  BY <2>1, <2>2, Zenon DEF NextNonInterleaved, i, c, d
<1> HIDE DEF u, e, next
<1>7. f \div u \in Nat
  <2> HIDE DEF f
  <2> QED  BY <1>3, <1>5, QuotientExists
<1>8. /\ p \in Positions /\ p.cmp = s.cmp /\ p.csc = s.csc
      /\ p.dpos = f /\ p.mcu = f \div u
  <2> HIDE DEF f
  <2>1. [s EXCEPT !.dpos = f, !.mcu = f \div u] \in Positions
    BY <1>1, <1>5, <1>7 DEF Positions
  <2> QED  BY <2>1, <1>1 DEF Positions
<1> HIDE DEF p
<1>9. (f >= i.bc) \in BOOLEAN
  OBVIOUS
<1>10. /\ next.s \in Positions
       /\ next.s.cmp = p.cmp /\ next.s.mcu = p.mcu /\ next.s.csc = p.csc
       /\ next.s.sub = p.sub /\ next.s.dpos = p.dpos
       /\ next.sta = "ScanCompleted" <=> f >= i.bc
  <2> DEFINE complete == f >= i.bc
  <2> HIDE DEF complete
  <2>1. complete \in BOOLEAN
    BY <1>9 DEF complete
  <2> QED  BY <1>6, <1>8, <2>1, SteppedFacts DEF complete
<1>11. ASSUME next.sta # "ScanCompleted" PROVE Follows(next.s)
  <2>1. f < i.bc /\ f = e
    BY <1>2, <1>4, <1>5, <1>10, <1>11
  <2>2. next.s.csc = 0 /\ next.s.cmp = c /\ next.s.dpos = e /\ next.s.mcu = e \div u
    BY <1>1, <1>8, <1>10, <2>1 DEF c
  <2>3. s.mcu = d \div u
    BY Zenon DEF PositionInv, c, d, u, i, ci
  <2>4. RowOf(c, e) = (e \div u) \div jf.mcuh /\ RowOf(c, d) = (d \div u) \div jf.mcuh
    <3>1. (e \div u) \div jf.mcuh = e \div (jf.mcuh * u) /\ (d \div u) \div jf.mcuh = d \div (jf.mcuh * u)
      <4>1. \A a, b \in Nat \ {0} : \A n \in Nat : (n \div a) \div b = n \div (b * a)
        BY QuotientTwice
      <4>2. u \in Nat \ {0} /\ jf.mcuh \in Nat \ {0} /\ d \in Nat /\ e \in Nat
        BY <1>1, <1>2, <1>3, <1>4
      <4> QED  BY <4>1, <4>2, Zenon
    <3>2. V(c) * ci(c).bch = jf.mcuh * u
      BY <1>2, <1>3
    <3> QED  BY <3>1, <3>2 DEF RowOf
  <2>5. RowAfter(u, jf.mcuh, i.sfh * i.bch, d, e)
    <3>1. /\ u \in Nat \ {0} /\ jf.mcuh \in Nat \ {0} /\ i.sfh \in Nat \ {0} /\ i.bch \in Nat \ {0}
          /\ d \in Nat /\ e \in Nat
      BY <1>1, <1>2, <1>3, <1>4
    <3>2. InRowOrNext(u, jf.mcuh, i.sfh, i.bch, d, e)
      BY <1>3, <1>4 DEF InRowOrNext
    <3> QED  BY <3>1, <3>2, NextBlockRow, Zenon
  <2>6. RowOf(c, e) = e \div (i.sfh * i.bch) /\ RowOf(c, d) = d \div (i.sfh * i.bch)
    BY <1>2 DEF RowOf
  <2>7. (e \div u) \div jf.mcuh = IF (e \div u) % jf.mcuh = 0 /\ s.mcu # e \div u
                                  THEN s.mcu \div jf.mcuh + 1 ELSE s.mcu \div jf.mcuh
    <3>1. (e \div u) \div jf.mcuh = IF (e \div u) % jf.mcuh = 0 /\ d \div u # e \div u
                                   THEN d \div (i.sfh * i.bch) + 1 ELSE d \div (i.sfh * i.bch)
      BY <2>4, <2>5, <2>6, Zenon DEF RowAfter
    <3>2. d \div (i.sfh * i.bch) = s.mcu \div jf.mcuh
      BY <2>3, <2>4, <2>6, Zenon
    <3> QED  BY <2>3, <3>1, <3>2, Zenon
  <2>8. next.s.csc < Len(jf.cs_cmp) /\ next.s.cmp = jf.cs_cmp[next.s.csc + 1] /\ ~(Len(jf.cs_cmp) > 1)
        /\ ~(next.s.csc > 0)
    BY <1>1, <2>2 DEF c
  <2>9. next.s.dpos < ci(next.s.cmp).bc
    BY <1>2, <2>1, <2>2
  <2>10. next.s.mcu = next.s.dpos \div (ci(next.s.cmp).sfv * ci(next.s.cmp).sfh)
    BY <1>2, <2>2, Zenon DEF u
  <2>11. RowOf(next.s.cmp, next.s.dpos) = next.s.mcu \div jf.mcuh
    BY <2>2, <2>4, Zenon
  <2>12. next.s.mcu \div jf.mcuh = IF next.s.mcu % jf.mcuh = 0 /\ s.mcu # next.s.mcu
                                  THEN s.mcu \div jf.mcuh + 1 ELSE s.mcu \div jf.mcuh
    BY <2>2, <2>7, Zenon
  <2> QED  BY <1>10, <2>8, <2>9, <2>10, <2>11, <2>12, Zenon DEF Follows
<1> QED  BY <1>10, <1>11, Zenon DEF next

\* In a scan of several components.
LEMMA NextInterleaved ==
    ASSUME jf \in Pictures, PositionInv, Len(jf.cs_cmp) # 1
    PROVE  LET next == NextMcuPos(jf, s)
           IN  next.sta # "ScanCompleted" => Follows(next.s)
<1> DEFINE inCmp == s.sub + 1 < jf.cmp_info[s.cmp].mbs
           inMcu == s.csc + 1 < Len(jf.cs_cmp)
           sub   == IF inCmp THEN s.sub + 1 ELSE 0
           csc   == IF inCmp THEN s.csc ELSE IF inMcu THEN s.csc + 1 ELSE 0
           cmp   == IF inCmp THEN s.cmp ELSE jf.cs_cmp[csc + 1]
           mcu   == IF inCmp \/ inMcu THEN s.mcu ELSE s.mcu + 1
           dpos  == BlockInMcu(jf, cmp, mcu, sub)
           p     == [s EXCEPT !.sub = sub, !.csc = csc, !.cmp = cmp, !.mcu = mcu, !.dpos = dpos]
           next  == NextMcuPos(jf, s)
<1>1. /\ s \in Positions /\ s.csc \in Nat /\ s.sub \in Nat /\ s.mcu \in Nat
      /\ s.csc < Len(jf.cs_cmp) /\ s.cmp = jf.cs_cmp[s.csc + 1] /\ Len(jf.cs_cmp) \in Nat
      /\ Len(jf.cs_cmp) > 1 /\ s.mcu < jf.mcuc
      /\ \A k \in 1 .. Len(jf.cs_cmp) : jf.cs_cmp[k] \in Components /\ jf.cs_cmp[k] \in Nat
  <2>1. s \in Positions /\ s.csc < Len(jf.cs_cmp) /\ s.cmp = jf.cs_cmp[s.csc + 1]
    BY Zenon DEF PositionInv
  <2>2. s.csc \in Nat /\ s.sub \in Nat /\ s.mcu \in Nat
    BY <2>1 DEF Positions
  <2>3. /\ Len(jf.cs_cmp) \in Nat \ {0} /\ Components = 1 .. Len(jf.cmp_info)
        /\ \A k \in 1 .. Len(jf.cs_cmp) : jf.cs_cmp[k] \in Components
    BY PictureFacts, Zenon
  <2>4. \A k \in 1 .. Len(jf.cs_cmp) : jf.cs_cmp[k] \in Nat
    BY <2>3
  <2>5. Len(jf.cs_cmp) > 1
    <3> DEFINE n == Len(jf.cs_cmp)
    <3>1. n \in Nat \ {0} /\ n # 1
      BY <2>3
    <3> HIDE DEF n
    <3>2. n > 1
      BY <3>1
    <3> QED  BY <3>2 DEF n
  <2>6. s.mcu < jf.mcuc
    BY <2>5 DEF PositionInv
  <2> QED  BY <2>1, <2>2, <2>3, <2>4, <2>5, <2>6
<1>2. /\ sub \in Nat /\ csc \in Nat /\ csc < Len(jf.cs_cmp) /\ cmp = jf.cs_cmp[csc + 1]
      /\ mcu \in Nat /\ (mcu = s.mcu \/ (mcu = s.mcu + 1 /\ csc = 0))
  <2> HIDE DEF inCmp, inMcu
  <2>1. CASE inCmp
    BY <1>1, <2>1
  <2>2. CASE ~inCmp /\ inMcu
    BY <1>1, <2>2 DEF inMcu
  <2>3. CASE ~inCmp /\ ~inMcu
    BY <1>1, <2>3
  <2> QED  BY <2>1, <2>2, <2>3
<1> HIDE DEF csc, mcu
<1>3. cmp \in Components /\ cmp \in Nat
  <2>1. csc + 1 \in 1 .. Len(jf.cs_cmp)
    BY <1>1, <1>2
  <2> HIDE DEF cmp
  <2> QED  BY <1>1, <1>2, <2>1
<1>4. sub < ci(cmp).mbs
  <2>1. ci(cmp).mbs \in Nat \ {0}
    <3> HIDE DEF cmp
    <3>1. ci(cmp).sfv \in Nat \ {0} /\ V(cmp) \in Nat \ {0} /\ ci(cmp).mbs = ci(cmp).sfv * V(cmp)
      BY <1>3, ComponentFacts, Zenon
    <3> QED  BY <3>1
  <2>2. CASE inCmp
    BY <1>1, <2>2 DEF ci
  <2>3. CASE ~inCmp
    <3>1. sub = 0
      BY <2>3
    <3> HIDE DEF cmp, sub
    <3> QED  BY <2>1, <3>1
  <2> QED  BY <2>2, <2>3
<1> HIDE DEF cmp, sub
<1>5. mcu < jf.mcuc => dpos \in Nat /\ dpos < ci(cmp).bc /\ RowOf(cmp, dpos) = mcu \div jf.mcuh
  BY <1>2, <1>3, <1>4, BlockInMcuFacts
<1>6. next = IF mcu = s.mcu THEN [s |-> p, sta |-> "DecodeInProgress"] ELSE Stepped(jf, p, mcu >= jf.mcuc)
  BY Zenon DEF NextMcuPos, sub, csc, cmp, mcu
<1> HIDE DEF next, dpos
<1>7. ASSUME next.sta # "ScanCompleted" PROVE mcu < jf.mcuc
  <2>1. ASSUME mcu >= jf.mcuc PROVE next.sta = "ScanCompleted"
    <3>1. mcu # s.mcu
      <4> DEFINE x == jf.mcuc
      <4>1. s.mcu \in Nat /\ mcu \in Nat /\ s.mcu < x /\ mcu >= x /\ x \in Int
        <5>1. \A a, b \in Nat : a * b \in Int
          OBVIOUS
        <5>2. jf.mcuc = jf.mcuv * jf.mcuh /\ jf.mcuv \in Nat /\ jf.mcuh \in Nat
          BY PictureFacts
        <5> QED  BY <1>1, <1>2, <2>1, <5>1, <5>2
      <4> HIDE DEF x
      <4> QED  BY <4>1
    <3>2. next = Stepped(jf, p, TRUE)
      BY <1>6, <2>1, <3>1
    <3> QED  BY <3>2 DEF Stepped
  <2>2. jf.mcuc \in Nat
    BY PictureFacts
  <2> QED  BY <1>2, <1>7, <2>1, <2>2
<1> SUFFICES ASSUME next.sta # "ScanCompleted" PROVE Follows(next.s)
  BY DEF next
<1>8. /\ p \in Positions /\ p.cmp = cmp /\ p.mcu = mcu /\ p.csc = csc /\ p.dpos = dpos
  <2>1. dpos \in Nat
    BY <1>5, <1>7
  <2> QED  BY <1>1, <1>2, <1>3, <2>1 DEF Positions, sub
<1> HIDE DEF p
<1>9. /\ next.s \in Positions
      /\ next.s.cmp = cmp /\ next.s.mcu = mcu /\ next.s.csc = csc /\ next.s.dpos = dpos
  <2>1. CASE mcu = s.mcu
    BY <1>6, <1>8, <2>1
  <2>2. CASE mcu # s.mcu
    <3> DEFINE complete == mcu >= jf.mcuc
    <3>1. complete \in BOOLEAN
      OBVIOUS
    <3>2. next = Stepped(jf, p, complete)
      BY <1>6, <2>2
    <3> HIDE DEF complete
    <3> QED  BY <1>8, <3>1, <3>2, SteppedFacts
  <2> QED  BY <2>1, <2>2
<1>10. mcu \div jf.mcuh = IF mcu % jf.mcuh = 0 /\ s.mcu # mcu
                         THEN s.mcu \div jf.mcuh + 1 ELSE s.mcu \div jf.mcuh
  <2>1. CASE mcu = s.mcu
    BY <2>1
  <2>2. CASE mcu = s.mcu + 1
    <3>1. jf.mcuh \in Nat \ {0}
      BY PictureFacts, Zenon
    <3>2. (s.mcu + 1) \div jf.mcuh = IF (s.mcu + 1) % jf.mcuh = 0
                                     THEN s.mcu \div jf.mcuh + 1 ELSE s.mcu \div jf.mcuh
      BY <1>1, <3>1, NextMcuRow
    <3>3. s.mcu # mcu
      BY <1>1, <2>2
    <3> QED  BY <2>2, <3>2, <3>3, Zenon
  <2> QED  BY <1>2, <2>1, <2>2
<1>11. csc > 0 => mcu = s.mcu
  BY <1>2
<1>12. /\ next.s \in Positions
       /\ next.s.csc < Len(jf.cs_cmp) /\ next.s.cmp = jf.cs_cmp[next.s.csc + 1]
       /\ next.s.dpos < ci(next.s.cmp).bc
       /\ RowOf(next.s.cmp, next.s.dpos) = next.s.mcu \div jf.mcuh
       /\ next.s.mcu < jf.mcuc
  BY <1>2, <1>5, <1>7, <1>9
<1> QED  BY <1>1, <1>9, <1>10, <1>11, <1>12 DEF Follows

\* The next position of a scan.
LEMMA NextFacts ==
    ASSUME jf \in Pictures, PositionInv, NextMcuPos(jf, s).sta # "ScanCompleted"
    PROVE  Follows(NextMcuPos(jf, s).s)
  BY NextSingle, NextInterleaved, Zenon

-----------------------------------------------------------------------------
(* Reading                                                                 *)

\* The first of the components is there.
LEMMA FirstFacts ==
    ASSUME jf \in Pictures
    PROVE  1 \in Components /\ V(1) \in Nat \ {0}
<1>1. 1 \in Components
  BY PictureFacts
<1> QED  BY <1>1, ComponentFacts, Zenon

\* The handoff of an MCU row.
LEMMA RowHandoffFacts ==
    ASSUME jf \in Pictures, NEW mcu \in Nat
    PROVE  /\ mcu \div jf.mcuh \in Nat
           /\ RowHandoff(mcu) \in [luma_y_start : Nat, luma_y_end : Nat]
           /\ RowHandoff(mcu).luma_y_start = V(1) * (mcu \div jf.mcuh)
           /\ RowHandoff(mcu).luma_y_end = V(1) * (mcu \div jf.mcuh + 1)
<1> DEFINE r == mcu \div jf.mcuh
           m == ci(1).bcv \div jf.mcuv
<1>1. r \in Nat
  BY PictureFacts, QuotientExists, Zenon
<1>2. m = V(1) /\ V(1) \in Nat
  <2>1. ComponentMultiple(1) = V(1) /\ V(1) \in Nat \ {0}
    BY FirstFacts, ComponentFacts, Zenon
  <2> QED  BY <2>1 DEF ComponentMultiple
<1>3. RowHandoff(mcu) = [luma_y_start |-> m * r, luma_y_end |-> m * (r + 1)]
  BY Zenon DEF RowHandoff
<1> HIDE DEF r, m
<1>4. m * r \in Nat /\ m * (r + 1) \in Nat
  BY <1>1, <1>2
<1> QED  BY <1>1, <1>2, <1>3, <1>4 DEF r

\* An image reaches up to the block that is put into it, or ends where it did.
LEMMA FillFacts ==
    ASSUME NEW img \in Seq(Int \X Int), NEW d \in Nat, NEW block \in Int \X Int
    PROVE  /\ FillUpToDpos(img, d, block) \in Seq(Int \X Int)
           /\ Len(FillUpToDpos(img, d, block)) = IF d < Len(img) THEN Len(img) ELSE d + 1
<1>1. Len(img) \in Nat
  BY LenProperties
<1>2. CASE d < Len(img)
  <2>1. FillUpToDpos(img, d, block) = [img EXCEPT ![d + 1] = block]
    BY <1>2 DEF FillUpToDpos
  <2>2. d + 1 \in 1 .. Len(img)
    BY <1>1, <1>2
  <2>3. [img EXCEPT ![d + 1] = block] \in Seq(Int \X Int) /\ Len([img EXCEPT ![d + 1] = block]) = Len(img)
    BY <2>2, ExceptSeq
  <2> QED  BY <2>1, <2>3, <1>2
<1>3. CASE ~(d < Len(img))
  <2> DEFINE gap == [i \in 1 .. d - Len(img) |-> Zero]
             tail == <<block>>
  <2>1. FillUpToDpos(img, d, block) = (img \o gap) \o tail
    BY <1>3, Zenon DEF FillUpToDpos
  <2>2. d - Len(img) \in Nat
    BY <1>1, <1>3
  <2>3. gap \in Seq(Int \X Int) /\ Len(gap) = d - Len(img)
    <3>1. Zero \in Int \X Int
      BY DEF Zero
    <3> DEFINE n == d - Len(img)
    <3> HIDE DEF n
    <3>2. [i \in 1 .. n |-> Zero] \in Seq(Int \X Int) /\ Len([i \in 1 .. n |-> Zero]) = n
      BY <2>2, <3>1 DEF n
    <3> QED  BY <3>2 DEF n
  <2>4. tail \in Seq(Int \X Int) /\ Len(tail) = 1
    OBVIOUS
  <2> HIDE DEF gap, tail
  <2>5. img \o gap \in Seq(Int \X Int) /\ Len(img \o gap) = d
    <3>1. /\ img \o gap \in Seq(Int \X Int) /\ Len(img \o gap) = Len(img) + Len(gap)
      BY <2>3, ConcatProperties, Zenon
    <3> QED  BY <1>1, <2>2, <2>3, <3>1
  <2>6. (img \o gap) \o tail \in Seq(Int \X Int) /\ Len((img \o gap) \o tail) = d + 1
    <3>1. Len((img \o gap) \o tail) = Len(img \o gap) + Len(tail) /\ (img \o gap) \o tail \in Seq(Int \X Int)
      BY <2>4, <2>5, ConcatProperties, Zenon
    <3> QED  BY <2>4, <2>5, <3>1
  <2> QED  BY <1>3, <2>1, <2>6
<1> QED  BY <1>2, <1>3

\* One block more keeps every component behind the one that the scan begins with, and
\* the rows noted consecutive.
LEMMA ReadBlockKeeps == ReadInv /\ ReadBlock => ReadInv' /\ phase' \in {"read", "split"}
<1> SUFFICES ASSUME ReadInv, ReadBlock PROVE ReadInv' /\ phase' \in {"read", "split"}
  OBVIOUS
<1> DEFINE c == s.cmp
           d == s.dpos
           r == s.mcu \div jf.mcuh
           next == NextMcuPos(jf, s)
           greater == Max({max_dpos[c], d})
<1>1. /\ jf \in Pictures /\ due \in BOOLEAN /\ PositionInv
      /\ max_dpos \in [Components -> Nat] /\ image \in [Components -> Seq(Int \X Int)]
      /\ rows \in Seq([luma_y_start : Nat, luma_y_end : Nat])
  BY Zenon DEF ReadInv, ReadBlock
<1>2. /\ jf' = jf
      /\ rows' = IF due THEN Append(rows, RowHandoff(s.mcu)) ELSE rows
      /\ max_dpos' = [max_dpos EXCEPT ![c] = greater]
      /\ image' = [image EXCEPT ![c] = FillUpToDpos(image[c], d, <<c, d>>)]
      /\ s' = IF next.sta = "RestartIntervalExpired" THEN ResetRstw(jf, next.s) ELSE next.s
      /\ due' = (next.s.mcu % jf.mcuh = 0 /\ s.mcu # next.s.mcu)
      /\ early_eof' \in BOOLEAN
      /\ sta' = "ScanCompleted" \/ (sta' = "DecodeInProgress" /\ next.sta # "ScanCompleted")
      /\ phase' = IF sta' = "ScanCompleted" THEN "split" ELSE "read"
  BY Zenon DEF ReadBlock
<1>3. /\ s \in Positions /\ s.csc \in Nat /\ d \in Nat /\ s.mcu \in Nat
      /\ s.csc < Len(jf.cs_cmp) /\ c = jf.cs_cmp[s.csc + 1] /\ d < ci(c).bc
      /\ RowOf(c, d) = r
      /\ r = IF due THEN Len(rows) ELSE Len(rows) - 1
  BY <1>1 DEF PositionInv, Positions
<1>4. c \in Components /\ First \in Components
  <2>1. s.csc + 1 \in 1 .. Len(jf.cs_cmp)
    <3> DEFINE n == Len(jf.cs_cmp)
    <3>1. n \in Nat
      BY <1>1, PictureFacts, Zenon
    <3>2. s.csc < n /\ s.csc \in Nat
      BY <1>3
    <3> HIDE DEF n
    <3>3. s.csc + 1 \in 1 .. n
      BY <3>1, <3>2
    <3> QED  BY <3>3 DEF n
  <2> QED  BY <1>1, <1>3, <2>1, PictureFacts, Zenon
<1>5. r \in Nat /\ r < jf.mcuv
  BY <1>1, <1>3, <1>4, RowOfFacts, Zenon
<1> HIDE DEF next
<1>6. greater \in Nat /\ greater >= max_dpos[c] /\ greater >= d /\ (greater = d \/ greater = max_dpos[c])
  <2>1. max_dpos[c] \in Nat
    BY <1>1, <1>4
  <2> HIDE DEF c, d
  <2> QED  BY <1>3, <2>1, GreatestOfTwo
<1> HIDE DEF greater
<1>7. /\ max_dpos' \in [Components -> Nat]
      /\ max_dpos'[c] = greater /\ \A x \in Components : x # c => max_dpos'[x] = max_dpos[x]
  BY <1>1, <1>2, <1>4, <1>6
<1>8. ASSUME NEW x \in Components
      PROVE  /\ max_dpos[x] \in Nat /\ max_dpos[x] < ci(x).bc /\ RowOf(x, max_dpos[x]) \in Nat
             /\ max_dpos'[x] \in Nat /\ max_dpos'[x] < ci(x).bc /\ RowOf(x, max_dpos'[x]) \in Nat
             /\ RowOf(x, max_dpos[x]) <= RowOf(x, max_dpos'[x])
             /\ RowOf(x, max_dpos[x]) <= RowOf(First, max_dpos[First])
  <2>1. max_dpos[x] \in Nat /\ max_dpos[x] < ci(x).bc /\ max_dpos'[x] \in Nat
    BY <1>1, <1>7 DEF ReadInv
  <2>2. max_dpos'[x] < ci(x).bc /\ max_dpos[x] <= max_dpos'[x]
    BY <1>3, <1>6, <1>7, <2>1
  <2>3. V(x) * ci(x).bch \in Nat \ {0}
    BY <1>1, ComponentFacts, Zenon
  <2>4. RowOf(x, max_dpos[x]) <= RowOf(x, max_dpos'[x])
    BY <2>1, <2>2, <2>3, QuotientOrder, Zenon DEF RowOf
  <2>5. RowOf(x, max_dpos[x]) \in Nat /\ RowOf(x, max_dpos'[x]) \in Nat
    BY <1>1, <2>1, <2>2, RowOfFacts, Zenon
  <2> QED  BY <2>1, <2>2, <2>4, <2>5, Zenon DEF ReadInv
<1>9. r <= RowOf(First, max_dpos'[First])
  <2>1. CASE s.csc > 0
    <3>1. r <= RowOf(First, max_dpos[First])
      BY <1>1, <2>1, Zenon DEF PositionInv
    <3> QED  BY <1>4, <1>5, <1>8, <3>1
  <2>2. CASE s.csc = 0
    <3>1. c = First
      BY <1>3, <2>2 DEF First
    <3>2. V(c) * ci(c).bch \in Nat \ {0}
      BY <1>1, <1>4, ComponentFacts, Zenon
    <3>3. RowOf(c, d) <= RowOf(c, greater)
      BY <1>3, <1>6, <3>2, QuotientOrder DEF RowOf
    <3> QED  BY <1>3, <1>7, <3>1, <3>3
  <2> QED  BY <1>3, <2>1, <2>2
<1>10. \A x \in Components : RowOf(x, max_dpos'[x]) <= RowOf(First, max_dpos'[First])
  <2> TAKE x \in Components
  <2>1. CASE x # c \/ greater = max_dpos[c]
    <3>1. max_dpos'[x] = max_dpos[x]
      BY <1>7, <2>1
    <3>2. RowOf(x, max_dpos[x]) <= RowOf(First, max_dpos[First])
      BY <1>8
    <3> QED  BY <1>4, <1>8, <3>1, <3>2
  <2>2. CASE x = c /\ greater = d
    BY <1>3, <1>7, <1>9, <2>2
  <2> QED  BY <1>6, <2>1, <2>2
<1>11. /\ rows' \in Seq([luma_y_start : Nat, luma_y_end : Nat]) /\ Len(rows') = r + 1
       /\ \A k \in 1 .. Len(rows') :
              rows'[k].luma_y_start = V(1) * (k - 1) /\ rows'[k].luma_y_end = V(1) * k
  <2> DEFINE h == RowHandoff(s.mcu)
             R == [luma_y_start : Nat, luma_y_end : Nat]
             Good(q) == \A k \in 1 .. Len(q) :
                            q[k].luma_y_start = V(1) * (k - 1) /\ q[k].luma_y_end = V(1) * k
  <2>1. h \in R /\ h.luma_y_start = V(1) * r /\ h.luma_y_end = V(1) * (r + 1)
    BY <1>1, <1>3, RowHandoffFacts, Zenon
  <2>2. Good(rows) /\ Len(rows) \in Nat /\ rows \in Seq(R)
    BY <1>1, LenProperties DEF ReadInv
  <2> HIDE DEF h, r, R
  <2>3. CASE due
    <3>1. Len(rows) = r
      BY <1>3, <2>3
    <3>2. /\ Append(rows, h) \in Seq(R) /\ Len(Append(rows, h)) = Len(rows) + 1
          /\ \A k \in 1 .. Len(rows) : Append(rows, h)[k] = rows[k]
          /\ Append(rows, h)[Len(rows) + 1] = h
      BY <2>1, <2>2, AppendProperties
    <3>3. Good(Append(rows, h))
      <4> SUFFICES ASSUME NEW k \in 1 .. Len(rows) + 1
                   PROVE  /\ Append(rows, h)[k].luma_y_start = V(1) * (k - 1)
                          /\ Append(rows, h)[k].luma_y_end = V(1) * k
        BY <3>2
      <4>1. CASE k \in 1 .. Len(rows)
        BY <2>2, <3>2, <4>1
      <4>2. CASE k = Len(rows) + 1
        <5>1. k = r + 1 /\ k - 1 = r
          BY <1>5, <3>1, <4>2
        <5> QED  BY <2>1, <3>2, <4>2, <5>1
      <4> QED  BY <2>2, <4>1, <4>2
    <3>4. rows' = Append(rows, h)
      BY <1>2, <2>3 DEF h
    <3> QED  BY <3>1, <3>2, <3>3, <3>4 DEF R
  <2>4. CASE ~due
    <3>1. Len(rows) = r + 1 /\ rows' = rows
      BY <1>2, <1>3, <1>5, <2>2, <2>4
    <3> QED  BY <2>2, <3>1 DEF R
  <2> QED  BY <1>1, <2>3, <2>4
<1>12. /\ image' \in [Components -> Seq(Int \X Int)]
       /\ \A x \in Components : Len(image'[x]) <= max_dpos'[x] + 1
  <2> DEFINE img == FillUpToDpos(image[c], d, <<c, d>>)
  <2>1. <<c, d>> \in Int \X Int
    <3>1. c \in Int
      BY <1>1, <1>4, PictureFacts
    <3> QED  BY <1>3, <3>1
  <2>2. image[c] \in Seq(Int \X Int) /\ Len(image[c]) \in Nat /\ Len(image[c]) <= max_dpos[c] + 1
    BY <1>1, <1>4, LenProperties DEF ReadInv
  <2>3. img \in Seq(Int \X Int) /\ Len(img) = IF d < Len(image[c]) THEN Len(image[c]) ELSE d + 1
    BY <1>3, <2>1, <2>2, FillFacts, Zenon
  <2> HIDE DEF img
  <2>4. Len(img) <= greater + 1
    <3>1. max_dpos[c] \in Nat
      BY <1>1, <1>4
    <3>2. d \in Nat
      BY <1>3
    <3> HIDE DEF c, d
    <3>3. Len(image[c]) <= greater + 1 /\ d + 1 <= greater + 1
      BY <1>6, <2>2, <3>1, <3>2
    <3> QED  BY <2>3, <3>3
  <2>5. image' = [image EXCEPT ![c] = img]
    BY <1>2 DEF img
  <2>6. /\ image' \in [Components -> Seq(Int \X Int)]
        /\ image'[c] = img /\ \A x \in Components : x # c => image'[x] = image[x]
    BY <1>1, <1>4, <2>3, <2>5
  <2>7. \A x \in Components : Len(image'[x]) <= max_dpos'[x] + 1
    <3> TAKE x \in Components
    <3>1. CASE x = c
      BY <1>7, <2>4, <2>6, <3>1
    <3>2. CASE x # c
      BY <1>7, <2>6, <3>2 DEF ReadInv
    <3> QED  BY <3>1, <3>2
  <2> QED  BY <2>6, <2>7
<1>13. ASSUME sta' # "ScanCompleted" PROVE PositionInv'
  <2>1. next.sta # "ScanCompleted"
    BY <1>2, <1>13
  <2>2. Follows(next.s)
    BY <1>1, <2>1, NextFacts, Zenon DEF next
  <2>3. /\ s' \in Positions /\ s'.csc = next.s.csc /\ s'.cmp = next.s.cmp
        /\ s'.dpos = next.s.dpos /\ s'.mcu = next.s.mcu
    <3>1. next.s \in Positions
      BY <2>2 DEF Follows
    <3>2. jf.rsti \in Int
      BY <1>1, PictureFacts
    <3>3. /\ ResetRstw(jf, next.s) \in Positions /\ ResetRstw(jf, next.s).csc = next.s.csc
          /\ ResetRstw(jf, next.s).cmp = next.s.cmp /\ ResetRstw(jf, next.s).dpos = next.s.dpos
          /\ ResetRstw(jf, next.s).mcu = next.s.mcu
      <4> DEFINE n == next.s
                 p == [n EXCEPT !.rstw = jf.rsti]
                 q == [p EXCEPT !.prev_eobrun = 0]
      <4>1. n \in Positions
        BY <3>1
      <4> HIDE DEF n
      <4>2. /\ p \in Positions /\ p.csc = n.csc /\ p.cmp = n.cmp /\ p.dpos = n.dpos
            /\ p.mcu = n.mcu
        BY <3>2, <4>1 DEF Positions
      <4> HIDE DEF p
      <4>3. q \in Positions /\ q.csc = p.csc /\ q.cmp = p.cmp /\ q.dpos = p.dpos /\ q.mcu = p.mcu
        BY <4>2 DEF Positions
      <4>4. ResetRstw(jf, n) = [n EXCEPT !.rstw = jf.rsti, !.prev_eobrun = 0]
        BY Zenon DEF ResetRstw
      <4>5. ResetRstw(jf, n) = q
        BY <4>4 DEF p
      <4> HIDE DEF q
      <4>6. /\ ResetRstw(jf, n) \in Positions /\ ResetRstw(jf, n).csc = n.csc
            /\ ResetRstw(jf, n).cmp = n.cmp /\ ResetRstw(jf, n).dpos = n.dpos
            /\ ResetRstw(jf, n).mcu = n.mcu
        BY <4>2, <4>3, <4>5, Zenon
      <4> QED  BY <4>6 DEF n
    <3> QED  BY <1>2, <3>1, <3>3
  <2>4. /\ s'.csc < Len(jf.cs_cmp) /\ s'.cmp = jf.cs_cmp[s'.csc + 1]
        /\ s'.dpos < ci(s'.cmp).bc
        /\ RowOf(s'.cmp, s'.dpos) = s'.mcu \div jf.mcuh
        /\ Len(jf.cs_cmp) > 1 => s'.mcu < jf.mcuc
        /\ Len(jf.cs_cmp) = 1 => s'.mcu = s'.dpos \div (ci(s'.cmp).sfv * ci(s'.cmp).sfh)
        /\ s'.csc > 0 => s'.mcu = s.mcu
        /\ s'.mcu \div jf.mcuh = IF due' THEN r + 1 ELSE r
    BY <1>2, <2>2, <2>3, Zenon DEF Follows
  <2>5. s'.csc > 0 => s'.mcu \div jf.mcuh <= RowOf(First, max_dpos'[First])
    BY <1>9, <2>4, Zenon
  <2>6. s'.mcu \div jf.mcuh = IF due' THEN Len(rows') ELSE Len(rows') - 1
    BY <1>5, <1>11, <2>4
  <2> QED  BY <1>2, <2>3, <2>4, <2>5, <2>6, Zenon DEF PositionInv, RowOf, V, ci, First
<1>14. phase' # "read" => rows' # <<>>
  <2>1. Len(rows') # 0
    BY <1>5, <1>11
  <2> QED  BY <2>1
<1>15. /\ phase' \in {"read", "split"}
       /\ phase' = "read" => PositionInv' /\ sta' = "DecodeInProgress"
  BY <1>2, <1>13
<1>16. due' \in BOOLEAN
  BY <1>2
<1>17. \A x \in Components : max_dpos'[x] < ci(x).bc
  BY <1>8
<1> HIDE DEF c, d, r
<1>18. ReadInv'
  BY <1>1, <1>2, <1>7, <1>10, <1>11, <1>12, <1>14, <1>15, <1>16, <1>17, Zenon
     DEF ReadInv, RowOf, V, ci, First, Components
<1> QED  BY <1>15, <1>18

-----------------------------------------------------------------------------
(* The split                                                               *)

\* Unless there is only one thread, there are two MCU rows for each of them.
Threads(n) == n \in Nat \ {0} /\ Len(rows) \in Nat \ {0} /\ (n = 1 \/ 2 * n <= Len(rows))

LEMMA ThreadsFacts ==
    ASSUME rows # <<>>, NEW R, rows \in Seq(R), NEW bytes
    PROVE  Threads(NumberOfThreads(Len(rows), bytes))
<1> DEFINE m == Len(rows)
           half == m \div 2
           byRows == IF half < MaxThreads THEN Max({half, 1}) ELSE MaxThreads
           n == NumberOfThreads(m, bytes)
           Fits(k) == k \in Nat \ {0} /\ (k = 1 \/ 2 * k <= m)
<1>1. m \in Nat \ {0}
  BY EmptySeq, LenProperties
<1>2. half \in Nat /\ 2 * half <= m
  BY <1>1, QuotientExists
<1>3. MaxThreads \in Nat \ {0}
  BY ThreadsAssumption
<1> HIDE DEF half, m
<1>4. Max({half, 1}) = IF half >= 1 THEN half ELSE 1
  BY <1>2, GreatestOfTwo
<1>5. Fits(byRows)
  <2>1. Fits(1)
    OBVIOUS
  <2>2. half >= 1 => Fits(half)
    BY <1>2
  <2>3. MaxThreads <= half => Fits(MaxThreads)
    BY <1>1, <1>2, <1>3
  <2> HIDE DEF Fits
  <2> QED  BY <1>2, <1>3, <1>4, <2>1, <2>2, <2>3
<1>6. \A k \in Nat \ {0} : Fits(Min({k, byRows}))
  <2> TAKE k \in Nat \ {0}
  <2>1. byRows \in Nat \ {0}
    BY <1>5
  <2> HIDE DEF byRows
  <2>2. Min({k, byRows}) = IF k <= byRows THEN k ELSE byRows
    BY <2>1, LeastOfTwo
  <2>3. k <= byRows => Fits(k)
    BY <1>1, <1>5
  <2> HIDE DEF Fits
  <2> QED  BY <1>5, <2>2, <2>3
<1>7. Fits(1) /\ Fits(Min({2, byRows})) /\ Fits(Min({4, byRows}))
  <2>1. 2 \in Nat \ {0} /\ 4 \in Nat \ {0} /\ Fits(1)
    OBVIOUS
  <2> HIDE DEF Fits, byRows
  <2> QED  BY <1>6, <2>1
<1>8. n = 1 \/ n = Min({2, byRows}) \/ n = Min({4, byRows}) \/ n = byRows
  BY Zenon DEF NumberOfThreads, half, n
<1>9. Fits(n)
  <2> HIDE DEF Fits, byRows, n
  <2> QED  BY <1>5, <1>7, <1>8
<1> HIDE DEF n
<1>10. Threads(n)
  BY <1>1, <1>9 DEF Threads, m
<1> QED  BY <1>10 DEF n, m

\* The MCU rows before the end of thread i.
Cut(n, i, low) ==
    IF i = 0 THEN 0 ELSE IF i = n THEN Len(rows) ELSE SplitIndex(Len(rows), n, i, low) + 1

\* With two rows for each thread, the threads' shares are two rows apart.
LEMMA SharesApart ==
    ASSUME NEW n \in Nat \ {0}, NEW m \in Nat, 2 * n <= m, NEW i \in Nat, NEW j \in Nat, i < j
    PROVE  /\ (m * i) \div n \in Nat /\ (m * j) \div n \in Nat
           /\ (m * i) \div n + 2 <= (m * j) \div n
<1> DEFINE q == (m * i) \div n
<1>1. m * i \in Nat /\ m * j \in Nat /\ m * i + m <= m * j
  BY ProductBelow
<1>2. q \in Nat /\ n * q <= m * i /\ (m * j) \div n \in Nat
  BY <1>1, QuotientExists
<1> HIDE DEF q
<1>3. n * (q + 2) = n * q + 2 * n
  BY <1>2
<1>4. n * (q + 2) <= m * j
  <2>1. n * q \in Int /\ 2 * n \in Int
    BY <1>2
  <2> QED  BY <1>1, <1>2, <1>3, <2>1
<1>5. q + 2 <= (m * j) \div n
  BY <1>1, <1>2, <1>4, QuotientLargest
<1> QED  BY <1>2, <1>5 DEF q

\* Every thread has a row at least, although a product of floats may come out low.
LEMMA CutOrder ==
    ASSUME NEW n, Threads(n), NEW low \in BOOLEAN, NEW i \in 0 .. n, NEW j \in 0 .. n, i < j
    PROVE  Cut(n, i, low) \in Nat /\ Cut(n, j, low) \in Nat /\ Cut(n, i, low) < Cut(n, j, low)
<1> DEFINE m == Len(rows)
           E(k) == (m * k) \div n
<1>1. n \in Nat \ {0} /\ m \in Nat \ {0} /\ (n = 1 \/ 2 * n <= m)
  BY DEF Threads
<1>2. CASE n = 1
  <2>1. i = 0 /\ j = n
    BY <1>1, <1>2
  <2> QED  BY <1>1, <2>1 DEF Cut
<1>3. CASE 2 * n <= m
  <2>1. E(i) \in Nat /\ E(j) \in Nat /\ E(i) + 2 <= E(j)
    BY <1>1, <1>3, SharesApart
  <2>2. E(0) = 0 /\ E(n) = m
    <3>1. (n * 0 + 0) \div n = 0 /\ (n * m + 0) \div n = m
      BY <1>1, QuotientFacts
    <3>2. m * 0 = n * 0 + 0 /\ m * n = n * m + 0
      BY <1>1
    <3> QED  BY <3>1, <3>2
  <2>3. ASSUME NEW k \in 1 .. n - 1
        PROVE  Cut(n, k, low) = E(k) + 1 \/ Cut(n, k, low) = E(k)
    <3>1. k # 0 /\ k # n
      BY <1>1
    <3>2. Cut(n, k, low) = SplitIndex(m, n, k, low) + 1
      BY <3>1, Zenon DEF Cut
    <3>3. SplitIndex(m, n, k, low) = E(k) \/ SplitIndex(m, n, k, low) = E(k) - 1
      BY Zenon DEF SplitIndex
    <3>4. E(k) \in Nat
      <4>1. m * k \in Nat
        BY <1>1
      <4> QED  BY <1>1, <4>1, QuotientExists
    <3> HIDE DEF E
    <3> QED  BY <3>2, <3>3, <3>4
  <2>4. Cut(n, 0, low) = 0 /\ Cut(n, n, low) = m
    BY <1>1 DEF Cut
  <2> HIDE DEF E, m
  <2>5. Cut(n, i, low) = E(i) \/ Cut(n, i, low) = E(i) + 1
    <3>1. CASE i = 0
      BY <2>2, <2>4, <3>1
    <3>2. CASE i # 0
      <4>1. i \in 1 .. n - 1
        BY <1>1, <3>2
      <4> QED  BY <2>3, <4>1
    <3> QED  BY <3>1, <3>2
  <2>6. Cut(n, j, low) = E(j) \/ Cut(n, j, low) = E(j) + 1
    <3>1. CASE j = n
      BY <2>2, <2>4, <3>1
    <3>2. CASE j # n
      <4>1. j \in 1 .. n - 1
        BY <1>1, <3>2
      <4> QED  BY <2>3, <4>1
    <3> QED  BY <3>1, <3>2
  <2> QED  BY <2>1, <2>5, <2>6
<1> QED  BY <1>1, <1>2, <1>3

\* The rows of a thread reach from one cut to the next.
LEMMA ThreadRangeFacts ==
    ASSUME ReadInv, NEW n, Threads(n), NEW low \in BOOLEAN, NEW i \in 1 .. n
    PROVE  LET h == ThreadRange(Len(rows), n, i, low)
           IN  /\ h \in [luma_y_start : Nat, luma_y_end : Nat]
               /\ h.luma_y_start = V(1) * Cut(n, i - 1, low)
               /\ h.luma_y_end = V(1) * Cut(n, i, low)
<1> DEFINE m == Len(rows)
           a == IF i = 1 THEN 1 ELSE SplitIndex(m, n, i - 1, low) + 2
           b == IF i = n THEN m ELSE SplitIndex(m, n, i, low) + 1
           h == ThreadRange(m, n, i, low)
<1>1. /\ n \in Nat \ {0} /\ m \in Nat \ {0} /\ i \in Nat /\ 1 <= i /\ i <= n
      /\ i - 1 \in 0 .. n /\ i \in 0 .. n /\ i - 1 < i
  BY DEF Threads
<1>2. h = [luma_y_start |-> rows[a].luma_y_start, luma_y_end |-> rows[b].luma_y_end]
  BY Zenon DEF ThreadRange, Combine
<1>3. Cut(n, i - 1, low) \in Nat /\ Cut(n, i, low) \in Nat /\ Cut(n, i - 1, low) < Cut(n, i, low)
  BY <1>1, CutOrder, Zenon
<1>4. Cut(n, i, low) <= m
  <2>1. CASE i = n
    <3>1. Cut(n, i, low) = m
      BY <1>1, <2>1 DEF Cut
    <3> QED  BY <1>1, <3>1
  <2>2. CASE i # n
    <3>1. i < n /\ n \in 0 .. n
      BY <1>1, <2>2
    <3>2. Cut(n, i, low) < Cut(n, n, low)
      BY <1>1, <3>1, CutOrder, Zenon
    <3>3. Cut(n, n, low) = m
      BY <1>1 DEF Cut
    <3> QED  BY <1>1, <1>3, <3>2, <3>3
  <2> QED  BY <2>1, <2>2
<1>5. a = Cut(n, i - 1, low) + 1
  <2>1. CASE i = 1
    <3>1. i - 1 = 0
      BY <2>1
    <3> QED  BY <2>1, <3>1 DEF Cut
  <2>2. CASE i # 1
    <3> DEFINE k == SplitIndex(m, n, i - 1, low)
    <3>1. i - 1 # 0 /\ i - 1 # n
      BY <1>1, <2>2
    <3>2. Cut(n, i - 1, low) = k + 1 /\ a = k + 2
      BY <2>2, <3>1 DEF Cut
    <3>3. k \in Int
      <4>1. m * (i - 1) \in Int /\ n \in Int /\ n > 0
        BY <1>1
      <4>2. (m * (i - 1)) \div n \in Int
        BY <4>1
      <4>3. k = (m * (i - 1)) \div n \/ k = (m * (i - 1)) \div n - 1
        BY Zenon DEF SplitIndex
      <4> HIDE DEF k
      <4> QED  BY <4>2, <4>3
    <3> HIDE DEF k
    <3> QED  BY <3>2, <3>3
  <2> QED  BY <2>1, <2>2
<1>6. b = Cut(n, i, low)
  <2>1. i # 0
    BY <1>1
  <2> QED  BY <2>1 DEF Cut
<1> HIDE DEF a, b, h
<1>7. a \in 1 .. m /\ b \in 1 .. m
  BY <1>1, <1>3, <1>4, <1>5, <1>6
<1>8. rows[a].luma_y_start = V(1) * (a - 1) /\ rows[b].luma_y_end = V(1) * b
  BY <1>7 DEF ReadInv
<1>9. a - 1 = Cut(n, i - 1, low)
  BY <1>3, <1>5
<1>10. V(1) \in Nat
  <2>1. jf \in Pictures
    BY Zenon DEF ReadInv
  <2> QED  BY <2>1, FirstFacts
<1>11. V(1) * Cut(n, i - 1, low) \in Nat /\ V(1) * Cut(n, i, low) \in Nat
  BY <1>3, <1>10
<1>12. /\ h \in [luma_y_start : Nat, luma_y_end : Nat]
       /\ h.luma_y_start = V(1) * Cut(n, i - 1, low) /\ h.luma_y_end = V(1) * Cut(n, i, low)
  BY <1>2, <1>6, <1>8, <1>9, <1>11
<1> QED  BY <1>12 DEF h

\* What neither moves the reader nor changes what it has read.
LEMMA ReadKept ==
    ASSUME ReadInv, UNCHANGED picture, phase' \in {"split", "encode", "decode", "done"}, rows # <<>>
    PROVE  ReadInv'
  BY Zenon DEF ReadInv, picture, RowOf, V, ci, First, Components

\* The ranges that the rows are split into follow one another.
LEMMA SplitRanges ==
    ASSUME ReadInv, NEW n, Threads(n), NEW low \in BOOLEAN,
           handoffs' = [i \in 1 .. n |-> ThreadRange(Len(rows), n, i, low)]
    PROVE  RangesInv' /\ Len(handoffs') = n /\ n \in Nat \ {0}
<1> DEFINE R == [luma_y_start : Nat, luma_y_end : Nat]
           h == handoffs'
<1>1. n \in Nat \ {0}
  BY DEF Threads
<1>2. \A i \in 1 .. n : /\ h[i] \in R /\ h[i].luma_y_start = V(1) * Cut(n, i - 1, low)
                        /\ h[i].luma_y_end = V(1) * Cut(n, i, low)
  <2> TAKE i \in 1 .. n
  <2>1. h[i] = ThreadRange(Len(rows), n, i, low)
    BY <1>1
  <2> QED  BY <2>1, ThreadRangeFacts, Zenon
<1>3. h \in Seq(R) /\ Len(h) = n
  <2>1. h \in [1 .. n -> R]
    BY <1>1, <1>2
  <2> HIDE DEF h, R
  <2> QED  BY <1>1, <2>1
<1> HIDE DEF R, h
<1>4. h # <<>>
  BY <1>1, <1>3
<1>5. V(1) \in Nat
  <2>1. jf \in Pictures
    BY Zenon DEF ReadInv
  <2> QED  BY <2>1, FirstFacts
<1>6. h[1].luma_y_start = 0
  <2>1. Cut(n, 1 - 1, low) = 0 /\ 1 \in 1 .. n
    BY <1>1 DEF Cut
  <2> QED  BY <1>2, <1>5, <2>1
<1>7. \A i \in 1 .. Len(h) - 1 : h[i].luma_y_end = h[i + 1].luma_y_start
  <2> TAKE i \in 1 .. Len(h) - 1
  <2>1. i \in 1 .. n /\ i + 1 \in 1 .. n /\ (i + 1) - 1 = i
    BY <1>1, <1>3
  <2> QED  BY <1>2, <2>1
<1>8. \A i, j \in 1 .. Len(h) : i < j => h[i].luma_y_end <= h[j].luma_y_start
  <2> SUFFICES ASSUME NEW i \in 1 .. n, NEW j \in 1 .. n, i < j
               PROVE  V(1) * Cut(n, i, low) <= V(1) * Cut(n, j - 1, low)
    BY <1>2, <1>3
  <2>1. CASE j - 1 = i
    <3>1. Cut(n, i, low) = Cut(n, j - 1, low)
      BY <2>1
    <3>2. Cut(n, i, low) \in Nat
      <4>1. i - 1 \in 0 .. n /\ i \in 0 .. n /\ i - 1 < i
        BY <1>1
      <4> QED  BY <4>1, CutOrder, Zenon
    <3> QED  BY <1>5, <3>1, <3>2
  <2>2. CASE i < j - 1
    <3>1. i \in 0 .. n /\ j - 1 \in 0 .. n
      BY <1>1
    <3>2. Cut(n, i, low) \in Nat /\ Cut(n, j - 1, low) \in Nat /\ Cut(n, i, low) < Cut(n, j - 1, low)
      BY <2>2, <3>1, CutOrder, Zenon
    <3> QED  BY <1>5, <3>2, ProductOrder
  <2> QED  BY <2>1, <2>2
<1>9. RangesInv'
  BY <1>3, <1>4, <1>6, <1>7, <1>8, Zenon DEF RangesInv, R, h
<1> QED  BY <1>1, <1>3, <1>9 DEF h

\* A split that no thread has worked on yet.
LEMMA SplitKeeps ==
    ASSUME Inv, NEW bytes, Split(bytes)
    PROVE  Inv'
<1>1. ReadInv /\ phase = "split" /\ rows # <<>> /\ t = 1 /\ index = 0 /\ coded = {}
  BY Zenon DEF Inv, ReadInv, Split
<1>2. PICK low \in BOOLEAN :
          handoffs' = [i \in 1 .. NumberOfThreads(Len(rows), bytes) |->
                          ThreadRange(Len(rows), NumberOfThreads(Len(rows), bytes), i, low)]
  BY Zenon DEF Split
<1>3. phase' = "encode" /\ UNCHANGED <<picture, t, index, coded>>
  BY Zenon DEF Split
<1>4. Threads(NumberOfThreads(Len(rows), bytes))
  BY <1>1, ThreadsFacts, Zenon DEF ReadInv
<1>5. RangesInv' /\ Len(handoffs') \in Nat \ {0}
  BY <1>1, <1>2, <1>4, SplitRanges
<1>6. ReadInv'
  BY <1>1, <1>3, ReadKept, Zenon
<1>7. EncodeInv'
  <2>1. t' = 1 /\ index' = 0 /\ coded' = {}
    BY <1>1, <1>3
  <2>2. t' \in 1 .. Len(handoffs') /\ index' \in Nat
    BY <1>5, <2>1
  <2>3. coded' \subseteq ((1 .. Len(handoffs')) \X Components' \X Nat)
    BY <2>1
  <2>4. ASSUME NEW i \in 1 .. Len(handoffs'), NEW c \in Components', NEW y \in Nat
        PROVE  <<i, c, y>> \in coded'
                  <=> InRange(i, c, y)' /\ (i < t' \/ (i = t' /\ IndexOf(c, y)' < index'))
    <3>1. <<i, c, y>> \notin coded' /\ ~(i < t')
      BY <2>1
    <3>2. IndexOf(c, y)' \in Nat
      <4>1. jf' \in Pictures
        BY <1>6 DEF ReadInv
      <4>2. jf' = jf /\ Components' = Components
        BY <1>3, Zenon DEF picture, Components
      <4>3. IndexOf(c, y)' = IndexOf(c, y)
        BY <4>2, Zenon DEF IndexOf, V, Before, Height
      <4> QED  BY <4>1, <4>2, <4>3, IndexFacts
    <3>3. ~(IndexOf(c, y)' < index')
      BY <2>1, <3>2
    <3> QED  BY <3>1, <3>3
  <2> QED  BY <1>5, <2>2, <2>3, <2>4, Zenon DEF EncodeInv
<1> QED  BY <1>3, <1>6, <1>7 DEF Inv

-----------------------------------------------------------------------------
(* The threads                                                             *)

\* Nothing is read at first.
LEMMA InitInv == Init => Inv
<1> SUFFICES ASSUME Init PROVE Inv
  OBVIOUS
<1>1. /\ jf \in Pictures /\ phase = "read" /\ s = ResetRstw(jf, NewPosition(jf, 0))
      /\ sta = "DecodeInProgress" /\ due = TRUE /\ early_eof = FALSE /\ rows = <<>>
      /\ image = [c \in Components |-> <<>>] /\ max_dpos = [c \in Components |-> 0]
      /\ t = 1 /\ index = 0 /\ coded = {}
  BY Zenon DEF Init
<1>2. First \in Components /\ Len(jf.cs_cmp) \in Nat \ {0} /\ jf.mcuv \in Nat \ {0} /\ jf.mcuh \in Nat \ {0}
      /\ jf.mcuc = jf.mcuv * jf.mcuh /\ jf.rsti \in Nat /\ First \in Nat
  <2>1. First \in Nat
    BY <1>1, PictureFacts
  <2> QED  BY <1>1, <2>1, PictureFacts, Zenon
<1>3. \A c \in Components : /\ ci(c).bc \in Nat \ {0} /\ V(c) * ci(c).bch \in Nat \ {0}
                           /\ ci(c).sfv \in Nat \ {0} /\ ci(c).sfh \in Nat \ {0}
  BY <1>1, ComponentFacts
<1>4. \A m \in Nat \ {0} : 0 \div m = 0
  <2> TAKE m \in Nat \ {0}
  <2>1. (m * 0 + 0) \div m = 0
    BY QuotientFacts
  <2>2. m * 0 + 0 = 0
    OBVIOUS
  <2> QED  BY <2>1, <2>2
<1>5. /\ s \in Positions /\ s.cmp = First /\ s.mcu = 0 /\ s.csc = 0 /\ s.dpos = 0
  <2> DEFINE p == NewPosition(jf, 0)
             i == jf.cmp_info[First]
  <2>1. i.sfv \in Nat /\ i.sfh \in Nat
    BY <1>2, <1>3 DEF ci
  <2>2. (0 * i.sfv) * i.sfh = 0
    BY <2>1
  <2>3. p = [cmp |-> First, mcu |-> 0, csc |-> 0, sub |-> 0,
             dpos |-> (0 * i.sfv) * i.sfh, rstw |-> p.rstw, eobrun |-> 0, prev_eobrun |-> 0]
    BY DEF NewPosition, First
  <2> HIDE DEF p
  <2> DEFINE q == [p EXCEPT !.rstw = jf.rsti]
  <2>4. q = [cmp |-> First, mcu |-> 0, csc |-> 0, sub |-> 0, dpos |-> 0,
             rstw |-> jf.rsti, eobrun |-> 0, prev_eobrun |-> 0]
    BY <2>2, <2>3
  <2>5. s = [q EXCEPT !.prev_eobrun = 0]
    <3>1. s = [p EXCEPT !.rstw = jf.rsti, !.prev_eobrun = 0]
      BY <1>1, Zenon DEF ResetRstw, p
    <3> QED  BY <3>1
  <2> HIDE DEF q
  <2>6. s = [cmp |-> First, mcu |-> 0, csc |-> 0, sub |-> 0, dpos |-> 0,
             rstw |-> jf.rsti, eobrun |-> 0, prev_eobrun |-> 0]
    BY <2>4, <2>5
  <2> QED  BY <1>2, <2>6 DEF Positions
<1>6. PositionInv
  <2>1. RowOf(First, 0) = 0
    BY <1>2, <1>3, <1>4, Zenon DEF RowOf
  <2>2. 0 \div jf.mcuh = 0
    BY <1>2, <1>4
  <2>3. 0 \div (ci(First).sfv * ci(First).sfh) = 0
    <3>1. ci(First).sfv * ci(First).sfh \in Nat \ {0}
      <4>1. \A a, b \in Nat \ {0} : a * b \in Nat \ {0}
        OBVIOUS
      <4> QED  BY <1>2, <1>3, <4>1, Zenon
    <3> QED  BY <1>4, <3>1
  <2>4. s.csc < Len(jf.cs_cmp) /\ s.cmp = jf.cs_cmp[s.csc + 1]
    BY <1>2, <1>5 DEF First
  <2>5. s.dpos < ci(s.cmp).bc /\ ~(s.csc > 0)
    BY <1>2, <1>3, <1>5
  <2>6. s.mcu < jf.mcuc
    <3>1. \A a, b \in Nat \ {0} : 0 < a * b
      OBVIOUS
    <3> QED  BY <1>2, <1>5, <3>1
  <2>7. s.mcu \div jf.mcuh = IF due THEN Len(rows) ELSE Len(rows) - 1
    BY <1>1, <1>5, <2>2
  <2> QED  BY <1>5, <2>1, <2>2, <2>3, <2>4, <2>5, <2>6, <2>7, Zenon DEF PositionInv
<1>7. /\ \A c \in Components : max_dpos[c] = 0 /\ image[c] = <<>>
      /\ max_dpos \in [Components -> Nat] /\ image \in [Components -> Seq(Int \X Int)]
  BY <1>1
<1>8. \A c \in Components : /\ max_dpos[c] < ci(c).bc
                           /\ RowOf(c, max_dpos[c]) <= RowOf(First, max_dpos[First])
                           /\ Len(image[c]) <= max_dpos[c] + 1
  <2> TAKE c \in Components
  <2>1. RowOf(c, 0) = 0 /\ RowOf(First, 0) = 0
    BY <1>2, <1>3, <1>4 DEF RowOf
  <2>2. max_dpos[c] = 0 /\ max_dpos[First] = 0 /\ Len(image[c]) = 0
    BY <1>2, <1>7
  <2> QED  BY <1>3, <2>1, <2>2
<1>9. ReadInv
  <2>1. rows \in Seq([luma_y_start : Nat, luma_y_end : Nat]) /\ Len(rows) = 0
    BY <1>1
  <2>2. \A k \in 1 .. Len(rows) : FALSE
    BY <2>1
  <2> QED  BY <1>1, <1>6, <1>7, <1>8, <2>1, <2>2 DEF ReadInv
<1> QED  BY <1>1, <1>9 DEF Inv

\* luma_y is a row.
LEMMA LumaFacts ==
    ASSUME jf \in Pictures, NEW c \in Components, NEW y \in Nat
    PROVE  Luma(c, y) \in Nat
<1>1. y \div V(c) \in Nat /\ V(1) \in Nat
  BY IndexFacts, FirstFacts
<1>2. (y \div V(c)) * V(1) \in Nat
  BY <1>1
<1> QED  BY <1>2 DEF Luma

\* The rows that a thread has not come to when it leaves its loop are not its own.
LEMMA NothingLeft ==
    ASSUME ReadInv, EncodeInv, LastNotFirst(jf), RangeOver(RowSpec(index), handoffs[t].luma_y_end),
           NEW d \in Components, NEW z \in Nat, InRange(t, d, z)
    PROVE  IndexOf(d, z) < index
<1>1. jf \in Pictures /\ HeightType
  BY ReadHeights, Zenon DEF ReadInv
<1>2. index \in Nat
  BY Zenon DEF EncodeInv
<1>3. PICK c \in Components, y \in Nat : SpecIs(index, c, y)
  BY <1>1, <1>2, SpecFacts
<1>4. IndexOf(c, y) = index /\ y \div V(c) = index \div Before(0) /\ RowSpec(index).luma_y = Luma(c, y)
  BY <1>3, Zenon DEF SpecIs
<1> SUFFICES ASSUME index <= IndexOf(d, z) PROVE FALSE
  <2>1. IndexOf(d, z) \in Nat
    BY <1>1, IndexFacts
  <2> QED  BY <1>2, <2>1
<1>5. Luma(c, y) <= Luma(d, z) /\ y \div V(c) <= z \div V(d)
  BY <1>1, <1>4, IndexOrder
<1>6. CASE RowSpec(index).done
  <2>1. McuRows(d) <= z \div V(d)
    <3>1. McuRows(d) <= index \div Before(0)
      BY <1>2, <1>6, EndFacts
    <3>2. McuRows(d) \in Nat /\ y \div V(c) \in Nat /\ z \div V(d) \in Nat
      BY <1>1, McuRowsFacts, IndexFacts
    <3> QED  BY <1>4, <1>5, <3>1, <3>2
  <2>2. z < V(d) * McuRows(d)
    BY Zenon DEF InRange
  <2>3. V(d) \in Nat \ {0} /\ McuRows(d) \in Nat
    BY <1>1, ComponentFacts, McuRowsFacts
  <2>4. z \div V(d) < McuRows(d) /\ z \div V(d) \in Nat
    BY <2>2, <2>3, QuotientBelow, Zenon
  <2> QED  BY <2>1, <2>3, <2>4
<1>7. CASE RowSpec(index).luma_y >= handoffs[t].luma_y_end /\ t < Len(handoffs)
  <2>1. Luma(d, z) < handoffs[t].luma_y_end /\ Luma(c, y) >= handoffs[t].luma_y_end
    BY <1>4, <1>7, Zenon DEF InRange
  <2>2. Luma(c, y) \in Nat /\ Luma(d, z) \in Nat
    BY <1>1, LumaFacts
  <2>3. handoffs[t].luma_y_end \in Nat
    <3>1. handoffs \in Seq([luma_y_start : Nat, luma_y_end : Nat]) /\ t \in 1 .. Len(handoffs)
      BY Zenon DEF EncodeInv, RangesInv
    <3>2. handoffs[t] \in [luma_y_start : Nat, luma_y_end : Nat]
      BY <3>1, ElementOfSeq
    <3> QED  BY <3>2
  <2> QED  BY <1>5, <2>1, <2>2, <2>3
<1> QED  BY <1>6, <1>7, Zenon DEF RangeOver

\* The picture and the ranges say which rows are whose.
LEMMA RangeKept ==
    ASSUME UNCHANGED picture
    PROVE  /\ jf' = jf /\ Components' = Components
           /\ \A c, y : IndexOf(c, y)' = IndexOf(c, y)
           /\ \A c : V(c)' = V(c) /\ McuRows(c)' = McuRows(c)
           /\ handoffs' = handoffs => RangesInv' = RangesInv /\ \A i, c, y : InRange(i, c, y)' = InRange(i, c, y)
<1>1. jf' = jf /\ max_dpos' = max_dpos /\ early_eof' = early_eof
  BY Zenon DEF picture
<1>2. Components' = Components
  BY <1>1, Zenon DEF Components
<1>3. \A c, y : IndexOf(c, y)' = IndexOf(c, y)
  <2>1. \A c : V(c)' = V(c) /\ Height(c)' = Height(c)
    BY <1>1, <1>2, Zenon DEF V, Height
  <2>2. \A c : Before(c)' = Before(c)
    BY <2>1, Zenon DEF Before
  <2> QED  BY <2>1, <2>2, Zenon DEF IndexOf
<1>4. \A c : V(c)' = V(c) /\ McuRows(c)' = McuRows(c)
  BY <1>1, Zenon DEF V, McuRows, RowOf, ci
<1>5. ASSUME handoffs' = handoffs PROVE RangesInv' = RangesInv
  BY <1>5, Zenon DEF RangesInv
<1>6. ASSUME handoffs' = handoffs, NEW i, NEW c, NEW y PROVE InRange(i, c, y)' = InRange(i, c, y)
  <2>1. Luma(c, y)' = Luma(c, y)
    BY <1>1, Zenon DEF Luma, V
  <2> QED  BY <1>1, <1>4, <1>6, <2>1, Zenon DEF InRange
<1> QED  BY <1>1, <1>2, <1>3, <1>4, <1>5, <1>6, Zenon

\* A thread codes a row that is its own and passes over one that is not.
LEMMA EncodeRowKeeps ==
    ASSUME Inv, EncodeRow
    PROVE  Inv'
<1> DEFINE spec == RowSpec(index)
<1>1. /\ phase = "encode" /\ ReadInv /\ EncodeInv /\ rows # <<>>
      /\ ~RangeOver(spec, handoffs[t].luma_y_end)
      /\ index' = index + 1
      /\ UNCHANGED <<picture, phase, handoffs, t>>
      /\ coded' = IF PassedOver(spec, handoffs[t].luma_y_start) THEN coded
                  ELSE coded \cup {<<t, spec.component, spec.curr_y>>}
  BY Zenon DEF Inv, EncodeRow, ReadInv
<1>2. HeightType /\ jf \in Pictures
  BY <1>1, ReadHeights DEF ReadInv
<1>3. /\ RangesInv /\ index \in Nat /\ t \in 1 .. Len(handoffs) /\ Len(handoffs) \in Nat
      /\ coded \subseteq (1 .. Len(handoffs)) \X Components \X Nat
  <2>1. handoffs \in Seq([luma_y_start : Nat, luma_y_end : Nat])
    BY <1>1, Zenon DEF EncodeInv, RangesInv
  <2> QED  BY <1>1, <2>1, LenProperties, Zenon DEF EncodeInv
<1>4. PICK c \in Components, y \in Nat : SpecIs(index, c, y)
  BY <1>2, <1>3, SpecFacts
<1>5. /\ spec.component = c /\ spec.curr_y = y /\ IndexOf(c, y) = index
      /\ spec.luma_y = Luma(c, y) /\ spec.skip = (y >= V(c) * McuRows(c))
  BY <1>4, Zenon DEF SpecIs
<1> HIDE DEF spec
<1>6. PassedOver(spec, handoffs[t].luma_y_start) <=> ~InRange(t, c, y)
  <2>1. /\ handoffs[t].luma_y_start \in Nat /\ handoffs[t].luma_y_end \in Nat
        /\ Luma(c, y) \in Nat /\ V(c) * McuRows(c) \in Nat
    <3>1. handoffs[t] \in [luma_y_start : Nat, luma_y_end : Nat]
      BY <1>3, ElementOfSeq DEF RangesInv
    <3>2. V(c) \in Nat /\ McuRows(c) \in Nat
      BY <1>2, ComponentFacts, McuRowsFacts
    <3>3. V(c) * McuRows(c) \in Nat
      BY <3>2
    <3> QED  BY <1>2, <3>1, <3>3, LumaFacts
  <2>2. t < Len(handoffs) => ~(Luma(c, y) >= handoffs[t].luma_y_end)
    BY <1>1, <1>5, Zenon DEF RangeOver
  <2>3. PassedOver(spec, handoffs[t].luma_y_start)
           <=> y >= V(c) * McuRows(c) \/ Luma(c, y) < handoffs[t].luma_y_start
    BY <1>5, Zenon DEF PassedOver
  <2> DEFINE k == V(c) * McuRows(c)
             l == Luma(c, y)
  <2> HIDE DEF k, l
  <2>4. InRange(t, c, y) <=> y < k /\ handoffs[t].luma_y_start <= l
                             /\ (t < Len(handoffs) => l < handoffs[t].luma_y_end)
    BY Zenon DEF InRange, k, l
  <2>5. y >= k <=> ~(y < k)
    BY <2>1 DEF k
  <2>6. l < handoffs[t].luma_y_start <=> ~(handoffs[t].luma_y_start <= l)
    BY <2>1 DEF l
  <2>7. t < Len(handoffs) => l < handoffs[t].luma_y_end
    BY <2>1, <2>2 DEF l
  <2> QED  BY <2>3, <2>4, <2>5, <2>6, <2>7, Zenon DEF k, l
<1>7. coded' = IF InRange(t, c, y) THEN coded \cup {<<t, c, y>>} ELSE coded
  BY <1>1, <1>5, <1>6, Zenon
<1>8. ASSUME NEW i \in 1 .. Len(handoffs), NEW d \in Components, NEW z \in Nat
      PROVE  <<i, d, z>> \in coded' <=> InRange(i, d, z) /\ (i < t \/ (i = t /\ IndexOf(d, z) < index + 1))
  <2>1. <<i, d, z>> \in coded <=> InRange(i, d, z) /\ (i < t \/ (i = t /\ IndexOf(d, z) < index))
    BY <1>1, Zenon DEF EncodeInv
  <2>2. IndexOf(d, z) \in Nat
    BY <1>2, IndexFacts
  <2>3. IndexOf(d, z) < index + 1 <=> (IndexOf(d, z) < index \/ IndexOf(d, z) = index)
    BY <1>3, <2>2
  <2>4. IndexOf(d, z) = index <=> (d = c /\ z = y)
    <3>1. ASSUME IndexOf(d, z) = index PROVE d = c /\ z = y
      <4>1. IndexOf(d, z) = IndexOf(c, y)
        BY <1>5, <3>1, Zenon
      <4> QED  BY <1>2, <4>1, IndexUnique
    <3>2. ASSUME d = c, z = y PROVE IndexOf(d, z) = index
      BY <1>5, <3>2, Zenon
    <3> QED  BY <3>1, <3>2, Zenon
  <2>5. <<i, d, z>> = <<t, c, y>> <=> (i = t /\ d = c /\ z = y)
    OBVIOUS
  <2>6. i = t => ~(i < t)
    BY <1>3
  <2>7. <<i, d, z>> \in coded' <=> (<<i, d, z>> \in coded \/ (InRange(t, c, y) /\ <<i, d, z>> = <<t, c, y>>))
    BY <1>7, Zenon
  <2> QED  BY <2>1, <2>3, <2>4, <2>5, <2>6, <2>7, Zenon
<1>9. coded' \subseteq (1 .. Len(handoffs)) \X Components \X Nat
  BY <1>3, <1>7
<1>10. EncodeInv'
  <2>1. /\ Components' = Components /\ RangesInv'
        /\ \A d, z : IndexOf(d, z)' = IndexOf(d, z)
        /\ \A i, d, z : InRange(i, d, z)' = InRange(i, d, z)
    BY <1>1, <1>3, RangeKept, Zenon
  <2>2. handoffs' = handoffs /\ t' = t /\ index' = index + 1 /\ index' \in Nat
    BY <1>1, <1>3
  <2> QED  BY <1>3, <1>8, <1>9, <2>1, <2>2, Zenon DEF EncodeInv
<1>11. ReadInv'
  <2>1. phase' = "encode" /\ UNCHANGED picture
    BY <1>1, Zenon
  <2> QED  BY <1>1, <2>1, ReadKept, Zenon
<1>12. phase' = "encode"
  BY <1>1, Zenon
<1> QED  BY <1>10, <1>11, <1>12 DEF Inv

\* What the header says of the ranges changes nothing of what was coded.
LEMMA CodedKept ==
    ASSUME CodedInv, UNCHANGED <<picture, coded>>, DOMAIN handoffs' = DOMAIN handoffs
    PROVE  CodedInv'
<1>1. coded' = coded /\ DOMAIN handoffs' = DOMAIN handoffs
  OBVIOUS
<1>2. Components' = Components /\ \A d : V(d)' = V(d) /\ McuRows(d)' = McuRows(d)
  BY RangeKept, Zenon
<1>3. /\ \A r \in coded : r[3] < V(r[2]) * McuRows(r[2])
      /\ \A c \in Components : \A y \in Nat :
             y < V(c) * McuRows(c)
             => \E i \in DOMAIN handoffs : {k \in DOMAIN handoffs : <<k, c, y>> \in coded} = {i}
  BY Zenon DEF CodedInv
<1>4. coded' \subseteq (DOMAIN handoffs') \X Components' \X Nat
  <2>1. coded \subseteq (DOMAIN handoffs) \X Components \X Nat
    BY DEF CodedInv
  <2> SUFFICES ASSUME NEW r \in coded PROVE r \in (DOMAIN handoffs') \X Components' \X Nat
    BY <1>1
  <2>2. PICK i \in DOMAIN handoffs, c \in Components, y \in Nat : r = <<i, c, y>>
    BY <2>1
  <2> QED  BY <1>1, <1>2, <2>2
<1>5. \A r \in coded' : r[3] < V(r[2])' * McuRows(r[2])'
  BY <1>1, <1>2, <1>3, Zenon
<1>6. \A c \in Components' : \A y \in Nat :
          y < V(c)' * McuRows(c)' => \E i \in DOMAIN handoffs' : {k \in DOMAIN handoffs' : <<k, c, y>> \in coded'} = {i}
  <2>1. \A c \in Components : \A y \in Nat :
            y < V(c)' * McuRows(c)'
            => \E i \in DOMAIN handoffs : {k \in DOMAIN handoffs : <<k, c, y>> \in coded} = {i}
    BY <1>2, <1>3, Zenon
  <2> QED  BY <1>1, <1>2, <2>1
<1> QED  BY <1>4, <1>5, <1>6, Zenon DEF CodedInv

\* Every row to be coded is in the range of one thread.
LEMMA OneRange ==
    ASSUME RangesInv, jf \in Pictures, NEW c \in Components, NEW y \in Nat, y < V(c) * McuRows(c)
    PROVE  \E i \in 1 .. Len(handoffs) : \A k \in 1 .. Len(handoffs) : InRange(k, c, y) <=> k = i
<1> DEFINE n == Len(handoffs)
           l == Luma(c, y)
           S == {m \in Nat : m < n /\ handoffs[n - m].luma_y_start <= l}
<1>1. n \in Nat \ {0} /\ \A i \in 1 .. n : handoffs[i].luma_y_start \in Nat /\ handoffs[i].luma_y_end \in Nat
  <2>1. handoffs \in Seq([luma_y_start : Nat, luma_y_end : Nat]) /\ handoffs # <<>>
    BY Zenon DEF RangesInv
  <2>2. n \in Nat \ {0}
    BY <2>1, EmptySeq, LenProperties
  <2>3. \A i \in 1 .. n : handoffs[i] \in [luma_y_start : Nat, luma_y_end : Nat]
    BY <2>1, ElementOfSeq
  <2> QED  BY <2>2, <2>3
<1>2. l \in Nat
  BY LumaFacts
<1>3. /\ handoffs[1].luma_y_start = 0
      /\ \A i \in 1 .. n - 1 : handoffs[i].luma_y_end = handoffs[i + 1].luma_y_start
      /\ \A i, j \in 1 .. n : i < j => handoffs[i].luma_y_end <= handoffs[j].luma_y_start
  BY Zenon DEF RangesInv
<1>4. \A k : InRange(k, c, y) <=> handoffs[k].luma_y_start <= l /\ (k < n => l < handoffs[k].luma_y_end)
  BY Zenon DEF InRange
<1> HIDE DEF n, l
<1>5. PICK m \in S : \A x \in S : m <= x
  <2>1. n - 1 \in S
    <3>1. n - (n - 1) = 1 /\ n - 1 \in Nat /\ n - 1 < n
      BY <1>1
    <3> QED  BY <1>2, <1>3, <3>1
  <2>2. S \subseteq Nat /\ S # {}
    BY <2>1
  <2> HIDE DEF S
  <2> QED  BY <2>2, LeastElement
<1> DEFINE i == n - m
<1>6. m \in Nat /\ m < n /\ i \in 1 .. n /\ handoffs[i].luma_y_start <= l
  BY <1>1, <1>5
<1>7. i < n => l < handoffs[i].luma_y_end
  <2> SUFFICES ASSUME i < n PROVE l < handoffs[i].luma_y_end
    OBVIOUS
  <2>1. m - 1 \in Nat /\ m - 1 < n /\ n - (m - 1) = i + 1 /\ i \in 1 .. n - 1 /\ ~(m <= m - 1)
    BY <1>1, <1>6
  <2>2. m - 1 \notin S
    BY <1>5, <2>1
  <2>3. ~(handoffs[i + 1].luma_y_start <= l)
    BY <2>1, <2>2
  <2>4. handoffs[i].luma_y_end = handoffs[i + 1].luma_y_start
    BY <1>3, <2>1
  <2>5. i + 1 \in 1 .. n
    BY <1>1, <2>1
  <2>6. handoffs[i + 1].luma_y_start \in Nat
    BY <1>1, <2>5
  <2> QED  BY <1>2, <2>3, <2>4, <2>6
<1> HIDE DEF i, S
<1>8. ASSUME NEW k \in 1 .. n PROVE InRange(k, c, y) <=> k = i
  <2>1. CASE k = i
    BY <1>4, <1>6, <1>7, <2>1
  <2>2. CASE k < i
    <3>1. handoffs[k].luma_y_end <= handoffs[i].luma_y_start /\ k < n /\ k # i
      BY <1>1, <1>3, <1>6, <2>2
    <3>2. ~(l < handoffs[k].luma_y_end)
      BY <1>1, <1>2, <1>6, <3>1
    <3> QED  BY <1>4, <3>1, <3>2
  <2>3. CASE k > i
    <3>1. handoffs[i].luma_y_end <= handoffs[k].luma_y_start /\ i < n /\ k # i
      BY <1>1, <1>3, <1>6, <2>3
    <3>2. ~(handoffs[k].luma_y_start <= l)
      BY <1>1, <1>2, <1>6, <1>7, <3>1
    <3> QED  BY <1>4, <3>1, <3>2
  <2> QED  BY <1>6, <2>1, <2>2, <2>3
<1> QED  BY <1>6, <1>8 DEF n

\* A thread that leaves its loop has coded its rows; the last one that does, and what the
\* file says of the ranges then, leave each row coded once.
LEMMA EncodeEndKeeps ==
    ASSUME Inv, LastNotFirst(jf), EncodeEnd
    PROVE  Inv'
<1>1. /\ phase = "encode" /\ ReadInv /\ EncodeInv /\ rows # <<>>
      /\ RangeOver(RowSpec(index), handoffs[t].luma_y_end)
      /\ index' = 0 /\ UNCHANGED <<picture, coded>>
      /\ \/ t < Len(handoffs) /\ t' = t + 1 /\ phase' = phase /\ handoffs' = handoffs
         \/ ~(t < Len(handoffs)) /\ t' = 1 /\ phase' = "decode" /\ handoffs' = ReadHandoffs
  BY Zenon DEF Inv, EncodeEnd, ReadInv
<1>2. HeightType /\ jf \in Pictures
  BY <1>1, ReadHeights DEF ReadInv
<1>3. /\ RangesInv /\ t \in 1 .. Len(handoffs) /\ Len(handoffs) \in Nat
      /\ handoffs \in Seq([luma_y_start : Nat, luma_y_end : Nat])
      /\ coded \subseteq (1 .. Len(handoffs)) \X Components \X Nat
  <2>1. handoffs \in Seq([luma_y_start : Nat, luma_y_end : Nat])
    BY <1>1, Zenon DEF EncodeInv, RangesInv
  <2> QED  BY <1>1, <2>1, LenProperties, Zenon DEF EncodeInv
<1>4. ASSUME NEW i \in 1 .. Len(handoffs), NEW d \in Components, NEW z \in Nat
      PROVE  <<i, d, z>> \in coded <=> InRange(i, d, z) /\ i <= t
  <2>1. <<i, d, z>> \in coded <=> InRange(i, d, z) /\ (i < t \/ (i = t /\ IndexOf(d, z) < index))
    BY <1>1, Zenon DEF EncodeInv
  <2>2. i = t /\ InRange(i, d, z) => IndexOf(d, z) < index
    BY <1>1, NothingLeft, Zenon
  <2>3. i <= t <=> (i < t \/ i = t)
    <3>1. i \in Int /\ t \in Int
      BY <1>3
    <3>2. \A a, b \in Int : a <= b <=> (a < b \/ a = b)
      OBVIOUS
    <3> QED  BY <3>1, <3>2, Zenon
  <2> QED  BY <2>1, <2>2, <2>3, Zenon
<1>5. ReadInv' /\ phase' \in {"encode", "decode"}
  <2>1. UNCHANGED picture /\ phase' \in {"split", "encode", "decode", "done"} /\ phase' \in {"encode", "decode"}
    BY <1>1
  <2> QED  BY <1>1, <2>1, ReadKept, Zenon
<1>6. CASE t < Len(handoffs)
  <2>1. t' = t + 1 /\ phase' = "encode" /\ handoffs' = handoffs
    BY <1>1, <1>6
  <2>2. /\ Components' = Components /\ RangesInv'
        /\ \A d, z : IndexOf(d, z)' = IndexOf(d, z)
        /\ \A i, d, z : InRange(i, d, z)' = InRange(i, d, z)
    BY <1>1, <1>3, <2>1, RangeKept, Zenon
  <2>3. t' \in 1 .. Len(handoffs) /\ index' \in Nat
    BY <1>1, <1>3, <1>6, <2>1
  <2>4. ASSUME NEW i \in 1 .. Len(handoffs), NEW d \in Components, NEW z \in Nat
        PROVE  <<i, d, z>> \in coded' <=> InRange(i, d, z) /\ (i < t' \/ (i = t' /\ IndexOf(d, z) < index'))
    <3>1. ~(IndexOf(d, z) < index')
      <4>1. IndexOf(d, z) \in Nat /\ index' = 0
        BY <1>1, <1>2, IndexFacts
      <4> QED  BY <4>1
    <3>2. i < t' <=> i <= t
      BY <1>3, <2>1
    <3>3. coded' = coded
      BY <1>1
    <3> QED  BY <1>4, <3>1, <3>2, <3>3, Zenon
  <2>5. coded' \subseteq (1 .. Len(handoffs)) \X Components \X Nat
    BY <1>1, <1>3
  <2>6. EncodeInv'
    BY <2>1, <2>2, <2>3, <2>4, <2>5, Zenon DEF EncodeInv
  <2> QED  BY <1>5, <2>1, <2>6 DEF Inv
<1>7. CASE ~(t < Len(handoffs))
  <2>1. phase' = "decode" /\ handoffs' = ReadHandoffs /\ coded' = coded
    BY <1>1, <1>7
  <2>2. DOMAIN handoffs = 1 .. Len(handoffs) /\ DOMAIN handoffs' = 1 .. Len(handoffs)
    <3>1. DOMAIN handoffs = 1 .. Len(handoffs)
      BY <1>3, LenProperties
    <3> QED  BY <2>1, <3>1 DEF ReadHandoffs
  <2>5. \A i \in 1 .. Len(handoffs) : i <= t
    BY <1>3, <1>7
  <2>6. \A i \in 1 .. Len(handoffs), d \in Components, z \in Nat : <<i, d, z>> \in coded <=> InRange(i, d, z)
    BY <1>4, <2>5, Zenon
  <2>7. ASSUME NEW r \in coded PROVE r[3] < V(r[2]) * McuRows(r[2])
    <3>1. PICK i \in 1 .. Len(handoffs), d \in Components, z \in Nat : r = <<i, d, z>>
      BY <1>3
    <3>2. InRange(i, d, z) /\ r[3] = z /\ r[2] = d
      BY <2>6, <3>1
    <3> QED  BY <3>2, Zenon DEF InRange
  <2>8. ASSUME NEW d \in Components, NEW z \in Nat, z < V(d) * McuRows(d)
        PROVE  \E i \in 1 .. Len(handoffs) : {k \in 1 .. Len(handoffs) : <<k, d, z>> \in coded} = {i}
    <3>1. PICK i \in 1 .. Len(handoffs) : \A k \in 1 .. Len(handoffs) : InRange(k, d, z) <=> k = i
      BY <1>2, <1>3, <2>8, OneRange
    <3>2. \A k \in 1 .. Len(handoffs) : <<k, d, z>> \in coded <=> k = i
      BY <2>6, <3>1
    <3> QED  BY <3>1, <3>2
  <2>9. CodedInv
    <3> DEFINE D == 1 .. Len(handoffs)
    <3>1. /\ DOMAIN handoffs = D /\ coded \subseteq D \X Components \X Nat
          /\ \A r \in coded : r[3] < V(r[2]) * McuRows(r[2])
          /\ \A d \in Components : \A z \in Nat :
                 z < V(d) * McuRows(d) => \E i \in D : {k \in D : <<k, d, z>> \in coded} = {i}
      BY <1>3, <2>2, <2>7, <2>8, Zenon
    <3> HIDE DEF D
    <3> QED  BY <3>1, Zenon DEF CodedInv
  <2>10. CodedInv'
    BY <1>1, <2>2, <2>9, CodedKept, Zenon
  <2> QED  BY <1>5, <2>1, <2>10 DEF Inv
<1> QED  BY <1>6, <1>7

\* The decoder changes nothing of what was coded.
LEMMA DecodeKeeps ==
    ASSUME Inv, DecodeRow \/ DecodeEnd \/ UNCHANGED vars
    PROVE  Inv'
<1>1. CASE UNCHANGED vars
  <2>1. UNCHANGED <<picture, phase, handoffs, t, index, coded>>
    BY <1>1, Zenon DEF vars
  <2>2. ReadInv' = ReadInv
    <3>1. UNCHANGED <<jf, s, sta, due, image, max_dpos, early_eof, rows>>
      BY <2>1, Zenon DEF picture
    <3>2. First' = First /\ Components' = Components /\ \A c : ci(c)' = ci(c) /\ V(c)' = V(c)
      BY <3>1, Zenon DEF First, Components, ci, V
    <3>3. PositionInv' = PositionInv
      BY <3>1, <3>2, Zenon DEF PositionInv, RowOf
    <3>4. (\A c \in Components : max_dpos[c] < ci(c).bc /\ RowOf(c, max_dpos[c]) <= RowOf(First, max_dpos[First]))'
          <=> \A c \in Components : max_dpos[c] < ci(c).bc /\ RowOf(c, max_dpos[c]) <= RowOf(First, max_dpos[First])
      BY <3>1, <3>2, Zenon DEF RowOf
    <3> QED  BY <2>1, <3>1, <3>2, <3>3, <3>4, Zenon DEF ReadInv
  <2>3. EncodeInv' = EncodeInv
    <3>1. /\ Components' = Components /\ RangesInv' = RangesInv
          /\ \A c, y : IndexOf(c, y)' = IndexOf(c, y)
          /\ \A i, c, y : InRange(i, c, y)' = InRange(i, c, y)
      BY <2>1, RangeKept, Zenon
    <3> QED  BY <2>1, <3>1, Zenon DEF EncodeInv
  <2>4. CodedInv => CodedInv'
    <3>1. DOMAIN handoffs' = DOMAIN handoffs
      BY <2>1, Zenon
    <3> QED  BY <2>1, <3>1, CodedKept, Zenon
  <2> QED  BY <2>1, <2>2, <2>3, <2>4, Zenon DEF Inv
<1>2. CASE DecodeRow \/ DecodeEnd
  <2>1. /\ phase = "decode" /\ ReadInv /\ CodedInv /\ rows # <<>>
        /\ UNCHANGED <<picture, handoffs, coded>>
        /\ phase' \in {"decode", "done"}
    <3>1. CASE DecodeRow
      <4>1. phase = "decode" /\ UNCHANGED <<picture, phase, handoffs, coded>>
        BY <3>1, Zenon DEF DecodeRow
      <4> QED  BY <4>1 DEF Inv, ReadInv
    <3>2. CASE DecodeEnd
      <4>1. phase = "decode" /\ UNCHANGED <<picture, handoffs, coded>> /\ (phase' = phase \/ phase' = "done")
        BY <3>2, Zenon DEF DecodeEnd
      <4> QED  BY <4>1 DEF Inv, ReadInv
    <3> QED  BY <1>2, <3>1, <3>2
  <2>2. ReadInv'
    <3>1. UNCHANGED picture /\ phase' \in {"split", "encode", "decode", "done"}
      BY <2>1
    <3> QED  BY <2>1, <3>1, ReadKept, Zenon
  <2>3. CodedInv'
    <3>1. DOMAIN handoffs' = DOMAIN handoffs
      BY <2>1, Zenon
    <3> QED  BY <2>1, <3>1, CodedKept, Zenon
  <2> QED  BY <2>1, <2>2, <2>3 DEF Inv
<1> QED  BY <1>1, <1>2

\* Reading goes on or ends.
LEMMA ReadKeeps ==
    ASSUME Inv, ReadBlock
    PROVE  Inv'
<1>1. ReadInv' /\ phase' \in {"read", "split"}
  BY ReadBlockKeeps, Zenon DEF Inv
<1>2. t' = t /\ index' = index /\ coded' = coded /\ phase = "read"
  BY Zenon DEF ReadBlock
<1> QED  BY <1>1, <1>2 DEF Inv

\* Every step keeps the invariant, if no component is ahead of the one that the first
\* scan begins with when the last one is not looked at.
LEMMA StepInv ==
    ASSUME \A j \in Pictures : LastNotFirst(j), Inv, [Next]_vars
    PROVE  Inv'
<1>1. LastNotFirst(jf)
  BY DEF Inv, ReadInv
<1>2. CASE ReadBlock
  BY <1>2, ReadKeeps
<1>3. ASSUME NEW bytes \in {SmallFile - 1, SmallFile, 2 * SmallFile, 4 * SmallFile}, Split(bytes) PROVE Inv'
  BY <1>3, SplitKeeps
<1>4. CASE EncodeRow
  BY <1>4, EncodeRowKeeps
<1>5. CASE EncodeEnd
  BY <1>1, <1>5, EncodeEndKeeps
<1>6. CASE DecodeRow \/ DecodeEnd \/ UNCHANGED vars
  BY <1>6, DecodeKeeps
<1>7. Finished => UNCHANGED vars
  BY Zenon DEF Finished
<1> QED  BY <1>2, <1>3, <1>4, <1>5, <1>6, <1>7, Zenon DEF Next

-----------------------------------------------------------------------------
(* The theorems                                                            *)

\* A block that was read is in a row that is coded, before the cut in that row.
LEMMA ReadIsCoded ==
    ASSUME HeightType, NEW c \in Components, NEW d \in Nat, d <= max_dpos[c]
    PROVE  d \div ci(c).bch < V(c) * McuRows(c) /\ d \in RowBlocks(c, d \div ci(c).bch)
<1> DEFINE b == ci(c).bch
           v == V(c)
           q == d \div b
           end == SizeInBlocks(c)
<1>1. /\ jf \in Pictures /\ b \in Nat \ {0} /\ v \in Nat \ {0} /\ ci(c).bc \in Nat
      /\ max_dpos[c] \in Nat /\ max_dpos[c] < ci(c).bc
      /\ v * b \in Nat \ {0}
  BY ComponentFacts DEF HeightType
<1>2. d < ci(c).bc
  BY <1>1
<1>3. RowOf(c, d) = q \div v
  <2>1. (d \div b) \div v = d \div (v * b)
    <3> HIDE DEF b, v
    <3> QED  BY <1>1, QuotientTwice
  <2> QED  BY <2>1 DEF RowOf
<1>4. q \in Nat /\ q * b <= d /\ d < (q + 1) * b /\ q * b \in Nat /\ (q + 1) * b \in Nat
  <2> HIDE DEF b
  <2>1. q \in Nat /\ d % b \in Nat /\ d % b < b /\ d = b * q + (d % b)
    BY <1>1, QuotientExists
  <2> DEFINE x == d % b
  <2>2. x \in Nat /\ x < b /\ d = b * q + x
    BY <2>1
  <2> HIDE DEF q, x
  <2>3. q * b = b * q /\ (q + 1) * b = b * q + b /\ b * q \in Nat
    BY <1>1, <2>1
  <2> QED  BY <1>1, <2>1, <2>2, <2>3
<1>5. RowOf(c, d) \in Nat /\ RowOf(c, d) < McuRows(c) /\ McuRows(c) \in Nat
  <2>1. RowOf(c, d) \in Nat /\ RowOf(c, d) < jf.mcuv /\ McuRows(c) \in Nat
    BY <1>1, <1>2, RowOfFacts, McuRowsFacts
  <2>2. RowOf(c, d) <= RowOf(c, max_dpos[c]) /\ RowOf(c, max_dpos[c]) \in Nat
    <3>1. d \div (v * b) <= max_dpos[c] \div (v * b)
      <4> HIDE DEF v, b
      <4> QED  BY <1>1, QuotientOrder
    <3> QED  BY <1>1, <3>1, RowOfFacts DEF RowOf
  <2> QED  BY <2>1, <2>2 DEF McuRows
<1>6. q < v * McuRows(c)
  <2> DEFINE p == q \div v
             x == q % v
  <2> HIDE DEF b, v, q
  <2>1. p \in Nat /\ x \in Nat /\ x < v /\ q = v * p + x
    BY <1>1, <1>4, QuotientExists
  <2>2. p < McuRows(c)
    BY <1>3, <1>5
  <2> HIDE DEF p, x
  <2>3. v * p + v <= v * McuRows(c)
    BY <1>1, <1>5, <2>1, <2>2, ProductBelow
  <2>4. v * p \in Nat /\ v * McuRows(c) \in Nat
    BY <1>1, <1>5, <2>1
  <2> QED  BY <1>1, <2>1, <2>3, <2>4
<1>7. end \in Nat /\ d < end
  BY <1>1, <1>2 DEF SizeInBlocks
<1> HIDE DEF b, v, q, end
<1>8. Min({(q + 1) * b, end}) \in Nat /\ d < Min({(q + 1) * b, end})
  <2> DEFINE x == (q + 1) * b
  <2>1. x \in Nat /\ d < x
    BY <1>4
  <2> HIDE DEF x
  <2>2. Min({x, end}) = IF x <= end THEN x ELSE end
    BY <1>7, <2>1, LeastOfTwo
  <2>3. Min({x, end}) \in Nat /\ d < Min({x, end})
    BY <1>7, <2>1, <2>2
  <2> QED  BY <2>3 DEF x
<1>9. d \in RowBlocks(c, q)
  <2> DEFINE x == q * b
             z == Min({(q + 1) * b, end}) - 1
  <2>1. x \in Nat /\ x <= d
    BY <1>4
  <2>2. z \in Int /\ d <= z
    BY <1>8
  <2>3. RowBlocks(c, q) = x .. Max({x, z})
    BY Zenon DEF RowBlocks, b, end
  <2> HIDE DEF x, z
  <2>4. Max({x, z}) = IF x >= z THEN x ELSE z
    BY <2>1, <2>2, GreatestOfTwo
  <2>5. Max({x, z}) \in Int /\ d <= Max({x, z})
    BY <2>1, <2>2, <2>4
  <2> QED  BY <2>1, <2>3, <2>5
<1> QED  BY <1>6, <1>9 DEF b, v, q

LEMMA RowsOnce == Inv => EveryRowByOneThread
<1> SUFFICES ASSUME Inv, phase = "decode" PROVE EveryRowByOneThread
  BY Zenon DEF EveryRowByOneThread
<1>1. ReadInv /\ CodedInv /\ HeightType
  BY ReadHeights, Zenon DEF Inv
<1>2. \A c \in Components : MaxCodedHeight(c) = V(c) * McuRows(c)
  BY <1>1, HeightFacts
<1>3. ASSUME NEW c \in Components, NEW y \in 0 .. MaxCodedHeight(c) - 1
      PROVE  Cardinality({i \in DOMAIN handoffs : <<i, c, y>> \in coded}) = 1
  <2>1. y \in Nat /\ y < V(c) * McuRows(c)
    <3>1. V(c) \in Nat /\ McuRows(c) \in Nat
      BY <1>1, ComponentFacts, McuRowsFacts DEF HeightType
    <3>2. V(c) * McuRows(c) \in Nat
      BY <3>1
    <3> DEFINE h == MaxCodedHeight(c)
    <3>3. h \in Nat /\ h = V(c) * McuRows(c)
      BY <1>2, <3>2
    <3> HIDE DEF h
    <3>4. y \in Nat /\ y < h
      BY <3>3 DEF h
    <3> QED  BY <3>3, <3>4
  <2>2. PICK i \in DOMAIN handoffs : {k \in DOMAIN handoffs : <<k, c, y>> \in coded} = {i}
    BY <1>1, <2>1, Zenon DEF CodedInv
  <2> QED  BY <2>2, FS_Singleton
<1>4. ASSUME NEW r \in coded PROVE r[3] < MaxCodedHeight(r[2])
  <2>1. r \in (DOMAIN handoffs) \X Components \X Nat /\ r[3] < V(r[2]) * McuRows(r[2])
    BY <1>1, Zenon DEF CodedInv
  <2>2. r[2] \in Components
    BY <2>1
  <2> QED  BY <1>2, <2>1, <2>2, Zenon
<1>5. ASSUME NEW c \in Components, NEW d \in 0 .. Len(image[c]) - 1
      PROVE  d \div ci(c).bch < MaxCodedHeight(c) /\ d \in RowBlocks(c, d \div ci(c).bch)
  <2>1. image[c] \in Seq(Int \X Int) /\ Len(image[c]) <= max_dpos[c] + 1 /\ max_dpos[c] \in Nat
    BY <1>1 DEF ReadInv
  <2>2. d \in Nat /\ d <= max_dpos[c]
    <3> DEFINE n == Len(image[c])
               m == max_dpos[c]
    <3>1. n \in Nat /\ n <= m + 1 /\ m \in Nat
      BY <2>1, LenProperties
    <3> HIDE DEF n, m
    <3>2. d \in Nat /\ d <= m
      BY <3>1 DEF n
    <3> QED  BY <3>2 DEF m
  <2> QED  BY <1>1, <1>2, <2>2, ReadIsCoded
<1> QED  BY <1>3, <1>4, <1>5, Zenon DEF EveryRowByOneThread

LEMMA EndMet == Inv /\ LastNotFirst(jf) => EndStaysEnd
<1> SUFFICES ASSUME Inv, LastNotFirst(jf), phase = "encode", RowSpec(index).done
             PROVE  RowSpec(index + 1).skip /\ RowSpec(index + 1).done
  BY Zenon DEF EndStaysEnd
<1>1. ReadInv /\ index \in Nat
  BY Zenon DEF Inv, EncodeInv
<1>2. index + 1 \in Nat /\ index <= index + 1
  BY <1>1
<1> QED  BY <1>1, <1>2, EndStays

\* The inductive invariant holds in every reachable state, unless a first scan begins with
\* the last of several components: then the end may be met too early.
THEOREM RowRangesInvariant == (\A j \in Pictures : LastNotFirst(j)) /\ Spec => []Inv
<1> SUFFICES ASSUME \A j \in Pictures : LastNotFirst(j) PROVE Spec => []Inv
  OBVIOUS
<1>1. Init => Inv
  BY InitInv
<1>2. Inv /\ [Next]_vars => Inv'
  BY StepInv
<1> QED  BY <1>1, <1>2, PTL DEF Spec

\* For such pictures split_row_handoffs_to_threads and the loops of the threads see to it
\* that every row to be coded is coded by one thread, no other is, and every block that
\* was read is in a row that is coded, wherever the file is cut off and however many
\* threads there are.
THEOREM RowsByOneThread == (\A j \in Pictures : LastNotFirst(j)) /\ Spec => []EveryRowByOneThread
<1>1. Inv => EveryRowByOneThread
  BY RowsOnce
<1> QED  BY <1>1, RowRangesInvariant, PTL

\* For such pictures the assertion at the end of lepton_encode_row_range never fails: once
\* the last thread has met the end, the row after it is past the end too.
THEOREM RowsEndStaysEnd == (\A j \in Pictures : LastNotFirst(j)) /\ Spec => []EndStaysEnd
<1> SUFFICES ASSUME \A j \in Pictures : LastNotFirst(j) PROVE Spec => []EndStaysEnd
  OBVIOUS
<1>1. Inv => EndStaysEnd
  <2>1. Inv => LastNotFirst(jf)
    BY DEF Inv, ReadInv
  <2> QED  BY <2>1, EndMet
<1> QED  BY <1>1, RowRangesInvariant, PTL
=============================================================================
