---------------------------- MODULE StreamLemmas ----------------------------
(***************************************************************************)
(* Facts about naturals, sequences and streams that are put together from  *)
(* pieces.  The library's induction theorems take the property to prove as *)
(* an operator; here induction is a lemma about sets of naturals, and the  *)
(* property is the set of the numbers that have it.                        *)
(***************************************************************************)
EXTENDS Integers, Sequences, SequencesExt, SequenceTheorems, WellFoundedInduction, TLAPS

\* A nonempty set of naturals has a least element.
LEMMA LeastElement ==
    ASSUME NEW S, S \subseteq Nat, S # {}
    PROVE  \E m \in S : \A n \in S : m <= n
<1> DEFINE R == OpToRel(<, Nat)
<1>1. PICK m \in S : \A n \in S : <<n, m>> \notin R
  <2>1. IsWellFoundedOn(R, Nat)
    BY NatLessThanWellFounded, Zenon
  <2> HIDE DEF R
  <2> QED  BY <2>1, WFMin, Zenon
<1>2. \A n \in S : ~(n < m)
  BY <1>1, Zenon DEF OpToRel
<1> QED  BY <1>2

\* Induction on the naturals: a set that holds 0 and, with n, also n + 1, holds
\* every natural.
LEMMA InductionOnSet ==
    ASSUME NEW S, 0 \in S, \A n \in Nat : n \in S => n + 1 \in S
    PROVE  \A n \in Nat : n \in S
<1> SUFFICES ASSUME Nat \ S # {} PROVE FALSE
  BY Zenon
<1>1. PICK m \in Nat \ S : \A n \in Nat \ S : m <= n
  BY LeastElement, Zenon
<1>2. m # 0 /\ m - 1 \in Nat /\ m = (m - 1) + 1
  BY <1>1
<1>3. m - 1 \in S
  BY <1>1, <1>2
<1> QED  BY <1>1, <1>2, <1>3

\* A prefix of a sequence has the sequence's entries at the same places.
LEMMA PrefixEntries ==
    ASSUME NEW S, NEW s \in Seq(S), NEW n \in 0..Len(s)
    PROVE  /\ SubSeq(s, 1, n) \in Seq(S)
           /\ Len(SubSeq(s, 1, n)) = n
           /\ \A i \in 1..n : SubSeq(s, 1, n)[i] = s[i]
<1>1. Len(s) \in Nat /\ n \in Nat /\ n <= Len(s)
  BY LenProperties
<1>2. \A i \in 1..n : s[i] \in S
  BY <1>1, ElementOfSeq
<1>3. /\ SubSeq(s, 1, n) \in Seq(S)
      /\ Len(SubSeq(s, 1, n)) = IF 1 <= n THEN n - 1 + 1 ELSE 0
      /\ \A i \in 1..(n - 1 + 1) : SubSeq(s, 1, n)[i] = s[1 + i - 1]
  <2>1. 1 \in Int /\ n \in Int
    BY <1>1
  <2> QED  BY <1>2, <2>1, SubSeqProperties
<1> QED  BY <1>1, <1>3

\* A part of a sequence has the sequence's entries, moved by where it starts.
LEMMA PartEntries ==
    ASSUME NEW S, NEW s \in Seq(S), NEW a \in Nat, NEW b \in a..Len(s)
    PROVE  /\ SubSeq(s, a + 1, b) \in Seq(S)
           /\ Len(SubSeq(s, a + 1, b)) = b - a
           /\ \A i \in 1..(b - a) : SubSeq(s, a + 1, b)[i] = s[a + i]
<1>1. Len(s) \in Nat /\ b \in Nat /\ a <= b /\ b <= Len(s)
  BY LenProperties
<1>2. \A i \in (a + 1)..b : s[i] \in S
  BY <1>1, ElementOfSeq
<1>3. /\ SubSeq(s, a + 1, b) \in Seq(S)
      /\ Len(SubSeq(s, a + 1, b)) = IF a + 1 <= b THEN b - (a + 1) + 1 ELSE 0
      /\ \A i \in 1..(b - (a + 1) + 1) : SubSeq(s, a + 1, b)[i] = s[(a + 1) + i - 1]
  <2>1. a + 1 \in Int /\ b \in Int
    BY <1>1
  <2> QED  BY <1>2, <2>1, SubSeqProperties
<1> QED  BY <1>1, <1>3

\* Taking one entry out of a sequence closes the gap.
LEMMA RemoveAtEntries ==
    ASSUME NEW S, NEW s \in Seq(S), NEW i \in 1..Len(s)
    PROVE  /\ RemoveAt(s, i) \in Seq(S)
           /\ Len(RemoveAt(s, i)) = Len(s) - 1
           /\ \A j \in 1..(Len(s) - 1) : RemoveAt(s, i)[j] = IF j < i THEN s[j] ELSE s[j + 1]
<1> DEFINE n == Len(s)
           a == SubSeq(s, 1, i - 1)
           b == SubSeq(s, i + 1, n)
<1>1. n \in Nat /\ i \in Nat /\ 1 <= i /\ i <= n
  BY LenProperties
<1>2. a \in Seq(S) /\ Len(a) = i - 1 /\ \A j \in 1..(i - 1) : a[j] = s[j]
  <2>1. i - 1 \in 0..Len(s)
    BY <1>1
  <2> QED  BY <2>1, PrefixEntries
<1>3. b \in Seq(S) /\ Len(b) = n - i /\ \A j \in 1..(n - i) : b[j] = s[i + j]
  <2>1. \A j \in (i + 1)..n : s[j] \in S
    BY <1>1, ElementOfSeq
  <2>2. i + 1 \in Int /\ n \in Int
    BY <1>1
  <2> HIDE DEF n
  <2>3. /\ SubSeq(s, i + 1, n) \in Seq(S)
        /\ Len(SubSeq(s, i + 1, n)) = IF i + 1 <= n THEN n - (i + 1) + 1 ELSE 0
        /\ \A j \in 1..(n - (i + 1) + 1) : SubSeq(s, i + 1, n)[j] = s[(i + 1) + j - 1]
    BY <2>1, <2>2, SubSeqProperties
  <2> QED  BY <1>1, <2>3
<1>4. RemoveAt(s, i) = a \o b
  BY DEF RemoveAt
<1> HIDE DEF a, b
<1>5. /\ a \o b \in Seq(S)
      /\ Len(a \o b) = n - 1
      /\ \A j \in 1..(n - 1) : (a \o b)[j] = IF j <= i - 1 THEN a[j] ELSE b[j - (i - 1)]
  BY <1>1, <1>2, <1>3, ConcatProperties
<1>6. ASSUME NEW j \in 1..(n - 1) PROVE (a \o b)[j] = IF j < i THEN s[j] ELSE s[j + 1]
  <2>1. CASE j < i
    BY <1>1, <1>2, <1>5, <2>1
  <2>2. CASE ~(j < i)
    BY <1>1, <1>3, <1>5, <2>2
  <2> QED  BY <2>1, <2>2
<1> QED  BY <1>4, <1>5, <1>6

-----------------------------------------------------------------------------
(* A stream put together piece by piece                                    *)

\* g[k] is the concatenation of the first k pieces.
JoinsUpTo(g, pieces, k) ==
    /\ g = [i \in 0..k |-> g[i]]
    /\ g[0] = <<>>
    /\ \A i \in 0..k : i > 0 => g[i] = g[i - 1] \o pieces[i - 1]

\* Every number of pieces can be joined.
LEMMA JoinUpToExists == ASSUME NEW pieces PROVE \A k \in Nat : \E g : JoinsUpTo(g, pieces, k)
<1> DEFINE S == {k \in Nat : \E g : JoinsUpTo(g, pieces, k)}
<1>1. 0 \in S
  <2> DEFINE g == [i \in 0..0 |-> <<>>]
  <2>1. JoinsUpTo(g, pieces, 0)
    BY DEF JoinsUpTo
  <2> QED  BY <2>1
<1>2. ASSUME NEW n \in Nat, n \in S PROVE n + 1 \in S
  <2>1. PICK g : JoinsUpTo(g, pieces, n)
    BY <1>2
  <2> DEFINE h == [i \in 0..(n + 1) |-> IF i = n + 1 THEN g[n] \o pieces[n] ELSE g[i]]
  <2>2. h = [i \in 0..(n + 1) |-> h[i]]
    OBVIOUS
  <2>3. h[0] = <<>>
    BY <2>1 DEF JoinsUpTo
  <2>4. ASSUME NEW i \in 0..(n + 1), i > 0 PROVE h[i] = h[i - 1] \o pieces[i - 1]
    <3>1. CASE i = n + 1
      <4>1. i - 1 = n /\ n \in 0..(n + 1) /\ n # n + 1 /\ h[i] = g[n] \o pieces[n] /\ h[n] = g[n]
        BY <3>1
      <4> QED  BY <4>1, Zenon
    <3>2. CASE i # n + 1
      <4>1. i \in 0..n /\ i - 1 \in 0..n /\ h[i] = g[i] /\ h[i - 1] = g[i - 1]
        BY <2>4, <3>2
      <4>2. g[i] = g[i - 1] \o pieces[i - 1]
        BY <2>1, <2>4, <4>1, Zenon DEF JoinsUpTo
      <4> QED  BY <4>1, <4>2, Zenon
    <3> QED  BY <3>1, <3>2
  <2> HIDE DEF h
  <2>5. JoinsUpTo(h, pieces, n + 1)
    BY <2>2, <2>3, <2>4, Zenon DEF JoinsUpTo
  <2> QED  BY <2>5
<1> HIDE DEF S
<1>3. \A n \in Nat : n \in S
  BY <1>1, <1>2, InductionOnSet, Zenon
<1> QED  BY <1>3, Zenon DEF S

\* Two ways of joining the first pieces agree.
LEMMA JoinUpToUnique ==
    ASSUME NEW pieces, NEW a \in Nat, NEW b \in Nat, NEW g, NEW h,
           JoinsUpTo(g, pieces, a), JoinsUpTo(h, pieces, b)
    PROVE  \A k \in Nat : k <= a /\ k <= b => g[k] = h[k]
<1> DEFINE S == {k \in Nat : k <= a /\ k <= b => g[k] = h[k]}
<1>1. 0 \in S
  BY DEF JoinsUpTo
<1>2. ASSUME NEW n \in Nat, n \in S PROVE n + 1 \in S
  <2> SUFFICES ASSUME n + 1 <= a, n + 1 <= b PROVE g[n + 1] = h[n + 1]
    OBVIOUS
  <2>1. n + 1 \in 0..a /\ n + 1 \in 0..b /\ n + 1 > 0 /\ (n + 1) - 1 = n /\ g[n] = h[n]
    BY <1>2
  <2>2. g[n + 1] = g[(n + 1) - 1] \o pieces[(n + 1) - 1]
    BY <2>1, Zenon DEF JoinsUpTo
  <2>3. h[n + 1] = h[(n + 1) - 1] \o pieces[(n + 1) - 1]
    BY <2>1, Zenon DEF JoinsUpTo
  <2> QED  BY <2>1, <2>2, <2>3, Zenon
<1> HIDE DEF S
<1>3. \A n \in Nat : n \in S
  BY <1>1, <1>2, InductionOnSet, Zenon
<1> QED  BY <1>3, Zenon DEF S

\* The recursive function that joins pieces exists.
LEMMA JoinExists ==
    ASSUME NEW pieces
    PROVE  \E g : g = [k \in Nat |-> IF k = 0 THEN <<>> ELSE g[k - 1] \o pieces[k - 1]]
<1> DEFINE part(k) == CHOOSE g : JoinsUpTo(g, pieces, k)
           g == [k \in Nat |-> part(k)[k]]
           body(k) == IF k = 0 THEN <<>> ELSE g[k - 1] \o pieces[k - 1]
<1>1. \A k \in Nat : JoinsUpTo(part(k), pieces, k)
  BY JoinUpToExists, Zenon
<1> HIDE DEF part
<1>2. ASSUME NEW k \in Nat PROVE g[k] = body(k)
  <2>1. CASE k = 0
    BY <1>1, <2>1 DEF JoinsUpTo
  <2>2. CASE k # 0
    <3>1. k - 1 \in Nat /\ k \in 0..k /\ k > 0 /\ k - 1 <= k /\ k - 1 <= k - 1
      BY <2>2
    <3>2. part(k)[k] = part(k)[k - 1] \o pieces[k - 1]
      BY <1>1, <3>1, Zenon DEF JoinsUpTo
    <3>3. part(k)[k - 1] = part(k - 1)[k - 1]
      <4>1. JoinsUpTo(part(k), pieces, k) /\ JoinsUpTo(part(k - 1), pieces, k - 1)
        BY <1>1, <3>1, Zenon
      <4>2. \A i \in Nat : i <= k /\ i <= k - 1 => part(k)[i] = part(k - 1)[i]
        BY <3>1, <4>1, JoinUpToUnique
      <4> QED  BY <3>1, <4>2, Zenon
    <3>4. g[k] = part(k)[k] /\ g[k - 1] = part(k - 1)[k - 1]
      BY <3>1
    <3> QED  BY <2>2, <3>2, <3>3, <3>4, Zenon
  <2> QED  BY <2>1, <2>2
<1>3. g = [k \in Nat |-> g[k]]
  OBVIOUS
<1> HIDE DEF g
<1>4. g = [k \in Nat |-> body(k)]
  BY <1>2, <1>3, Zenon
<1> QED  BY <1>4, Zenon

\* What is known of a stream: its pieces are sequences over S, joined in order.
IsStream(g, pieces, S) ==
    /\ g = [k \in Nat |-> IF k = 0 THEN <<>> ELSE g[k - 1] \o pieces[k - 1]]
    /\ \A k \in Nat : pieces[k] \in Seq(S)

\* One more piece is appended, and every join is a sequence over S.
LEMMA StreamStep ==
    ASSUME NEW S, NEW pieces, NEW g, IsStream(g, pieces, S)
    PROVE  /\ g[0] = <<>>
           /\ \A k \in Nat : g[k + 1] = g[k] \o pieces[k]
           /\ \A k \in Nat : g[k] \in Seq(S)
<1> DEFINE body(k) == IF k = 0 THEN <<>> ELSE g[k - 1] \o pieces[k - 1]
<1>1. \A k \in Nat : g[k] = body(k)
  <2>1. g = [k \in Nat |-> body(k)]
    BY Zenon DEF IsStream
  <2> HIDE DEF body
  <2> QED  BY <2>1, Zenon
<1>2. g[0] = <<>>
  BY <1>1
<1>3. ASSUME NEW k \in Nat PROVE g[k + 1] = g[k] \o pieces[k]
  <2>1. k + 1 \in Nat /\ k + 1 # 0 /\ (k + 1) - 1 = k
    OBVIOUS
  <2>2. g[k + 1] = g[(k + 1) - 1] \o pieces[(k + 1) - 1]
    BY <1>1, <2>1, Zenon
  <2> QED  BY <2>1, <2>2, Zenon
<1>4. \A k \in Nat : g[k] \in Seq(S)
  <2> DEFINE T == {k \in Nat : g[k] \in Seq(S)}
  <2>1. 0 \in T
    BY <1>2, EmptySeq
  <2>2. ASSUME NEW k \in Nat, k \in T PROVE k + 1 \in T
    <3>1. g[k] \in Seq(S) /\ pieces[k] \in Seq(S)
      BY <2>2, Zenon DEF IsStream
    <3>2. g[k + 1] \in Seq(S)
      BY <1>3, <3>1, ConcatProperties, Zenon
    <3> QED  BY <3>2
  <2> HIDE DEF T
  <2>3. \A k \in Nat : k \in T
    BY <2>1, <2>2, InductionOnSet, Zenon
  <2> QED  BY <2>3, Zenon DEF T
<1> QED  BY <1>2, <1>3, <1>4, Zenon

\* A sequence is a prefix of its concatenation with another one.
LEMMA ConcatIsPrefix ==
    ASSUME NEW S, NEW s \in Seq(S), NEW t \in Seq(S)
    PROVE  IsPrefix(s, s \o t)
<1>1. /\ Len(s) \in Nat /\ Len(t) \in Nat
      /\ s \o t \in Seq(S) /\ Len(s \o t) = Len(s) + Len(t)
      /\ \A i \in 1..Len(s) : s[i] \in S /\ (s \o t)[i] = s[i]
  <2>1. Len(s) \in Nat /\ Len(t) \in Nat
    BY LenProperties
  <2>2. \A i \in 1..Len(s) : s[i] \in S
    BY ElementOfSeq
  <2> QED  BY <2>1, <2>2, ConcatProperties
<1> DEFINE u == s \o t
           n == Len(s)
<1> HIDE DEF u
<1>2. /\ SubSeq(u, 1, n) \in Seq(S) /\ Len(SubSeq(u, 1, n)) = n
      /\ \A i \in 1..n : SubSeq(u, 1, n)[i] = u[i]
  <2>1. \A i \in 1..n : u[i] \in S
    BY <1>1 DEF u
  <2> HIDE DEF n
  <2>2. n \in Nat /\ n \in Int /\ 1 \in Int
    BY <1>1 DEF n
  <2>3. /\ SubSeq(u, 1, n) \in Seq(S)
        /\ Len(SubSeq(u, 1, n)) = IF 1 <= n THEN n - 1 + 1 ELSE 0
        /\ \A i \in 1..(n - 1 + 1) : SubSeq(u, 1, n)[i] = u[1 + i - 1]
    BY <2>1, <2>2, SubSeqProperties
  <2> QED  BY <2>2, <2>3
<1>3. SubSeq(s, 1, n) = s
  BY SubSeqFull
<1>4. SubSeq(u, 1, n) = s
  <2>1. \A i \in 1..n : SubSeq(u, 1, n)[i] = s[i]
    BY <1>1, <1>2 DEF u
  <2> QED  BY <1>2, <2>1, SeqEqual
<1> QED  BY <1>1, <1>3, <1>4 DEF IsPrefix, u

\* Something over S follows s in u.
Continues(s, u, S) == \E t \in Seq(S) : u = s \o t

\* A later join continues an earlier one.
LEMMA StreamGrows ==
    ASSUME NEW S, NEW pieces, NEW g, IsStream(g, pieces, S), NEW j \in Nat, NEW k \in Nat, j <= k
    PROVE  Continues(g[j], g[k], S)
<1> SUFFICES \E t \in Seq(S) : g[k] = g[j] \o t
  BY Zenon DEF Continues
<1>0. /\ \A i \in Nat : g[i + 1] = g[i] \o pieces[i]
      /\ \A i \in Nat : g[i] \in Seq(S) /\ pieces[i] \in Seq(S)
  <2>1. \A i \in Nat : pieces[i] \in Seq(S)
    BY Zenon DEF IsStream
  <2> QED  BY <2>1, StreamStep
<1> DEFINE T == {d \in Nat : \E t \in Seq(S) : g[j + d] = g[j] \o t}
<1>1. 0 \in T
  <2>1. j + 0 = j /\ g[j] \in Seq(S) /\ <<>> \in Seq(S)
    BY <1>0, EmptySeq
  <2>2. g[j + 0] = g[j] \o <<>>
    BY <2>1, ConcatEmptySeq, Zenon
  <2> QED  BY <2>1, <2>2
<1>2. ASSUME NEW d \in Nat, d \in T PROVE d + 1 \in T
  <2>1. PICK t \in Seq(S) : g[j + d] = g[j] \o t
    BY <1>2
  <2>2. j + d \in Nat /\ j + (d + 1) = (j + d) + 1 /\ d + 1 \in Nat
    OBVIOUS
  <2>3. g[j + (d + 1)] = g[j + d] \o pieces[j + d] /\ g[j] \in Seq(S) /\ pieces[j + d] \in Seq(S)
    BY <1>0, <2>2, Zenon
  <2>4. (g[j] \o t) \o pieces[j + d] = g[j] \o (t \o pieces[j + d])
    <3>1. ASSUME NEW x \in Seq(S), NEW y \in Seq(S), NEW z \in Seq(S)
          PROVE  (x \o y) \o z = x \o (y \o z)
      BY ConcatAssociative
    <3> QED  BY <2>3, <3>1
  <2>5. t \o pieces[j + d] \in Seq(S)
    BY <2>3, ConcatProperties, Zenon
  <2> QED  BY <2>1, <2>2, <2>3, <2>4, <2>5, Zenon
<1> HIDE DEF T
<1>3. \A d \in Nat : d \in T
  BY <1>1, <1>2, InductionOnSet, Zenon
<1>4. k - j \in Nat /\ j + (k - j) = k
  OBVIOUS
<1>5. \E t \in Seq(S) : g[j + (k - j)] = g[j] \o t
  BY <1>3, <1>4, Zenon DEF T
<1> QED  BY <1>4, <1>5, Zenon

\* Empty pieces add nothing.
LEMMA StreamSkips ==
    ASSUME NEW S, NEW pieces, NEW g, IsStream(g, pieces, S), NEW j \in Nat, NEW k \in Nat, j <= k,
           \A i \in Nat : j <= i /\ i < k => pieces[i] = <<>>
    PROVE  g[k] = g[j]
<1>0. /\ \A i \in Nat : g[i + 1] = g[i] \o pieces[i]
      /\ \A i \in Nat : g[i] \in Seq(S)
  BY StreamStep
<1> DEFINE T == {d \in Nat : j + d <= k => g[j + d] = g[j]}
<1>1. 0 \in T
  OBVIOUS
<1>2. ASSUME NEW d \in Nat, d \in T PROVE d + 1 \in T
  <2> SUFFICES ASSUME j + (d + 1) <= k PROVE g[j + (d + 1)] = g[j]
    OBVIOUS
  <2>1. j + d \in Nat /\ j + (d + 1) = (j + d) + 1 /\ j <= j + d /\ j + d < k /\ j + d <= k
    OBVIOUS
  <2>2. g[j + d] = g[j] /\ pieces[j + d] = <<>>
    BY <1>2, <2>1
  <2>3. g[j + (d + 1)] = g[j + d] \o <<>> /\ g[j] \in Seq(S)
    BY <1>0, <2>1, <2>2, Zenon
  <2> QED  BY <2>2, <2>3, ConcatEmptySeq, Zenon
<1> HIDE DEF T
<1>3. \A d \in Nat : d \in T
  BY <1>1, <1>2, InductionOnSet, Zenon
<1>4. k - j \in Nat /\ j + (k - j) = k /\ k <= k
  OBVIOUS
<1>5. j + (k - j) <= k => g[j + (k - j)] = g[j]
  BY <1>3, <1>4, Zenon DEF T
<1> QED  BY <1>4, <1>5, Zenon

Associates(x, y, z) == (x \o y) \o z = x \o (y \o z)

\* Concatenation is associative.
LEMMA Associate ==
    ASSUME NEW S, NEW x \in Seq(S), NEW y \in Seq(S), NEW z \in Seq(S)
    PROVE  Associates(x, y, z)
<1>1. (x \o y) \o z = x \o (y \o z)
  BY ConcatAssociative
<1> QED  BY <1>1, Zenon DEF Associates

Regrouped(x, a, b, t) == (x \o (a \o b)) \o t = (x \o a) \o (b \o t)

\* Four sequences can be grouped in two ways.
LEMMA Regroup ==
    ASSUME NEW S, NEW x \in Seq(S), NEW a \in Seq(S), NEW b \in Seq(S), NEW t \in Seq(S)
    PROVE  Regrouped(x, a, b, t)
<1>1. (x \o a) \o b = x \o (a \o b)
  BY ConcatAssociative
<1> DEFINE y == x \o a
<1>2. y \in Seq(S)
  BY ConcatProperties
<1> HIDE DEF y
<1>3. (y \o b) \o t = y \o (b \o t)
  BY <1>2, ConcatAssociative
<1> QED  BY <1>1, <1>3, Zenon DEF y, Regrouped

\* What continues a whole piece also continues any part of it.
LEMMA PartContinues ==
    ASSUME NEW S, NEW x \in Seq(S), NEW f \in Seq(S), NEW k \in 0..Len(f), NEW u,
           Continues(x \o f, u, S)
    PROVE  Continues(x \o SubSeq(f, 1, k), u, S)
<1> DEFINE a == SubSeq(f, 1, k)
           b == SubSeq(f, k + 1, Len(f))
<1>1. Len(f) \in Nat /\ k \in Nat /\ k <= Len(f)
  BY LenProperties
<1>2. a \in Seq(S) /\ Len(a) = k /\ \A i \in 1..k : a[i] = f[i]
  BY PrefixEntries
<1>3. b \in Seq(S) /\ Len(b) = Len(f) - k /\ \A i \in 1..(Len(f) - k) : b[i] = f[k + i]
  <2> DEFINE n == Len(f)
  <2>1. \A j \in (k + 1)..n : f[j] \in S
    BY <1>1, ElementOfSeq
  <2>2. k + 1 \in Int /\ n \in Int
    BY <1>1
  <2> HIDE DEF n
  <2>3. /\ SubSeq(f, k + 1, n) \in Seq(S)
        /\ Len(SubSeq(f, k + 1, n)) = IF k + 1 <= n THEN n - (k + 1) + 1 ELSE 0
        /\ \A j \in 1..(n - (k + 1) + 1) : SubSeq(f, k + 1, n)[j] = f[(k + 1) + j - 1]
    BY <2>1, <2>2, SubSeqProperties
  <2>4. n \in Nat /\ k <= n
    BY <1>1 DEF n
  <2>5. SubSeq(f, k + 1, n) \in Seq(S) /\ Len(SubSeq(f, k + 1, n)) = n - k
        /\ \A i \in 1..(n - k) : SubSeq(f, k + 1, n)[i] = f[k + i]
    BY <2>3, <2>4
  <2> QED  BY <2>5 DEF n
<1> HIDE DEF a, b
<1>4. f = a \o b
  <2>1. a \o b \in Seq(S) /\ Len(a \o b) = Len(f)
    <3>1. a \o b \in Seq(S) /\ Len(a \o b) = Len(a) + Len(b)
      BY <1>2, <1>3, ConcatProperties, Zenon
    <3>2. Len(a) + Len(b) = Len(f)
      BY <1>1, <1>2, <1>3
    <3> QED  BY <3>1, <3>2, Zenon
  <2>2. ASSUME NEW i \in 1..Len(f) PROVE (a \o b)[i] = f[i]
    <3>1. CASE i <= k
      BY <1>1, <1>2, <1>3, <3>1, ConcatProperties
    <3>2. CASE ~(i <= k)
      <4>1. i - k \in 1..(Len(f) - k) /\ k + (i - k) = i
        BY <1>1, <3>2
      <4>2. (a \o b)[i] = b[i - k]
        BY <1>1, <1>2, <1>3, <3>2, ConcatProperties
      <4> QED  BY <1>3, <4>1, <4>2
    <3> QED  BY <3>1, <3>2
  <2> QED  BY <2>1, <2>2, SeqEqual
<1>5. PICK t \in Seq(S) : u = (x \o f) \o t
  BY Zenon DEF Continues
<1>6. u = (x \o (a \o b)) \o t
  BY <1>4, <1>5, Zenon
<1>7. b \o t \in Seq(S) /\ a \o b \in Seq(S) /\ x \o a \in Seq(S)
  BY <1>2, <1>3, ConcatProperties
<1>8. (x \o (a \o b)) \o t = (x \o a) \o (b \o t)
  <2>1. Regrouped(x, a, b, t)
    BY <1>2, <1>3, Regroup, Zenon
  <2> QED  BY <2>1, Zenon DEF Regrouped
<1> QED  BY <1>6, <1>7, <1>8, Zenon DEF Continues, a

\* What is continued is a prefix.
LEMMA ContinuesIsPrefix ==
    ASSUME NEW S, NEW s \in Seq(S), NEW u, Continues(s, u, S)
    PROVE  IsPrefix(s, u)
<1>1. PICK t \in Seq(S) : u = s \o t
  BY Zenon DEF Continues
<1> QED  BY <1>1, ConcatIsPrefix, Zenon

\* A prefix agrees with the sequence entry by entry.
LEMMA EntriesOfPrefix ==
    ASSUME NEW S, NEW s \in Seq(S), NEW t \in Seq(S), IsPrefix(s, t)
    PROVE  Len(s) <= Len(t) /\ \A i \in 1..Len(s) : s[i] = t[i]
<1> DEFINE n == Len(s)
<1>1. n \in Nat /\ Len(t) \in Nat
  BY LenProperties
<1>2. n <= Len(t) /\ SubSeq(s, 1, n) = SubSeq(t, 1, n)
  BY Zenon DEF IsPrefix
<1>3. SubSeq(s, 1, n) = s
  BY SubSeqFull
<1> HIDE DEF n
<1>4. n \in 0..Len(t)
  BY <1>1, <1>2
<1>5. \A i \in 1..n : SubSeq(t, 1, n)[i] = t[i]
  BY <1>4, PrefixEntries
<1> QED  BY <1>2, <1>3, <1>5, Zenon DEF n

\* Entry by entry agreement makes a prefix.
LEMMA PrefixFromEntries ==
    ASSUME NEW S, NEW s \in Seq(S), NEW t \in Seq(S), Len(s) <= Len(t),
           \A i \in 1..Len(s) : s[i] = t[i]
    PROVE  IsPrefix(s, t)
<1> DEFINE n == Len(s)
           w == SubSeq(t, 1, n)
<1>1. n \in 0..Len(t)
  BY LenProperties
<1> HIDE DEF n
<1>2. w \in Seq(S) /\ Len(w) = n /\ \A i \in 1..n : w[i] = t[i]
  BY <1>1, PrefixEntries
<1> HIDE DEF w
<1>3. Len(w) = Len(s) /\ \A i \in 1..Len(w) : w[i] = s[i]
  BY <1>2, Zenon DEF n
<1>4. w = s
  BY <1>2, <1>3, SeqEqual
<1>5. SubSeq(s, 1, n) = s
  BY SubSeqFull DEF n
<1> QED  BY <1>4, <1>5, Zenon DEF IsPrefix, w, n

\* x is s, g and k, one behind the other.
HasParts(x, s, g, k) ==
    /\ Len(x) = Len(s) + Len(g) + Len(k)
    /\ \A i \in 1..Len(g) : x[Len(s) + i] = g[i]
    /\ \A i \in 1..Len(k) : x[Len(s) + Len(g) + i] = k[i]

\* Where the parts of a concatenation lie.
LEMMA PartsOfConcat ==
    ASSUME NEW S, NEW s \in Seq(S), NEW g \in Seq(S), NEW k \in Seq(S)
    PROVE  s \o (g \o k) \in Seq(S) /\ HasParts(s \o (g \o k), s, g, k)
<1> DEFINE x == s \o (g \o k)
           gk == g \o k
           a == Len(s)
           b == Len(g)
           c == Len(k)
<1>1. a \in Nat /\ b \in Nat /\ c \in Nat
  BY LenProperties
<1>2. /\ gk \in Seq(S) /\ Len(gk) = b + c
      /\ \A i \in 1..(b + c) : gk[i] = IF i <= b THEN g[i] ELSE k[i - b]
  BY ConcatProperties
<1> HIDE DEF gk, x
<1>3. /\ x \in Seq(S) /\ Len(x) = a + Len(gk)
      /\ \A i \in 1..(a + Len(gk)) : x[i] = IF i <= a THEN s[i] ELSE gk[i - a]
  <2>1. x = s \o gk
    BY Zenon DEF gk, x
  <2>2. /\ s \o gk \in Seq(S) /\ Len(s \o gk) = a + Len(gk)
        /\ \A i \in 1..(a + Len(gk)) : (s \o gk)[i] = IF i <= a THEN s[i] ELSE gk[i - a]
    <3>1. gk \in Seq(S)
      BY <1>2
    <3> QED  BY <3>1, ConcatProperties, Zenon
  <2> QED  BY <2>1, <2>2, Zenon
<1> HIDE DEF a, b, c
<1>4. Len(x) = a + b + c
  BY <1>1, <1>2, <1>3
<1>5. ASSUME NEW i \in 1..b PROVE x[a + i] = g[i]
  <2>1. a + i \in 1..(a + Len(gk)) /\ ~(a + i <= a) /\ (a + i) - a = i /\ i \in 1..(b + c) /\ i <= b
    BY <1>1, <1>2
  <2> QED  BY <1>2, <1>3, <2>1
<1>6. ASSUME NEW i \in 1..c PROVE x[a + b + i] = k[i]
  <2>1. /\ a + b + i \in 1..(a + Len(gk)) /\ ~(a + b + i <= a) /\ (a + b + i) - a = b + i
        /\ b + i \in 1..(b + c) /\ ~(b + i <= b) /\ (b + i) - b = i
    BY <1>1, <1>2
  <2> QED  BY <1>2, <1>3, <2>1
<1> QED  BY <1>3, <1>4, <1>5, <1>6, Zenon DEF a, b, c, x, HasParts

-----------------------------------------------------------------------------
(* FlattenSeq                                                              *)

\* The sequences seqs are the first pieces of a stream.
Lists(pieces, seqs) == \A k \in Nat : k < Len(seqs) => pieces[k] = seqs[k + 1]

\* Any sequence of sequences begins a stream.
LEMMA StreamOf ==
    ASSUME NEW S, NEW seqs \in Seq(Seq(S))
    PROVE  \E pieces, g : IsStream(g, pieces, S) /\ Lists(pieces, seqs)
<1> DEFINE n == Len(seqs)
           pieces == [k \in Nat |-> IF k < n THEN seqs[k + 1] ELSE <<>>]
<1>1. n \in Nat
  BY LenProperties
<1>2. ASSUME NEW k \in Nat PROVE pieces[k] \in Seq(S)
  <2>1. CASE k < n
    <3>1. k + 1 \in 1..n
      BY <1>1, <2>1
    <3>2. seqs[k + 1] \in Seq(S)
      BY <3>1, ElementOfSeq
    <3> QED  BY <2>1, <3>2
  <2>2. CASE ~(k < n)
    BY <2>2, EmptySeq
  <2> QED  BY <2>1, <2>2
<1>3. Lists(pieces, seqs)
  BY DEF Lists
<1> HIDE DEF pieces
<1>4. PICK g : g = [k \in Nat |-> IF k = 0 THEN <<>> ELSE g[k - 1] \o pieces[k - 1]]
  BY JoinExists, Zenon
<1>5. IsStream(g, pieces, S)
  BY <1>2, <1>4, Zenon DEF IsStream
<1> QED  BY <1>3, <1>5, Zenon

\* FlattenSeq joins the pieces.
LEMMA FlattenIsJoin ==
    ASSUME NEW S, NEW seqs \in Seq(Seq(S)), NEW pieces, NEW g, IsStream(g, pieces, S),
           Lists(pieces, seqs)
    PROVE  FlattenSeq(seqs) = g[Len(seqs)]
<1> DEFINE n == Len(seqs)
           Solves(f) == f = [i \in 1..n |-> IF i = 1 THEN seqs[i] ELSE f[i - 1] \o seqs[i]]
<1>1. n \in Nat
  BY LenProperties
<1>2. /\ g[0] = <<>>
      /\ \A k \in Nat : g[k + 1] = g[k] \o pieces[k]
      /\ \A k \in Nat : g[k] \in Seq(S)
  BY StreamStep
<1>3. CASE n = 0
  <2>1. seqs = <<>>
    BY <1>3, EmptySeq
  <2>2. FlattenSeq(seqs) = seqs
    BY <1>3, Zenon DEF FlattenSeq
  <2> QED  BY <1>2, <1>3, <2>1, <2>2
<1>4. CASE n # 0
  <2>1. ASSUME NEW i \in 1..n PROVE g[i] = IF i = 1 THEN seqs[i] ELSE g[i - 1] \o seqs[i]
    <3>1. i - 1 \in Nat /\ i - 1 < n /\ (i - 1) + 1 = i
      BY <1>1
    <3>2. pieces[i - 1] = seqs[i] /\ g[i] = g[i - 1] \o pieces[i - 1]
      BY <1>2, <3>1 DEF Lists
    <3>3. seqs[i] \in Seq(S)
      BY ElementOfSeq
    <3>4. <<>> \o seqs[i] = seqs[i]
      BY <3>3, ConcatEmptySeq
    <3>5. i = 1 => i - 1 = 0
      OBVIOUS
    <3> QED  BY <1>2, <3>2, <3>4, <3>5
  <2> DEFINE h == [i \in 1..n |-> g[i]]
  <2>2. Solves(h)
    <3>1. ASSUME NEW i \in 1..n PROVE h[i] = IF i = 1 THEN seqs[i] ELSE h[i - 1] \o seqs[i]
      <4>1. CASE i = 1
        BY <2>1, <4>1
      <4>2. CASE i # 1
        <5>1. i - 1 \in 1..n /\ h[i - 1] = g[i - 1] /\ h[i] = g[i]
          BY <1>1, <4>2
        <5> QED  BY <2>1, <4>2, <5>1
      <4> QED  BY <4>1, <4>2
    <3>2. h = [i \in 1..n |-> h[i]]
      OBVIOUS
    <3> HIDE DEF h
    <3> QED  BY <3>1, <3>2, Zenon
  <2> DEFINE f == CHOOSE f : Solves(f)
  <2>3. FlattenSeq(seqs) = f[n]
    BY <1>4, Zenon DEF FlattenSeq
  <2> HIDE DEF h
  <2>4. Solves(f)
    BY <2>2, Zenon
  <2> HIDE DEF f
  <2>5. \A i \in 1..n : f[i] = IF i = 1 THEN seqs[i] ELSE f[i - 1] \o seqs[i]
    BY <2>4, Zenon
  <2> DEFINE T == {d \in Nat : d + 1 <= n => f[d + 1] = g[d + 1]}
  <2>6. 0 \in T
    <3>1. 1 \in 1..n /\ 0 + 1 = 1
      BY <1>1, <1>4
    <3> QED  BY <2>1, <2>5, <3>1
  <2>7. ASSUME NEW d \in Nat, d \in T PROVE d + 1 \in T
    <3> SUFFICES ASSUME (d + 1) + 1 <= n PROVE f[(d + 1) + 1] = g[(d + 1) + 1]
      BY <1>1
    <3> DEFINE i == (d + 1) + 1
    <3>1. i \in 1..n /\ i # 1 /\ i - 1 = d + 1 /\ d + 1 <= n
      BY <1>1
    <3>2. f[i - 1] = g[i - 1]
      BY <2>7, <3>1
    <3> HIDE DEF i
    <3> QED  BY <2>1, <2>5, <3>1, <3>2 DEF i
  <2> HIDE DEF T
  <2>8. \A d \in Nat : d \in T
    BY <2>6, <2>7, InductionOnSet, Zenon
  <2>9. n - 1 \in Nat /\ (n - 1) + 1 = n /\ n <= n
    BY <1>1, <1>4
  <2>10. f[n] = g[n]
    <3>1. (n - 1) + 1 <= n => f[(n - 1) + 1] = g[(n - 1) + 1]
      BY <2>8, <2>9, Zenon DEF T
    <3> QED  BY <2>9, <3>1, Zenon
  <2> QED  BY <2>3, <2>10, Zenon
<1> QED  BY <1>3, <1>4

\* Flattening gives a sequence; of nothing it gives nothing.
LEMMA FlattenType ==
    ASSUME NEW S, NEW seqs \in Seq(Seq(S))
    PROVE  FlattenSeq(seqs) \in Seq(S)
<1>1. PICK pieces, g : IsStream(g, pieces, S) /\ Lists(pieces, seqs)
  BY StreamOf, Zenon
<1>2. FlattenSeq(seqs) = g[Len(seqs)]
  BY <1>1, FlattenIsJoin
<1>3. \A k \in Nat : g[k] \in Seq(S)
  BY <1>1, StreamStep
<1>4. Len(seqs) \in Nat
  BY LenProperties
<1> QED  BY <1>2, <1>3, <1>4, Zenon

\* One more sequence is flattened behind the others.
LEMMA FlattenAppend ==
    ASSUME NEW S, NEW seqs \in Seq(Seq(S)), NEW e \in Seq(S)
    PROVE  FlattenSeq(Append(seqs, e)) = FlattenSeq(seqs) \o e
<1> DEFINE n == Len(seqs)
           more == Append(seqs, e)
<1>1. /\ more \in Seq(Seq(S)) /\ Len(more) = n + 1 /\ n \in Nat
      /\ \A i \in 1..n : more[i] = seqs[i]
      /\ more[n + 1] = e
  BY LenProperties, AppendProperties
<1> HIDE DEF more
<1>2. PICK pieces, g : IsStream(g, pieces, S) /\ Lists(pieces, more)
  BY <1>1, StreamOf, Zenon
<1>3. Lists(pieces, seqs) /\ pieces[n] = e
  <2>1. ASSUME NEW k \in Nat, k < n PROVE pieces[k] = seqs[k + 1]
    <3>1. k < n + 1 /\ k + 1 \in 1..n
      BY <1>1, <2>1
    <3>2. pieces[k] = more[k + 1]
      BY <1>1, <1>2, <3>1, Zenon DEF Lists
    <3> QED  BY <1>1, <3>1, <3>2
  <2>2. pieces[n] = more[n + 1]
    <3>1. n < n + 1
      BY <1>1
    <3> QED  BY <1>1, <1>2, <3>1, Zenon DEF Lists
  <2> QED  BY <1>1, <2>1, <2>2, Zenon DEF Lists
<1>4. FlattenSeq(more) = g[n + 1]
  BY <1>1, <1>2, FlattenIsJoin
<1>5. FlattenSeq(seqs) = g[n]
  BY <1>2, <1>3, FlattenIsJoin
<1>6. g[n + 1] = g[n] \o pieces[n]
  <2>1. \A k \in Nat : g[k + 1] = g[k] \o pieces[k]
    BY <1>2, StreamStep
  <2> QED  BY <1>1, <2>1, Zenon
<1> QED  BY <1>3, <1>4, <1>5, <1>6, Zenon DEF more

\* The first sequence comes out first.
LEMMA FlattenTail ==
    ASSUME NEW S, NEW seqs \in Seq(Seq(S)), seqs # <<>>
    PROVE  FlattenSeq(seqs) = Head(seqs) \o FlattenSeq(Tail(seqs))
<1> DEFINE n == Len(Tail(seqs))
           e == Head(seqs)
           rest == Tail(seqs)
<1>1. /\ rest \in Seq(Seq(S)) /\ e \in Seq(S) /\ n \in Nat /\ Len(seqs) = n + 1
      /\ \A i \in 1..n : rest[i] = seqs[i + 1]
      /\ e = seqs[1]
  <2>1. Len(seqs) \in Nat \ {0}
    BY EmptySeq
  <2>2. e \in Seq(S) /\ rest \in Seq(Seq(S)) /\ n = Len(seqs) - 1 /\ \A i \in 1..n : rest[i] = seqs[i + 1]
    BY HeadTailProperties
  <2>3. e = seqs[1]
    OBVIOUS
  <2> QED  BY <2>1, <2>2, <2>3
<1> HIDE DEF e, rest, n
<1>2. PICK pieces, g : IsStream(g, pieces, S) /\ Lists(pieces, seqs)
  BY StreamOf, Zenon
<1> DEFINE later == [k \in Nat |-> pieces[k + 1]]
<1>3. PICK h : h = [k \in Nat |-> IF k = 0 THEN <<>> ELSE h[k - 1] \o later[k - 1]]
  <2> HIDE DEF later
  <2> QED  BY JoinExists, Zenon
<1>4. \A k \in Nat : pieces[k] \in Seq(S) /\ later[k] = pieces[k + 1] /\ later[k] \in Seq(S)
  <2>1. \A k \in Nat : pieces[k] \in Seq(S)
    BY <1>2, Zenon DEF IsStream
  <2> QED  BY <2>1
<1> HIDE DEF later
<1>5. IsStream(h, later, S)
  BY <1>3, <1>4, Zenon DEF IsStream
<1>6. Lists(later, rest)
  <2>1. ASSUME NEW k \in Nat, k < n PROVE later[k] = rest[k + 1]
    <3>1. k + 1 \in Nat /\ k + 1 < Len(seqs) /\ k + 1 \in 1..n
      BY <1>1, <2>1
    <3>2. pieces[k + 1] = seqs[(k + 1) + 1]
      BY <1>2, <3>1, Zenon DEF Lists
    <3>3. rest[k + 1] = seqs[(k + 1) + 1]
      BY <1>1, <3>1, Zenon
    <3> QED  BY <1>4, <3>2, <3>3, Zenon
  <2> QED  BY <2>1 DEF Lists, rest, n
<1>7. pieces[0] = e
  <2>1. 0 \in Nat /\ 0 < Len(seqs) /\ 0 + 1 = 1
    BY <1>1
  <2>2. pieces[0] = seqs[0 + 1]
    BY <1>2, <2>1, Zenon DEF Lists
  <2> QED  BY <1>1, <2>1, <2>2, Zenon
<1>8. /\ g[0] = <<>> /\ \A k \in Nat : g[k + 1] = g[k] \o pieces[k]
  BY <1>2, StreamStep
<1>9. /\ h[0] = <<>> /\ \A k \in Nat : h[k + 1] = h[k] \o later[k]
      /\ \A k \in Nat : h[k] \in Seq(S)
  BY <1>5, StreamStep
<1> DEFINE T == {k \in Nat : g[k + 1] = e \o h[k]}
<1>10. 0 \in T
  <2>1. g[0 + 1] = <<>> \o e
    BY <1>7, <1>8, Zenon
  <2>2. <<>> \o e = e /\ e \o <<>> = e
    BY <1>1, ConcatEmptySeq
  <2>3. g[0 + 1] = e \o h[0]
    BY <1>9, <2>1, <2>2, Zenon
  <2> QED  BY <2>3
<1>11. ASSUME NEW k \in Nat, k \in T PROVE k + 1 \in T
  <2>1. k + 1 \in Nat /\ g[k + 1] = e \o h[k]
    BY <1>11
  <2>2. g[(k + 1) + 1] = (e \o h[k]) \o later[k]
    BY <1>4, <1>8, <2>1, Zenon
  <2>3. ASSUME NEW x \in Seq(S), NEW y \in Seq(S), NEW z \in Seq(S)
        PROVE  (x \o y) \o z = x \o (y \o z)
    BY ConcatAssociative
  <2>4. h[k] \in Seq(S) /\ later[k] \in Seq(S)
    BY <1>4, <1>9, Zenon
  <2>5. (e \o h[k]) \o later[k] = e \o (h[k] \o later[k])
    BY <1>1, <2>3, <2>4
  <2>6. g[(k + 1) + 1] = e \o h[k + 1]
    BY <1>9, <2>2, <2>5, Zenon
  <2> QED  BY <2>1, <2>6
<1> HIDE DEF T
<1>12. \A k \in Nat : k \in T
  BY <1>10, <1>11, InductionOnSet, Zenon
<1>13. g[n + 1] = e \o h[n]
  BY <1>1, <1>12, Zenon DEF T
<1>14. FlattenSeq(seqs) = g[Len(seqs)] /\ FlattenSeq(rest) = h[Len(rest)]
  BY <1>1, <1>2, <1>5, <1>6, FlattenIsJoin
<1> QED  BY <1>1, <1>13, <1>14, Zenon DEF n, e, rest

\* What the messages in a channel carry, in order.
DataOf(channel) == FlattenSeq([i \in 1..Len(channel) |-> channel[i].data])

\* The data of a channel is a sequence, and nothing if the channel is empty.
LEMMA DataOfType ==
    ASSUME NEW S, NEW M, \A m \in M : m.data \in Seq(S), NEW c \in Seq(M)
    PROVE  /\ [i \in 1..Len(c) |-> c[i].data] \in Seq(Seq(S))
           /\ Len([i \in 1..Len(c) |-> c[i].data]) = Len(c)
           /\ DataOf(c) \in Seq(S)
           /\ c = <<>> => DataOf(c) = <<>>
<1> DEFINE d == [i \in 1..Len(c) |-> c[i].data]
<1>1. Len(c) \in Nat /\ \A i \in 1..Len(c) : c[i].data \in Seq(S)
  BY LenProperties, ElementOfSeq
<1>2. d \in Seq(Seq(S)) /\ Len(d) = Len(c)
  <2>1. d \in [1..Len(c) -> Seq(S)]
    BY <1>1
  <2> HIDE DEF d
  <2> QED  BY <1>1, <2>1
<1>3. FlattenSeq(d) \in Seq(S)
  BY <1>2, FlattenType
<1>4. ASSUME c = <<>> PROVE FlattenSeq(d) = <<>>
  <2>1. Len(d) = 0 /\ d = <<>>
    BY <1>2, <1>4, EmptySeq
  <2> QED  BY <2>1, Zenon DEF FlattenSeq
<1> QED  BY <1>2, <1>3, <1>4, Zenon DEF DataOf

\* A message that is sent adds its data.
LEMMA DataOfAppend ==
    ASSUME NEW S, NEW M, \A m \in M : m.data \in Seq(S), NEW c \in Seq(M), NEW e \in M
    PROVE  DataOf(Append(c, e)) = DataOf(c) \o e.data
<1> DEFINE n == Len(c)
           more == Append(c, e)
           d == [i \in 1..Len(c) |-> c[i].data]
           f == [i \in 1..Len(more) |-> more[i].data]
<1>1. /\ more \in Seq(M) /\ Len(more) = n + 1 /\ n \in Nat
      /\ \A i \in 1..n : more[i] = c[i]
      /\ more[n + 1] = e
  BY LenProperties, AppendProperties
<1>2. d \in Seq(Seq(S)) /\ Len(d) = n
  BY DataOfType
<1> HIDE DEF more
<1>3. f \in Seq(Seq(S)) /\ Len(f) = n + 1
  BY <1>1, DataOfType
<1>4. f = Append(d, e.data)
  <2> DEFINE a == Append(d, e.data)
  <2>1. /\ a \in Seq(Seq(S)) /\ Len(a) = n + 1 /\ a[n + 1] = e.data
        /\ \A i \in 1..n : a[i] = d[i]
    <3> HIDE DEF d
    <3> QED  BY <1>2, AppendProperties
  <2>2. ASSUME NEW i \in 1..(n + 1) PROVE f[i] = a[i]
    <3>1. f[i] = more[i].data
      BY <1>1
    <3>2. CASE i = n + 1
      BY <1>1, <2>1, <3>1, <3>2
    <3>3. CASE i # n + 1
      <4>1. i \in 1..n
        BY <1>1, <3>3
      <4>2. d[i] = c[i].data
        BY <4>1
      <4> QED  BY <1>1, <2>1, <3>1, <4>1, <4>2, Zenon
    <3> QED  BY <3>2, <3>3
  <2> HIDE DEF a, f
  <2>3. f = a
    BY <1>3, <2>1, <2>2, SeqEqual
  <2> QED  BY <2>3 DEF a
<1>5. FlattenSeq(Append(d, e.data)) = FlattenSeq(d) \o e.data
  <2> HIDE DEF d
  <2> QED  BY <1>2, FlattenAppend
<1> QED  BY <1>4, <1>5, Zenon DEF DataOf, more

\* The data of the first message comes first.
LEMMA DataOfTail ==
    ASSUME NEW S, NEW M, \A m \in M : m.data \in Seq(S), NEW c \in Seq(M), c # <<>>
    PROVE  DataOf(c) = Head(c).data \o DataOf(Tail(c))
<1> DEFINE n == Len(c)
           rest == Tail(c)
           d == [i \in 1..Len(c) |-> c[i].data]
           f == [i \in 1..Len(rest) |-> rest[i].data]
<1>1. /\ rest \in Seq(M) /\ Len(rest) = n - 1 /\ n \in Nat /\ n >= 1
      /\ \A i \in 1..(n - 1) : rest[i] = c[i + 1]
      /\ Head(c) = c[1]
  <2>1. n \in Nat \ {0}
    BY EmptySeq
  <2>2. rest \in Seq(M) /\ Len(rest) = n - 1 /\ \A i \in 1..Len(rest) : rest[i] = c[i + 1]
    BY HeadTailProperties
  <2> QED  BY <2>1, <2>2
<1>2. d \in Seq(Seq(S)) /\ Len(d) = n
  BY DataOfType
<1> HIDE DEF rest
<1>3. f \in Seq(Seq(S)) /\ Len(f) = n - 1
  BY <1>1, DataOfType
<1>4. d # <<>> /\ Head(d) = Head(c).data
  BY <1>1, <1>2
<1>5. f = Tail(d)
  <2> DEFINE a == Tail(d)
  <2>1. a \in Seq(Seq(S)) /\ Len(a) = n - 1 /\ \A i \in 1..(n - 1) : a[i] = d[i + 1]
    <3> HIDE DEF d
    <3> QED  BY <1>2, <1>4, HeadTailProperties
  <2>2. ASSUME NEW i \in 1..(n - 1) PROVE f[i] = a[i]
    <3>1. f[i] = rest[i].data
      BY <1>1
    <3>2. i + 1 \in 1..n
      BY <1>1
    <3>3. d[i + 1] = c[i + 1].data
      BY <3>2
    <3> QED  BY <1>1, <2>1, <3>1, <3>3, Zenon
  <2> HIDE DEF a, f
  <2>3. Len(f) = Len(a) /\ \A i \in 1..Len(f) : f[i] = a[i]
    BY <1>3, <2>1, <2>2, Zenon
  <2>4. f = a
    BY <1>3, <2>1, <2>3, SeqEqual
  <2> QED  BY <2>4 DEF a
<1>6. FlattenSeq(d) = Head(d) \o FlattenSeq(Tail(d))
  <2> HIDE DEF d
  <2> QED  BY <1>2, <1>4, FlattenTail
<1> QED  BY <1>4, <1>5, <1>6, Zenon DEF DataOf, rest

-----------------------------------------------------------------------------
(* Quotients                                                               *)

\* A number between two neighbouring multiples of m has the smaller one's quotient.
LEMMA QuotientFacts ==
    ASSUME NEW m \in Nat \ {0}, NEW q \in Nat, NEW d \in Nat, d < m
    PROVE  (m * q + d) \div m = q /\ (m * q + d) % m = d
  OBVIOUS

\* Every number is a multiple of m and a remainder.
LEMMA QuotientExists ==
    ASSUME NEW m \in Nat \ {0}, NEW n \in Nat
    PROVE  /\ n \div m \in Nat /\ n % m \in Nat /\ n % m < m
           /\ n = m * (n \div m) + (n % m)
  OBVIOUS

\* The quotient is the largest number of times m fits.
LEMMA QuotientLargest ==
    ASSUME NEW m \in Nat \ {0}, NEW n \in Nat, NEW q \in Nat, m * q <= n
    PROVE  q <= n \div m
  OBVIOUS
=============================================================================
