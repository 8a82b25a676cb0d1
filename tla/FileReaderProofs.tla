-------------------------- MODULE FileReaderProofs --------------------------
(***************************************************************************)
(* LeptonFileReader for any files, any slices of the input, any output     *)
(* buffers and any timing of the decoder threads: what is handed out is a  *)
(* prefix of the JPEG, and the outcome fits the file.                      *)
(***************************************************************************)
EXTENDS FileReader, StreamLemmas

-----------------------------------------------------------------------------
(* Parts of sequences                                                      *)

\* The entries of Take.
LEMMA TakeFacts ==
    ASSUME NEW S, NEW s \in Seq(S), NEW n \in Nat
    PROVE  /\ Take(s, n) \in Seq(S)
           /\ Len(Take(s, n)) = Least(n, Len(s))
           /\ \A i \in 1 .. Least(n, Len(s)) : Take(s, n)[i] = s[i]
<1> DEFINE k == Least(n, Len(s))
<1>1. k \in 0 .. Len(s)
  BY LenProperties DEF Least
<1> HIDE DEF k
<1>2. /\ SubSeq(s, 1, k) \in Seq(S) /\ Len(SubSeq(s, 1, k)) = k
      /\ \A i \in 1 .. k : SubSeq(s, 1, k)[i] = s[i]
  BY <1>1, PrefixEntries
<1> QED  BY <1>2, Zenon DEF Take, k

\* The entries of Drop.
LEMMA DropFacts ==
    ASSUME NEW S, NEW s \in Seq(S), NEW n \in Nat
    PROVE  /\ Drop(s, n) \in Seq(S)
           /\ Len(Drop(s, n)) = Len(s) - Least(n, Len(s))
           /\ \A i \in 1 .. Len(s) - Least(n, Len(s)) : Drop(s, n)[i] = s[n + i]
<1> DEFINE m == Len(s)
           d == SubSeq(s, n + 1, m)
<1>1. m \in Nat
  BY LenProperties
<1> HIDE DEF m
<1>2. CASE n <= m
  <2>1. n \in Nat /\ m \in n .. m
    BY <1>1, <1>2
  <2>2. d \in Seq(S) /\ Len(d) = m - n /\ \A i \in 1 .. (m - n) : d[i] = s[n + i]
    BY <2>1, PartEntries DEF m
  <2>3. Least(n, m) = n
    BY <1>1, <1>2 DEF Least
  <2> QED  BY <2>2, <2>3, Zenon DEF Drop, m
<1>3. CASE ~(n <= m)
  <2>1. \A i \in (n + 1) .. m : s[i] \in S
    BY <1>1, <1>3
  <2>2. d \in Seq(S) /\ Len(d) = IF n + 1 <= m THEN m - (n + 1) + 1 ELSE 0
    <3>1. n + 1 \in Int /\ m \in Int
      BY <1>1
    <3> QED  BY <2>1, <3>1, SubSeqProperties
  <2>3. Least(n, m) = m /\ Len(d) = 0 /\ m - m = 0 /\ 1 .. 0 = {}
    BY <1>1, <1>3, <2>2 DEF Least
  <2> QED  BY <2>2, <2>3, Zenon DEF Drop, m
<1> QED  BY <1>2, <1>3

\* a and b, one behind the other, are s.
Joins(a, b, s) == a \o b = s

\* Two sequences of the right lengths and entries, one behind the other.
LEMMA JoinsFromEntries ==
    ASSUME NEW S, NEW a \in Seq(S), NEW b \in Seq(S), NEW s \in Seq(S),
           Len(a) + Len(b) = Len(s),
           \A i \in 1 .. Len(a) : a[i] = s[i],
           \A i \in 1 .. Len(b) : b[i] = s[Len(a) + i]
    PROVE  Joins(a, b, s)
<1> DEFINE j == a \o b
           m == Len(a)
           n == Len(b)
<1>1. m \in Nat /\ n \in Nat
  BY LenProperties
<1>2. j \in Seq(S) /\ Len(j) = m + n /\ \A i \in 1 .. m + n : j[i] = IF i <= m THEN a[i] ELSE b[i - m]
  BY ConcatProperties
<1> HIDE DEF j, m, n
<1>3. ASSUME NEW i \in 1 .. m + n PROVE j[i] = s[i]
  <2>1. CASE i <= m
    <3>1. i \in 1 .. m
      BY <1>1, <2>1
    <3> QED  BY <1>2, <2>1, <3>1, Zenon DEF m
  <2>2. CASE ~(i <= m)
    <3>1. i - m \in 1 .. n /\ m + (i - m) = i
      BY <1>1, <2>2
    <3>2. b[i - m] = s[m + (i - m)]
      BY <3>1, Zenon DEF m, n
    <3> QED  BY <1>2, <2>2, <3>1, <3>2, Zenon
  <2> QED  BY <2>1, <2>2
<1>4. Len(j) = Len(s) /\ \A i \in 1 .. Len(j) : j[i] = s[i]
  BY <1>2, <1>3, Zenon DEF m, n
<1>5. j = s
  BY <1>2, <1>4, SeqEqual
<1> QED  BY <1>5, Zenon DEF j, Joins

\* What is taken and what is left make the whole.
LEMMA TakeDrop ==
    ASSUME NEW S, NEW s \in Seq(S), NEW n \in Nat
    PROVE  Joins(Take(s, n), Drop(s, n), s)
<1> DEFINE a == Take(s, n)
           b == Drop(s, n)
           k == Least(n, Len(s))
<1>1. a \in Seq(S) /\ Len(a) = k /\ \A i \in 1 .. k : a[i] = s[i]
  BY TakeFacts
<1>2. b \in Seq(S) /\ Len(b) = Len(s) - k /\ \A i \in 1 .. Len(s) - k : b[i] = s[n + i]
  BY DropFacts
<1> HIDE DEF a, b
<1>3. Len(s) \in Nat /\ k \in Nat /\ (Len(s) - k # 0 => n = k)
  BY LenProperties DEF Least
<1> HIDE DEF k
<1>4. \A i \in 1 .. Len(b) : b[i] = s[Len(a) + i]
  <2> SUFFICES ASSUME NEW i \in 1 .. Len(b) PROVE b[i] = s[Len(a) + i]
    BY Zenon
  <2>1. i \in 1 .. Len(s) - k /\ n = k
    BY <1>2, <1>3
  <2> QED  BY <1>1, <1>2, <2>1, Zenon
<1>5. Len(a) + Len(b) = Len(s) /\ \A i \in 1 .. Len(a) : a[i] = s[i]
  BY <1>1, <1>2, <1>3
<1> QED  BY <1>1, <1>2, <1>4, <1>5, JoinsFromEntries, Zenon DEF a, b

\* Of nothing only nothing can be taken.
LEMMA TakeNothing == ASSUME NEW n \in Nat PROVE Take(<< >>, n) = << >>
<1>1. << >> \in Seq(Nat)
  BY EmptySeq
<1>2. Take(<< >>, n) \in Seq(Nat) /\ Len(Take(<< >>, n)) = Least(n, Len(<< >>))
  BY <1>1, TakeFacts
<1>3. Len(<< >>) = 0 /\ Least(n, 0) = 0
  BY DEF Least
<1> QED  BY <1>2, <1>3, EmptySeq

\* Cutting what is added at what is left cuts the whole.
LEMMA TakeMore ==
    ASSUME NEW S, NEW a \in Seq(S), NEW b \in Seq(S), NEW n \in Nat, NEW r, r = n - Len(Take(a, n))
    PROVE  r \in Nat /\ Joins(Take(a, n), Take(b, r), Take(a \o b, n))
<1> DEFINE la == Len(a)
           lb == Len(b)
           c == a \o b
           x == Take(a, n)
           y == Take(b, r)
           z == Take(c, n)
<1>1. la \in Nat /\ lb \in Nat
  BY LenProperties
<1>2. c \in Seq(S) /\ Len(c) = la + lb /\ \A i \in 1 .. la + lb : c[i] = IF i <= la THEN a[i] ELSE b[i - la]
  BY ConcatProperties
<1>3. x \in Seq(S) /\ Len(x) = Least(n, la) /\ \A i \in 1 .. Least(n, la) : x[i] = a[i]
  BY TakeFacts
<1>4. r \in Nat
  BY <1>1, <1>3 DEF Least
<1>5. y \in Seq(S) /\ Len(y) = Least(r, lb) /\ \A i \in 1 .. Least(r, lb) : y[i] = b[i]
  BY <1>4, TakeFacts
<1> HIDE DEF c
<1>6. z \in Seq(S) /\ Len(z) = Least(n, la + lb) /\ \A i \in 1 .. Least(n, la + lb) : z[i] = c[i]
  BY <1>2, TakeFacts
<1>7. r = n - Len(x)
  BY Zenon
<1> HIDE DEF x, y, z, la, lb
<1>8. Len(x) + Len(y) = Len(z)
  <2>1. CASE n < la
    <3>1. Len(x) = n /\ r = 0 /\ Len(y) = 0 /\ Len(z) = n
      BY <1>1, <1>3, <1>5, <1>6, <1>7, <2>1 DEF Least
    <3> QED  BY <3>1
  <2>2. CASE ~(n < la)
    <3>1. Len(x) = la /\ r = n - la
      BY <1>1, <1>3, <1>7, <2>2 DEF Least
    <3> QED  BY <1>1, <1>5, <1>6, <2>2, <3>1 DEF Least
  <2> QED  BY <2>1, <2>2
<1>9. ASSUME NEW i \in 1 .. Len(x) PROVE x[i] = z[i]
  <2>1. i \in 1 .. Least(n, la) /\ i \in 1 .. Least(n, la + lb) /\ i \in 1 .. la + lb /\ i <= la
    BY <1>1, <1>3 DEF Least
  <2> QED  BY <1>2, <1>3, <1>6, <2>1, Zenon
<1>10. ASSUME NEW i \in 1 .. Len(y) PROVE y[i] = z[Len(x) + i]
  <2>1. Len(x) = la
    BY <1>1, <1>3, <1>4, <1>5, <1>7 DEF Least
  <2>2. /\ i \in 1 .. Least(r, lb) /\ la + i \in 1 .. Least(n, la + lb) /\ la + i \in 1 .. la + lb
        /\ ~(la + i <= la) /\ (la + i) - la = i
    BY <1>1, <1>4, <1>5, <1>7, <2>1 DEF Least
  <2> QED  BY <1>2, <1>5, <1>6, <2>1, <2>2, Zenon
<1>11. Joins(x, y, z)
  BY <1>3, <1>5, <1>6, <1>8, <1>9, <1>10, JoinsFromEntries, Zenon
<1> QED  BY <1>4, <1>11, Zenon DEF x, y, z, c

\* What a cut leaves is a prefix of what it leaves of a longer sequence.
LEMMA TakeIsPrefix ==
    ASSUME NEW S, NEW a \in Seq(S), NEW b \in Seq(S), NEW n \in Nat
    PROVE  IsPrefix(Take(a, n), Take(a \o b, n))
<1> DEFINE r == n - Len(Take(a, n))
<1>1. r \in Nat /\ Joins(Take(a, n), Take(b, r), Take(a \o b, n))
  BY TakeMore, Zenon
<1>2. Take(a, n) \in Seq(S)
  BY TakeFacts, Zenon
<1> HIDE DEF r
<1>3. Take(b, r) \in Seq(S)
  BY <1>1, TakeFacts, Zenon
<1>4. IsPrefix(Take(a, n), Take(a, n) \o Take(b, r))
  BY <1>2, <1>3, ConcatIsPrefix
<1> QED  BY <1>1, <1>4, Zenon DEF Joins

\* A prefix of a prefix.
LEMMA PrefixOfAPrefix ==
    ASSUME NEW S, NEW s \in Seq(S), NEW t \in Seq(S), NEW u \in Seq(S), IsPrefix(s, t), IsPrefix(t, u)
    PROVE  IsPrefix(s, u)
<1>1. Len(s) <= Len(t) /\ \A i \in 1 .. Len(s) : s[i] = t[i]
  BY EntriesOfPrefix
<1>2. Len(t) <= Len(u) /\ \A i \in 1 .. Len(t) : t[i] = u[i]
  BY EntriesOfPrefix
<1>3. Len(s) \in Nat /\ Len(t) \in Nat /\ Len(u) \in Nat
  BY LenProperties
<1>4. Len(s) <= Len(u)
  BY <1>1, <1>2, <1>3
<1>5. ASSUME NEW i \in 1 .. Len(s) PROVE s[i] = u[i]
  <2>1. i \in 1 .. Len(t)
    BY <1>1, <1>3
  <2> QED  BY <1>1, <1>2, <2>1, Zenon
<1> QED  BY <1>4, <1>5, PrefixFromEntries, Zenon

\* Two adjacent parts of a sequence.
LEMMA AdjacentParts ==
    ASSUME NEW S, NEW s \in Seq(S), NEW a \in Nat, NEW b \in Nat, NEW c \in Nat,
           a <= b, b <= c, c <= Len(s)
    PROVE  Joins(SubSeq(s, a + 1, b), SubSeq(s, b + 1, c), SubSeq(s, a + 1, c))
<1> DEFINE x == SubSeq(s, a + 1, b)
           y == SubSeq(s, b + 1, c)
           z == SubSeq(s, a + 1, c)
<1>1. Len(s) \in Nat /\ b \in a .. Len(s) /\ c \in a .. Len(s) /\ c \in b .. Len(s)
  BY LenProperties
<1>2. x \in Seq(S) /\ Len(x) = b - a /\ \A i \in 1 .. (b - a) : x[i] = s[a + i]
  BY <1>1, PartEntries
<1>3. y \in Seq(S) /\ Len(y) = c - b /\ \A i \in 1 .. (c - b) : y[i] = s[b + i]
  BY <1>1, PartEntries
<1>4. z \in Seq(S) /\ Len(z) = c - a /\ \A i \in 1 .. (c - a) : z[i] = s[a + i]
  BY <1>1, PartEntries
<1> HIDE DEF x, y, z
<1>5. ASSUME NEW i \in 1 .. Len(x) PROVE x[i] = z[i]
  <2>1. i \in 1 .. (b - a) /\ i \in 1 .. (c - a)
    BY <1>2
  <2> QED  BY <1>2, <1>4, <2>1, Zenon
<1>6. ASSUME NEW i \in 1 .. Len(y) PROVE y[i] = z[Len(x) + i]
  <2>1. i \in 1 .. (c - b) /\ Len(x) + i \in 1 .. (c - a) /\ a + (Len(x) + i) = b + i
    BY <1>2, <1>3
  <2> QED  BY <1>3, <1>4, <2>1, Zenon
<1>7. Len(x) + Len(y) = Len(z)
  BY <1>2, <1>3, <1>4
<1> QED  BY <1>2, <1>3, <1>4, <1>5, <1>6, <1>7, JoinsFromEntries, Zenon DEF x, y, z

\* t is s without its first n entries.
Skips(t, s, n) == t = SubSeq(s, n + 1, Len(s))

\* t is the part of s behind entry a up to entry b.
IsPart(t, s, a, b) == t = SubSeq(s, a + 1, b)

\* The rest of a part.
LEMMA RestOfPart ==
    ASSUME NEW S, NEW s \in Seq(S), NEW a \in Nat, NEW b \in a .. Len(s), NEW p, IsPart(p, s, a, b),
           NEW n \in 0 .. Len(p), NEW t, Skips(t, p, n)
    PROVE  IsPart(t, s, a + n, b)
<1>1. Len(s) \in Nat
  BY LenProperties
<1>2. p \in Seq(S) /\ Len(p) = b - a /\ \A i \in 1 .. (b - a) : p[i] = s[a + i]
  BY PartEntries DEF IsPart
<1>3. a + n \in Nat /\ b \in (a + n) .. Len(s) /\ n \in Nat /\ Len(p) \in n .. Len(p)
  BY <1>1, <1>2
<1> DEFINE c == a + n
           u == SubSeq(s, c + 1, b)
           m == Len(p)
<1>4. c \in Nat /\ b \in c .. Len(s) /\ m \in n .. Len(p)
  BY <1>3, Zenon
<1> HIDE DEF c, m
<1>5. u \in Seq(S) /\ Len(u) = b - c /\ \A i \in 1 .. (b - c) : u[i] = s[c + i]
  BY <1>4, PartEntries
<1>6. t = SubSeq(p, n + 1, m)
  BY Zenon DEF Skips, m
<1>7. t \in Seq(S) /\ Len(t) = m - n /\ \A i \in 1 .. (m - n) : t[i] = p[n + i]
  BY <1>2, <1>3, <1>4, <1>6, PartEntries
<1> HIDE DEF u
<1>8. ASSUME NEW i \in 1 .. Len(t) PROVE t[i] = u[i]
  <2>1. i \in 1 .. (m - n) /\ i \in 1 .. (b - c) /\ n + i \in 1 .. (b - a) /\ a + (n + i) = c + i
    BY <1>1, <1>2, <1>7 DEF c, m
  <2> QED  BY <1>2, <1>5, <1>7, <2>1, Zenon
<1>9. Len(t) = Len(u)
  BY <1>1, <1>2, <1>5, <1>7 DEF c, m
<1>10. t = u
  BY <1>5, <1>7, <1>8, <1>9, SeqEqual
<1> QED  BY <1>10, Zenon DEF IsPart, u, c

-----------------------------------------------------------------------------
(* The results of the threads                                              *)

\* The pieces of a file whose header is accepted are sequences.
LEMMA PieceFacts ==
    ASSUME NEW f \in Files, NEW h, h = HeaderOf(f), h.ok
    PROVE  /\ Len(h.handoffs) \in Nat
           /\ HeadOf(h) \in Seq(Nat) /\ EndOf(f, h) \in Seq(Nat)
           /\ \A k \in 1 .. Len(h.handoffs) : Segment(f, h, k) \in Seq(Nat) /\ f.needs[k] \in Nat
           /\ f.progressive => MergedOf(f, h).out \in Seq(Nat)
  BY PiecesAssumption, Zenon

\* No result, and one more result.
LEMMA SegmentsStep ==
    ASSUME NEW f \in Files, NEW h, h = HeaderOf(f), h.ok, NEW i \in Nat, NEW j \in Nat,
           1 <= i, i <= j + 1, j <= Len(h.handoffs)
    PROVE  /\ SegmentsOf(f, h, i, j) \in Seq(Nat)
           /\ i = j + 1 => SegmentsOf(f, h, i, j) = << >>
           /\ j < Len(h.handoffs) =>
                  /\ Segment(f, h, j + 1) \in Seq(Nat)
                  /\ SegmentsOf(f, h, i, j + 1) = SegmentsOf(f, h, i, j) \o Segment(f, h, j + 1)
<1> DEFINE m == Len(h.handoffs)
           n == j - i + 1
           list == [k \in 1 .. n |-> Segment(f, h, i + k - 1)]
           more == [k \in 1 .. (j + 1) - i + 1 |-> Segment(f, h, i + k - 1)]
           e == Segment(f, h, j + 1)
<1>1. m \in Nat /\ \A k \in 1 .. m : Segment(f, h, k) \in Seq(Nat)
  BY PieceFacts, Zenon
<1> HIDE DEF m
<1>2. n \in Nat /\ (j + 1) - i + 1 = n + 1 /\ i + (n + 1) - 1 = j + 1 /\ (i = j + 1 => n = 0)
  OBVIOUS
<1>3. j <= m /\ \A k \in 1 .. n : i + k - 1 \in 1 .. m
  BY <1>1 DEF m
<1>4. \A k \in 1 .. n : Segment(f, h, i + k - 1) \in Seq(Nat)
  BY <1>1, <1>3, Zenon
<1> HIDE DEF n
<1>5. list \in Seq(Seq(Nat)) /\ Len(list) = n
  <2>1. list \in [1 .. n -> Seq(Nat)]
    BY <1>4, Zenon
  <2> HIDE DEF list
  <2> QED  BY <1>2, <2>1
<1>6. SegmentsOf(f, h, i, j) = FlattenSeq(list)
  BY Zenon DEF SegmentsOf, n
<1>7. SegmentsOf(f, h, i, j + 1) = FlattenSeq(more)
  BY Zenon DEF SegmentsOf
<1>8. FlattenSeq(list) \in Seq(Nat)
  <2> HIDE DEF list
  <2> QED  BY <1>5, FlattenType
<1>9. ASSUME i = j + 1 PROVE FlattenSeq(list) = << >>
  <2>1. n = 0
    BY <1>2, <1>9, Zenon
  <2> HIDE DEF list
  <2>2. Len(list) = 0 /\ list = << >>
    BY <1>5, <2>1, EmptySeq
  <2> QED  BY <2>2, Zenon DEF FlattenSeq
<1>10. ASSUME j < m PROVE e \in Seq(Nat) /\ FlattenSeq(more) = FlattenSeq(list) \o e
  <2>1. j + 1 \in 1 .. m
    BY <1>1, <1>10
  <2>2. e \in Seq(Nat)
    BY <1>1, <2>1, Zenon
  <2> DEFINE a == Append(list, e)
  <2>3. /\ a \in Seq(Seq(Nat)) /\ Len(a) = n + 1 /\ a[n + 1] = e
        /\ \A k \in 1 .. n : a[k] = list[k]
    <3> HIDE DEF list, e
    <3> QED  BY <1>5, <2>2, AppendProperties
  <2>4. ASSUME NEW k \in 1 .. n + 1 PROVE more[k] = a[k]
    <3>1. more[k] = Segment(f, h, i + k - 1)
      BY <1>2
    <3>2. CASE k = n + 1
      BY <1>2, <2>3, <3>1, <3>2, Zenon
    <3>3. CASE k # n + 1
      <4>1. k \in 1 .. n
        BY <1>2, <3>3
      <4>2. list[k] = Segment(f, h, i + k - 1)
        BY <4>1, Zenon
      <4> QED  BY <2>3, <3>1, <4>1, <4>2, Zenon
    <3> QED  BY <3>2, <3>3, Zenon
  <2>5. \A k \in 1 .. n + 1 : a[k] \in Seq(Nat)
    <3> HIDE DEF a
    <3> QED  BY <1>2, <2>3, ElementOfSeq, Zenon
  <2>6. more \in Seq(Seq(Nat)) /\ Len(more) = n + 1
    <3>1. more = [k \in 1 .. n + 1 |-> Segment(f, h, i + k - 1)]
      BY <1>2, Zenon
    <3>2. more \in [1 .. n + 1 -> Seq(Nat)]
      <4>1. \A k \in 1 .. n + 1 : more[k] \in Seq(Nat)
        BY <2>4, <2>5, Zenon
      <4> QED  BY <3>1, <4>1, Zenon
    <3> HIDE DEF more
    <3> QED  BY <1>2, <3>2
  <2> HIDE DEF more, a
  <2>7. Len(more) = Len(a) /\ \A k \in 1 .. Len(more) : more[k] = a[k]
    BY <2>3, <2>4, <2>6, Zenon
  <2>8. more = a
    BY <2>3, <2>6, <2>7, SeqEqual
  <2>9. FlattenSeq(Append(list, e)) = FlattenSeq(list) \o e
    <3> HIDE DEF list, e
    <3> QED  BY <1>5, <2>2, FlattenAppend
  <2> QED  BY <2>2, <2>8, <2>9, Zenon DEF a
<1> QED  BY <1>6, <1>7, <1>8, <1>9, <1>10, Zenon DEF m

\* The results up to r and those behind them are all results.
LEMMA SegmentsJoin ==
    ASSUME NEW f \in Files, NEW h, h = HeaderOf(f), h.ok, NEW r \in Nat, NEW j \in Nat,
           r <= j, j <= Len(h.handoffs)
    PROVE  /\ SegmentsOf(f, h, 1, r) \in Seq(Nat) /\ SegmentsOf(f, h, r + 1, j) \in Seq(Nat)
           /\ Joins(SegmentsOf(f, h, 1, r), SegmentsOf(f, h, r + 1, j), SegmentsOf(f, h, 1, j))
<1> DEFINE m == Len(h.handoffs)
           J(q) == Joins(SegmentsOf(f, h, 1, r), SegmentsOf(f, h, r + 1, q), SegmentsOf(f, h, 1, q))
           T == {d \in Nat : r + d <= m => J(r + d)}
<1>1. m \in Nat
  BY PieceFacts, Zenon
<1> HIDE DEF m
<1>2. ASSUME NEW q \in Nat, q <= m, r <= q
      PROVE  /\ SegmentsOf(f, h, 1, q) \in Seq(Nat) /\ SegmentsOf(f, h, r + 1, q) \in Seq(Nat)
             /\ q = r => SegmentsOf(f, h, r + 1, q) = << >>
             /\ q < m => /\ Segment(f, h, q + 1) \in Seq(Nat)
                         /\ SegmentsOf(f, h, 1, q + 1) = SegmentsOf(f, h, 1, q) \o Segment(f, h, q + 1)
                         /\ SegmentsOf(f, h, r + 1, q + 1)
                                = SegmentsOf(f, h, r + 1, q) \o Segment(f, h, q + 1)
  <2>1. /\ 1 \in Nat /\ r + 1 \in Nat /\ 1 <= 1 /\ 1 <= r + 1 /\ 1 <= q + 1 /\ r + 1 <= q + 1
        /\ (q = r => r + 1 = q + 1)
    BY <1>2
  <2>2. q <= Len(h.handoffs)
    BY <1>2, Zenon DEF m
  <2> QED  BY <2>1, <2>2, SegmentsStep, Zenon DEF m
<1>3. r <= m /\ r <= r
  BY <1>1 DEF m
<1>4. 0 \in T
  <2>1. r + 0 = r
    OBVIOUS
  <2>2. SegmentsOf(f, h, 1, r) \in Seq(Nat) /\ SegmentsOf(f, h, r + 1, r) = << >>
    BY <1>2, <1>3, Zenon
  <2>3. SegmentsOf(f, h, 1, r) \o << >> = SegmentsOf(f, h, 1, r)
    BY <2>2, ConcatEmptySeq, Zenon
  <2>4. J(r)
    BY <2>2, <2>3, Zenon DEF Joins
  <2> HIDE DEF J
  <2> QED  BY <2>1, <2>4
<1>5. ASSUME NEW d \in Nat, d \in T PROVE d + 1 \in T
  <2> SUFFICES ASSUME r + (d + 1) <= m PROVE J(r + (d + 1))
    <3> HIDE DEF J
    <3> QED  BY <1>1
  <2> DEFINE q == r + d
             x == SegmentsOf(f, h, 1, r)
             y == SegmentsOf(f, h, r + 1, q)
             z == SegmentsOf(f, h, 1, q)
             e == Segment(f, h, q + 1)
  <2>1. q \in Nat /\ q <= m /\ q < m /\ r <= q /\ r + (d + 1) = q + 1
    BY <1>1
  <2>2. J(q)
    <3> HIDE DEF J
    <3> QED  BY <1>5, <2>1
  <2> HIDE DEF q
  <2>3. /\ y \in Seq(Nat) /\ e \in Seq(Nat) /\ x \in Seq(Nat)
        /\ SegmentsOf(f, h, 1, q + 1) = z \o e
        /\ SegmentsOf(f, h, r + 1, q + 1) = y \o e
    BY <1>2, <1>3, <2>1, Zenon
  <2>4. Associates(x, y, e)
    BY <2>3, Associate, Zenon
  <2>5. x \o y = z
    BY <2>2, Zenon DEF Joins
  <2>6. J(q + 1)
    BY <2>3, <2>4, <2>5, Zenon DEF Joins, Associates
  <2> QED  BY <2>1, <2>6, Zenon
<1> HIDE DEF T
<1>6. \A d \in Nat : d \in T
  BY <1>4, <1>5, InductionOnSet, Zenon
<1>7. j - r \in Nat /\ r + (j - r) = j /\ j <= m
  BY DEF m
<1>8. J(j)
  <2> HIDE DEF J
  <2>1. r + (j - r) <= m => J(r + (j - r))
    BY <1>6, <1>7, Zenon DEF T
  <2> QED  BY <1>7, <2>1, Zenon
<1> QED  BY <1>2, <1>3, <1>7, <1>8, Zenon

-----------------------------------------------------------------------------
(* PartialBuffer                                                           *)

\* t is the first n entries of s.
Starts(t, s, n, S) ==
    /\ s \in Seq(S) /\ n \in 0 .. Len(s)
    /\ t \in Seq(S) /\ Len(t) = n /\ \A i \in 1 .. n : t[i] = s[i]

\* Taking n entries from two buffers, k of them from x and the others from y.
LEMMA TakeFromBoth ==
    ASSUME NEW S, NEW x \in Seq(S), NEW y \in Seq(S), NEW k \in 0 .. Len(x), NEW d \in 0 .. Len(y),
           d = 0 \/ k = Len(x)
    PROVE  Starts(SubSeq(x, 1, k) \o SubSeq(y, 1, d), x \o y, k + d, S)
<1> DEFINE lx == Len(x)
           ly == Len(y)
           p == x \o y
           a == SubSeq(x, 1, k)
           b == SubSeq(y, 1, d)
           t == a \o b
<1>1. lx \in Nat /\ ly \in Nat /\ k \in Nat /\ d \in Nat /\ k <= lx /\ d <= ly
  BY LenProperties
<1>2. p \in Seq(S) /\ Len(p) = lx + ly /\ \A i \in 1 .. lx + ly : p[i] = IF i <= lx THEN x[i] ELSE y[i - lx]
  BY ConcatProperties
<1>3. a \in Seq(S) /\ Len(a) = k /\ \A i \in 1 .. k : a[i] = x[i]
  BY PrefixEntries
<1>4. b \in Seq(S) /\ Len(b) = d /\ \A i \in 1 .. d : b[i] = y[i]
  BY PrefixEntries
<1> HIDE DEF a, b, p
<1>5. /\ t \in Seq(S) /\ Len(t) = Len(a) + Len(b)
      /\ \A i \in 1 .. Len(a) + Len(b) : t[i] = IF i <= Len(a) THEN a[i] ELSE b[i - Len(a)]
  BY <1>3, <1>4, ConcatProperties, Zenon
<1> HIDE DEF t
<1>6. t \in Seq(S) /\ Len(t) = k + d /\ \A i \in 1 .. k + d : t[i] = IF i <= k THEN a[i] ELSE b[i - k]
  BY <1>3, <1>4, <1>5, Zenon
<1>7. ASSUME NEW i \in 1 .. k + d PROVE t[i] = p[i]
  <2>1. i \in 1 .. lx + ly
    BY <1>1
  <2>2. CASE i <= k
    <3>1. i \in 1 .. k /\ i <= lx
      BY <1>1, <2>2
    <3> QED  BY <1>2, <1>3, <1>6, <2>1, <2>2, <3>1, Zenon
  <2>3. CASE ~(i <= k)
    <3>1. i - k \in 1 .. d /\ k = lx
      BY <1>1, <2>3
    <3> QED  BY <1>2, <1>4, <1>6, <2>1, <2>3, <3>1, Zenon
  <2> QED  BY <2>2, <2>3
<1>8. k + d \in 0 .. Len(p)
  BY <1>1, <1>2
<1> QED  BY <1>2, <1>6, <1>7, <1>8, Zenon DEF Starts, p, a, b, t

\* What is left of the two buffers.
LEMMA LeftOfBoth ==
    ASSUME NEW S, NEW x \in Seq(S), NEW y \in Seq(S), NEW k \in 0 .. Len(x), NEW d \in 0 .. Len(y),
           d = 0 \/ k = Len(x)
    PROVE  /\ SubSeq(x, k + 1, Len(x)) \in Seq(S) /\ SubSeq(y, d + 1, Len(y)) \in Seq(S)
           /\ Skips(SubSeq(x, k + 1, Len(x)) \o SubSeq(y, d + 1, Len(y)), x \o y, k + d)
<1> DEFINE lx == Len(x)
           ly == Len(y)
           p == x \o y
           lp == Len(p)
           n == k + d
           a == SubSeq(x, k + 1, lx)
           b == SubSeq(y, d + 1, ly)
           s == SubSeq(p, n + 1, lp)
<1>1. lx \in Nat /\ ly \in Nat /\ k \in Nat /\ d \in Nat /\ k <= lx /\ d <= ly /\ (d = 0 \/ k = lx)
  BY LenProperties
<1>2. p \in Seq(S) /\ lp = lx + ly /\ \A i \in 1 .. lx + ly : p[i] = IF i <= lx THEN x[i] ELSE y[i - lx]
  BY ConcatProperties
<1>3. n \in Nat /\ lx \in k .. Len(x) /\ ly \in d .. Len(y) /\ lp \in n .. Len(p)
  BY <1>1, <1>2
<1> HIDE DEF lx, ly, lp, n, p
<1>4. a \in Seq(S) /\ Len(a) = lx - k /\ \A i \in 1 .. (lx - k) : a[i] = x[k + i]
  BY <1>1, <1>3, PartEntries, Zenon
<1>5. b \in Seq(S) /\ Len(b) = ly - d /\ \A i \in 1 .. (ly - d) : b[i] = y[d + i]
  BY <1>1, <1>3, PartEntries, Zenon
<1>6. s \in Seq(S) /\ Len(s) = lp - n /\ \A i \in 1 .. (lp - n) : s[i] = p[n + i]
  BY <1>2, <1>3, PartEntries, Zenon
<1> HIDE DEF a, b, s
<1>7. n = k + d
  BY DEF n
<1>8. ASSUME NEW i \in 1 .. Len(a) PROVE a[i] = s[i]
  <2>1. k = n
    BY <1>1, <1>4, <1>7
  <2>2. i \in 1 .. (lx - k) /\ n + i \in 1 .. lx + ly /\ n + i <= lx /\ i \in 1 .. (lp - n)
    BY <1>1, <1>2, <1>4, <2>1
  <2> QED  BY <1>2, <1>4, <1>6, <2>1, <2>2, Zenon
<1>9. ASSUME NEW i \in 1 .. Len(b) PROVE b[i] = s[Len(a) + i]
  <2>1. /\ i \in 1 .. (ly - d) /\ Len(a) + i \in 1 .. (lp - n) /\ n + (Len(a) + i) \in 1 .. lx + ly
        /\ ~(n + (Len(a) + i) <= lx) /\ (n + (Len(a) + i)) - lx = d + i
    BY <1>1, <1>2, <1>4, <1>5, <1>7
  <2> QED  BY <1>2, <1>5, <1>6, <2>1, Zenon
<1>10. Len(a) + Len(b) = Len(s)
  BY <1>1, <1>2, <1>4, <1>5, <1>6, <1>7
<1>11. Joins(a, b, s)
  BY <1>4, <1>5, <1>6, <1>8, <1>9, <1>10, JoinsFromEntries, Zenon
<1> QED  BY <1>4, <1>5, <1>11, Zenon DEF Joins, Skips, s, lp, a, b, lx, ly, n, p

\* take returns the first bytes of what is pending, and leaves the others.
LEMMA TakeSomeFacts ==
    ASSUME NEW S, extra_buffer \in Seq(S), slice \in Seq(S), NEW n \in Nat, Available(n, 0)
    PROVE  /\ Starts(Taken(n), Pending, n, S)
           /\ TakeSome(n, 0) => /\ extra_buffer' \in Seq(S) /\ slice' \in Seq(S)
                                /\ Skips(Pending', Pending, n)
<1> DEFINE x == extra_buffer
           y == slice
           k == FromExtra(n)
           d == n - k
<1>1. Len(x) \in Nat /\ Len(y) \in Nat
  BY LenProperties
<1>2. n <= Len(x) + Len(y)
  BY <1>1 DEF Available
<1>3. k \in 0 .. Len(x) /\ d \in 0 .. Len(y) /\ (d = 0 \/ k = Len(x)) /\ k + d = n
  BY <1>1, <1>2 DEF FromExtra
<1>4. Pending = x \o y /\ Taken(n) = SubSeq(x, 1, k) \o SubSeq(y, 1, d)
  BY Zenon DEF Pending, Taken
<1>5. ASSUME TakeSome(n, 0)
      PROVE  /\ extra_buffer' = SubSeq(x, k + 1, Len(x)) /\ slice' = SubSeq(y, d + 1, Len(y))
             /\ Pending' = extra_buffer' \o slice'
  BY <1>5, Zenon DEF TakeSome, Pending
<1> HIDE DEF k, d
<1>6. Starts(Taken(n), Pending, k + d, S)
  BY <1>3, <1>4, TakeFromBoth, Zenon
<1>7. ASSUME TakeSome(n, 0)
      PROVE  extra_buffer' \in Seq(S) /\ slice' \in Seq(S) /\ Skips(Pending', Pending, k + d)
  <2>1. /\ SubSeq(x, k + 1, Len(x)) \in Seq(S) /\ SubSeq(y, d + 1, Len(y)) \in Seq(S)
        /\ Skips(SubSeq(x, k + 1, Len(x)) \o SubSeq(y, d + 1, Len(y)), x \o y, k + d)
    BY <1>3, LeftOfBoth, Zenon
  <2> QED  BY <1>4, <1>5, <1>7, <2>1, Zenon
<1> QED  BY <1>3, <1>6, <1>7, Zenon

-----------------------------------------------------------------------------
(* Output                                                                  *)

\* A full buffer stays full.
LEMMA NoRoom == ASSUME NEW m \in Nat PROVE 0 - Least(0, m) = 0
<1>1. Least(0, m) = 0
  BY DEF Least
<1> QED  BY <1>1

\* What does not fit has filled the buffer.
LEMMA FullBuffer ==
    ASSUME NEW r \in Nat, NEW m \in Nat, m - Least(r, m) # 0
    PROVE  r - Least(r, m) = 0
  BY DEF Least

\* Subtracting one number and then another.
LEMMA LessBoth ==
    ASSUME NEW n \in Nat, NEW m \in Nat, NEW a \in Nat
    PROVE  (n - m) - a = n - (m + a)
  OBVIOUS

\* What Emit does to the output as a whole.
LEMMA EmitFacts ==
    ASSUME NEW data \in Seq(Nat), delivered \in Seq(Nat), queue \in Seq(Nat), room \in Nat, left \in Nat,
           queue # << >> => room = 0, Emit(data)
    PROVE  /\ delivered' \in Seq(Nat) /\ queue' \in Seq(Nat) /\ room' \in Nat /\ left' \in Nat
           /\ queue' # << >> => room' = 0
           /\ delivered' \o queue' = (delivered \o queue) \o Take(data, left)
           /\ left' = left - Len(Take(data, left))
<1>0. PICK d : d = Take(data, left)
  OBVIOUS
<1> DEFINE a == Take(d, room)
           b == Drop(d, room)
<1>1. d \in Seq(Nat) /\ Len(d) = Least(left, Len(data))
  BY <1>0, TakeFacts
<1>2. /\ left' = left - Len(d) /\ room' = room - Least(room, Len(d))
      /\ delivered' = delivered \o a /\ queue' = queue \o b
  BY <1>0, Zenon DEF Emit, Limited
<1>3. Len(d) \in Nat /\ Len(data) \in Nat
  BY <1>1, LenProperties
<1>4. a \in Seq(Nat) /\ b \in Seq(Nat) /\ Len(b) = Len(d) - Least(room, Len(d)) /\ Len(a) = Least(room, Len(d))
  BY <1>1, TakeFacts, DropFacts
<1>5. a \o b = d
  <2>1. Joins(a, b, d)
    BY <1>1, TakeDrop
  <2> QED  BY <2>1, Zenon DEF Joins
<1> HIDE DEF a, b
<1>6. delivered' \in Seq(Nat) /\ queue' \in Seq(Nat)
  BY <1>2, <1>4, ConcatProperties
<1>7. room' \in Nat /\ left' \in Nat
  BY <1>1, <1>2, <1>3 DEF Least
<1>8. CASE room = 0
  <2>1. Len(a) = 0 /\ a = << >>
    <3>1. Len(a) = 0
      BY <1>3, <1>4, <1>8 DEF Least
    <3> QED  BY <1>4, <3>1, EmptySeq
  <2>2. << >> \o b = b /\ delivered \o << >> = delivered
    BY <1>4, ConcatEmptySeq
  <2>3. Associates(delivered, queue, b)
    BY <1>4, Associate, Zenon
  <2>4. delivered' \o queue' = (delivered \o queue) \o d
    BY <1>2, <1>5, <2>1, <2>2, <2>3, Zenon DEF Associates
  <2>5. room' = 0
    <3>1. 0 - Least(0, Len(d)) = 0
      BY <1>3, NoRoom
    <3> QED  BY <1>2, <1>8, <3>1, Zenon
  <2> QED  BY <1>0, <1>2, <1>6, <1>7, <2>4, <2>5, Zenon
<1>9. CASE room # 0
  <2>1. queue = << >>
    BY <1>9, Zenon
  <2>2. << >> \o b = b /\ delivered \o << >> = delivered
    BY <1>4, ConcatEmptySeq
  <2>3. Associates(delivered, a, b)
    BY <1>4, Associate, Zenon
  <2>4. queue' = b /\ delivered \o queue = delivered
    BY <1>2, <2>1, <2>2, Zenon
  <2>5. delivered' \o queue' = (delivered \o queue) \o d
    BY <1>2, <1>5, <2>3, <2>4, Zenon DEF Associates
  <2>6. ASSUME queue' # << >> PROVE room' = 0
    <3>1. Len(b) # 0
      BY <1>4, <2>4, <2>6, EmptySeq
    <3>2. PICK m : m = Len(d)
      OBVIOUS
    <3>3. m \in Nat /\ m - Least(room, m) # 0 /\ room' = room - Least(room, m)
      BY <1>2, <1>3, <1>4, <3>1, <3>2, Zenon
    <3>4. room - Least(room, m) = 0
      BY <3>3, FullBuffer
    <3> QED  BY <3>3, <3>4, Zenon
  <2> QED  BY <1>0, <1>2, <1>6, <1>7, <2>5, <2>6, Zenon
<1> QED  BY <1>8, <1>9

\* If all of s was written, cut at n, then after Emit(data) all of s and data is.
LEMMA EmitOutput ==
    ASSUME NEW data \in Seq(Nat), NEW s \in Seq(Nat), NEW n \in Nat,
           delivered \in Seq(Nat), queue \in Seq(Nat), delivered \o queue = Take(s, n),
           left = n - Len(delivered \o queue), left \in Nat,
           delivered' \o queue' = (delivered \o queue) \o Take(data, left),
           left' = left - Len(Take(data, left))
    PROVE  /\ delivered' \o queue' = Take(s \o data, n)
           /\ left' = n - Len(delivered' \o queue')
<1>1. PICK o : o = delivered \o queue
  OBVIOUS
<1>2. PICK t : t = Take(data, left)
  OBVIOUS
<1>3. o = Take(s, n) /\ left = n - Len(Take(s, n))
  BY <1>1, Zenon
<1>4. Joins(Take(s, n), Take(data, left), Take(s \o data, n))
  BY <1>3, TakeMore, Zenon
<1>5. delivered' \o queue' = o \o t
  BY <1>1, <1>2, Zenon
<1>6. o \o t = Take(s \o data, n)
  BY <1>2, <1>3, <1>4, Zenon DEF Joins
<1>7. o \in Seq(Nat) /\ t \in Seq(Nat)
  BY <1>2, <1>3, TakeFacts
<1>8. Len(o \o t) = Len(o) + Len(t) /\ Len(o) \in Nat /\ Len(t) \in Nat
  BY <1>7, ConcatProperties, LenProperties
<1>9. left' = left - Len(t) /\ left = n - Len(o)
  BY <1>1, <1>2, Zenon
<1>10. left' = n - Len(o \o t)
  <2>1. PICK l, m, a, b : l = Len(o \o t) /\ m = Len(o) /\ a = Len(t) /\ b = left'
    OBVIOUS
  <2>2. l = m + a /\ m \in Nat /\ a \in Nat /\ b = left - a /\ left = n - m
    BY <1>8, <1>9, <2>1, Zenon
  <2>3. (n - m) - a = n - (m + a)
    BY <2>2, LessBoth
  <2> QED  BY <2>1, <2>2, <2>3, Zenon
<1> QED  BY <1>5, <1>6, <1>10, Zenon

-----------------------------------------------------------------------------
(* The inductive invariant                                                 *)

HeaderStates == {"FixedHeader", "CompressedHeader", "CMP"}
ScanStates == {"ScanBaseline", "ScanProgressive"}

\* The state of the reader goes with the bytes it has seen and the header it has read.
HeaderInv ==
    /\ file \in Files
    /\ state \in HeaderStates \cup ScanStates \cup {"EOI"}
    /\ state # "FixedHeader" => file.bytes[1] = "H"
    /\ state \notin {"FixedHeader", "CompressedHeader"}
           => lh = HeaderOf(file) /\ lh.ok /\ file.bytes[FixedSize + 1] = "C"
    /\ state \in ScanStates => file.bytes[FixedSize + 2] = "M"
    /\ state = "ScanBaseline" => ~file.progressive
    /\ state = "ScanProgressive" => file.progressive
    /\ state = "EOI" /\ file.progressive => Merged.ok

\* What was written so far, before the cut at the JPEG's size.
SoFar == IF state = "ScanBaseline" THEN HeadOf(lh) \o Segments(1, retrieved)
         ELSE IF state = "EOI" THEN Written(file, lh) ELSE << >>

\* The caller and the queue have all of it, up to that cut; only the queue is added to
\* once the output buffer is full.
OutputInv ==
    /\ delivered \in Seq(Nat) /\ queue \in Seq(Nat) /\ room \in Nat /\ left \in Nat
    /\ delivered \o queue = Take(SoFar, file.size)
    /\ state # "FixedHeader" => left = file.size - Len(delivered \o queue)
    /\ queue # << >> => room = 0

\* How many bytes of the file were taken from the input.
Place == IF state = "FixedHeader" THEN 0
         ELSE IF state = "CompressedHeader" THEN FixedSize
         ELSE IF state = "CMP" THEN FixedSize + 1 ELSE FixedSize + 2 + consumed

\* What is pending is the part of the file behind those; once a byte of the body was
\* passed on, the retained bytes are always there. Between calls nothing is left of the
\* slice.
InputInv ==
    /\ extra_buffer \in Seq(STRING) /\ slice \in Seq(STRING)
    /\ fed \in 0 .. Len(file.bytes) /\ total_read_size = fed
    /\ pc # "failed" /\ state # "EOI" =>
           /\ Place <= fed
           /\ Pending = SubSeq(file.bytes, Place + 1, fed)
           /\ consumed > 0 => Len(Pending) >= Retention
           /\ pc = "idle" \/ (pc = "loop" /\ ~continue_processing) => slice = << >>
    /\ pc = "finish" => state \in ScanStates /\ complete /\ Len(Pending) <= Retention

\* Until the end of the input a result arrives only when its input is there, and what
\* was taken of the results has not failed.
ThreadInv ==
    /\ consumed \in Nat /\ ready \in Nat /\ retrieved \in 0 .. ready
    /\ state \in HeaderStates => consumed = 0 /\ ready = 0
    /\ state \notin HeaderStates => ready <= Threads
    /\ state \in ScanStates =>
           /\ pc \notin {"finish", "failed"} => \A k \in 1 .. ready : file.needs[k] <= consumed
           /\ \A k \in 1 .. retrieved : k # file.bad /\ file.needs[k] <= consumed

\* How decoding ends.
EndInv ==
    /\ state = "EOI" => file.sound
    /\ finished => state = "EOI" /\ queue = << >>
    /\ pc = "failed" /\ file.sound => input_complete \/ (complete /\ fed < Len(file.bytes))

Inv == HeaderInv /\ OutputInv /\ InputInv /\ ThreadInv /\ EndInv

-----------------------------------------------------------------------------
(* Facts about one state                                                   *)

\* The types of a file's fields.
LEMMA FileFacts ==
    ASSUME file \in Files
    PROVE  /\ file.bytes \in Seq(STRING) /\ Len(file.bytes) \in Nat
           /\ file.jpeg \in Seq(Nat) /\ file.size \in Nat
           /\ file.progressive \in BOOLEAN /\ file.sound \in BOOLEAN
<1>1. /\ file.bytes \in Seq(STRING) /\ file.jpeg \in Seq(Nat) /\ file.size \in Nat
      /\ file.progressive \in BOOLEAN /\ file.sound \in BOOLEAN
  BY PiecesAssumption, Zenon
<1>2. Len(file.bytes) \in Nat
  BY <1>1, LenProperties
<1> QED  BY <1>1, <1>2, Zenon

\* The header in states behind it.
LEMMA HeaderFacts ==
    ASSUME HeaderInv, state \notin {"FixedHeader", "CompressedHeader"}
    PROVE  /\ Threads \in Nat
           /\ HeadOf(lh) \in Seq(Nat) /\ EndOf(file, lh) \in Seq(Nat)
           /\ \A k \in 1 .. Threads : Segment(file, lh, k) \in Seq(Nat) /\ file.needs[k] \in Nat
           /\ file.progressive => Merged.out \in Seq(Nat)
<1>1. file \in Files /\ lh = HeaderOf(file) /\ lh.ok
  BY Zenon DEF HeaderInv
<1> QED  BY <1>1, PieceFacts, Zenon DEF Threads, Merged

\* Pending input is a part of the file.
LEMMA PendingFacts ==
    ASSUME Inv, pc # "failed", state # "EOI"
    PROVE  /\ Place \in Nat /\ fed \in Nat /\ fed \in Place .. Len(file.bytes)
           /\ Pending = SubSeq(file.bytes, Place + 1, fed)
           /\ Pending \in Seq(STRING) /\ Len(Pending) = fed - Place
           /\ \A i \in 1 .. fed - Place : Pending[i] = file.bytes[Place + i]
<1>1. /\ file \in Files /\ fed \in 0 .. Len(file.bytes) /\ Place <= fed /\ consumed \in Nat
      /\ Pending = SubSeq(file.bytes, Place + 1, fed)
  BY Zenon DEF Inv, HeaderInv, InputInv, ThreadInv
<1>2. file.bytes \in Seq(STRING) /\ Len(file.bytes) \in Nat
  BY <1>1, FileFacts, Zenon
<1>3. Place \in Nat
  BY <1>1, SizesAssumption DEF Place
<1>4. fed \in Nat /\ fed \in Place .. Len(file.bytes)
  BY <1>1, <1>2, <1>3
<1>5. PICK p : p = Place
  OBVIOUS
<1>6. PICK b, q : b = file.bytes /\ q = fed
  OBVIOUS
<1>7. SubSeq(b, p + 1, q) \in Seq(STRING) /\ Len(SubSeq(b, p + 1, q)) = q - p
      /\ \A i \in 1 .. (q - p) : SubSeq(b, p + 1, q)[i] = b[p + i]
  <2>1. b \in Seq(STRING) /\ p \in Nat /\ q \in p .. Len(b)
    BY <1>2, <1>3, <1>4, <1>5, <1>6, Zenon
  <2> QED  BY <2>1, PartEntries
<1> QED  BY <1>1, <1>3, <1>4, <1>5, <1>6, <1>7, Zenon

\* What take returns, and leaves, in terms of the file.
LEMMA TakenFacts ==
    ASSUME Inv, pc # "failed", state # "EOI", NEW n \in Nat, Available(n, 0)
    PROVE  /\ Place + n \in Nat /\ Place + n <= fed
           /\ Taken(n) \in Seq(STRING) /\ Len(Taken(n)) = n
           /\ \A i \in 1 .. n : Taken(n)[i] = file.bytes[Place + i]
           /\ TakeSome(n, 0) => /\ extra_buffer' \in Seq(STRING) /\ slice' \in Seq(STRING)
                                /\ Pending' = SubSeq(file.bytes, (Place + n) + 1, fed)
<1>1. extra_buffer \in Seq(STRING) /\ slice \in Seq(STRING) /\ file \in Files
  BY Zenon DEF Inv, HeaderInv, InputInv
<1>2. file.bytes \in Seq(STRING)
  BY <1>1, FileFacts, Zenon
<1>3. /\ Starts(Taken(n), Pending, n, STRING)
      /\ TakeSome(n, 0) => /\ extra_buffer' \in Seq(STRING) /\ slice' \in Seq(STRING)
                           /\ Skips(Pending', Pending, n)
  BY <1>1, TakeSomeFacts, Zenon
<1>4. /\ Place \in Nat /\ fed \in Nat /\ fed \in Place .. Len(file.bytes)
      /\ Pending = SubSeq(file.bytes, Place + 1, fed)
      /\ Pending \in Seq(STRING) /\ Len(Pending) = fed - Place
      /\ \A i \in 1 .. fed - Place : Pending[i] = file.bytes[Place + i]
  BY PendingFacts, Zenon
<1>5. /\ n \in 0 .. Len(Pending) /\ Taken(n) \in Seq(STRING) /\ Len(Taken(n)) = n
      /\ \A i \in 1 .. n : Taken(n)[i] = Pending[i]
  BY <1>3, Zenon DEF Starts
<1>6. PICK p, l : p = Place /\ l = Len(Pending)
  OBVIOUS
<1>7. p + n \in Nat /\ p + n <= fed /\ \A i \in 1 .. n : i \in 1 .. fed - p
  <2>1. p \in Nat /\ fed \in Nat /\ l = fed - p /\ n \in 0 .. l
    BY <1>4, <1>5, <1>6, Zenon
  <2> QED  BY <2>1
<1>8. ASSUME TakeSome(n, 0) PROVE Pending' = SubSeq(file.bytes, (Place + n) + 1, fed)
  <2>1. Skips(Pending', Pending, n)
    BY <1>3, <1>8, Zenon
  <2>2. PICK b, q, t : b = file.bytes /\ q = Pending /\ t = Pending'
    OBVIOUS
  <2>3. /\ b \in Seq(STRING) /\ p \in Nat /\ fed \in p .. Len(b) /\ IsPart(q, b, p, fed)
        /\ n \in 0 .. Len(q) /\ Skips(t, q, n)
    BY <1>2, <1>4, <1>5, <1>6, <2>1, <2>2, Zenon DEF IsPart
  <2>4. IsPart(t, b, p + n, fed)
    BY <2>3, RestOfPart, Zenon
  <2> QED  BY <1>6, <2>2, <2>4, Zenon DEF IsPart
<1> QED  BY <1>3, <1>4, <1>5, <1>6, <1>7, <1>8, Zenon

\* The output in terms of what was written.
LEMMA SoFarType == ASSUME HeaderInv, ThreadInv PROVE SoFar \in Seq(Nat)
<1>1. << >> \in Seq(Nat)
  BY EmptySeq
<1>2. CASE state = "ScanBaseline"
  <2>1. /\ file \in Files /\ lh = HeaderOf(file) /\ lh.ok /\ ready <= Threads
        /\ retrieved \in 0 .. ready /\ ready \in Nat
    BY <1>2, Zenon DEF HeaderInv, ThreadInv, HeaderStates
  <2>2. Threads \in Nat /\ HeadOf(lh) \in Seq(Nat)
    BY <1>2, HeaderFacts, Zenon
  <2>3. retrieved \in Nat /\ retrieved <= Threads /\ retrieved <= retrieved
    BY <2>1, <2>2
  <2>4. Segments(1, retrieved) \in Seq(Nat)
    BY <2>1, <2>3, SegmentsJoin, Zenon DEF Segments, Threads
  <2>5. HeadOf(lh) \o Segments(1, retrieved) \in Seq(Nat)
    BY <2>2, <2>4, ConcatProperties, Zenon
  <2> QED  BY <1>2, <2>5, Zenon DEF SoFar
<1>3. CASE state = "EOI"
  <2>1. file \in Files /\ lh = HeaderOf(file) /\ lh.ok
    BY <1>3, Zenon DEF HeaderInv
  <2>2. /\ Threads \in Nat /\ HeadOf(lh) \in Seq(Nat) /\ EndOf(file, lh) \in Seq(Nat)
        /\ file.progressive => MergedOf(file, lh).out \in Seq(Nat)
    BY <1>3, HeaderFacts, Zenon DEF Merged
  <2>3. SegmentsOf(file, lh, 1, Threads) \in Seq(Nat)
    <3>1. Threads <= Threads /\ Threads <= Len(lh.handoffs)
      BY <2>2 DEF Threads
    <3> QED  BY <2>1, <2>2, <3>1, SegmentsJoin, Zenon
  <2>4. HeadOf(lh) \o (SegmentsOf(file, lh, 1, Threads) \o EndOf(file, lh)) \in Seq(Nat)
    BY <2>2, <2>3, ConcatProperties, Zenon
  <2>5. Written(file, lh) \in Seq(Nat)
    BY <2>2, <2>4, Zenon DEF Written, Threads
  <2> QED  BY <1>3, <2>5, Zenon DEF SoFar
<1>4. CASE state # "ScanBaseline" /\ state # "EOI"
  BY <1>1, <1>4, Zenon DEF SoFar
<1> QED  BY <1>2, <1>3, <1>4, Zenon

-----------------------------------------------------------------------------
(* What a step that leaves the variables of a part alone preserves         *)

\* The header of the file and the state of the reader.
LEMMA FrameHeader ==
    ASSUME HeaderInv, file' = file, state' = state, lh' = lh
    PROVE  HeaderInv'
  BY Zenon DEF HeaderInv, Merged

\* The output.
LEMMA FrameOutput ==
    ASSUME OutputInv, file' = file, state' = state, lh' = lh, retrieved' = retrieved,
           delivered' = delivered, queue' = queue, room' = room, left' = left
    PROVE  OutputInv'
  BY Zenon DEF OutputInv, SoFar, Segments

\* The input, when a step does not read but may fail.
LEMMA FrameInput ==
    ASSUME InputInv, file' = file, state' = state, fed' = fed, total_read_size' = total_read_size,
           extra_buffer' = extra_buffer, slice' = slice, continue_processing' = continue_processing,
           consumed' = consumed, complete' = complete, pc' = pc \/ pc' = "failed"
    PROVE  InputInv'
<1>1. Place' = Place /\ Pending' = Pending
  BY Zenon DEF Place, Pending
<1>2. CASE pc' = pc
  BY <1>1, <1>2, Zenon DEF InputInv
<1>3. CASE pc' = "failed"
  <2>1. pc' # "finish" /\ pc' # "idle"
    BY <1>3
  <2> QED  BY <1>1, <1>3, <2>1, Zenon DEF InputInv
<1> QED  BY <1>2, <1>3, Zenon

\* The threads.
LEMMA FrameThread ==
    ASSUME ThreadInv, file' = file, state' = state, lh' = lh,
           consumed' = consumed, ready' = ready, retrieved' = retrieved,
           pc' \notin {"finish", "failed"} => pc \notin {"finish", "failed"}
    PROVE  ThreadInv'
  BY Zenon DEF ThreadInv, Threads

-----------------------------------------------------------------------------
(* The invariant holds initially, and every step preserves it              *)

\* A new reader.
LEMMA InitInv == ASSUME Init PROVE Inv
<1>1. /\ slice = << >> /\ extra_buffer = << >> /\ file \in Files /\ fed = 0 /\ pc = "idle"
      /\ room = 0 /\ state = "FixedHeader" /\ total_read_size = 0 /\ left = 0
      /\ consumed = 0 /\ ready = 0 /\ retrieved = 0 /\ queue = << >> /\ delivered = << >> /\ finished = FALSE
  BY Zenon DEF Init, InitPartial
<1>2. HeaderInv
  BY <1>1 DEF HeaderInv, HeaderStates, ScanStates
<1>3. << >> \in Seq(Nat) /\ << >> \in Seq(STRING) /\ << >> \o << >> = << >>
  <2>1. << >> \in Seq(Nat) /\ << >> \in Seq(STRING)
    BY EmptySeq
  <2> QED  BY <2>1, ConcatEmptySeq
<1>4. file.size \in Nat /\ file.bytes \in Seq(STRING) /\ Len(file.bytes) \in Nat
  BY <1>1, FileFacts, Zenon
<1>5. OutputInv
  <2>1. SoFar = << >>
    BY <1>1 DEF SoFar
  <2>2. Take(<< >>, file.size) = << >>
    BY <1>4, TakeNothing
  <2> QED  BY <1>1, <1>3, <2>1, <2>2 DEF OutputInv
<1>6. InputInv
  <2>1. Place = 0 /\ Pending = << >>
    BY <1>1, <1>3, Zenon DEF Place, Pending
  <2>2. SubSeq(file.bytes, 0 + 1, 0) = << >>
    <3>1. 0 \in Nat /\ 0 \in 0 .. Len(file.bytes)
      BY <1>4
    <3>2. SubSeq(file.bytes, 0 + 1, 0) \in Seq(STRING) /\ Len(SubSeq(file.bytes, 0 + 1, 0)) = 0 - 0
      BY <1>4, <3>1, PartEntries
    <3> QED  BY <3>2, EmptySeq
  <2>3. fed \in 0 .. Len(file.bytes) /\ Place <= fed /\ ~(consumed > 0)
    BY <1>1, <1>4, <2>1
  <2>4. pc # "finish"
    BY <1>1
  <2> QED  BY <1>1, <1>3, <2>1, <2>2, <2>3, <2>4, Zenon DEF InputInv
<1>7. ThreadInv
  BY <1>1 DEF ThreadInv, HeaderStates, ScanStates
<1>8. EndInv
  BY <1>1 DEF EndInv
<1> QED  BY <1>2, <1>5, <1>6, <1>7, <1>8, Zenon DEF Inv

\* process_limited_buffer: what was queued goes out first, and the new slice behind what
\* is left of the input.
LEMMA CallStep ==
    ASSUME Inv, NEW n \in Nat, NEW last \in BOOLEAN, NEW size \in Nat, Call(n, last, size)
    PROVE  Inv'
<1>1. /\ pc = "idle" /\ n <= Len(file.bytes) - fed
      /\ delivered' = delivered \o Take(queue, size) /\ queue' = Drop(queue, size)
      /\ room' = size - Least(size, Len(queue))
      /\ file' = file /\ state' = state /\ lh' = lh /\ left' = left /\ input_complete' = input_complete
      /\ consumed' = consumed /\ ready' = ready /\ retrieved' = retrieved /\ finished' = finished
  BY Zenon DEF Call, threads, caller
<1>2. \/ /\ input_complete /\ pc' = "failed" /\ fed' = fed /\ total_read_size' = total_read_size
         /\ extra_buffer' = extra_buffer /\ slice' = slice
      \/ /\ pc' = "loop" /\ slice' = SubSeq(file.bytes, fed + 1, fed + n) /\ continue_processing'
         /\ extra_buffer' = extra_buffer /\ fed' = fed + n /\ total_read_size' = total_read_size + n
  BY Zenon DEF Call, Fail, NewSlice, partial, caller
<1>3. HeaderInv /\ OutputInv /\ InputInv /\ ThreadInv /\ EndInv
  BY Zenon DEF Inv
<1>4. pc' # "finish" /\ pc' # "idle" /\ pc # "failed" /\ pc # "finish"
  BY <1>1, <1>2
<1>5. HeaderInv'
  BY <1>1, <1>3, FrameHeader, Zenon
<1>6. ThreadInv'
  BY <1>1, <1>3, <1>4, FrameThread
<1>7. /\ file \in Files /\ queue \in Seq(Nat) /\ delivered \in Seq(Nat) /\ left \in Nat
      /\ fed \in 0 .. Len(file.bytes) /\ total_read_size = fed
      /\ extra_buffer \in Seq(STRING) /\ slice \in Seq(STRING)
  BY <1>3, Zenon DEF HeaderInv, OutputInv, InputInv
<1>8. file.bytes \in Seq(STRING) /\ Len(file.bytes) \in Nat
  BY <1>7, FileFacts, Zenon
<1>9. /\ Take(queue, size) \in Seq(Nat) /\ queue' \in Seq(Nat)
      /\ Len(queue') = Len(queue) - Least(size, Len(queue)) /\ Len(queue) \in Nat
  <2>1. Take(queue, size) \in Seq(Nat)
    BY <1>7, TakeFacts, Zenon
  <2>2. Drop(queue, size) \in Seq(Nat) /\ Len(Drop(queue, size)) = Len(queue) - Least(size, Len(queue))
    BY <1>7, DropFacts
  <2>3. Len(queue) \in Nat
    BY <1>7, LenProperties
  <2> QED  BY <1>1, <2>1, <2>2, <2>3, Zenon
<1>10. delivered' \o queue' = delivered \o queue
  <2>1. Joins(Take(queue, size), Drop(queue, size), queue)
    BY <1>7, TakeDrop, Zenon
  <2>2. Associates(delivered, Take(queue, size), Drop(queue, size))
    BY <1>1, <1>7, <1>9, Associate, Zenon
  <2> QED  BY <1>1, <2>1, <2>2, Zenon DEF Joins, Associates
<1>11. OutputInv'
  <2>1. delivered' \in Seq(Nat)
    BY <1>1, <1>7, <1>9, ConcatProperties, Zenon
  <2>2. room' \in Nat
    BY <1>1, <1>9 DEF Least
  <2>3. ASSUME queue' # << >> PROVE room' = 0
    <3>1. Len(queue') # 0
      BY <1>9, <2>3, EmptySeq
    <3>2. size - Least(size, Len(queue)) = 0
      BY <1>9, <3>1, FullBuffer
    <3> QED  BY <1>1, <3>2, Zenon
  <2>4. SoFar' = SoFar
    BY <1>1, Zenon DEF SoFar, Segments
  <2> QED  BY <1>1, <1>3, <1>7, <1>9, <1>10, <2>1, <2>2, <2>3, <2>4, Zenon DEF OutputInv
<1>12. InputInv'
  <2>1. CASE pc' = "failed"
    <3>1. pc' # "loop"
      BY <2>1
    <3>2. fed' = fed /\ total_read_size' = total_read_size /\ extra_buffer' = extra_buffer /\ slice' = slice
      BY <1>2, <3>1, Zenon
    <3> QED  BY <1>1, <1>4, <1>7, <2>1, <3>2, Zenon DEF InputInv
  <2>2. CASE pc' # "failed"
    <3>1. /\ pc' = "loop" /\ slice' = SubSeq(file.bytes, fed + 1, fed + n) /\ continue_processing'
          /\ extra_buffer' = extra_buffer /\ fed' = fed + n /\ total_read_size' = total_read_size + n
      BY <1>2, <2>2, Zenon
    <3>2. /\ fed \in Nat /\ fed + n \in Nat /\ fed <= fed + n /\ fed + n <= Len(file.bytes)
          /\ fed + n \in 0 .. Len(file.bytes) /\ fed + n \in fed .. Len(file.bytes)
      BY <1>1, <1>7, <1>8
    <3>3. slice' \in Seq(STRING)
      BY <1>8, <3>1, <3>2, PartEntries
    <3>4. ASSUME state # "EOI"
          PROVE  /\ Place' <= fed' /\ Pending' = SubSeq(file.bytes, Place + 1, fed')
                 /\ consumed > 0 => Len(Pending') >= Retention
      <4>1. /\ Place \in Nat /\ fed \in Place .. Len(file.bytes)
            /\ Pending = SubSeq(file.bytes, Place + 1, fed) /\ Len(Pending) = fed - Place
        BY <1>4, <3>4, PendingFacts, Zenon
      <4>2. slice = << >> /\ (consumed > 0 => Len(Pending) >= Retention)
        BY <1>1, <1>3, <1>4, <3>4, Zenon DEF InputInv
      <4>3. Pending = extra_buffer
        <5>1. extra_buffer \o << >> = extra_buffer
          BY <1>7, ConcatEmptySeq, Zenon
        <5> QED  BY <4>2, <5>1, Zenon DEF Pending
      <4>4. Pending' = Pending \o SubSeq(file.bytes, fed + 1, fed + n)
        BY <3>1, <4>3, Zenon DEF Pending
      <4>5. Place <= fed /\ Place <= fed + n /\ fed + n \in Place .. Len(file.bytes)
        BY <3>2, <4>1
      <4>6. Joins(SubSeq(file.bytes, Place + 1, fed), SubSeq(file.bytes, fed + 1, fed + n),
                  SubSeq(file.bytes, Place + 1, fed + n))
        BY <1>8, <3>2, <4>1, <4>5, AdjacentParts, Zenon
      <4>7. Pending' = SubSeq(file.bytes, Place + 1, fed + n)
        BY <4>1, <4>4, <4>6, Zenon DEF Joins
      <4>8. Len(Pending') = (fed + n) - Place
        <5>1. Len(SubSeq(file.bytes, Place + 1, fed + n)) = (fed + n) - Place
          BY <1>8, <4>1, <4>5, PartEntries
        <5> QED  BY <4>7, <5>1, Zenon
      <4>9. Place' = Place
        BY <1>1, Zenon DEF Place
      <4>10. consumed > 0 => Len(Pending') >= Retention
        BY <3>2, <4>1, <4>2, <4>8, SizesAssumption
      <4> QED  BY <3>1, <4>5, <4>7, <4>9, <4>10, Zenon
    <3>5. Place' = Place
      BY <1>1, Zenon DEF Place
    <3> QED  BY <1>1, <1>4, <1>7, <3>1, <3>2, <3>3, <3>4, <3>5, Zenon DEF InputInv
  <2> QED  BY <2>1, <2>2, Zenon
<1>13. EndInv'
  <2>1. ASSUME queue = << >> PROVE queue' = << >>
    <3>1. Len(queue) = 0 /\ Least(size, 0) = 0
      BY <2>1 DEF Least
    <3>2. Len(queue') = 0
      BY <1>9, <3>1
    <3> QED  BY <1>9, <3>2, EmptySeq
  <2>2. pc' = "failed" => input_complete'
    <3>1. "loop" # "failed"
      OBVIOUS
    <3> QED  BY <1>1, <1>2, <3>1, Zenon
  <2> QED  BY <1>1, <1>3, <2>1, <2>2, Zenon DEF EndInv
<1> QED  BY <1>5, <1>6, <1>11, <1>12, <1>13, Zenon DEF Inv

\* A take that finds too little moves what is pending to the extra buffer.
LEMMA NeedMoreStep ==
    ASSUME Inv, NEW s, NEW n \in Nat, NeedMore(s, n)
    PROVE  Inv'
<1>1. /\ pc = "loop" /\ extra_buffer' = Pending /\ slice' = << >>
      /\ file' = file /\ fed' = fed /\ pc' = pc /\ complete' = complete /\ room' = room
      /\ state' = state /\ lh' = lh /\ total_read_size' = total_read_size /\ left' = left
      /\ input_complete' = input_complete /\ consumed' = consumed /\ ready' = ready
      /\ retrieved' = retrieved /\ queue' = queue /\ delivered' = delivered /\ finished' = finished
  BY Zenon DEF NeedMore, InLoop, TakeNone, Pending, caller, call, reader, threads, output
<1>2. HeaderInv /\ OutputInv /\ InputInv /\ ThreadInv /\ EndInv
  BY Zenon DEF Inv
<1>3. pc' # "finish"
  BY <1>1
<1>4. HeaderInv' /\ OutputInv' /\ ThreadInv'
  BY <1>1, <1>2, FrameHeader, FrameOutput, FrameThread, Zenon
<1>5. Pending \in Seq(STRING) /\ << >> \in Seq(STRING)
  BY <1>2, ConcatProperties, EmptySeq DEF InputInv, Pending
<1>6. Pending' = Pending
  <2>1. Pending \o << >> = Pending
    BY <1>5, ConcatEmptySeq, Zenon
  <2> QED  BY <1>1, <2>1, Zenon DEF Pending
<1>7. Place' = Place
  BY <1>1, Zenon DEF Place
<1>8. InputInv'
  BY <1>1, <1>2, <1>3, <1>5, <1>6, <1>7, Zenon DEF InputInv
<1>9. EndInv'
  BY <1>1, <1>2, Zenon DEF EndInv
<1> QED  BY <1>4, <1>8, <1>9, Zenon DEF Inv

\* What a sound file has.
LEMMA SoundFacts ==
    ASSUME file \in Files, file.sound
    PROVE  /\ file.bytes[1] = "H" /\ file.bytes[FixedSize + 1] = "C" /\ file.bytes[FixedSize + 2] = "M"
           /\ HeaderOf(file).ok
           /\ file.declared = Len(file.bytes)
           /\ Len(file.bytes) - (FixedSize + 2 + Retention) >= 0
           /\ \A i \in 1 .. Retention : file.bytes[Len(file.bytes) - Retention + i] = "E"
           /\ \A k \in 1 .. Len(HeaderOf(file).handoffs) :
                  k # file.bad /\ file.needs[k] <= Len(file.bytes) - (FixedSize + 2 + Retention)
           /\ file.progressive => MergedOf(file, HeaderOf(file)).ok
           /\ Take(Written(file, HeaderOf(file)), file.size) = file.jpeg
<1>1. /\ WellFormed(file, Len(file.bytes))
      /\ Take(Written(file, HeaderOf(file)), file.size) = file.jpeg
  BY FilesAssumption, Zenon
<1> QED  BY <1>1, Zenon DEF WellFormed

\* Reading n bytes in the headers moves the place in the file by n.
LEMMA ReadInput ==
    ASSUME Inv, pc = "loop", continue_processing, state \in HeaderStates, NEW n \in Nat, TakeSome(n, 0),
           file' = file, fed' = fed, total_read_size' = total_read_size, consumed' = consumed,
           pc' = "failed" \/ (pc' = "loop" /\ Place' = Place + n)
    PROVE  InputInv'
<1>1. pc # "failed" /\ state # "EOI" /\ pc' # "finish" /\ pc' # "idle"
  BY DEF HeaderStates
<1>2. Available(n, 0) /\ continue_processing'
  BY Zenon DEF TakeSome
<1>3. /\ Place + n <= fed /\ extra_buffer' \in Seq(STRING) /\ slice' \in Seq(STRING)
      /\ Pending' = SubSeq(file.bytes, (Place + n) + 1, fed)
  BY <1>1, <1>2, TakenFacts, Zenon
<1>4. fed \in 0 .. Len(file.bytes) /\ total_read_size = fed
  BY Zenon DEF Inv, InputInv
<1>5. ~(consumed' > 0)
  <2>1. consumed' = 0
    BY Zenon DEF Inv, ThreadInv
  <2> QED  BY <2>1
<1> QED  BY <1>1, <1>2, <1>3, <1>4, <1>5, Zenon DEF InputInv

\* Before the scan nothing was written.
LEMMA NothingWritten ==
    ASSUME Inv, state \in HeaderStates \cup {"ScanProgressive"}
    PROVE  SoFar = << >> /\ delivered \o queue = << >> /\ Len(delivered \o queue) = 0
<1>1. state # "ScanBaseline" /\ state # "EOI"
  BY DEF HeaderStates
<1>2. SoFar = << >>
  BY <1>1, Zenon DEF SoFar
<1>3. file.size \in Nat /\ delivered \o queue = Take(SoFar, file.size)
  <2>1. file \in Files /\ delivered \o queue = Take(SoFar, file.size)
    BY Zenon DEF Inv, HeaderInv, OutputInv
  <2> QED  BY <2>1, FileFacts, Zenon
<1>4. delivered \o queue = << >>
  BY <1>2, <1>3, TakeNothing, Zenon
<1>5. Len(<< >>) = 0
  OBVIOUS
<1> QED  BY <1>2, <1>4, <1>5, Zenon

\* The fixed header.
LEMMA FixedHeaderStep == ASSUME Inv, ReadFixedHeader PROVE Inv'
<1>1. /\ pc = "loop" /\ continue_processing /\ state = "FixedHeader" /\ TakeSome(FixedSize, 0)
      /\ \/ /\ Head(Taken(FixedSize)) = "H" /\ state' = "CompressedHeader" /\ left' = file.size /\ pc' = pc
         \/ /\ Head(Taken(FixedSize)) # "H" /\ pc' = "failed" /\ state' = state /\ left' = left
      /\ file' = file /\ fed' = fed /\ complete' = complete /\ room' = room /\ lh' = lh
      /\ total_read_size' = total_read_size /\ input_complete' = input_complete
      /\ consumed' = consumed /\ ready' = ready /\ retrieved' = retrieved
      /\ queue' = queue /\ delivered' = delivered /\ finished' = finished
  BY Zenon DEF ReadFixedHeader, InLoop, Fail, caller, threads, output
<1>2. HeaderInv /\ OutputInv /\ InputInv /\ ThreadInv /\ EndInv
  BY Zenon DEF Inv
<1>3. state \in HeaderStates /\ pc # "failed" /\ state # "EOI" /\ FixedSize \in Nat /\ 1 \in 1 .. FixedSize
  BY <1>1, SizesAssumption DEF HeaderStates
<1>4. Head(Taken(FixedSize)) = file.bytes[1]
  <2>1. Available(FixedSize, 0)
    BY <1>1, Zenon DEF TakeSome
  <2>2. /\ Taken(FixedSize) \in Seq(STRING) /\ Len(Taken(FixedSize)) = FixedSize
        /\ Taken(FixedSize)[1] = file.bytes[Place + 1]
    BY <1>3, <2>1, TakenFacts, Zenon
  <2>3. Place + 1 = 1
    BY <1>1 DEF Place
  <2>4. Head(Taken(FixedSize)) = Taken(FixedSize)[1]
    BY <1>3, <2>2
  <2> QED  BY <2>2, <2>3, <2>4, Zenon
<1>5. \/ /\ file.bytes[1] = "H" /\ state' = "CompressedHeader" /\ left' = file.size /\ pc' = "loop"
      \/ /\ file.bytes[1] # "H" /\ pc' = "failed" /\ state' = "FixedHeader" /\ left' = left
  BY <1>1, <1>4, Zenon
<1>6. file \in Files /\ file.size \in Nat
  <2>1. file \in Files
    BY <1>2, Zenon DEF HeaderInv
  <2> QED  BY <2>1, FileFacts, Zenon
<1>7. HeaderInv'
  BY <1>1, <1>5, <1>6 DEF HeaderInv, HeaderStates, ScanStates
<1>8. OutputInv'
  <2>1. SoFar = << >> /\ Len(delivered \o queue) = 0
    BY <1>2, <1>3, NothingWritten, Zenon DEF Inv
  <2>2. state' # "ScanBaseline" /\ state' # "EOI" /\ left \in Nat
    BY <1>2, <1>5 DEF OutputInv
  <2>3. SoFar' = << >>
    BY <2>2, Zenon DEF SoFar
  <2>4. file.size = file.size - 0
    BY <1>6
  <2> QED  BY <1>1, <1>2, <1>5, <1>6, <2>1, <2>2, <2>3, <2>4, Zenon DEF OutputInv
<1>9. InputInv'
  <2>1. pc' = "loop" => Place' = Place + FixedSize
    <3>1. Place = 0 /\ 0 + FixedSize = FixedSize /\ "failed" # "loop"
      BY <1>1, <1>3 DEF Place
    <3>2. pc' = "loop" => state' = "CompressedHeader"
      BY <1>5, <3>1, Zenon
    <3>3. state' = "CompressedHeader" => Place' = FixedSize
      BY DEF Place
    <3> QED  BY <3>1, <3>2, <3>3, Zenon
  <2> QED  BY <1>1, <1>2, <1>3, <1>5, <2>1, ReadInput, Zenon DEF Inv
<1>10. ThreadInv'
  <2>1. state' \in HeaderStates /\ state' \notin ScanStates
    BY <1>5 DEF HeaderStates, ScanStates
  <2> QED  BY <1>1, <1>2, <1>3, <2>1, Zenon DEF ThreadInv
<1>11. EndInv'
  <2>1. state' # "EOI" /\ "loop" # "failed"
    BY <1>5
  <2>2. ~finished
    BY <1>2, <1>3, Zenon DEF EndInv
  <2>3. ~(pc' = "failed" /\ file.sound)
    BY <1>5, <1>6, <2>1, SoundFacts, Zenon
  <2> QED  BY <1>1, <2>1, <2>2, <2>3, Zenon DEF EndInv
<1> QED  BY <1>7, <1>8, <1>9, <1>10, <1>11, Zenon DEF Inv

\* The compressed header: its one byte is "C", and its sections parse.
LEMMA CompressedHeaderStep == ASSUME Inv, ReadCompressedHeader PROVE Inv'
<1>1. /\ pc = "loop" /\ continue_processing /\ state = "CompressedHeader" /\ TakeSome(1, 0)
      /\ lh' = HeaderOf(file)
      /\ \/ /\ Taken(1) = <<"C">> /\ lh'.ok /\ state' = "CMP" /\ pc' = pc
         \/ /\ ~(Taken(1) = <<"C">> /\ lh'.ok) /\ pc' = "failed" /\ state' = state
      /\ file' = file /\ fed' = fed /\ complete' = complete /\ room' = room /\ left' = left
      /\ total_read_size' = total_read_size /\ input_complete' = input_complete
      /\ consumed' = consumed /\ ready' = ready /\ retrieved' = retrieved
      /\ queue' = queue /\ delivered' = delivered /\ finished' = finished
  BY Zenon DEF ReadCompressedHeader, HeaderOf, InLoop, Fail, caller, threads, output
<1>2. HeaderInv /\ OutputInv /\ InputInv /\ ThreadInv /\ EndInv
  BY Zenon DEF Inv
<1>3. state \in HeaderStates /\ pc # "failed" /\ state # "EOI" /\ 1 \in Nat /\ 1 \in 1 .. 1 /\ FixedSize \in Nat
  BY <1>1, SizesAssumption DEF HeaderStates
<1>4. Taken(1) = <<"C">> <=> file.bytes[FixedSize + 1] = "C"
  <2>1. Available(1, 0)
    BY <1>1, Zenon DEF TakeSome
  <2>2. /\ Taken(1) \in Seq(STRING) /\ Len(Taken(1)) = 1 /\ Taken(1)[1] = file.bytes[Place + 1]
    BY <1>3, <2>1, TakenFacts, Zenon
  <2>3. Place = FixedSize
    BY <1>1 DEF Place
  <2>4. Taken(1)[1] = file.bytes[FixedSize + 1]
    BY <2>2, <2>3, Zenon
  <2>5. Taken(1) = <<Taken(1)[1]>>
    BY <2>2
  <2>6. <<"C">>[1] = "C"
    OBVIOUS
  <2> QED  BY <2>4, <2>5, <2>6, Zenon
<1>5. \/ /\ file.bytes[FixedSize + 1] = "C" /\ HeaderOf(file).ok /\ state' = "CMP" /\ pc' = "loop"
      \/ /\ ~(file.bytes[FixedSize + 1] = "C" /\ HeaderOf(file).ok) /\ pc' = "failed"
         /\ state' = "CompressedHeader"
  BY <1>1, <1>4, Zenon
<1>6. file \in Files /\ file.bytes[1] = "H"
  BY <1>1, <1>2 DEF HeaderInv
<1>7. HeaderInv'
  BY <1>1, <1>5, <1>6 DEF HeaderInv, HeaderStates, ScanStates
<1>8. OutputInv'
  <2>1. SoFar = << >>
    BY <1>2, <1>3, NothingWritten, Zenon DEF Inv
  <2>2. state' # "ScanBaseline" /\ state' # "EOI" /\ state # "FixedHeader" /\ state' # "FixedHeader"
    BY <1>1, <1>5
  <2>3. SoFar' = << >>
    BY <2>2, Zenon DEF SoFar
  <2> QED  BY <1>1, <1>2, <2>1, <2>2, <2>3, Zenon DEF OutputInv
<1>9. InputInv'
  <2>1. pc' = "loop" => Place' = Place + 1
    <3>1. Place = FixedSize /\ "failed" # "loop"
      BY <1>1 DEF Place
    <3>2. pc' = "loop" => state' = "CMP"
      BY <1>5, <3>1, Zenon
    <3>3. state' = "CMP" => Place' = FixedSize + 1
      BY DEF Place
    <3> QED  BY <3>1, <3>2, <3>3, Zenon
  <2> QED  BY <1>1, <1>2, <1>3, <1>5, <2>1, ReadInput, Zenon DEF Inv
<1>10. ThreadInv'
  <2>1. state' \in HeaderStates /\ state' \notin ScanStates
    BY <1>5 DEF HeaderStates, ScanStates
  <2> QED  BY <1>1, <1>2, <1>3, <2>1, Zenon DEF ThreadInv
<1>11. EndInv'
  <2>1. state' # "EOI" /\ "loop" # "failed"
    BY <1>5
  <2>2. ~finished
    BY <1>2, <1>3, Zenon DEF EndInv
  <2>3. ~(pc' = "failed" /\ file.sound)
    BY <1>5, <1>6, <2>1, SoundFacts, Zenon
  <2> QED  BY <1>1, <2>1, <2>2, <2>3, Zenon DEF EndInv
<1> QED  BY <1>7, <1>8, <1>9, <1>10, <1>11, Zenon DEF Inv

\* The CMP marker; the head of a baseline JPEG is written.
LEMMA CmpStep == ASSUME Inv, ReadCmp PROVE Inv'
<1>1. /\ pc = "loop" /\ continue_processing /\ state = "CMP" /\ TakeSome(1, 0)
      /\ \/ /\ Taken(1) # <<"M">> /\ pc' = "failed" /\ state' = state
            /\ left' = left /\ room' = room /\ queue' = queue /\ delivered' = delivered
         \/ /\ Taken(1) = <<"M">> /\ pc' = pc /\ file.progressive /\ state' = "ScanProgressive"
            /\ left' = left /\ room' = room /\ queue' = queue /\ delivered' = delivered
         \/ /\ Taken(1) = <<"M">> /\ pc' = pc /\ ~file.progressive /\ state' = "ScanBaseline"
            /\ Emit(HeadOf(lh))
      /\ file' = file /\ fed' = fed /\ complete' = complete /\ lh' = lh
      /\ total_read_size' = total_read_size /\ input_complete' = input_complete
      /\ consumed' = consumed /\ ready' = ready /\ retrieved' = retrieved /\ finished' = finished
  BY Zenon DEF ReadCmp, InLoop, Fail, caller, threads
<1>2. HeaderInv /\ OutputInv /\ InputInv /\ ThreadInv /\ EndInv
  BY Zenon DEF Inv
<1>3. state \in HeaderStates /\ pc # "failed" /\ state # "EOI" /\ 1 \in Nat /\ 1 \in 1 .. 1 /\ FixedSize \in Nat
  BY <1>1, SizesAssumption DEF HeaderStates
<1>4. consumed = 0 /\ ready = 0 /\ retrieved = 0
  <2>1. consumed = 0 /\ ready = 0 /\ retrieved \in 0 .. ready
    BY <1>2, <1>3, Zenon DEF ThreadInv
  <2> QED  BY <2>1
<1>5. Taken(1) = <<"M">> <=> file.bytes[FixedSize + 2] = "M"
  <2>1. Available(1, 0)
    BY <1>1, Zenon DEF TakeSome
  <2>2. /\ Taken(1) \in Seq(STRING) /\ Len(Taken(1)) = 1 /\ Taken(1)[1] = file.bytes[Place + 1]
    BY <1>3, <2>1, TakenFacts, Zenon
  <2>3. Place + 1 = FixedSize + 2
    BY <1>1, <1>3 DEF Place
  <2>4. Taken(1)[1] = file.bytes[FixedSize + 2]
    BY <2>2, <2>3, Zenon
  <2>5. Taken(1) = <<Taken(1)[1]>>
    BY <2>2
  <2>6. <<"M">>[1] = "M"
    OBVIOUS
  <2> QED  BY <2>4, <2>5, <2>6, Zenon
<1>6. file \in Files /\ file.bytes[1] = "H" /\ lh = HeaderOf(file) /\ lh.ok /\ file.bytes[FixedSize + 1] = "C"
  BY <1>1, <1>2 DEF HeaderInv
<1>7. /\ file.size \in Nat /\ Threads \in Nat /\ HeadOf(lh) \in Seq(Nat)
  <2>1. state \notin {"FixedHeader", "CompressedHeader"}
    BY <1>1
  <2> QED  BY <1>2, <1>6, <2>1, FileFacts, HeaderFacts, Zenon
<1>8. SoFar = << >> /\ delivered \o queue = << >> /\ Len(delivered \o queue) = 0
  BY <1>2, <1>3, NothingWritten, Zenon DEF Inv
<1>9. state \notin {"FixedHeader", "EOI"} /\ state' # "FixedHeader" /\ state' # "EOI"
  BY <1>1
<1>10. InputInv'
  <2>1. pc' = "loop" => Place' = Place + 1
    <3>1. Place = FixedSize + 1 /\ (FixedSize + 1) + 1 = FixedSize + 2 + consumed /\ "failed" # "loop"
      BY <1>1, <1>3, <1>4 DEF Place
    <3>2. pc' = "loop" => state' = "ScanBaseline" \/ state' = "ScanProgressive"
      BY <1>1, <3>1, Zenon
    <3>3. state' = "ScanBaseline" \/ state' = "ScanProgressive" => Place' = FixedSize + 2 + consumed'
      BY DEF Place
    <3> QED  BY <1>1, <3>1, <3>2, <3>3, Zenon
  <2> QED  BY <1>1, <1>2, <1>3, <2>1, ReadInput, Zenon DEF Inv
<1>11. CASE pc' = "failed"
  <2>1. /\ Taken(1) # <<"M">> /\ state' = state
        /\ left' = left /\ room' = room /\ queue' = queue /\ delivered' = delivered
    <3>1. pc' # pc
      BY <1>1, <1>11
    <3> QED  BY <1>1, <3>1, Zenon
  <2>2. ~file.sound
    BY <1>5, <1>6, <2>1, SoundFacts, Zenon
  <2>3. HeaderInv' /\ OutputInv'
    BY <1>1, <1>2, <2>1, FrameHeader, FrameOutput, Zenon
  <2>4. ThreadInv'
    BY <1>1, <1>2, <1>11, <2>1, FrameThread
  <2>5. EndInv'
    BY <1>1, <1>2, <2>1, <2>2, Zenon DEF EndInv
  <2> QED  BY <1>10, <2>3, <2>4, <2>5, Zenon DEF Inv
<1>12. CASE pc' # "failed"
  <2>1. /\ Taken(1) = <<"M">> /\ pc' = "loop"
        /\ \/ /\ file.progressive /\ state' = "ScanProgressive"
              /\ left' = left /\ room' = room /\ queue' = queue /\ delivered' = delivered
           \/ /\ ~file.progressive /\ state' = "ScanBaseline" /\ Emit(HeadOf(lh))
    BY <1>1, <1>12, Zenon
  <2>2. HeaderInv'
    BY <1>1, <1>5, <1>6, <2>1 DEF HeaderInv, HeaderStates, ScanStates
  <2>3. ThreadInv'
    <3>1. 0 <= Threads /\ Threads' = Threads /\ 1 .. 0 = {} /\ 0 \in 0 .. 0 /\ 0 \in Nat
      BY <1>1, <1>7 DEF Threads
    <3>2. state' \notin HeaderStates
      BY <2>1 DEF HeaderStates
    <3> QED  BY <1>1, <1>4, <3>1, <3>2, Zenon DEF ThreadInv
  <2>4. EndInv'
    <3>1. ~finished
      BY <1>2, <1>3, Zenon DEF EndInv
    <3> QED  BY <1>1, <1>9, <1>12, <3>1, Zenon DEF EndInv
  <2>5. CASE file.progressive
    <3>1. /\ state' = "ScanProgressive"
          /\ left' = left /\ room' = room /\ queue' = queue /\ delivered' = delivered
      BY <2>1, <2>5, Zenon
    <3>2. SoFar' = << >>
      BY <3>1 DEF SoFar
    <3>3. OutputInv'
      BY <1>1, <1>2, <1>8, <1>9, <3>1, <3>2, Zenon DEF OutputInv
    <3> QED  BY <1>10, <2>2, <2>3, <2>4, <3>3, Zenon DEF Inv
  <2>6. CASE ~file.progressive
    <3>1. state' = "ScanBaseline" /\ Emit(HeadOf(lh))
      BY <2>1, <2>6, Zenon
    <3>2. /\ delivered \in Seq(Nat) /\ queue \in Seq(Nat) /\ room \in Nat /\ left \in Nat
          /\ queue # << >> => room = 0
          /\ left = file.size - Len(delivered \o queue)
          /\ delivered \o queue = Take(SoFar, file.size)
      BY <1>2, <1>9, Zenon DEF OutputInv
    <3>3. /\ delivered' \in Seq(Nat) /\ queue' \in Seq(Nat) /\ room' \in Nat /\ left' \in Nat
          /\ queue' # << >> => room' = 0
          /\ delivered' \o queue' = (delivered \o queue) \o Take(HeadOf(lh), left)
          /\ left' = left - Len(Take(HeadOf(lh), left))
      BY <1>7, <3>1, <3>2, EmitFacts, Zenon
    <3>4. << >> \in Seq(Nat) /\ << >> \o HeadOf(lh) = HeadOf(lh) /\ HeadOf(lh) \o << >> = HeadOf(lh)
      BY <1>7, EmptySeq, ConcatEmptySeq
    <3>5. /\ delivered' \o queue' = Take(<< >> \o HeadOf(lh), file.size)
          /\ left' = file.size - Len(delivered' \o queue')
      <4>1. delivered \o queue = Take(<< >>, file.size)
        BY <1>8, <3>2, Zenon
      <4> QED  BY <1>7, <3>2, <3>3, <3>4, <4>1, EmitOutput, Zenon
    <3>6. SoFar' = HeadOf(lh)
      <4>1. SegmentsOf(file, lh, 1, 0) = << >>
        <5>1. 1 \in Nat /\ 0 \in Nat /\ 1 <= 1 /\ 1 <= 0 + 1 /\ 1 = 0 + 1 /\ 0 <= Len(lh.handoffs)
          BY <1>7 DEF Threads
        <5> QED  BY <1>6, <5>1, SegmentsStep, Zenon
      <4>2. SoFar' = HeadOf(lh) \o SegmentsOf(file, lh, 1, 0)
        BY <1>1, <1>4, <3>1, Zenon DEF SoFar, Segments
      <4> QED  BY <3>4, <4>1, <4>2, Zenon
    <3>7. OutputInv'
      BY <1>1, <3>3, <3>4, <3>5, <3>6, Zenon DEF OutputInv
    <3> QED  BY <1>10, <2>2, <2>3, <2>4, <3>7, Zenon DEF Inv
  <2> QED  BY <2>5, <2>6, Zenon
<1> QED  BY <1>11, <1>12, Zenon

\* MultiplexReaderState::process_buffer keeps at most the retained bytes, and all of them
\* once a byte was passed on.
LEMMA PassOnFacts ==
    ASSUME Inv, pc = "loop", state \in ScanStates, PassOn, file' = file, fed' = fed, state' = state
    PROVE  /\ extra_buffer' \in Seq(STRING) /\ slice' = << >> /\ slice' \in Seq(STRING)
           /\ ~continue_processing'
           /\ consumed' \in Nat /\ consumed <= consumed'
           /\ Place' <= fed' /\ Pending' = SubSeq(file.bytes, Place' + 1, fed')
           /\ consumed' > 0 => Len(Pending') >= Retention
           /\ Len(Pending') <= Retention
<1>1. PICK n : /\ n = IF Len(Pending) > Retention THEN Len(Pending) - Retention ELSE 0
               /\ consumed' = consumed + n /\ extra_buffer' = Drop(Pending, n) /\ slice' = << >>
               /\ continue_processing' = FALSE
  BY Zenon DEF PassOn
<1>2. pc # "failed" /\ state # "EOI"
  BY DEF ScanStates
<1>3. /\ Place \in Nat /\ fed \in Nat /\ fed \in Place .. Len(file.bytes)
      /\ Pending = SubSeq(file.bytes, Place + 1, fed)
      /\ Pending \in Seq(STRING) /\ Len(Pending) = fed - Place
  BY <1>2, PendingFacts, Zenon
<1>4. /\ consumed \in Nat /\ file \in Files /\ (consumed > 0 => Len(Pending) >= Retention)
  BY <1>2, Zenon DEF Inv, ThreadInv, HeaderInv, InputInv
<1>5. file.bytes \in Seq(STRING)
  BY <1>4, FileFacts, Zenon
<1>6. PICK p, l : p = Place /\ l = Len(Pending)
  OBVIOUS
<1>7. /\ p \in Nat /\ fed \in Nat /\ fed \in p .. Len(file.bytes) /\ l = fed - p
      /\ n = IF l > Retention THEN l - Retention ELSE 0
      /\ consumed > 0 => l >= Retention
  BY <1>1, <1>3, <1>4, <1>6, Zenon
<1>8. Retention \in Nat /\ FixedSize \in Nat
  BY SizesAssumption
<1>9. l \in Nat /\ n \in Nat /\ n \in 0 .. l /\ n <= l
  BY <1>7, <1>8
<1>10. /\ consumed + n \in Nat /\ consumed <= consumed + n /\ p + n <= fed /\ p + n \in Nat
  BY <1>4, <1>7, <1>9
<1>11. Place' = p + n
  <2>1. p = FixedSize + 2 + consumed
    BY <1>6 DEF Place, ScanStates
  <2>2. Place' = FixedSize + 2 + consumed'
    BY DEF Place, ScanStates
  <2>3. FixedSize + 2 + (consumed + n) = (FixedSize + 2 + consumed) + n
    BY <1>4, <1>8, <1>9
  <2> QED  BY <1>1, <2>1, <2>2, <2>3, Zenon
<1>12. extra_buffer' \in Seq(STRING) /\ << >> \in Seq(STRING)
  <2>1. Drop(Pending, n) \in Seq(STRING)
    BY <1>3, <1>9, DropFacts, Zenon
  <2> QED  BY <1>1, <2>1, EmptySeq
<1>13. Pending' = extra_buffer'
  <2>1. extra_buffer' \o << >> = extra_buffer'
    BY <1>12, ConcatEmptySeq, Zenon
  <2> QED  BY <1>1, <2>1, Zenon DEF Pending
<1>14. Pending' = SubSeq(file.bytes, (p + n) + 1, fed)
  <2>1. PICK b, q, t : b = file.bytes /\ q = Pending /\ t = Pending'
    OBVIOUS
  <2>2. /\ b \in Seq(STRING) /\ p \in Nat /\ fed \in p .. Len(b) /\ IsPart(q, b, p, fed)
        /\ n \in 0 .. Len(q) /\ Skips(t, q, n)
    BY <1>1, <1>3, <1>5, <1>6, <1>7, <1>9, <1>13, <2>1, Zenon DEF IsPart, Skips, Drop
  <2>3. IsPart(t, b, p + n, fed)
    BY <2>2, RestOfPart, Zenon
  <2> QED  BY <2>1, <2>3, Zenon DEF IsPart
<1>15. Len(Pending') = fed - (p + n)
  <2>1. PICK b, e : b = file.bytes /\ e = p + n
    OBVIOUS
  <2>2. b \in Seq(STRING) /\ e \in Nat /\ fed \in e .. Len(b)
    BY <1>5, <1>7, <1>9, <1>10, <2>1
  <2>3. Len(SubSeq(b, e + 1, fed)) = fed - e
    BY <2>2, PartEntries
  <2> QED  BY <1>14, <2>1, <2>3, Zenon
<1>16. /\ fed - (p + n) <= Retention
       /\ consumed + n > 0 => fed - (p + n) >= Retention
  BY <1>4, <1>7, <1>8, <1>9
<1> QED  BY <1>1, <1>10, <1>11, <1>12, <1>14, <1>15, <1>16, Zenon

\* The threads while input is passed on.
LEMMA PassOnThreads ==
    ASSUME HeaderInv, ThreadInv, pc = "loop", state \in ScanStates, file' = file, state' = state, lh' = lh,
           consumed' \in Nat, consumed <= consumed', ready' = ready, retrieved' \in 0 .. ready,
           \A k \in 1 .. retrieved' : k # file.bad /\ file.needs[k] <= consumed
    PROVE  ThreadInv'
<1>1. state \notin HeaderStates /\ pc \notin {"finish", "failed"} /\ state \notin {"FixedHeader", "CompressedHeader"}
  BY DEF ScanStates, HeaderStates
<1>2. /\ consumed \in Nat /\ ready \in Nat /\ ready <= Threads
      /\ \A k \in 1 .. ready : file.needs[k] <= consumed
  BY <1>1, Zenon DEF ThreadInv
<1>3. Threads \in Nat /\ \A k \in 1 .. Threads : file.needs[k] \in Nat
  BY <1>1, HeaderFacts, Zenon
<1>4. \A k \in 1 .. ready : k \in 1 .. Threads
  BY <1>2, <1>3
<1>5. ASSUME NEW k \in 1 .. ready PROVE file.needs[k] <= consumed'
  <2>1. file.needs[k] \in Nat /\ file.needs[k] <= consumed
    BY <1>2, <1>3, <1>4, Zenon
  <2> QED  BY <1>2, <2>1
<1>6. \A k \in 1 .. retrieved' : k \in 1 .. ready
  BY <1>2
<1>7. Threads' = Threads
  BY Zenon DEF Threads
<1> QED  BY <1>1, <1>2, <1>5, <1>6, <1>7, Zenon DEF ThreadInv

\* One iteration over a baseline scan: the results that have arrived are written.
LEMMA BaselineStep == ASSUME Inv, ScanBaseline PROVE Inv'
<1>1. /\ pc = "loop" /\ state = "ScanBaseline" /\ PassOn
      /\ file' = file /\ fed' = fed /\ complete' = complete /\ state' = state /\ lh' = lh
      /\ total_read_size' = total_read_size /\ input_complete' = input_complete
      /\ ready' = ready /\ finished' = finished
  BY Zenon DEF ScanBaseline, InLoop, caller
<1>2. \/ /\ FailedAmong(retrieved + 1, ready) /\ pc' = "failed" /\ retrieved' = retrieved
         /\ left' = left /\ room' = room /\ queue' = queue /\ delivered' = delivered
      \/ /\ ~FailedAmong(retrieved + 1, ready) /\ Emit(Arrived) /\ retrieved' = ready
         /\ pc' = IF complete THEN "finish" ELSE "loop"
  BY Zenon DEF ScanBaseline, Fail
<1>3. HeaderInv /\ OutputInv /\ InputInv /\ ThreadInv /\ EndInv
  BY Zenon DEF Inv
<1>4. /\ state \in ScanStates /\ state \notin HeaderStates /\ state \notin {"FixedHeader", "CompressedHeader"}
      /\ state # "EOI" /\ pc \notin {"finish", "failed"}
  BY <1>1 DEF ScanStates, HeaderStates
<1>5. /\ extra_buffer' \in Seq(STRING) /\ slice' = << >> /\ slice' \in Seq(STRING)
      /\ consumed' \in Nat /\ consumed <= consumed'
      /\ Place' <= fed' /\ Pending' = SubSeq(file.bytes, Place' + 1, fed')
      /\ consumed' > 0 => Len(Pending') >= Retention
      /\ Len(Pending') <= Retention
  BY <1>1, <1>3, <1>4, PassOnFacts, Zenon DEF Inv
<1>6. HeaderInv'
  BY <1>1, <1>3, FrameHeader, Zenon
<1>7. InputInv'
  <2>1. pc' = "finish" => complete'
    <3>1. "failed" # "finish" /\ "loop" # "finish"
      OBVIOUS
    <3> QED  BY <1>1, <1>2, <3>1, Zenon
  <2> QED  BY <1>1, <1>3, <1>4, <1>5, <2>1, Zenon DEF InputInv
<1>8. /\ file \in Files /\ lh = HeaderOf(file) /\ lh.ok
      /\ ready \in Nat /\ retrieved \in 0 .. ready /\ ready <= Threads /\ consumed \in Nat
      /\ \A k \in 1 .. ready : file.needs[k] <= consumed
      /\ \A k \in 1 .. retrieved : k # file.bad /\ file.needs[k] <= consumed
  BY <1>3, <1>4, Zenon DEF HeaderInv, ThreadInv
<1>9. /\ Threads \in Nat /\ HeadOf(lh) \in Seq(Nat) /\ \A k \in 1 .. Threads : file.needs[k] \in Nat
  BY <1>3, <1>4, HeaderFacts, Zenon
<1>10. CASE pc' = "failed"
  <2>1. pc' # "finish" /\ pc' # "loop"
    BY <1>10
  <2>2. /\ FailedAmong(retrieved + 1, ready) /\ retrieved' = retrieved
        /\ left' = left /\ room' = room /\ queue' = queue /\ delivered' = delivered
    BY <1>2, <2>1, Zenon
  <2>3. OutputInv'
    BY <1>1, <1>3, <2>2, FrameOutput, Zenon
  <2>4. ThreadInv'
    BY <1>1, <1>3, <1>4, <1>5, <1>8, <2>2, PassOnThreads, Zenon
  <2>5. ~file.sound
    <3> SUFFICES ASSUME file.sound PROVE FALSE
      BY Zenon
    <3>1. PICK k \in (retrieved + 1) .. ready : k = file.bad \/ consumed < file.needs[k]
      BY <2>2, Zenon DEF FailedAmong, Fails
    <3>2. k \in 1 .. ready /\ k \in 1 .. Threads
      BY <1>8, <1>9
    <3>3. k # file.bad
      BY <1>8, <3>2, SoundFacts, Zenon DEF Threads
    <3>4. file.needs[k] \in Nat /\ file.needs[k] <= consumed
      BY <1>8, <1>9, <3>2, Zenon
    <3> QED  BY <1>8, <3>1, <3>3, <3>4
  <2>6. EndInv'
    BY <1>1, <1>3, <2>2, <2>5, Zenon DEF EndInv
  <2> QED  BY <1>6, <1>7, <2>3, <2>4, <2>6, Zenon DEF Inv
<1>11. CASE pc' # "failed"
  <2>1. ~FailedAmong(retrieved + 1, ready) /\ Emit(Arrived) /\ retrieved' = ready
    BY <1>2, <1>11, Zenon
  <2>2. \A k \in 1 .. ready : k # file.bad /\ file.needs[k] <= consumed
    <3>1. \A k \in 1 .. ready : k \in 1 .. retrieved \/ k \in (retrieved + 1) .. ready
      BY <1>8
    <3>2. \A k \in (retrieved + 1) .. ready : k # file.bad
      BY <2>1, Zenon DEF FailedAmong, Fails
    <3> QED  BY <1>8, <3>1, <3>2, Zenon
  <2>3. ThreadInv'
    <3>1. ready \in 0 .. ready
      BY <1>8
    <3> QED  BY <1>1, <1>3, <1>4, <1>5, <2>1, <2>2, <3>1, PassOnThreads, Zenon
  <2>4. EndInv'
    <3>1. ~finished
      BY <1>3, <1>4, Zenon DEF EndInv
    <3> QED  BY <1>1, <1>4, <1>11, <3>1, Zenon DEF EndInv
  <2>5. /\ retrieved \in Nat /\ retrieved <= ready /\ ready <= Len(lh.handoffs)
    BY <1>8 DEF Threads
  <2>6. PICK x, y, z : /\ x = SegmentsOf(file, lh, 1, retrieved) /\ y = SegmentsOf(file, lh, retrieved + 1, ready)
                       /\ z = SegmentsOf(file, lh, 1, ready)
    BY Zenon
  <2>7. x \in Seq(Nat) /\ y \in Seq(Nat) /\ Joins(x, y, z)
    BY <1>8, <2>5, <2>6, SegmentsJoin, Zenon
  <2>8. Arrived = y /\ SoFar = HeadOf(lh) \o x /\ SoFar' = HeadOf(lh) \o z
    BY <1>1, <2>1, <2>6, Zenon DEF Arrived, SoFar, Segments
  <2>9. SoFar \in Seq(Nat) /\ file.size \in Nat
    BY <1>3, <1>8, SoFarType, FileFacts, Zenon
  <2>10. SoFar \o y = SoFar'
    <3>1. Associates(HeadOf(lh), x, y)
      BY <1>9, <2>7, Associate, Zenon
    <3> QED  BY <2>7, <2>8, <3>1, Zenon DEF Associates, Joins
  <2>11. /\ delivered \in Seq(Nat) /\ queue \in Seq(Nat) /\ room \in Nat /\ left \in Nat
         /\ queue # << >> => room = 0
         /\ left = file.size - Len(delivered \o queue)
         /\ delivered \o queue = Take(SoFar, file.size)
    BY <1>3, <1>4, Zenon DEF OutputInv
  <2>12. /\ delivered' \in Seq(Nat) /\ queue' \in Seq(Nat) /\ room' \in Nat /\ left' \in Nat
         /\ queue' # << >> => room' = 0
         /\ delivered' \o queue' = (delivered \o queue) \o Take(y, left)
         /\ left' = left - Len(Take(y, left))
    BY <2>1, <2>7, <2>8, <2>11, EmitFacts, Zenon
  <2>13. /\ delivered' \o queue' = Take(SoFar \o y, file.size)
         /\ left' = file.size - Len(delivered' \o queue')
    BY <2>7, <2>9, <2>11, <2>12, EmitOutput, Zenon
  <2>14. OutputInv'
    BY <1>1, <2>10, <2>12, <2>13, Zenon DEF OutputInv
  <2> QED  BY <1>6, <1>7, <2>3, <2>4, <2>14, Zenon DEF Inv
<1> QED  BY <1>10, <1>11, Zenon

\* One iteration over a progressive scan: nothing is written.
LEMMA ProgressiveStep == ASSUME Inv, ScanProgressive PROVE Inv'
<1>1. /\ pc = "loop" /\ state = "ScanProgressive" /\ PassOn /\ pc' = (IF complete THEN "finish" ELSE "loop")
      /\ file' = file /\ fed' = fed /\ complete' = complete /\ room' = room /\ state' = state /\ lh' = lh
      /\ total_read_size' = total_read_size /\ left' = left /\ input_complete' = input_complete
      /\ ready' = ready /\ retrieved' = retrieved
      /\ queue' = queue /\ delivered' = delivered /\ finished' = finished
  BY Zenon DEF ScanProgressive, InLoop, caller, reader, output
<1>2. HeaderInv /\ OutputInv /\ InputInv /\ ThreadInv /\ EndInv
  BY Zenon DEF Inv
<1>3. state \in ScanStates /\ state # "EOI" /\ pc' # "failed" /\ (pc' = "finish" => complete')
  BY <1>1 DEF ScanStates
<1>4. /\ extra_buffer' \in Seq(STRING) /\ slice' = << >> /\ slice' \in Seq(STRING)
      /\ consumed' \in Nat /\ consumed <= consumed'
      /\ Place' <= fed' /\ Pending' = SubSeq(file.bytes, Place' + 1, fed')
      /\ consumed' > 0 => Len(Pending') >= Retention
      /\ Len(Pending') <= Retention
  BY <1>1, <1>2, <1>3, PassOnFacts, Zenon DEF Inv
<1>5. HeaderInv' /\ OutputInv'
  BY <1>1, <1>2, FrameHeader, FrameOutput, Zenon
<1>6. InputInv'
  BY <1>1, <1>2, <1>3, <1>4, Zenon DEF InputInv
<1>7. ThreadInv'
  <2>1. retrieved \in 0 .. ready /\ \A k \in 1 .. retrieved : k # file.bad /\ file.needs[k] <= consumed
    BY <1>2, <1>3, Zenon DEF ThreadInv
  <2> QED  BY <1>1, <1>2, <1>3, <1>4, <2>1, PassOnThreads, Zenon
<1>8. EndInv'
  BY <1>1, <1>2, <1>3, Zenon DEF EndInv
<1> QED  BY <1>5, <1>6, <1>7, <1>8, Zenon DEF Inv

\* At the end of the input exactly the retained bytes are pending, if they are there.
LEMMA AtEnd ==
    ASSUME Inv, pc = "finish", Len(Pending) >= Retention
    PROVE  /\ Place = FixedSize + 2 + consumed /\ fed - Place = Retention
           /\ consumed = fed - (FixedSize + 2 + Retention) /\ consumed \in Nat
           /\ \A i \in 1 .. Retention : Place + i = fed - Retention + i
<1>1. pc # "failed" /\ state \in ScanStates /\ Len(Pending) <= Retention /\ consumed \in Nat
  BY DEF Inv, InputInv, ThreadInv
<1>2. state # "EOI" /\ Place = FixedSize + 2 + consumed
  BY <1>1 DEF Place, ScanStates
<1>3. Place \in Nat /\ fed \in Nat /\ Len(Pending) = fed - Place
  BY <1>1, <1>2, PendingFacts, Zenon
<1>4. PICK p, l : p = Place /\ l = Len(Pending)
  OBVIOUS
<1>5. /\ p = FixedSize + 2 + consumed /\ p \in Nat /\ l = fed - p /\ l >= Retention /\ l <= Retention
  BY <1>1, <1>2, <1>3, <1>4, Zenon
<1>6. /\ fed - p = Retention /\ consumed = fed - (FixedSize + 2 + Retention)
      /\ \A i \in 1 .. Retention : p + i = fed - Retention + i
  BY <1>1, <1>3, <1>5, SizesAssumption
<1> QED  BY <1>1, <1>2, <1>4, <1>6, Zenon

\* What is available is pending.
LEMMA AvailableIsPending ==
    ASSUME Inv PROVE Available(Retention, 0) <=> Len(Pending) >= Retention
<1>1. extra_buffer \in Seq(STRING) /\ slice \in Seq(STRING)
  BY Zenon DEF Inv, InputInv
<1>2. /\ Len(extra_buffer) \in Nat /\ Len(slice) \in Nat
      /\ Len(extra_buffer \o slice) = Len(extra_buffer) + Len(slice)
  BY <1>1, LenProperties, ConcatProperties
<1>3. Len(Pending) = Len(extra_buffer) + Len(slice)
  BY <1>2, Zenon DEF Pending
<1>4. Len(Pending) \in Nat /\ Retention \in Nat /\ Retention + 0 = Retention
  BY <1>2, <1>3, SizesAssumption
<1> QED  BY <1>3, <1>4, Zenon DEF Available

\* The whole of a sound file passes the checks at the end of the input.
LEMMA SoundAtEnd ==
    ASSUME Inv, pc = "finish", file.sound, fed = Len(file.bytes)
    PROVE  EofVerified /\ ~CannotFinish
<1>1. /\ file \in Files /\ state \in ScanStates /\ total_read_size = fed /\ pc # "failed"
      /\ consumed \in Nat
  BY DEF Inv, HeaderInv, InputInv, ThreadInv
<1>2. state # "EOI" /\ state \notin HeaderStates /\ state \notin {"FixedHeader", "CompressedHeader"}
  BY <1>1 DEF ScanStates, HeaderStates
<1>3. lh = HeaderOf(file) /\ ready \in Nat /\ retrieved \in 0 .. ready /\ ready <= Threads
  BY <1>2, Zenon DEF Inv, HeaderInv, ThreadInv
<1>4. /\ file.declared = Len(file.bytes)
      /\ Len(file.bytes) - (FixedSize + 2 + Retention) >= 0
      /\ \A i \in 1 .. Retention : file.bytes[Len(file.bytes) - Retention + i] = "E"
      /\ \A k \in 1 .. Threads :
             k # file.bad /\ file.needs[k] <= Len(file.bytes) - (FixedSize + 2 + Retention)
      /\ file.progressive => Merged.ok
  BY <1>1, <1>3, SoundFacts, Zenon DEF Threads, Merged
<1>5. Len(Pending) >= Retention
  <2>1. Place \in Nat /\ fed \in Nat /\ Len(Pending) = fed - Place
    BY <1>1, <1>2, PendingFacts, Zenon
  <2>2. CASE consumed > 0
    BY <1>1, <1>2, <2>2, Zenon DEF Inv, InputInv
  <2>3. CASE ~(consumed > 0)
    <3>1. Place = FixedSize + 2 + consumed
      BY <1>1 DEF Place, ScanStates
    <3>2. PICK p, l : p = Place /\ l = Len(Pending)
      OBVIOUS
    <3>3. p = FixedSize + 2 + consumed /\ l = fed - p /\ fed - (FixedSize + 2 + Retention) >= 0
      BY <1>4, <2>1, <3>1, <3>2, Zenon
    <3>4. l >= Retention
      BY <1>1, <2>1, <2>3, <3>3, SizesAssumption
    <3> QED  BY <3>2, <3>4, Zenon
  <2> QED  BY <2>2, <2>3, Zenon
<1>6. /\ consumed = fed - (FixedSize + 2 + Retention)
      /\ \A i \in 1 .. Retention : Place + i = fed - Retention + i
  BY <1>5, AtEnd, Zenon
<1>7. Available(Retention, 0) /\ Retention \in Nat
  BY <1>5, AvailableIsPending, SizesAssumption, Zenon
<1>8. \A i \in 1 .. Retention : Taken(Retention)[i] = file.bytes[Place + i]
  BY <1>1, <1>2, <1>7, TakenFacts, Zenon
<1>9. EofVerified
  BY <1>1, <1>4, <1>6, <1>7, <1>8, Zenon DEF EofVerified
<1>10. ~FailedAmong(retrieved + 1, ready)
  <2> SUFFICES ASSUME NEW k \in (retrieved + 1) .. ready, k = file.bad \/ consumed < file.needs[k]
               PROVE  FALSE
    BY Zenon DEF FailedAmong, Fails
  <2>1. Threads \in Nat /\ \A j \in 1 .. Threads : file.needs[j] \in Nat
    BY <1>2, HeaderFacts, Zenon DEF Inv
  <2>2. k \in 1 .. Threads
    BY <1>3, <2>1
  <2>3. k # file.bad /\ file.needs[k] <= consumed /\ file.needs[k] \in Nat
    BY <1>4, <1>6, <2>1, <2>2, Zenon
  <2> QED  BY <1>1, <2>3
<1> QED  BY <1>4, <1>9, <1>10, Zenon DEF CannotFinish

\* An error at the end of the input.
LEMMA EndFails ==
    ASSUME Inv, pc = "finish", ~(EofVerified /\ ~CannotFinish), pc' = "failed",
           extra_buffer' = extra_buffer, slice' = slice, continue_processing' = continue_processing,
           file' = file, fed' = fed, complete' = complete, room' = room, state' = state, lh' = lh,
           total_read_size' = total_read_size, left' = left, input_complete' = input_complete,
           consumed' = consumed, ready' = ready, retrieved' = retrieved,
           queue' = queue, delivered' = delivered, finished' = finished
    PROVE  Inv'
<1>1. HeaderInv /\ OutputInv /\ InputInv /\ ThreadInv /\ EndInv
  BY Zenon DEF Inv
<1>2. HeaderInv' /\ OutputInv' /\ InputInv'
  BY <1>1, FrameHeader, FrameOutput, FrameInput, Zenon
<1>3. ThreadInv'
  BY <1>1, FrameThread
<1>4. ASSUME file.sound PROVE complete /\ fed < Len(file.bytes)
  <2>1. complete /\ fed \in 0 .. Len(file.bytes) /\ file \in Files
    BY <1>1, Zenon DEF InputInv, HeaderInv
  <2>2. fed # Len(file.bytes)
    BY <1>4, SoundAtEnd, Zenon
  <2>3. Len(file.bytes) \in Nat
    BY <2>1, FileFacts, Zenon
  <2> QED  BY <2>1, <2>2, <2>3
<1>5. EndInv'
  BY <1>1, <1>4, Zenon DEF EndInv
<1> QED  BY <1>2, <1>3, <1>5, Zenon DEF Inv

\* The appended size does not fit.
LEMMA MismatchStep == ASSUME Inv, EofMismatch PROVE Inv'
<1>1. /\ pc = "finish" /\ ~EofVerified /\ pc' = "failed"
      /\ extra_buffer' = extra_buffer /\ slice' = slice /\ continue_processing' = continue_processing
      /\ file' = file /\ fed' = fed /\ complete' = complete /\ room' = room /\ state' = state /\ lh' = lh
      /\ total_read_size' = total_read_size /\ left' = left /\ input_complete' = input_complete
      /\ consumed' = consumed /\ ready' = ready /\ retrieved' = retrieved
      /\ queue' = queue /\ delivered' = delivered /\ finished' = finished
  BY Zenon DEF EofMismatch, Fail, partial, caller, reader, threads, output
<1> QED  BY <1>1, EndFails, Zenon

\* A thread or a later header fails.
LEMMA FinishFailsStep == ASSUME Inv, FinishFails PROVE Inv'
<1>1. /\ pc = "finish" /\ CannotFinish /\ pc' = "failed"
      /\ extra_buffer' = extra_buffer /\ slice' = slice /\ continue_processing' = continue_processing
      /\ file' = file /\ fed' = fed /\ complete' = complete /\ room' = room /\ state' = state /\ lh' = lh
      /\ total_read_size' = total_read_size /\ left' = left /\ input_complete' = input_complete
      /\ consumed' = consumed /\ ready' = ready /\ retrieved' = retrieved
      /\ queue' = queue /\ delivered' = delivered /\ finished' = finished
  BY Zenon DEF FinishFails, Fail, partial, caller, reader, threads, output
<1> QED  BY <1>1, EndFails, Zenon

\* A file that passes the checks at the end of the input is sound.
LEMMA VerifiedIsSound ==
    ASSUME Inv, pc = "finish", EofVerified, ready = Threads, ~CannotFinish
    PROVE  file.sound
<1>1. /\ file \in Files /\ state \in ScanStates /\ total_read_size = fed /\ pc # "failed"
      /\ fed \in 0 .. Len(file.bytes) /\ consumed \in Nat
  BY DEF Inv, HeaderInv, InputInv, ThreadInv
<1>2. state # "EOI" /\ state \notin HeaderStates /\ state \notin {"FixedHeader", "CompressedHeader"}
      /\ state # "FixedHeader"
  BY <1>1 DEF ScanStates, HeaderStates
<1>3. /\ lh = HeaderOf(file) /\ lh.ok /\ file.bytes[1] = "H" /\ file.bytes[FixedSize + 1] = "C"
      /\ file.bytes[FixedSize + 2] = "M"
      /\ ready \in Nat /\ retrieved \in 0 .. ready
      /\ \A k \in 1 .. retrieved : k # file.bad /\ file.needs[k] <= consumed
  BY <1>1, <1>2, Zenon DEF Inv, HeaderInv, ThreadInv
<1>4. /\ Available(Retention, 0) /\ file.declared = fed
      /\ \A i \in 1 .. Retention : Taken(Retention)[i] = "E"
  BY <1>1, Zenon DEF EofVerified
<1>5. Len(Pending) >= Retention /\ Retention \in Nat
  BY <1>4, AvailableIsPending, SizesAssumption, Zenon
<1>6. /\ consumed = fed - (FixedSize + 2 + Retention)
      /\ \A i \in 1 .. Retention : Place + i = fed - Retention + i
  BY <1>5, AtEnd, Zenon
<1>7. \A i \in 1 .. Retention : Taken(Retention)[i] = file.bytes[Place + i]
  BY <1>1, <1>2, <1>4, <1>5, TakenFacts, Zenon
<1>8. \A i \in 1 .. Retention : file.bytes[fed - Retention + i] = "E"
  BY <1>4, <1>6, <1>7, Zenon
<1>9. \A k \in 1 .. Threads : k # file.bad /\ file.needs[k] <= consumed
  <2> SUFFICES ASSUME NEW k \in 1 .. Threads PROVE k # file.bad /\ file.needs[k] <= consumed
    BY Zenon
  <2>1. k \in 1 .. retrieved \/ k \in (retrieved + 1) .. ready
    BY <1>3
  <2>2. CASE k \in 1 .. retrieved
    BY <1>3, <2>2, Zenon
  <2>3. CASE k \in (retrieved + 1) .. ready
    <3>1. k # file.bad /\ ~(consumed < file.needs[k])
      BY <2>3, Zenon DEF CannotFinish, FailedAmong, Fails
    <3>2. file.needs[k] \in Nat
      BY <1>2, HeaderFacts, Zenon DEF Inv
    <3>3. file.needs[k] <= consumed
      BY <1>1, <3>1, <3>2
    <3> QED  BY <3>1, <3>3, Zenon
  <2> QED  BY <2>1, <2>2, <2>3, Zenon
<1>10. fed - (FixedSize + 2 + Retention) >= 0
  BY <1>1, <1>6
<1>11. file.progressive => MergedOf(file, lh).ok
  BY Zenon DEF CannotFinish, Merged
<1>12. WellFormed(file, fed)
  BY <1>3, <1>4, <1>6, <1>8, <1>9, <1>10, <1>11, Zenon DEF WellFormed, Threads
<1> QED  BY <1>1, <1>12, FilesAssumption, Zenon

\* The end of the scan: what remains is written.
LEMMA FinishStep == ASSUME Inv, FinishScan PROVE Inv'
<1>1. /\ pc = "finish" /\ EofVerified /\ ready = Threads /\ ~CannotFinish /\ TakeSome(Retention, 0)
      /\ Emit(Remaining) /\ retrieved' = ready /\ state' = "EOI" /\ pc' = "loop"
      /\ file' = file /\ fed' = fed /\ complete' = complete /\ lh' = lh
      /\ total_read_size' = total_read_size /\ input_complete' = input_complete
      /\ consumed' = consumed /\ ready' = ready /\ finished' = finished
  BY Zenon DEF FinishScan, caller
<1>2. HeaderInv /\ OutputInv /\ InputInv /\ ThreadInv /\ EndInv
  BY Zenon DEF Inv
<1>3. state \in ScanStates /\ pc # "failed"
  BY <1>1, <1>2 DEF InputInv
<1>4. state # "EOI" /\ state \notin HeaderStates /\ state \notin {"FixedHeader", "CompressedHeader"}
      /\ state # "FixedHeader"
  BY <1>3 DEF ScanStates, HeaderStates
<1>5. /\ file \in Files /\ lh = HeaderOf(file) /\ lh.ok /\ file.bytes[1] = "H" /\ file.bytes[FixedSize + 1] = "C"
      /\ consumed \in Nat /\ ready \in Nat /\ retrieved \in 0 .. ready
  BY <1>2, <1>4, Zenon DEF HeaderInv, ThreadInv
<1>6. HeaderInv'
  <2>1. file.progressive => Merged'.ok
    BY <1>1, Zenon DEF CannotFinish, Merged
  <2>2. /\ state' \in HeaderStates \cup ScanStates \cup {"EOI"} /\ state' \notin ScanStates
        /\ state' # "ScanBaseline" /\ state' # "ScanProgressive"
    BY <1>1 DEF HeaderStates, ScanStates
  <2> QED  BY <1>1, <1>5, <2>1, <2>2, Zenon DEF HeaderInv
<1>7. InputInv'
  <2>1. Available(Retention, 0) /\ Retention \in Nat
    BY <1>1, SizesAssumption, Zenon DEF TakeSome
  <2>2. extra_buffer' \in Seq(STRING) /\ slice' \in Seq(STRING)
    BY <1>1, <1>2, <1>3, <1>4, <2>1, TakenFacts, Zenon DEF Inv
  <2>3. pc' # "finish"
    BY <1>1
  <2> QED  BY <1>1, <1>2, <2>2, <2>3, Zenon DEF InputInv
<1>8. ThreadInv'
  <2>1. state' \notin HeaderStates /\ state' \notin ScanStates /\ ready \in 0 .. ready /\ ready <= Threads
    BY <1>1, <1>5 DEF HeaderStates, ScanStates
  <2>2. Threads' = Threads
    BY <1>1, Zenon DEF Threads
  <2> QED  BY <1>1, <1>5, <2>1, <2>2, Zenon DEF ThreadInv
<1>9. EndInv'
  <2>1. file.sound
    BY <1>1, <1>2, VerifiedIsSound, Zenon DEF Inv
  <2>2. ~finished
    BY <1>2, <1>4, Zenon DEF EndInv
  <2>3. pc' # "failed"
    BY <1>1
  <2> QED  BY <1>1, <2>1, <2>2, <2>3, Zenon DEF EndInv
<1>10. Remaining \in Seq(Nat) /\ SoFar \o Remaining = Written(file, lh)
  <2>1. /\ Threads \in Nat /\ HeadOf(lh) \in Seq(Nat) /\ EndOf(file, lh) \in Seq(Nat)
        /\ file.progressive => Merged.out \in Seq(Nat)
    BY <1>2, <1>4, HeaderFacts, Zenon
  <2>2. CASE file.progressive
    <3>1. state \in HeaderStates \cup {"ScanProgressive"}
      BY <1>2, <1>3, <2>2 DEF HeaderInv, ScanStates
    <3>2. SoFar = << >>
      BY <1>2, <3>1, NothingWritten, Zenon DEF Inv
    <3>3. Remaining = Merged.out /\ Written(file, lh) = Merged.out
      BY <2>2, Zenon DEF Remaining, Written, Merged
    <3>4. << >> \o Merged.out = Merged.out
      BY <2>1, <2>2, ConcatEmptySeq, Zenon
    <3> QED  BY <2>1, <2>2, <3>2, <3>3, <3>4, Zenon
  <2>3. CASE ~file.progressive
    <3>1. state = "ScanBaseline"
      BY <1>2, <1>3, <2>3 DEF HeaderInv, ScanStates
    <3>2. retrieved \in Nat /\ retrieved <= Threads /\ Threads <= Len(lh.handoffs)
      BY <1>1, <1>5, <2>1 DEF Threads
    <3>3. PICK h, x, y, z, e :
              /\ h = HeadOf(lh) /\ e = EndOf(file, lh)
              /\ x = SegmentsOf(file, lh, 1, retrieved) /\ y = SegmentsOf(file, lh, retrieved + 1, Threads)
              /\ z = SegmentsOf(file, lh, 1, Threads)
      BY Zenon
    <3>4. x \in Seq(Nat) /\ y \in Seq(Nat) /\ Joins(x, y, z)
      BY <1>5, <2>1, <3>2, <3>3, SegmentsJoin, Zenon
    <3>5. SoFar = h \o x /\ Remaining = y \o e /\ Written(file, lh) = h \o (z \o e)
      BY <2>3, <3>1, <3>3, Zenon DEF SoFar, Remaining, Written, Segments, Threads
    <3>6. h \in Seq(Nat) /\ e \in Seq(Nat)
      BY <2>1, <3>3, Zenon
    <3>7. Regrouped(h, x, y, e)
      BY <3>4, <3>6, Regroup, Zenon
    <3>8. z \in Seq(Nat)
      BY <3>4, ConcatProperties, Zenon DEF Joins
    <3>9. Associates(h, z, e)
      BY <3>6, <3>8, Associate, Zenon
    <3>10. (h \o x) \o (y \o e) = h \o (z \o e)
      BY <3>4, <3>7, <3>9, Zenon DEF Joins, Regrouped, Associates
    <3>11. y \o e \in Seq(Nat)
      BY <3>4, <3>6, ConcatProperties, Zenon
    <3> QED  BY <3>5, <3>10, <3>11, Zenon
  <2> QED  BY <2>2, <2>3, Zenon
<1>11. OutputInv'
  <2>1. SoFar \in Seq(Nat) /\ file.size \in Nat
    BY <1>2, <1>5, SoFarType, FileFacts, Zenon
  <2>2. /\ delivered \in Seq(Nat) /\ queue \in Seq(Nat) /\ room \in Nat /\ left \in Nat
        /\ queue # << >> => room = 0
        /\ left = file.size - Len(delivered \o queue)
        /\ delivered \o queue = Take(SoFar, file.size)
    BY <1>2, <1>4, Zenon DEF OutputInv
  <2>3. /\ delivered' \in Seq(Nat) /\ queue' \in Seq(Nat) /\ room' \in Nat /\ left' \in Nat
        /\ queue' # << >> => room' = 0
        /\ delivered' \o queue' = (delivered \o queue) \o Take(Remaining, left)
        /\ left' = left - Len(Take(Remaining, left))
    BY <1>1, <1>10, <2>2, EmitFacts, Zenon
  <2>4. /\ delivered' \o queue' = Take(SoFar \o Remaining, file.size)
        /\ left' = file.size - Len(delivered' \o queue')
    BY <1>10, <2>1, <2>2, <2>3, EmitOutput, Zenon
  <2>5. SoFar' = Written(file, lh)
    <3>1. state' # "ScanBaseline"
      BY <1>1
    <3> QED  BY <1>1, <3>1, Zenon DEF SoFar
  <2> QED  BY <1>1, <1>10, <2>3, <2>4, <2>5, Zenon DEF OutputInv
<1> QED  BY <1>6, <1>7, <1>8, <1>9, <1>11, Zenon DEF Inv

\* The end of a call.
LEMMA ReturnStep == ASSUME Inv, Return PROVE Inv'
<1>1. /\ pc = "loop" /\ (~continue_processing \/ state = "EOI")
      /\ input_complete' = (input_complete \/ complete)
      /\ \/ complete /\ state # "EOI" /\ pc' = "failed" /\ finished' = finished
         \/ /\ ~(complete /\ state # "EOI") /\ pc' = "idle"
            /\ finished' = (finished \/ (complete /\ queue = << >>))
      /\ extra_buffer' = extra_buffer /\ slice' = slice
      /\ file' = file /\ fed' = fed /\ complete' = complete /\ room' = room /\ state' = state /\ lh' = lh
      /\ total_read_size' = total_read_size /\ left' = left
      /\ consumed' = consumed /\ ready' = ready /\ retrieved' = retrieved
      /\ queue' = queue /\ delivered' = delivered
  BY Zenon DEF Return, Fail, partial, caller, threads
<1>2. HeaderInv /\ OutputInv /\ InputInv /\ ThreadInv /\ EndInv
  BY Zenon DEF Inv
<1>3. pc # "failed" /\ pc \notin {"finish", "failed"} /\ pc' # "finish" /\ pc' # "loop" /\ "idle" # "failed"
  BY <1>1
<1>4. HeaderInv' /\ OutputInv' /\ ThreadInv'
  BY <1>1, <1>2, <1>3, FrameHeader, FrameOutput, FrameThread, Zenon
<1>5. InputInv'
  <2>1. Place' = Place /\ Pending' = Pending
    BY <1>1, Zenon DEF Place, Pending
  <2> QED  BY <1>1, <1>2, <1>3, <2>1, Zenon DEF InputInv
<1>6. EndInv'
  <2>1. finished' => state' = "EOI" /\ queue' = << >>
    BY <1>1, <1>2, Zenon DEF EndInv
  <2>2. pc' = "failed" => input_complete'
    BY <1>1, <1>3, Zenon
  <2> QED  BY <1>1, <1>2, <2>1, <2>2, Zenon DEF EndInv
<1> QED  BY <1>4, <1>5, <1>6, Zenon DEF Inv

\* The next result arrives.
LEMMA ProduceStep == ASSUME Inv, Produce PROVE Inv'
<1>1. /\ state \in ScanStates /\ ready < Threads /\ ready' = ready + 1
      /\ (consumed >= file.needs[ready + 1] \/ pc = "finish")
      /\ extra_buffer' = extra_buffer /\ slice' = slice /\ continue_processing' = continue_processing
      /\ file' = file /\ fed' = fed /\ pc' = pc /\ complete' = complete /\ room' = room
      /\ state' = state /\ lh' = lh
      /\ total_read_size' = total_read_size /\ left' = left /\ input_complete' = input_complete
      /\ consumed' = consumed /\ retrieved' = retrieved
      /\ queue' = queue /\ delivered' = delivered /\ finished' = finished
  BY Zenon DEF Produce, ScanStates, partial, caller, call, reader, output
<1>2. HeaderInv /\ OutputInv /\ InputInv /\ ThreadInv /\ EndInv
  BY Zenon DEF Inv
<1>3. HeaderInv' /\ OutputInv' /\ InputInv'
  BY <1>1, <1>2, FrameHeader, FrameOutput, FrameInput, Zenon
<1>4. EndInv'
  BY <1>1, <1>2, Zenon DEF EndInv
<1>5. ThreadInv'
  <2>1. state \notin HeaderStates /\ state \notin {"FixedHeader", "CompressedHeader"}
    BY <1>1 DEF ScanStates, HeaderStates
  <2>2. /\ consumed \in Nat /\ ready \in Nat /\ retrieved \in 0 .. ready
        /\ \A k \in 1 .. retrieved : k # file.bad /\ file.needs[k] <= consumed
    BY <1>1, <1>2, Zenon DEF ThreadInv
  <2>3. Threads \in Nat /\ \A k \in 1 .. Threads : file.needs[k] \in Nat
    BY <1>2, <2>1, HeaderFacts, Zenon
  <2>4. /\ ready + 1 \in Nat /\ retrieved \in 0 .. ready + 1 /\ ready + 1 <= Threads
        /\ ready + 1 \in 1 .. Threads
        /\ \A k \in 1 .. ready + 1 : k \in 1 .. ready \/ k = ready + 1
    BY <1>1, <2>2, <2>3
  <2>5. ASSUME pc \notin {"finish", "failed"}, NEW k \in 1 .. ready + 1 PROVE file.needs[k] <= consumed
    <3>1. pc # "finish" /\ \A j \in 1 .. ready : file.needs[j] <= consumed
      BY <1>1, <1>2, <2>5, Zenon DEF ThreadInv
    <3>2. consumed >= file.needs[ready + 1] /\ file.needs[ready + 1] \in Nat
      BY <1>1, <2>3, <2>4, <3>1, Zenon
    <3>3. file.needs[ready + 1] <= consumed
      BY <2>2, <3>2
    <3> QED  BY <2>4, <3>1, <3>3, Zenon
  <2>6. Threads' = Threads
    BY <1>1, Zenon DEF Threads
  <2> QED  BY <1>1, <2>1, <2>2, <2>4, <2>5, <2>6, Zenon DEF ThreadInv
<1> QED  BY <1>3, <1>4, <1>5, Zenon DEF Inv

\* Every step preserves the invariant.
LEMMA NextInv == ASSUME Inv, [Next]_vars PROVE Inv'
<1>1. CASE AnyCall
  <2>1. PICK n \in 0 .. MaxSlice, last \in BOOLEAN, size \in Rooms : Call(n, last, size)
    BY <1>1, Zenon DEF AnyCall
  <2>2. n \in Nat /\ size \in Nat
    BY SizesAssumption
  <2> QED  BY <2>1, <2>2, CallStep, Zenon
<1>2. CASE Process
  <2>1. FixedSize \in Nat /\ 1 \in Nat
    BY SizesAssumption
  <2> QED  BY <1>2, <2>1, NeedMoreStep, FixedHeaderStep, CompressedHeaderStep, CmpStep, BaselineStep,
              ProgressiveStep, MismatchStep, FinishStep, FinishFailsStep, ReturnStep, Zenon DEF Process
<1>3. CASE Produce
  BY <1>3, ProduceStep, Zenon
<1>4. CASE UNCHANGED vars
  <2>1. /\ extra_buffer' = extra_buffer /\ slice' = slice /\ continue_processing' = continue_processing
        /\ file' = file /\ fed' = fed /\ pc' = pc /\ complete' = complete /\ room' = room
        /\ state' = state /\ lh' = lh
        /\ total_read_size' = total_read_size /\ left' = left /\ input_complete' = input_complete
        /\ consumed' = consumed /\ ready' = ready /\ retrieved' = retrieved
        /\ queue' = queue /\ delivered' = delivered /\ finished' = finished
    BY <1>4, Zenon DEF vars, partial, caller, call, reader, threads, output
  <2>2. HeaderInv /\ OutputInv /\ InputInv /\ ThreadInv /\ EndInv
    BY Zenon DEF Inv
  <2>3. HeaderInv' /\ OutputInv' /\ InputInv' /\ ThreadInv'
    BY <2>1, <2>2, FrameHeader, FrameOutput, FrameInput, FrameThread, Zenon
  <2>4. EndInv'
    BY <2>1, <2>2, Zenon DEF EndInv
  <2> QED  BY <2>3, <2>4, Zenon DEF Inv
<1> QED  BY <1>1, <1>2, <1>3, <1>4, Zenon DEF Next

\* The invariant implies the first property: what was written is the beginning of all
\* that is written for the file, and that is cut to the beginning of the JPEG.
LEMMA InvOutput == ASSUME Inv PROVE OutputIsPrefix
<1>1. HeaderInv /\ OutputInv /\ ThreadInv
  BY Zenon DEF Inv
<1>2. /\ file \in Files /\ delivered \o queue = Take(SoFar, file.size)
      /\ state \in HeaderStates \cup ScanStates \cup {"EOI"}
  BY <1>1, Zenon DEF HeaderInv, OutputInv
<1>3. file.jpeg \in Seq(Nat) /\ file.size \in Nat
  BY <1>2, FileFacts, Zenon
<1>4. CASE state = "EOI"
  <2>1. /\ lh = HeaderOf(file) /\ lh.ok /\ (file.progressive => MergedOf(file, lh).ok)
        /\ SoFar = Written(file, lh)
    <3>1. state \notin {"FixedHeader", "CompressedHeader"} /\ state # "ScanBaseline"
      BY <1>4
    <3> QED  BY <1>1, <1>4, <3>1, Zenon DEF HeaderInv, SoFar, Merged
  <2>2. IsPrefix(Take(Written(file, lh), file.size), file.jpeg)
    BY <1>2, <2>1, FilesAssumption, Zenon
  <2> QED  BY <1>2, <2>1, <2>2, Zenon DEF OutputIsPrefix
<1>5. CASE state = "ScanBaseline"
  <2>1. state \notin {"FixedHeader", "CompressedHeader"} /\ state \notin HeaderStates
    BY <1>5 DEF HeaderStates
  <2>2. /\ lh = HeaderOf(file) /\ lh.ok /\ ~file.progressive
        /\ ready \in Nat /\ retrieved \in 0 .. ready /\ ready <= Threads
    BY <1>1, <1>5, <2>1, Zenon DEF HeaderInv, ThreadInv
  <2>3. Threads \in Nat /\ HeadOf(lh) \in Seq(Nat) /\ EndOf(file, lh) \in Seq(Nat)
    BY <1>1, <2>1, HeaderFacts, Zenon
  <2>4. retrieved \in Nat /\ retrieved <= Threads /\ Threads <= Len(lh.handoffs)
    BY <2>2, <2>3 DEF Threads
  <2>5. PICK h, x, y, z, e :
            /\ h = HeadOf(lh) /\ e = EndOf(file, lh)
            /\ x = SegmentsOf(file, lh, 1, retrieved) /\ y = SegmentsOf(file, lh, retrieved + 1, Threads)
            /\ z = SegmentsOf(file, lh, 1, Threads)
    BY Zenon
  <2>6. x \in Seq(Nat) /\ y \in Seq(Nat) /\ Joins(x, y, z) /\ h \in Seq(Nat) /\ e \in Seq(Nat)
    BY <1>2, <2>2, <2>3, <2>4, <2>5, SegmentsJoin, Zenon
  <2>7. SoFar = h \o x /\ Written(file, lh) = h \o (z \o e)
    BY <1>5, <2>2, <2>5, Zenon DEF SoFar, Written, Segments, Threads
  <2>8. z \in Seq(Nat) /\ h \o x \in Seq(Nat) /\ y \o e \in Seq(Nat)
    BY <2>6, ConcatProperties, Zenon DEF Joins
  <2>9. Regrouped(h, x, y, e) /\ Associates(h, z, e)
    BY <2>6, <2>8, Regroup, Associate, Zenon
  <2>10. (h \o x) \o (y \o e) = h \o (z \o e)
    BY <2>6, <2>9, Zenon DEF Joins, Regrouped, Associates
  <2>11. PICK u, v : u = h \o x /\ v = y \o e
    OBVIOUS
  <2>12. IsPrefix(Take(u, file.size), Take(u \o v, file.size))
    BY <1>3, <2>8, <2>11, TakeIsPrefix, Zenon
  <2>13. IsPrefix(Take(Written(file, lh), file.size), file.jpeg)
    BY <1>2, <2>2, FilesAssumption, Zenon
  <2>14. u \o v = Written(file, lh) /\ SoFar = u
    BY <2>7, <2>10, <2>11, Zenon
  <2>15. u \in Seq(Nat) /\ u \o v \in Seq(Nat)
    BY <2>8, <2>11, ConcatProperties, Zenon
  <2>16. Take(u, file.size) \in Seq(Nat) /\ Take(u \o v, file.size) \in Seq(Nat)
    BY <1>3, <2>15, TakeFacts, Zenon
  <2>17. IsPrefix(Take(u, file.size), file.jpeg)
    BY <1>3, <2>12, <2>13, <2>14, <2>16, PrefixOfAPrefix, Zenon
  <2> QED  BY <1>2, <2>14, <2>17, Zenon DEF OutputIsPrefix
<1>6. CASE state # "EOI" /\ state # "ScanBaseline"
  <2>1. state \in HeaderStates \cup {"ScanProgressive"}
    BY <1>2, <1>6 DEF ScanStates
  <2>2. delivered \o queue = << >>
    BY <2>1, NothingWritten, Zenon
  <2>3. << >> \in Seq(Nat) /\ << >> \o file.jpeg = file.jpeg
    BY <1>3, EmptySeq, ConcatEmptySeq
  <2>4. IsPrefix(<< >>, << >> \o file.jpeg)
    BY <1>3, <2>3, ConcatIsPrefix, Zenon
  <2> QED  BY <2>2, <2>3, <2>4, Zenon DEF OutputIsPrefix
<1> QED  BY <1>4, <1>5, <1>6, Zenon

\* And the second.
LEMMA InvOutcome == ASSUME Inv PROVE OutcomeFitsFile
<1>1. HeaderInv /\ OutputInv /\ EndInv
  BY Zenon DEF Inv
<1>2. ASSUME finished PROVE file.sound /\ delivered = file.jpeg /\ queue = << >>
  <2>1. state = "EOI" /\ queue = << >> /\ file.sound
    BY <1>1, <1>2, Zenon DEF EndInv
  <2>2. state \notin {"FixedHeader", "CompressedHeader"} /\ state # "ScanBaseline"
    BY <2>1
  <2>3. file \in Files /\ lh = HeaderOf(file) /\ SoFar = Written(file, lh)
    BY <1>1, <2>1, <2>2, Zenon DEF HeaderInv, SoFar
  <2>4. delivered \in Seq(Nat) /\ delivered \o queue = Take(SoFar, file.size)
    BY <1>1, Zenon DEF OutputInv
  <2>5. delivered \o << >> = delivered
    BY <2>4, ConcatEmptySeq, Zenon
  <2>6. Take(Written(file, lh), file.size) = file.jpeg
    BY <2>1, <2>3, SoundFacts, Zenon
  <2> QED  BY <2>1, <2>3, <2>4, <2>5, <2>6, Zenon
<1> QED  BY <1>1, <1>2, Zenon DEF OutcomeFitsFile, EndInv

-----------------------------------------------------------------------------

\* The inductive invariant holds in every reachable state.
THEOREM ReaderInvariant == Spec => []Inv
<1>1. Init => Inv
  BY InitInv
<1>2. Inv /\ [Next]_vars => Inv'
  BY NextInv
<1> QED  BY <1>1, <1>2, PTL DEF Spec

\* However the input is sliced, whatever space the caller offers and however fast the
\* threads are, process_limited_buffer hands out and queues a prefix of the JPEG.
THEOREM ReaderOutputIsPrefix == Spec => []OutputIsPrefix
<1>1. Inv => OutputIsPrefix
  BY InvOutput
<1> QED  BY <1>1, ReaderInvariant, PTL

\* The reader returns complete only for a file that an encoder wrote, when the whole JPEG
\* was handed out, and rejects such a file only when the caller cuts it off or passes on
\* more than it.
THEOREM ReaderOutcomeFitsFile == Spec => []OutcomeFitsFile
<1>1. Inv => OutcomeFitsFile
  BY InvOutcome
<1> QED  BY <1>1, ReaderInvariant, PTL
=============================================================================
