------------------------ MODULE MultiplexResultProofs ------------------------
(***************************************************************************)
(* multiplex_read for any number of partitions, any files and slices, and  *)
(* any schedule of the processors: what retrieve_result hands out, and how *)
(* the call ends.                                                          *)
(***************************************************************************)
EXTENDS MultiplexReadProofs

-----------------------------------------------------------------------------
(* What the partitions contribute                                          *)

\* A part from the start of a sequence and the part behind it.
LEMMA PrefixGrows ==
    ASSUME NEW S, NEW s \in Seq(S), NEW a \in Nat, NEW b \in Nat, a <= b, b <= Len(s)
    PROVE  SubSeq(s, 1, a) \o SubSeq(s, a + 1, b) = SubSeq(s, 1, b)
  <1>1. Len(s) \in Nat
    BY LenProperties
  <1>2. 1 \in 1..(Len(s) + 1) /\ a \in 1 - 1..Len(s) /\ b \in a..Len(s)
    BY <1>1
  <1> QED  BY <1>2, ConcatAdjacentSubSeq

\* The start of a start.
LEMMA PrefixOfPrefix ==
    ASSUME NEW S, NEW s \in Seq(S), NEW a \in Nat, NEW b \in Nat, a <= b, b <= Len(s)
    PROVE  SubSeq(SubSeq(s, 1, b), 1, a) = SubSeq(s, 1, a)
  <1> DEFINE t == SubSeq(s, 1, b)
             u == SubSeq(t, 1, a)
             v == SubSeq(s, 1, a)
  <1>1. Len(s) \in Nat /\ a \in 0..Len(s) /\ b \in 0..Len(s) /\ a \in 0..b
    BY LenProperties
  <1>2. t \in Seq(S) /\ Len(t) = b /\ \A i \in 1..b : t[i] = s[i]
    BY <1>1, PrefixEntries
  <1>3. v \in Seq(S) /\ Len(v) = a /\ \A i \in 1..a : v[i] = s[i]
    BY <1>1, PrefixEntries
  <1> HIDE DEF t, v
  <1>4. u \in Seq(S) /\ Len(u) = a /\ \A i \in 1..a : u[i] = t[i]
    BY <1>1, <1>2, PrefixEntries
  <1> HIDE DEF u
  <1>5. ASSUME NEW i \in 1..a PROVE u[i] = v[i]
    <2>1. i \in 1..b
      OBVIOUS
    <2> QED  BY <1>2, <1>3, <1>4, <2>1, Zenon
  <1>6. Len(u) = Len(v) /\ \A i \in 1..Len(u) : u[i] = v[i]
    BY <1>3, <1>4, <1>5, Zenon
  <1>7. u = v
    BY <1>3, <1>4, <1>6, SeqEqual
  <1> QED  BY <1>7, Zenon DEF u, v, t

\* Where a contribution ends in the payload.
Share(p) == Least(plan[p].want, Len(file.payload[p]))

\* A contribution is the start of the payload.
LEMMA ContributionFacts ==
    ASSUME ParserType, ThreadType, NEW p \in P
    PROVE  /\ file.payload[p] \in Seq(Byte) /\ Len(file.payload[p]) \in Nat /\ plan[p].want \in Nat
           /\ Share(p) \in 0..Len(file.payload[p])
           /\ Contribution(p) = SubSeq(file.payload[p], 1, Share(p))
           /\ Contribution(p) \in Seq(Byte) /\ Len(Contribution(p)) = Share(p)
  <1> DEFINE pay == file.payload[p]
             want == plan[p].want
  <1>1. pay \in Seq(Byte) /\ want \in Nat
    BY ReadAssumption DEF ParserType, ThreadType
  <1>2. Len(pay) \in Nat
    BY <1>1, LenProperties
  <1>3. Contribution(p) = SubSeq(pay, 1, Share(p))
    BY Zenon DEF Contribution, Prefix, Share, Least
  <1>4. Share(p) \in 0..Len(pay)
    BY <1>1, <1>2 DEF Share, Least
  <1>5. SubSeq(pay, 1, Share(p)) \in Seq(Byte) /\ Len(SubSeq(pay, 1, Share(p))) = Share(p)
    BY <1>1, <1>4, PrefixEntries
  <1> QED  BY <1>1, <1>2, <1>3, <1>4, <1>5, Zenon

\* The output grows by one contribution after the other.
LEMMA UpToFacts ==
    ASSUME ParserType, ThreadType
    PROVE  /\ UpTo(0) = <<>>
           /\ \A k \in P : k + 1 \in 0..N /\ UpTo(k + 1) = UpTo(k) \o Contribution(k)
           /\ \A k \in 0..N : UpTo(k) \in Seq(Byte) /\ Continues(UpTo(k), UpTo(N), Byte)
           /\ \A k \in 0..N : \A j \in 0..k : Continues(UpTo(j), UpTo(k), Byte)
  <1> DEFINE pieces == [k \in Nat |-> IF k < N THEN Contribution(k) ELSE <<>>]
             first(n) == [i \in 1..n |-> Contribution(i - 1)]
  <1>1. N \in Nat
    BY ReadAssumption
  <1>2. \A k \in P : Contribution(k) \in Seq(Byte)
    BY ContributionFacts
  <1>3. ASSUME NEW k \in Nat PROVE pieces[k] \in Seq(Byte)
    <2>1. CASE k < N
      <3>1. k \in P
        BY <1>1, <2>1 DEF P
      <3> QED  BY <1>2, <2>1, <3>1, Zenon
    <2>2. CASE ~(k < N)
      <3>1. <<>> \in Seq(Byte)
        BY EmptySeq
      <3> QED  BY <2>2, <3>1, Zenon
    <2> QED  BY <2>1, <2>2
  <1>4. \A k \in P : k \in Nat /\ k < N /\ k + 1 \in 0..N
    BY <1>1 DEF P
  <1>5. \A k \in P : pieces[k] = Contribution(k)
    BY <1>4, Zenon
  <1> HIDE DEF pieces
  <1>6. PICK g : g = [k \in Nat |-> IF k = 0 THEN <<>> ELSE g[k - 1] \o pieces[k - 1]]
    BY JoinExists, Zenon
  <1>7. IsStream(g, pieces, Byte)
    BY <1>3, <1>6, Zenon DEF IsStream
  <1>8. g[0] = <<>> /\ (\A k \in Nat : g[k + 1] = g[k] \o pieces[k]) /\ \A k \in Nat : g[k] \in Seq(Byte)
    BY <1>7, StreamStep
  <1>9. ASSUME NEW n \in 0..N PROVE n \in Nat /\ UpTo(n) = g[n]
    <2>1. n \in Nat /\ \A i \in 1..n : i - 1 \in P
      BY <1>1 DEF P
    <2>2. first(n) \in [1..n -> Seq(Byte)]
      BY <1>2, <2>1
    <2>3. first(n) \in Seq(Seq(Byte)) /\ Len(first(n)) = n
      BY <2>1, <2>2
    <2>4. ASSUME NEW k \in Nat, k < n PROVE pieces[k] = first(n)[k + 1]
      <3>1. k \in P /\ k + 1 \in 1..n /\ (k + 1) - 1 = k
        BY <1>1, <2>1, <2>4 DEF P
      <3>2. first(n)[k + 1] = Contribution(k)
        BY <3>1, Zenon
      <3> QED  BY <1>5, <3>1, <3>2, Zenon
    <2>5. Lists(pieces, first(n))
      BY <2>3, <2>4, Zenon DEF Lists
    <2>6. PICK f : f = first(n)
      OBVIOUS
    <2>7. FlattenSeq(f) = g[Len(f)]
      BY <1>7, <2>3, <2>5, <2>6, FlattenIsJoin
    <2> QED  BY <2>1, <2>3, <2>6, <2>7, Zenon DEF UpTo
  <1>10. ASSUME NEW k \in 0..N, NEW j \in 0..k PROVE Continues(UpTo(j), UpTo(k), Byte)
    <2>1. j \in Nat /\ k \in Nat /\ j <= k /\ j \in 0..N
      BY <1>1
    <2>2. Continues(g[j], g[k], Byte)
      BY <1>7, <2>1, StreamGrows
    <2> QED  BY <1>9, <2>1, <2>2, Zenon
  <1>11. ASSUME NEW k \in P PROVE UpTo(k + 1) = UpTo(k) \o Contribution(k)
    <2>1. k \in 0..N
      BY <1>1 DEF P
    <2> QED  BY <1>4, <1>5, <1>8, <1>9, <2>1, Zenon
  <1>12. ASSUME NEW k \in 0..N PROVE UpTo(k) \in Seq(Byte) /\ Continues(UpTo(k), UpTo(N), Byte)
    <2>1. N \in 0..N /\ k \in 0..N
      BY <1>1
    <2> QED  BY <1>8, <1>9, <1>10, <2>1, Zenon
  <1>13. UpTo(0) = <<>>
    <2>1. 0 \in 0..N
      BY <1>1
    <2> QED  BY <1>8, <1>9, <2>1, Zenon
  <1> QED  BY <1>4, <1>10, <1>11, <1>12, <1>13, Zenon

-----------------------------------------------------------------------------
(* What a partition has sent                                               *)

\* The data of the results that the closure of p has sent.
Sent(p) == SubSeq(file.payload[p], 1, count[p] - Len(got[p]))

\* How the closure's bytes lie in the payload; once a valid file has been parsed, a
\* closure that finds nothing more has read all of it.
LEMMA ReadFacts ==
    ASSUME ParserInv, ThreadInv, NEW p \in P, NEW t, ToCome(p, t)
    PROVE  /\ count[p] \in Nat /\ Len(got[p]) \in Nat /\ Len(got[p]) <= count[p]
           /\ count[p] <= Len(file.payload[p])
           /\ got[p] = SubSeq(file.payload[p], count[p] - Len(got[p]) + 1, count[p])
           /\ file.valid /\ t = <<>> /\ current_buffer[p] = <<>> /\ blocks[p] = <<>>
                 => count[p] = Len(file.payload[p])
  <1>1. PICK pay : pay = file.payload[p]
    OBVIOUS
  <1>2. PICK x : x = From[1][p]
    OBVIOUS
  <1>3. pay \in Seq(Byte) /\ IsPrefix(x, pay) /\ (file.valid => pay = x)
    <2>1. file \in Files
      BY DEF ParserInv, ParserType
    <2>2. pay \in Seq(Byte)
      BY <1>1, <2>1, ReadAssumption
    <2>3. x = GoDemultiplex(WithoutFooter(file.bytes), N)[p]
      BY <1>2, Zenon DEF From, Body, GoDemultiplex
    <2> QED  BY <1>1, <2>1, <2>2, <2>3, FilesAssumption, Zenon
  <1>4. PICK s \in Seq(Byte) : Holds(p, s, t)
    BY Zenon DEF ToCome
  <1>5. PICK g : g = got[p]
    OBVIOUS
  <1>6. PICK c : c = current_buffer[p]
    OBVIOUS
  <1>7. PICK h : h = DataOf(blocks[p])
    OBVIOUS
  <1>8. PICK n : n = count[p]
    OBVIOUS
  <1>9. /\ g \in Seq(Byte) /\ c \in Seq(Byte) /\ h \in Seq(Byte) /\ t \in Seq(Byte) /\ n \in Nat
        /\ n = Len(s) + Len(g) /\ x = Chain(s, g, c, h, t)
    <2>1. got[p] \in Seq(Byte) /\ current_buffer[p] \in Seq(Byte) /\ DataOf(blocks[p]) \in Seq(Byte) /\ n \in Nat
      BY <1>8, PartTypes DEF ThreadInv
    <2>2. /\ t \in Seq(Byte) /\ Len(s) + Len(got[p]) = count[p]
          /\ x = Chain(s, got[p], current_buffer[p], DataOf(blocks[p]), t)
      BY <1>2, <1>4, Zenon DEF Holds
    <2> QED  BY <1>5, <1>6, <1>7, <1>8, <2>1, <2>2, Zenon
  <1>10. Splits(pay, Chain(s, g, c, h, t), Len(s) + Len(g), g, c \o h, t)
    <2>1. IsPrefix(Chain(s, g, c, h, t), pay)
      BY <1>3, <1>9, Zenon
    <2> QED  BY <1>3, <1>9, <2>1, ChainSplits, Zenon
  <1>11. /\ g = SubSeq(pay, n - Len(g) + 1, n)
         /\ n + Len(c \o h) <= Len(x)
         /\ t = <<>> => n + Len(c \o h) = Len(x)
    BY <1>9, <1>10, Zenon DEF Splits
  <1>12. x \in Seq(Byte) /\ Len(x) \in Nat
    <2>1. x \in Seq(Byte)
      <3>1. ParserType
        BY DEF ParserInv
      <3>2. 1 \in 1..(Len(Body) + 1)
        BY <3>1, BodyFacts
      <3>3. From[1] \in [P -> Seq(Byte)]
        BY <3>1, <3>2, BodyFacts
      <3> QED  BY <1>2, <3>3
    <2> QED  BY <2>1, LenProperties
  <1>13. Len(x) <= Len(pay) /\ Len(pay) \in Nat
    BY <1>3, <1>12, EntriesOfPrefix, LenProperties
  <1>14. Len(s) \in Nat /\ Len(g) \in Nat /\ Len(c \o h) \in Nat
    BY <1>4, <1>9, LenProperties, ConcatProperties
  <1>15. Len(g) <= n /\ n <= Len(pay)
    BY <1>9, <1>11, <1>12, <1>13, <1>14
  <1>16. ASSUME file.valid, t = <<>>, current_buffer[p] = <<>>, blocks[p] = <<>>
         PROVE  n = Len(pay)
    <2>1. h = <<>>
      <3>1. \A m \in BlockMessages : m.data \in Seq(Byte)
        BY BlockMessageData
      <3>2. PICK d : d = blocks[p]
        OBVIOUS
      <3>3. d \in Seq(BlockMessages) /\ d = <<>>
        BY <1>16, <3>2, PartTypes DEF ThreadInv
      <3>4. DataOf(d) = <<>>
        BY <3>1, <3>3, DataOfType
      <3> QED  BY <1>7, <3>2, <3>4, Zenon
    <2>2. c \o h = <<>> /\ Len(c \o h) = 0
      <3>1. c = <<>>
        BY <1>6, <1>16
      <3>2. c \o h = <<>>
        BY <1>9, <2>1, <3>1, ConcatEmptySeq
      <3> QED  BY <3>2, EmptySeq
    <2>3. n + Len(c \o h) = Len(x) /\ pay = x
      BY <1>3, <1>11, <1>16, Zenon
    <2>4. n + 0 = n
      BY <1>9
    <2> QED  BY <2>2, <2>3, <2>4, Zenon
  <1> QED  BY <1>1, <1>5, <1>8, <1>9, <1>11, <1>14, <1>15, <1>16, Zenon

\* What was sent is a sequence of bytes; when the bytes at hand are sent as well, it is
\* all that was read.
LEMMA SentFacts ==
    ASSUME ParserInv, ThreadInv, NEW p \in P, NEW t, ToCome(p, t)
    PROVE  /\ Sent(p) \in Seq(Byte) /\ count[p] - Len(got[p]) \in Nat
           /\ count[p] - Len(got[p]) <= count[p]
           /\ Sent(p) \o got[p] = SubSeq(file.payload[p], 1, count[p])
  <1>1. PICK pay : pay = file.payload[p]
    OBVIOUS
  <1>2. PICK n : n = count[p]
    OBVIOUS
  <1>3. PICK g : g = got[p]
    OBVIOUS
  <1>4. /\ n \in Nat /\ Len(g) \in Nat /\ Len(g) <= n /\ n <= Len(pay)
        /\ g = SubSeq(pay, n - Len(g) + 1, n)
    BY <1>1, <1>2, <1>3, ReadFacts
  <1>5. pay \in Seq(Byte) /\ Len(pay) \in Nat
    BY <1>1, ContributionFacts DEF ParserInv, ThreadInv
  <1>6. PICK a : a = n - Len(g)
    OBVIOUS
  <1>7. a \in Nat /\ a <= n /\ a \in 0..Len(pay)
    BY <1>4, <1>5, <1>6
  <1>8. SubSeq(pay, 1, a) \o SubSeq(pay, a + 1, n) = SubSeq(pay, 1, n)
    BY <1>4, <1>5, <1>7, PrefixGrows
  <1>9. SubSeq(pay, 1, a) \in Seq(Byte)
    BY <1>5, <1>7, PrefixEntries
  <1>10. Sent(p) = SubSeq(pay, 1, a) /\ a = count[p] - Len(got[p]) /\ g = SubSeq(pay, a + 1, n)
    BY <1>1, <1>2, <1>3, <1>4, <1>6, Zenon DEF Sent
  <1> QED  BY <1>1, <1>2, <1>3, <1>7, <1>8, <1>9, <1>10, Zenon

-----------------------------------------------------------------------------
(* The invariant of a call that has not ended                              *)

Finishing == {"finish", "inline", "running", "wait"}

NoEof(c) == \A i \in 1..Len(c) : ~c[i].eof
EndsWithEof(c) == c # <<>> /\ \A i \in 1..Len(c) : c[i].eof <=> i = Len(c)

\* A closure is told of the end of its input exactly once, after the last block.
InputInv(p) ==
    IF senders THEN ~end_of_file[p] /\ NoEof(blocks[p])
    ELSE IF end_of_file[p] THEN blocks[p] = <<>> ELSE EndsWithEof(blocks[p])

\* As long as the caller listens no closure finds a broken channel, and a closure that
\* is done has sent all that it contributes.
PartInv(p) ==
    /\ phase[p] # "broken" /\ (phase[p] = "dropped" => ~single)
    /\ count[p] <= plan[p].want
    /\ BlockReceiverAlive(p) => InputInv(p) /\ (pc \in Finishing => ToCome(p, <<>>))
    /\ phase[p] = "complete" => plan[p].ending = "ok"
    /\ phase[p] \in {"complete", "over"} /\ plan[p].ending = "ok" => Sent(p) = Contribution(p)

\* The caller finishes only when the size of the file was right.
CallInv ==
    /\ pc \in Reading \cup Finishing
    /\ pc \in Reading => senders
    /\ pc \in Finishing => file.valid
    /\ \A p \in P : PartInv(p)

\* A closure that a step does not touch.
LEMMA PartKept ==
    ASSUME NEW q \in P, PartInv(q), UNCHANGED <<file, plan, senders, single>>,
           phase'[q] = phase[q], end_of_file'[q] = end_of_file[q], blocks'[q] = blocks[q],
           got'[q] = got[q], count'[q] = count[q],
           pc' \in Finishing => pc \in Finishing, ToCome(q, <<>>) => ToCome(q, <<>>)'
    PROVE  PartInv(q)' /\ Sent(q)' = Sent(q)
  <1>1. Sent(q)' = Sent(q) /\ Contribution(q)' = Contribution(q)
    BY Zenon DEF Sent, Contribution
  <1>2. InputInv(q)' = InputInv(q) /\ BlockReceiverAlive(q)' = BlockReceiverAlive(q)
    BY Zenon DEF InputInv, BlockReceiverAlive
  <1> QED  BY <1>1, <1>2, Zenon DEF PartInv

\* What a step of the closure of p does to its results: nothing, one more, or the end.
Final(p) == IF plan[p].ending = "ok" THEN Complete ELSE Error(<<plan[p].ending, p>>)
SendsNothing(p) == results' = results /\ Sent(p)' = Sent(p) /\ phase'[p] # "over"
SendsResult(p) ==
    /\ results' = [results EXCEPT ![p] = Append(@, Result(got[p]))]
    /\ Sent(p)' = Sent(p) \o got[p]
    /\ phase'[p] # "over"
SendsFinal(p) ==
    /\ results' = [results EXCEPT ![p] = Append(@, Final(p))]
    /\ Sent(p)' = Sent(p)
    /\ phase'[p] = "over"

\* Reading from the current block.
LEMMA ReadBufferPart ==
    ASSUME ParserInv, ThreadInv, CallInv, NEW p \in P, NEW t, ToCome(p, t), ReadBuffer(p),
           ToCome(p, <<>>) => ToCome(p, <<>>)'
    PROVE  PartInv(p)' /\ SendsNothing(p)
  <1>1. PICK room : room = IF ReadSize < plan[p].want - count[p] THEN ReadSize ELSE plan[p].want - count[p]
    OBVIOUS
  <1>2. PICK c : c = current_buffer[p]
    OBVIOUS
  <1>3. PICK n : n = IF room < Len(c) THEN room ELSE Len(c)
    OBVIOUS
  <1>4. PICK g : g = got[p]
    OBVIOUS
  <1>5. /\ phase[p] = "running" /\ count[p] < plan[p].want
        /\ n > 0 /\ got' = [got EXCEPT ![p] = @ \o SubSeq(c, 1, n)]
        /\ count' = [count EXCEPT ![p] = @ + n]
        /\ UNCHANGED <<plan, end_of_file, phase, blocks, results, file, pc, senders, single>>
    BY <1>1, <1>2, <1>3, Zenon DEF ReadBuffer, ReadMore, threads, channels, others, parser
  <1>6. /\ c \in Seq(Byte) /\ Len(c) \in Nat /\ g \in Seq(Byte) /\ count[p] \in Nat
        /\ plan[p].want \in Nat /\ ReadSize \in Nat
    <2>1. c \in Seq(Byte) /\ g \in Seq(Byte) /\ count[p] \in Nat
      BY <1>2, <1>4, PartTypes DEF ThreadInv
    <2>2. plan[p].want \in Nat /\ ReadSize \in Nat
      BY ReadAssumption DEF ThreadInv, ThreadType
    <2> QED  BY <2>1, <2>2, LenProperties
  <1>7. room \in Nat /\ room <= plan[p].want - count[p] /\ n \in Nat /\ n <= room /\ n \in 0..Len(c)
    BY <1>1, <1>3, <1>5, <1>6
  <1>8. /\ got'[p] = g \o SubSeq(c, 1, n) /\ count'[p] = count[p] + n
    BY <1>4, <1>5 DEF ThreadInv, ThreadType
  <1>9. SubSeq(c, 1, n) \in Seq(Byte) /\ Len(SubSeq(c, 1, n)) = n
    BY <1>6, <1>7, PrefixEntries
  <1>10. Len(got'[p]) = Len(g) + n /\ Len(g) \in Nat
    BY <1>6, <1>8, <1>9, ConcatProperties, LenProperties
  <1>11. count'[p] - Len(got'[p]) = count[p] - Len(g) /\ count'[p] <= plan[p].want
    BY <1>6, <1>7, <1>8, <1>10
  <1>12. Sent(p)' = Sent(p)
    BY <1>4, <1>5, <1>11, Zenon DEF Sent
  <1>13. InputInv(p)' = InputInv(p) /\ BlockReceiverAlive(p)' = BlockReceiverAlive(p)
    BY <1>5, Zenon DEF InputInv, BlockReceiverAlive
  <1>14. phase'[p] = "running" /\ phase'[p] \notin {"over", "complete", "broken", "dropped"}
    BY <1>5
  <1>15. PartInv(p)
    BY Zenon DEF CallInv
  <1>16. PartInv(p)'
    BY <1>5, <1>11, <1>13, <1>14, <1>15, Zenon DEF PartInv
  <1> QED  BY <1>5, <1>12, <1>14, <1>16, Zenon DEF SendsNothing

\* The next block or Eof is there as long as the caller listens.
LEMMA ReadSlowPart ==
    ASSUME ParserInv, ThreadInv, CallInv, NEW p \in P, NEW t, ToCome(p, t), ReadSlow(p),
           ToCome(p, <<>>) => ToCome(p, <<>>)'
    PROVE  PartInv(p)' /\ SendsNothing(p)
  <1>1. PICK c : c = blocks[p]
    OBVIOUS
  <1>2. /\ phase[p] = "running" /\ ~end_of_file[p]
        /\ UNCHANGED <<plan, got, count, results, file, pc, senders, single>>
    BY Zenon DEF ReadSlow, ReadMore, others, parser
  <1>3. PartInv(p)
    BY Zenon DEF CallInv
  <1>4. BlockReceiverAlive(p) /\ InputInv(p)
    <2>1. BlockReceiverAlive(p)
      BY <1>2 DEF BlockReceiverAlive
    <2> QED  BY <1>3, <2>1, Zenon DEF PartInv
  <1>5. c \in Seq(BlockMessages) /\ Len(c) \in Nat
    BY <1>1, PartTypes, LenProperties DEF ThreadInv
  <1>6. c # <<>>
    <2>1. c = <<>> => ~senders
      BY <1>1, Zenon DEF ReadSlow
    <2>2. ~senders => EndsWithEof(c)
      BY <1>1, <1>2, <1>4, Zenon DEF InputInv
    <2> QED  BY <2>1, <2>2, Zenon DEF EndsWithEof
  <1>7. /\ blocks' = [blocks EXCEPT ![p] = Tail(@)]
        /\ IF Head(c).eof THEN end_of_file' = [end_of_file EXCEPT ![p] = TRUE]
           ELSE UNCHANGED end_of_file
        /\ UNCHANGED phase
    BY <1>1, <1>6, Zenon DEF ReadSlow
  <1>8. blocks'[p] = Tail(c) /\ (Head(c).eof => end_of_file'[p]) /\ (~Head(c).eof => ~end_of_file'[p])
    BY <1>1, <1>2, <1>7 DEF ThreadInv, ThreadType
  <1>9. /\ Tail(c) \in Seq(BlockMessages) /\ Len(Tail(c)) = Len(c) - 1
        /\ \A i \in 1..(Len(c) - 1) : Tail(c)[i] = c[i + 1]
        /\ Head(c) = c[1] /\ Len(c) >= 1
    <2>1. Len(c) >= 1 /\ Head(c) = c[1]
      BY <1>5, <1>6, EmptySeq
    <2>2. Tail(c) \in Seq(BlockMessages) /\ Len(Tail(c)) = Len(c) - 1
      BY <1>5, <1>6, HeadTailProperties
    <2>3. \A i \in 1..(Len(c) - 1) : Tail(c)[i] = c[i + 1]
      BY <1>5, <1>6, <2>2, HeadTailProperties
    <2> QED  BY <2>1, <2>2, <2>3
  <1>10. PICK r : r = Tail(c)
    OBVIOUS
  <1>11. InputInv(p)'
    <2>1. CASE senders
      <3>1. NoEof(c)
        BY <1>1, <1>4, <2>1, Zenon DEF InputInv
      <3>2. 1 \in 1..Len(c) /\ \A i \in 1..(Len(c) - 1) : i + 1 \in 1..Len(c)
        BY <1>5, <1>9
      <3>3. ~Head(c).eof
        BY <1>9, <3>1, <3>2, Zenon DEF NoEof
      <3>4. NoEof(Tail(c))
        BY <1>9, <3>1, <3>2, Zenon DEF NoEof
      <3> QED  BY <1>2, <1>8, <2>1, <3>3, <3>4, Zenon DEF InputInv
    <2>2. CASE ~senders
      <3>1. EndsWithEof(c)
        BY <1>1, <1>2, <1>4, <2>2, Zenon DEF InputInv
      <3>2. Head(c).eof <=> Len(c) = 1
        <4>1. 1 \in 1..Len(c)
          BY <1>5, <1>9
        <4> QED  BY <1>9, <3>1, <4>1, Zenon DEF EndsWithEof
      <3>3. CASE Len(c) = 1
        <4>1. Len(r) = 0 /\ r \in Seq(BlockMessages)
          BY <1>9, <1>10, <3>3
        <4>2. r = <<>>
          BY <4>1, EmptySeq
        <4> QED  BY <1>2, <1>8, <1>10, <2>2, <3>2, <3>3, <4>2, Zenon DEF InputInv
      <3>4. CASE Len(c) # 1
        <4>1. Len(r) = Len(c) - 1 /\ r \in Seq(BlockMessages) /\ Len(r) >= 1
          BY <1>5, <1>9, <1>10, <3>4
        <4>2. r # <<>>
          BY <4>1, EmptySeq
        <4>3. ASSUME NEW i \in 1..Len(r) PROVE r[i].eof <=> i = Len(r)
          <5>1. /\ i \in 1..(Len(c) - 1) /\ i + 1 \in 1..Len(c)
                /\ (i + 1 = Len(c)) <=> (i = Len(r))
            BY <1>5, <4>1
          <5>2. r[i] = c[i + 1]
            BY <1>9, <1>10, <5>1, Zenon
          <5> QED  BY <3>1, <5>1, <5>2, Zenon DEF EndsWithEof
        <4>4. EndsWithEof(r)
          BY <4>2, <4>3, Zenon DEF EndsWithEof
        <4> QED  BY <1>2, <1>8, <1>10, <2>2, <3>2, <3>4, <4>4, Zenon DEF InputInv
      <3> QED  BY <3>3, <3>4
    <2> QED  BY <2>1, <2>2
  <1>12. Sent(p)' = Sent(p)
    BY <1>2, Zenon DEF Sent
  <1>13. phase'[p] = "running" /\ phase'[p] \notin {"over", "complete", "broken", "dropped"}
    BY <1>2, <1>7
  <1>14. PartInv(p)'
    BY <1>2, <1>3, <1>4, <1>11, <1>13, Zenon DEF PartInv
  <1> QED  BY <1>2, <1>12, <1>13, <1>14, Zenon DEF SendsNothing

\* When the bytes at hand are sent, what was sent grows by them.
LEMMA SentGrows ==
    ASSUME ParserInv, ThreadInv, NEW p \in P, NEW t, ToCome(p, t),
           got' = [got EXCEPT ![p] = <<>>], UNCHANGED <<file, count>>
    PROVE  /\ Sent(p)' = Sent(p) \o got[p]
           /\ Sent(p)' = SubSeq(file.payload[p], 1, count[p])
  <1>1. got'[p] = <<>> /\ count[p] \in Nat
    BY DEF ThreadInv, ThreadType
  <1>2. Len(got'[p]) = 0
    BY <1>1, EmptySeq
  <1>3. count[p] - Len(got'[p]) = count[p]
    BY <1>1, <1>2
  <1>4. Sent(p)' = SubSeq(file.payload[p], 1, count[p])
    BY <1>3, Zenon DEF Sent
  <1> QED  BY <1>4, SentFacts, Zenon

\* A full partial result goes out.
LEMMA SendPartialPart ==
    ASSUME ParserInv, ThreadInv, CallInv, NEW p \in P, NEW t, ToCome(p, t), SendPartial(p),
           ResultsAccepted(p), ToCome(p, <<>>) => ToCome(p, <<>>)'
    PROVE  PartInv(p)' /\ SendsResult(p)
  <1>1. /\ phase[p] = "running" /\ results' = [results EXCEPT ![p] = Append(@, Result(got[p]))]
        /\ got' = [got EXCEPT ![p] = <<>>]
        /\ UNCHANGED <<plan, current_buffer, end_of_file, count, blocks, phase, file, pc, senders, single>>
    BY Zenon DEF SendPartial, others, parser
  <1>2. Sent(p)' = Sent(p) \o got[p]
    <2>1. UNCHANGED <<file, count>>
      BY <1>1, Zenon
    <2> QED  BY <1>1, <2>1, SentGrows, Zenon
  <1>3. InputInv(p)' = InputInv(p) /\ BlockReceiverAlive(p)' = BlockReceiverAlive(p)
    BY <1>1, Zenon DEF InputInv, BlockReceiverAlive
  <1>4. phase'[p] = "running" /\ phase'[p] \notin {"over", "complete", "broken", "dropped"}
    BY <1>1
  <1>5. PartInv(p)
    BY Zenon DEF CallInv
  <1>6. PartInv(p)'
    BY <1>1, <1>3, <1>4, <1>5, Zenon DEF PartInv
  <1> QED  BY <1>1, <1>2, <1>4, <1>6, Zenon DEF SendsResult

\* A closure that is ready to end has read its share of the payload.
LEMMA ReadyMeansAll ==
    ASSUME ParserInv, ThreadInv, CallInv, NEW p \in P, NEW t, ToCome(p, t), Ready(p)
    PROVE  count[p] = Share(p)
  <1>1. /\ file.payload[p] \in Seq(Byte) /\ Len(file.payload[p]) \in Nat /\ plan[p].want \in Nat
    BY ContributionFacts DEF ParserInv, ThreadInv
  <1>2. count[p] \in Nat /\ count[p] <= Len(file.payload[p])
    BY ReadFacts
  <1>3. PartInv(p)
    BY Zenon DEF CallInv
  <1>4. count[p] <= plan[p].want
    BY <1>3, Zenon DEF PartInv
  <1>5. CASE count[p] = plan[p].want
    BY <1>1, <1>2, <1>5 DEF Share, Least
  <1>6. CASE end_of_file[p] /\ current_buffer[p] = <<>>
    <2>1. BlockReceiverAlive(p)
      BY DEF Ready, BlockReceiverAlive
    <2>2. InputInv(p) /\ (pc \in Finishing => ToCome(p, <<>>))
      BY <1>3, <2>1, Zenon DEF PartInv
    <2>3. ~senders /\ blocks[p] = <<>>
      BY <1>6, <2>2, Zenon DEF InputInv
    <2>4. pc \in Finishing /\ file.valid
      BY <2>3, Zenon DEF CallInv
    <2>5. ToCome(p, <<>>)
      BY <2>2, <2>4
    <2>6. PICK e : e = <<>>
      OBVIOUS
    <2>7. ToCome(p, e)
      BY <2>5, <2>6, Zenon
    <2>8. count[p] = Len(file.payload[p])
      BY <1>6, <2>3, <2>4, <2>6, <2>7, ReadFacts
    <2> QED  BY <1>1, <1>2, <1>4, <2>8 DEF Share, Least
  <1> QED  BY <1>5, <1>6 DEF Ready

\* The last result completes the contribution.
LEMMA SendLastPart ==
    ASSUME ParserInv, ThreadInv, CallInv, NEW p \in P, NEW t, ToCome(p, t), SendLast(p),
           ResultsAccepted(p), ToCome(p, <<>>) => ToCome(p, <<>>)'
    PROVE  PartInv(p)' /\ SendsResult(p)
  <1>1. /\ Ready(p) /\ plan[p].ending = "ok"
        /\ results' = [results EXCEPT ![p] = Append(@, Result(got[p]))]
        /\ phase' = [phase EXCEPT ![p] = "complete"]
        /\ got' = [got EXCEPT ![p] = <<>>]
        /\ UNCHANGED <<plan, current_buffer, end_of_file, count, blocks, file, pc, senders, single>>
    BY Zenon DEF SendLast, others, parser
  <1>2. Sent(p)' = Sent(p) \o got[p] /\ Sent(p)' = SubSeq(file.payload[p], 1, count[p])
    <2>1. UNCHANGED <<file, count>>
      BY <1>1, Zenon
    <2> QED  BY <1>1, <2>1, SentGrows, Zenon
  <1>3. Contribution(p)' = Contribution(p)
    BY <1>1, Zenon DEF Contribution
  <1>4. Sent(p)' = Contribution(p)'
    <2>1. count[p] = Share(p)
      BY <1>1, ReadyMeansAll
    <2>2. Contribution(p) = SubSeq(file.payload[p], 1, Share(p))
      BY ContributionFacts DEF ParserInv, ThreadInv
    <2> QED  BY <1>2, <1>3, <2>1, <2>2, Zenon
  <1>5. phase[p] = "running" /\ phase'[p] = "complete" /\ phase'[p] \notin {"over", "broken", "dropped"}
        /\ phase[p] \notin {"over", "dropped"}
    BY <1>1 DEF Ready, ThreadInv, ThreadType
  <1>6. InputInv(p)' = InputInv(p) /\ BlockReceiverAlive(p)
    BY <1>1, <1>5, Zenon DEF InputInv, BlockReceiverAlive
  <1>7. PartInv(p)
    BY Zenon DEF CallInv
  <1>8. PartInv(p)'
    BY <1>1, <1>4, <1>5, <1>6, <1>7, Zenon DEF PartInv
  <1> QED  BY <1>1, <1>2, <1>5, <1>8, Zenon DEF SendsResult

\* Complete, or the error of the processor, is the last message.
LEMMA SendFinalPart ==
    ASSUME ThreadInv, CallInv, NEW p \in P, SendComplete(p) \/ SendError(p), ResultsAccepted(p)
    PROVE  PartInv(p)' /\ SendsFinal(p)
  <1>1. PartInv(p)
    BY Zenon DEF CallInv
  <1>2. /\ results' = [results EXCEPT ![p] = Append(@, Final(p))]
        /\ phase' = [phase EXCEPT ![p] = "over"] /\ UNCHANGED readers /\ UNCHANGED <<blocks, file, pc, senders, single>>
        /\ phase[p] = "complete" \/ plan[p].ending # "ok"
    <2>1. CASE SendComplete(p)
      <3>1. plan[p].ending = "ok"
        BY <1>1, <2>1, Zenon DEF PartInv, SendComplete
      <3> QED  BY <2>1, <3>1, Zenon DEF SendComplete, Final, ClosureReturns, others, parser
    <2>2. CASE SendError(p)
      <3>1. phase[p] # "broken"
        BY <1>1, Zenon DEF PartInv
      <3>2. plan[p].ending # "ok"
        BY <2>2, <3>1, Zenon DEF SendError
      <3> QED  BY <2>2, <3>1, <3>2, Zenon DEF SendError, Final, ClosureReturns, others, parser
    <2> QED  BY <2>1, <2>2
  <1>3. phase'[p] = "over" /\ phase'[p] \notin {"complete", "broken", "dropped"} /\ ~BlockReceiverAlive(p)'
    BY <1>2 DEF ThreadInv, ThreadType, BlockReceiverAlive
  <1>4. UNCHANGED <<plan, got, count>>
    BY <1>2, Zenon DEF readers
  <1>5. Sent(p)' = Sent(p) /\ Contribution(p)' = Contribution(p)
    BY <1>2, <1>4, Zenon DEF Sent, Contribution
  <1>6. phase[p] = "complete" => phase[p] \in {"complete", "over"}
    OBVIOUS
  <1>7. plan[p].ending = "ok" => Sent(p) = Contribution(p)
    BY <1>1, <1>2, <1>6, Zenon DEF PartInv
  <1>8. PartInv(p)'
    BY <1>1, <1>2, <1>3, <1>4, <1>5, <1>7, Zenon DEF PartInv
  <1> QED  BY <1>2, <1>3, <1>5, <1>8, Zenon DEF SendsFinal

\* A step of a closure that the caller listens to.
LEMMA ClosurePart ==
    ASSUME ParserInv, ThreadInv, BlockInv, CallInv, NEW p \in P, ClosureStep(p), ResultsAccepted(p)
    PROVE  /\ CallInv'
           /\ SendsNothing(p) \/ SendsResult(p) \/ SendsFinal(p)
           /\ \A q \in P : q # p => Sent(q)' = Sent(q) /\ phase'[q] = phase[q]
           /\ BlockReceiverAlive(p) /\ UNCHANGED <<file, plan, pc, receivers, out, verdict, single>>
  <1>1. PICK t : ToCome(p, t)
    BY Zenon DEF BlockInv
  <1>2. /\ \A q \in P : \A u : ToCome(q, u) => ToCome(q, u)'
        /\ \A q \in P : q # p => phase'[q] = phase[q]
        /\ BlockReceiverAlive(p)
        /\ UNCHANGED <<file, pc, senders, receivers, single, out, verdict>>
    BY <1>1, ClosureKeeps
  <1>3. PartInv(p)' /\ (SendsNothing(p) \/ SendsResult(p) \/ SendsFinal(p))
    <2>1. ToCome(p, <<>>) => ToCome(p, <<>>)'
      BY <1>2, Zenon
    <2>2. CASE ReadBuffer(p)
      BY <1>1, <2>1, <2>2, ReadBufferPart
    <2>3. CASE ReadSlow(p)
      BY <1>1, <2>1, <2>3, ReadSlowPart
    <2>4. CASE SendPartial(p)
      BY <1>1, <2>1, <2>4, SendPartialPart
    <2>5. CASE SendLast(p)
      BY <1>1, <2>1, <2>5, SendLastPart
    <2>6. CASE SendComplete(p) \/ SendError(p)
      BY <2>6, SendFinalPart
    <2> QED  BY <2>2, <2>3, <2>4, <2>5, <2>6, Zenon DEF ClosureStep
  <1>4. /\ plan' = plan
        /\ \A q \in P : q # p => /\ end_of_file'[q] = end_of_file[q] /\ blocks'[q] = blocks[q]
                                 /\ got'[q] = got[q] /\ count'[q] = count[q]
    <2>1. plan' = plan
      BY Zenon DEF ClosureStep, ReadBuffer, ReadSlow, SendPartial, SendLast, SendComplete, SendError, readers
    <2>2. /\ blocks \in [P -> Seq(BlockMessages)] /\ end_of_file \in [P -> BOOLEAN]
          /\ got \in [P -> Seq(Byte)] /\ count \in [P -> Nat]
      BY DEF ThreadInv, ThreadType
    <2>3. ASSUME NEW q \in P, q # p PROVE blocks'[q] = blocks[q] /\ end_of_file'[q] = end_of_file[q]
      BY <2>2, <2>3 DEF ClosureStep, ReadBuffer, ReadSlow, SendPartial, SendLast, SendComplete, SendError, readers, channels
    <2>4. ASSUME NEW q \in P, q # p PROVE got'[q] = got[q] /\ count'[q] = count[q]
      BY <2>2, <2>4 DEF ClosureStep, ReadBuffer, ReadSlow, SendPartial, SendLast, SendComplete, SendError, readers
    <2> QED  BY <2>1, <2>3, <2>4
  <1>5. ASSUME NEW q \in P, q # p PROVE PartInv(q)' /\ Sent(q)' = Sent(q)
    <2>1. PartInv(q)
      BY Zenon DEF CallInv
    <2>2. UNCHANGED <<file, plan, senders, single>>
      BY <1>2, <1>4, Zenon
    <2>3. ToCome(q, <<>>) => ToCome(q, <<>>)'
      BY <1>2, Zenon
    <2>4. pc' \in Finishing => pc \in Finishing
      BY <1>2, Zenon
    <2> QED  BY <1>2, <1>4, <1>5, <2>1, <2>2, <2>3, <2>4, PartKept
  <1>6. CallInv'
    <2>1. \A q \in P : PartInv(q)'
      BY <1>3, <1>5, Zenon
    <2> QED  BY <1>2, <2>1, Zenon DEF CallInv
  <1> QED  BY <1>2, <1>3, <1>4, <1>5, <1>6, Zenon

-----------------------------------------------------------------------------
(* The channels of results                                                 *)

ResultMessages ==
    [kind : {"Result", "Complete", "Error"}, data : Seq(Byte),
     why : {Nothing} \cup ({"ok", "err", "panic"} \X P)]

AllResults(c) == \A i \in 1..Len(c) : c[i].kind = "Result"
Closes(c, m) == c # <<>> /\ c[Len(c)] = m /\ \A i \in 1..Len(c) : c[i].kind # "Result" => i = Len(c)

\* A closure that has returned has left its final message, behind all its results.
ChannelInv(p) == IF phase[p] = "over" THEN Closes(results[p], Final(p)) ELSE AllResults(results[p])

\* k is the first partition that is not complete: those before it are, with what they
\* contribute in the output, and what the others have sent is in their channels.
Open(k) ==
    /\ results \in [P -> Seq(ResultMessages)] /\ out \in Seq(Byte)
    /\ receivers = [i \in 1..(N - k) |-> k + i - 1]
    /\ \A p \in P : p < k => phase[p] = "over" /\ plan[p].ending = "ok"
    /\ \A p \in P : p >= k => ChannelInv(p)
    /\ \A p \in P : p > k => DataOf(results[p]) = Sent(p)
    /\ IF k < N THEN out \o DataOf(results[k]) = UpTo(k) \o Sent(k) ELSE out = UpTo(N)

\* The messages, and what they carry.
LEMMA MessageFacts ==
    ASSUME ThreadType
    PROVE  /\ \A m \in ResultMessages : m.data \in Seq(Byte) /\ m.kind \in {"Result", "Complete", "Error"}
           /\ \A d \in Seq(Byte) : /\ Result(d) \in ResultMessages
                                   /\ Result(d).data = d /\ Result(d).kind = "Result"
           /\ \A p \in P : /\ Final(p) \in ResultMessages /\ Final(p).data = <<>>
                           /\ Final(p).kind = IF plan[p].ending = "ok" THEN "Complete" ELSE "Error"
                           /\ Final(p).kind # "Result"
                           /\ plan[p].ending # "ok" => Final(p).why = <<plan[p].ending, p>>
  <1>1. \A d : Result(d).data = d /\ Result(d).kind = "Result"
    BY DEF Result
  <1>2. Complete.data = <<>> /\ Complete.kind = "Complete" /\ Complete.kind # "Result"
    BY DEF Complete
  <1>3. \A w : Error(w).data = <<>> /\ Error(w).kind = "Error" /\ Error(w).why = w /\ Error(w).kind # "Result"
    BY DEF Error
  <1>4. \A d \in Seq(Byte) : Result(d) \in ResultMessages
    BY DEF ResultMessages, Result
  <1>5. <<>> \in Seq(Byte)
    BY EmptySeq
  <1>6. ASSUME NEW m \in ResultMessages PROVE m.data \in Seq(Byte) /\ m.kind \in {"Result", "Complete", "Error"}
    BY <1>6 DEF ResultMessages
  <1>7. ASSUME NEW p \in P
        PROVE  /\ Final(p) \in ResultMessages /\ Final(p).data = <<>>
               /\ Final(p).kind = IF plan[p].ending = "ok" THEN "Complete" ELSE "Error"
               /\ Final(p).kind # "Result"
               /\ plan[p].ending # "ok" => Final(p).why = <<plan[p].ending, p>>
    <2>1. plan[p].ending \in {"ok", "err", "panic"}
      BY DEF ThreadType
    <2>2. Complete \in ResultMessages /\ Error(<<plan[p].ending, p>>) \in ResultMessages
      BY <1>5, <2>1 DEF ResultMessages, Complete, Error
    <2> QED  BY <1>2, <1>3, <2>2, Zenon DEF Final
  <1> QED  BY <1>1, <1>4, <1>6, <1>7, Zenon

\* A result, or the final message, goes behind results.
LEMMA ChannelGrows ==
    ASSUME NEW M, NEW c \in Seq(M), NEW m \in M, AllResults(c)
    PROVE  IF m.kind = "Result" THEN AllResults(Append(c, m)) ELSE Closes(Append(c, m), m)
  <1> DEFINE n == Len(c)
             d == Append(c, m)
  <1>1. n \in Nat
    BY LenProperties
  <1>2. d \in Seq(M) /\ Len(d) = n + 1 /\ d[n + 1] = m /\ \A i \in 1..n : d[i] = c[i]
    BY AppendProperties
  <1>3. d # <<>>
    BY <1>1, <1>2, EmptySeq
  <1> HIDE DEF d, n
  <1>4. ASSUME NEW i \in 1..(n + 1), i # n + 1 PROVE d[i].kind = "Result"
    <2>1. i \in 1..n
      BY <1>1, <1>4
    <2> QED  BY <1>2, <2>1, Zenon DEF AllResults, n
  <1>5. CASE m.kind = "Result"
    <2>1. \A i \in 1..(n + 1) : d[i].kind = "Result"
      BY <1>2, <1>4, <1>5, Zenon
    <2>2. AllResults(d)
      BY <1>2, <2>1, Zenon DEF AllResults
    <2> QED  BY <1>5, <2>2, Zenon DEF d
  <1>6. CASE m.kind # "Result"
    <2>1. Closes(d, m)
      BY <1>2, <1>3, <1>4, Zenon DEF Closes
    <2> QED  BY <1>6, <2>1, Zenon DEF d
  <1> QED  BY <1>5, <1>6

\* The first message is a result that leaves such a channel, or the final one.
LEMMA ChannelShrinks ==
    ASSUME NEW M, NEW c \in Seq(M), c # <<>>
    PROVE  /\ AllResults(c) => Head(c).kind = "Result" /\ AllResults(Tail(c))
           /\ \A m : Closes(c, m) /\ Head(c).kind = "Result" /\ m.kind # "Result" => Closes(Tail(c), m)
           /\ \A m : Closes(c, m) /\ Head(c).kind # "Result" => Head(c) = m /\ Tail(c) = <<>>
  <1> DEFINE n == Len(c)
             r == Tail(c)
  <1>1. n \in Nat /\ n >= 1 /\ Head(c) = c[1]
    BY LenProperties, EmptySeq
  <1>2. r \in Seq(M) /\ Len(r) = n - 1
    BY HeadTailProperties
  <1>3. \A i \in 1..(n - 1) : r[i] = c[i + 1]
    BY <1>2, HeadTailProperties
  <1> HIDE DEF n, r
  <1>4. 1 \in 1..n /\ \A i \in 1..(n - 1) : i + 1 \in 1..n /\ (i + 1 = n <=> i = n - 1)
    BY <1>1
  <1>5. ASSUME AllResults(c) PROVE Head(c).kind = "Result" /\ AllResults(r)
    BY <1>1, <1>2, <1>3, <1>4, <1>5, Zenon DEF AllResults, n
  <1>6. ASSUME NEW m, Closes(c, m), Head(c).kind = "Result", m.kind # "Result" PROVE Closes(r, m)
    <2>1. c[n] = m /\ \A i \in 1..n : c[i].kind # "Result" => i = n
      BY <1>6, Zenon DEF Closes, n
    <2>2. n # 1
      BY <1>1, <1>6, <2>1, Zenon
    <2>3. n - 1 \in 1..(n - 1) /\ (n - 1) + 1 = n /\ n - 1 # 0
      BY <1>1, <2>2
    <2>4. r # <<>>
      BY <1>2, <2>3, EmptySeq
    <2>5. r[n - 1] = m
      BY <1>3, <2>1, <2>3, Zenon
    <2>6. \A i \in 1..(n - 1) : r[i].kind # "Result" => i = n - 1
      BY <1>3, <1>4, <2>1, Zenon
    <2> QED  BY <1>2, <2>4, <2>5, <2>6, Zenon DEF Closes
  <1>7. ASSUME NEW m, Closes(c, m), Head(c).kind # "Result" PROVE Head(c) = m /\ r = <<>>
    <2>1. n = 1 /\ c[n] = m
      BY <1>1, <1>4, <1>7, Zenon DEF Closes, n
    <2>2. Len(r) = 0
      BY <1>2, <2>1
    <2>3. r = <<>>
      BY <1>2, <2>2, EmptySeq
    <2> QED  BY <1>1, <2>1, <2>3, Zenon
  <1> QED  BY <1>5, <1>6, <1>7, Zenon DEF r

\* The receivers that are left.
LEMMA ReceiverFacts ==
    ASSUME NEW k \in 0..N, receivers = [i \in 1..(N - k) |-> k + i - 1]
    PROVE  /\ \A p \in P : ResultsAccepted(p) <=> p >= k
           /\ receivers # <<>> <=> k < N
           /\ k < N => /\ k \in P /\ First = k /\ k + 1 \in 0..N
                       /\ Tail(receivers) = [i \in 1..(N - (k + 1)) |-> (k + 1) + i - 1]
  <1>1. N \in Nat /\ k \in Nat /\ k <= N /\ N - k \in Nat
    BY ReadAssumption
  <1>2. receivers \in [1..(N - k) -> Nat]
    BY <1>1
  <1>3. receivers \in Seq(Nat) /\ Len(receivers) = N - k /\ \A i \in 1..(N - k) : receivers[i] = k + i - 1
    BY <1>1, <1>2
  <1>4. ASSUME NEW p \in P PROVE ResultsAccepted(p) <=> p >= k
    <2>1. p \in Nat /\ p < N
      BY <1>1 DEF P
    <2>2. ASSUME ResultsAccepted(p) PROVE p >= k
      <3>1. PICK i \in 1..(N - k) : p = k + i - 1
        BY <2>2 DEF ResultsAccepted, Range
      <3> QED  BY <1>1, <3>1
    <2>3. ASSUME p >= k PROVE ResultsAccepted(p)
      <3>1. PICK i : i = p - k + 1
        OBVIOUS
      <3>2. i \in 1..(N - k) /\ k + i - 1 = p
        BY <1>1, <2>1, <2>3, <3>1
      <3>3. receivers[i] = p /\ i \in DOMAIN receivers
        BY <1>2, <1>3, <3>2
      <3> QED  BY <3>3, Zenon DEF ResultsAccepted, Range
    <2> QED  BY <2>2, <2>3
  <1>5. receivers # <<>> <=> k < N
    <2>1. receivers = <<>> <=> N - k = 0
      BY <1>3, EmptySeq
    <2> QED  BY <1>1, <2>1
  <1>6. ASSUME k < N
        PROVE  /\ k \in P /\ First = k /\ k + 1 \in 0..N
               /\ Tail(receivers) = [i \in 1..(N - (k + 1)) |-> (k + 1) + i - 1]
    <2> DEFINE r == Tail(receivers)
               f == [i \in 1..(N - (k + 1)) |-> (k + 1) + i - 1]
    <2>1. k \in P /\ k + 1 \in 0..N
      BY <1>1, <1>6 DEF P
    <2>2. 1 \in 1..(N - k) /\ k + 1 - 1 = k
      BY <1>1, <1>6
    <2>3. Head(receivers) = receivers[1]
      BY <1>3, <1>5, <1>6
    <2>4. First = k
      BY <1>3, <2>2, <2>3, Zenon DEF First
    <2>5. r \in Seq(Nat) /\ Len(r) = N - k - 1
      BY <1>3, <1>5, <1>6, HeadTailProperties
    <2>6. \A i \in 1..(N - k - 1) : r[i] = receivers[i + 1]
      BY <1>3, <1>5, <1>6, <2>5, HeadTailProperties
    <2>7. N - (k + 1) = N - k - 1 /\ N - (k + 1) \in Nat
      BY <1>1, <1>6
    <2>8. f \in [1..(N - (k + 1)) -> Nat]
      BY <1>1, <2>7
    <2>9. f \in Seq(Nat) /\ Len(f) = N - (k + 1)
      BY <2>7, <2>8
    <2>10. ASSUME NEW i \in 1..(N - (k + 1)) PROVE r[i] = f[i]
      <3>1. i \in 1..(N - k - 1) /\ i + 1 \in 1..(N - k) /\ k + (i + 1) - 1 = (k + 1) + i - 1
        BY <1>1, <2>7
      <3>2. receivers[i + 1] = k + (i + 1) - 1
        BY <1>3, <3>1, Zenon
      <3> QED  BY <2>6, <3>1, <3>2, Zenon
    <2> HIDE DEF r, f
    <2>11. Len(r) = Len(f) /\ \A i \in 1..Len(r) : r[i] = f[i]
      BY <2>5, <2>7, <2>9, <2>10, Zenon
    <2>12. r = f
      BY <2>5, <2>9, <2>11, SeqEqual
    <2> QED  BY <2>1, <2>4, <2>12 DEF r, f
  <1> QED  BY <1>4, <1>5, <1>6

-----------------------------------------------------------------------------
(* Results and messages                                                    *)

\* Steps that leave the results alone.
LEMMA OpenKept ==
    ASSUME NEW k \in 0..N, Open(k), UNCHANGED <<file, plan, results, out, receivers>>,
           \A p \in P : Sent(p)' = Sent(p) /\ (phase'[p] = "over" <=> phase[p] = "over")
    PROVE  Open(k)'
  <1>1. \A n : UpTo(n)' = UpTo(n)
    BY Zenon DEF UpTo, Contribution
  <1>2. \A p \in P : Final(p)' = Final(p)
    BY Zenon DEF Final
  <1>3. \A p \in P : ChannelInv(p) => ChannelInv(p)'
    BY <1>2, Zenon DEF ChannelInv
  <1>4. k < N => k \in P
    BY ReadAssumption DEF P
  <1>5. IF k < N THEN out' \o DataOf(results[k])' = UpTo(k)' \o Sent(k)' ELSE out' = UpTo(N)'
    BY <1>1, <1>4, Zenon DEF Open
  <1>6. \A p \in P : p > k => DataOf(results[p])' = Sent(p)'
    BY Zenon DEF Open
  <1>7. \A p \in P : p < k => phase'[p] = "over" /\ plan'[p].ending = "ok"
    BY Zenon DEF Open
  <1>8. \A p \in P : p >= k => ChannelInv(p)'
    BY <1>3, Zenon DEF Open
  <1> QED  BY <1>5, <1>6, <1>7, <1>8, Zenon DEF Open

\* A step of a closure puts what it sends behind what it has sent.
LEMMA ClosureOpen ==
    ASSUME ParserInv, ThreadInv, BlockInv, CallInv, NEW k \in 0..N, Open(k),
           NEW p \in P, ClosureStep(p)
    PROVE  CallInv' /\ Open(k)'
  <1>1. receivers = [i \in 1..(N - k) |-> k + i - 1] /\ results \in [P -> Seq(ResultMessages)] /\ out \in Seq(Byte)
    BY Zenon DEF Open
  <1>2. PICK t : ToCome(p, t)
    BY Zenon DEF BlockInv
  <1>3. BlockReceiverAlive(p)
    BY <1>2, ClosureKeeps
  <1>4. p \in Nat /\ k \in Nat /\ p >= k
    <2>1. p \in Nat /\ k \in Nat
      BY ReadAssumption DEF P
    <2>2. ~(p < k)
      BY <1>3, Zenon DEF Open, BlockReceiverAlive
    <2> QED  BY <2>1, <2>2
  <1>5. ResultsAccepted(p)
    BY <1>1, <1>4, ReceiverFacts
  <1>6. /\ CallInv'
        /\ SendsNothing(p) \/ SendsResult(p) \/ SendsFinal(p)
        /\ \A q \in P : q # p => Sent(q)' = Sent(q) /\ phase'[q] = phase[q]
        /\ UNCHANGED <<file, plan, receivers, out>>
    BY <1>5, ClosurePart
  <1>7. phase[p] # "over"
    BY <1>3, Zenon DEF BlockReceiverAlive
  <1>8. ThreadType /\ got[p] \in Seq(Byte)
    BY PartTypes DEF ThreadInv
  <1>9. Sent(p) \in Seq(Byte)
    BY <1>2, SentFacts
  <1>10. PICK c : c = results[p]
    OBVIOUS
  <1>11. c \in Seq(ResultMessages) /\ AllResults(c)
    <2>1. ChannelInv(p)
      BY <1>4, Zenon DEF Open
    <2>2. c \in Seq(ResultMessages)
      BY <1>1, <1>10
    <2> QED  BY <1>7, <1>10, <2>1, <2>2, Zenon DEF ChannelInv
  <1>12. DataOf(c) \in Seq(Byte)
    <2>1. \A m \in ResultMessages : m.data \in Seq(Byte)
      BY <1>8, MessageFacts
    <2> QED  BY <1>11, <2>1, DataOfType
  <1>13. \A q \in P : Final(q)' = Final(q)
    BY <1>6, Zenon DEF Final
  <1>14. CASE SendsNothing(p)
    <2>1. UNCHANGED <<file, plan, results, out, receivers>>
      BY <1>6, <1>14, Zenon DEF SendsNothing
    <2>2. \A q \in P : Sent(q)' = Sent(q) /\ (phase'[q] = "over" <=> phase[q] = "over")
      BY <1>6, <1>7, <1>14, Zenon DEF SendsNothing
    <2>3. Open(k)'
      BY <2>1, <2>2, OpenKept
    <2> QED  BY <1>6, <2>3
  <1>15. ASSUME NEW m \in ResultMessages, results' = [results EXCEPT ![p] = Append(@, m)],
                Sent(p)' = Sent(p) \o m.data,
                m.kind = "Result" => phase'[p] # "over",
                m.kind # "Result" => phase'[p] = "over" /\ m = Final(p)
         PROVE  Open(k)'
    <2>1. Append(c, m) \in Seq(ResultMessages)
      BY <1>11, AppendProperties
    <2>2. /\ results' \in [P -> Seq(ResultMessages)] /\ results'[p] = Append(c, m)
          /\ \A q \in P : q # p => results'[q] = results[q]
      BY <1>1, <1>10, <1>15, <2>1
    <2>3. DataOf(Append(c, m)) = DataOf(c) \o m.data
      <3>1. \A x \in ResultMessages : x.data \in Seq(Byte)
        BY <1>8, MessageFacts
      <3> QED  BY <1>11, <3>1, DataOfAppend
    <2>4. m.data \in Seq(Byte)
      BY <1>8, MessageFacts
    <2>5. IF m.kind = "Result" THEN AllResults(Append(c, m)) ELSE Closes(Append(c, m), m)
      BY <1>11, ChannelGrows
    <2>6. ChannelInv(p)'
      BY <1>13, <1>15, <2>2, <2>5, Zenon DEF ChannelInv
    <2>7. \A q \in P : q # p /\ ChannelInv(q) => ChannelInv(q)'
      BY <1>6, <1>13, <2>2, Zenon DEF ChannelInv
    <2>8. \A q \in P : q >= k => ChannelInv(q)'
      BY <2>6, <2>7, Zenon DEF Open
    <2>9. ASSUME NEW q \in P, q > k PROVE DataOf(results'[q]) = Sent(q)'
      <3>1. DataOf(results[q]) = Sent(q)
        BY <2>9, Zenon DEF Open
      <3>2. CASE q # p
        BY <1>6, <2>2, <3>1, <3>2, Zenon
      <3>3. CASE q = p
        BY <1>10, <1>15, <2>2, <2>3, <3>1, <3>3, Zenon
      <3> QED  BY <3>2, <3>3
    <2>10. \A n : UpTo(n)' = UpTo(n)
      BY <1>6, Zenon DEF UpTo, Contribution
    <2>11. k < N /\ k \in P
      BY <1>4, ReadAssumption DEF P
    <2>12. out \o DataOf(results[k]) = UpTo(k) \o Sent(k)
      BY <2>11, Zenon DEF Open
    <2>13. out \o DataOf(results'[k]) = UpTo(k) \o Sent(k)'
      <3>1. CASE k # p
        BY <1>6, <2>2, <2>11, <2>12, <3>1, Zenon
      <3>2. CASE k = p
        <4>1. PICK u : u = UpTo(k)
          OBVIOUS
        <4>2. u \in Seq(Byte)
          BY <4>1, <1>8, UpToFacts DEF ParserInv
        <4>3. PICK a : a = Sent(p)
          OBVIOUS
        <4>4. PICK d : d = DataOf(c)
          OBVIOUS
        <4>5. PICK e : e = m.data
          OBVIOUS
        <4>6. PICK o : o = out
          OBVIOUS
        <4>7. a \in Seq(Byte) /\ d \in Seq(Byte) /\ e \in Seq(Byte) /\ o \in Seq(Byte)
          BY <1>1, <1>9, <1>12, <2>4, <4>3, <4>4, <4>5, <4>6, Zenon
        <4>8. o \o d = u \o a
          BY <1>10, <2>12, <3>2, <4>1, <4>3, <4>4, <4>6, Zenon
        <4>9. Associates(o, d, e)
          BY <4>7, Associate
        <4>10. Associates(u, a, e)
          BY <4>2, <4>7, Associate
        <4>11. o \o (d \o e) = u \o (a \o e)
          BY <4>8, <4>9, <4>10, Zenon DEF Associates
        <4> QED  BY <1>15, <2>2, <2>3, <3>2, <4>1, <4>3, <4>4, <4>5, <4>6, <4>11, Zenon
      <3> QED  BY <3>1, <3>2
    <2>14. IF k < N THEN out' \o DataOf(results[k])' = UpTo(k)' \o Sent(k)' ELSE out' = UpTo(N)'
      BY <1>6, <2>10, <2>11, <2>13, Zenon
    <2>15. ASSUME NEW q \in P, q < k PROVE phase'[q] = "over" /\ plan'[q].ending = "ok"
      <3>1. q # p
        BY <1>7, <2>15, Zenon DEF Open
      <3> QED  BY <1>6, <2>15, <3>1, Zenon DEF Open
    <2>16. receivers' = [i \in 1..(N - k) |-> k + i - 1] /\ out' \in Seq(Byte)
      BY <1>1, <1>6, Zenon
    <2> QED  BY <2>2, <2>8, <2>9, <2>14, <2>15, <2>16, Zenon DEF Open
  <1>16. CASE SendsResult(p)
    <2>1. PICK m : m = Result(got[p])
      OBVIOUS
    <2>2. m \in ResultMessages /\ m.data = got[p] /\ m.kind = "Result"
      BY <1>8, <2>1, MessageFacts
    <2> QED  BY <1>6, <1>15, <1>16, <2>1, <2>2, Zenon DEF SendsResult
  <1>17. CASE SendsFinal(p)
    <2>1. PICK m : m = Final(p)
      OBVIOUS
    <2>2. m \in ResultMessages /\ m.data = <<>> /\ m.kind # "Result"
      BY <1>8, <2>1, MessageFacts
    <2>3. Sent(p) \o m.data = Sent(p)
      BY <1>9, <2>2, ConcatEmptySeq
    <2> QED  BY <1>6, <1>15, <1>17, <2>1, <2>2, <2>3, Zenon DEF SendsFinal
  <1> QED  BY <1>6, <1>14, <1>16, <1>17

\* Steps that leave the closures alone.
LEMMA FrameKeeps ==
    ASSUME CallInv, UNCHANGED file, UNCHANGED readers,
           UNCHANGED <<blocks, senders, single, phase>>, pc' \in Reading \cup Finishing,
           pc' \in Reading => pc \in Reading, pc' \in Finishing => pc \in Finishing
    PROVE  CallInv' /\ \A p \in P : Sent(p)' = Sent(p)
  <1>1. UNCHANGED <<plan, current_buffer, end_of_file, got, count>> /\ From' = From
    BY DEF readers, From, Body
  <1>2. ASSUME NEW p \in P PROVE PartInv(p)' /\ Sent(p)' = Sent(p)
    <2>1. PartInv(p)
      BY Zenon DEF CallInv
    <2>2. ToCome(p, <<>>) => ToCome(p, <<>>)'
      BY <1>1, Zenon DEF ToCome, Holds
    <2>3. UNCHANGED <<file, plan, senders, single>>
      BY <1>1, Zenon
    <2>4. /\ phase'[p] = phase[p] /\ end_of_file'[p] = end_of_file[p] /\ blocks'[p] = blocks[p]
          /\ got'[p] = got[p] /\ count'[p] = count[p]
      BY <1>1, Zenon
    <2> QED  BY <2>1, <2>2, <2>3, <2>4, PartKept
  <1> QED  BY <1>2, Zenon DEF CallInv

\* What was sent is part of the contribution.
LEMMA SentContinues ==
    ASSUME ParserInv, ThreadInv, BlockInv, CallInv, NEW k \in P
    PROVE  /\ Sent(k) \in Seq(Byte) /\ UpTo(k) \in Seq(Byte)
           /\ Continues(UpTo(k) \o Sent(k), UpTo(N), Byte)
  <1>1. PICK t : ToCome(k, t)
    BY Zenon DEF BlockInv
  <1>2. PICK a : a = count[k] - Len(got[k])
    OBVIOUS
  <1>3. PICK f : f = Contribution(k)
    OBVIOUS
  <1>4. PICK u : u = UpTo(k)
    OBVIOUS
  <1>5. /\ file.payload[k] \in Seq(Byte) /\ Len(file.payload[k]) \in Nat
        /\ Share(k) \in 0..Len(file.payload[k])
        /\ f = SubSeq(file.payload[k], 1, Share(k)) /\ f \in Seq(Byte) /\ Len(f) = Share(k)
        /\ plan[k].want \in Nat
    BY <1>3, ContributionFacts DEF ParserInv, ThreadInv
  <1>6. /\ Sent(k) \in Seq(Byte) /\ a \in Nat /\ a <= count[k]
        /\ count[k] \in Nat /\ count[k] <= Len(file.payload[k])
    BY <1>1, <1>2, SentFacts, ReadFacts
  <1>7. count[k] <= plan[k].want
    BY Zenon DEF CallInv, PartInv
  <1>8. a <= Share(k) /\ Share(k) \in Nat /\ Share(k) <= Len(file.payload[k])
    BY <1>5, <1>6, <1>7 DEF Share, Least
  <1>9. Sent(k) = SubSeq(f, 1, a)
    <2>1. SubSeq(SubSeq(file.payload[k], 1, Share(k)), 1, a) = SubSeq(file.payload[k], 1, a)
      BY <1>5, <1>6, <1>8, PrefixOfPrefix
    <2> QED  BY <1>2, <1>5, <2>1, Zenon DEF Sent
  <1>10. /\ u \in Seq(Byte) /\ k + 1 \in 0..N
         /\ UpTo(k + 1) = u \o f /\ Continues(UpTo(k + 1), UpTo(N), Byte)
    <2>1. k \in 0..N
      BY ReadAssumption DEF P
    <2>2. ParserType /\ ThreadType
      BY DEF ParserInv, ThreadInv
    <2>3. k + 1 \in 0..N /\ UpTo(k + 1) = UpTo(k) \o Contribution(k)
      BY <2>2, UpToFacts
    <2> QED  BY <1>3, <1>4, <2>1, <2>2, <2>3, UpToFacts
  <1>11. a \in 0..Len(f)
    BY <1>5, <1>6, <1>8
  <1>12. PICK w : w = UpTo(N)
    OBVIOUS
  <1>13. Continues(u \o f, w, Byte)
    BY <1>10, <1>12, Zenon
  <1>14. Continues(u \o SubSeq(f, 1, a), w, Byte)
    BY <1>5, <1>10, <1>11, <1>13, PartContinues
  <1> QED  BY <1>4, <1>6, <1>9, <1>10, <1>12, <1>14, Zenon

\* The output is a beginning of the contributions, in the order of the partitions.
LEMMA OpenInOrder ==
    ASSUME ParserInv, ThreadInv, BlockInv, CallInv, NEW k \in 0..N, Open(k)
    PROVE  ResultsInOrder
  <1>1. PICK w : w = UpTo(N)
    OBVIOUS
  <1>2. PICK o : o = out
    OBVIOUS
  <1>3. o \in Seq(Byte)
    BY <1>2, Zenon DEF Open
  <1>4. Continues(o, w, Byte)
    <2>1. CASE k < N
      <3>1. k \in P
        BY <2>1, ReadAssumption DEF P
      <3>2. PICK d : d = DataOf(results[k])
        OBVIOUS
      <3>3. d \in Seq(Byte)
        <4>1. \A m \in ResultMessages : m.data \in Seq(Byte)
          BY MessageFacts DEF ThreadInv
        <4>2. results[k] \in Seq(ResultMessages)
          BY <3>1, Zenon DEF Open
        <4> QED  BY <3>2, <4>1, <4>2, DataOfType
      <3>4. o \o d = UpTo(k) \o Sent(k)
        BY <1>2, <2>1, <3>2, Zenon DEF Open
      <3>5. Continues(o \o d, w, Byte)
        BY <1>1, <3>1, <3>4, SentContinues, Zenon
      <3>6. PICK t \in Seq(Byte) : w = (o \o d) \o t
        BY <3>5, Zenon DEF Continues
      <3>7. Associates(o, d, t)
        BY <1>3, <3>3, Associate
      <3>8. d \o t \in Seq(Byte) /\ w = o \o (d \o t)
        BY <3>3, <3>6, <3>7, ConcatProperties, Zenon DEF Associates
      <3> QED  BY <3>8, Zenon DEF Continues
    <2>2. CASE ~(k < N)
      <3>1. o = w
        BY <1>1, <1>2, <2>2, Zenon DEF Open
      <3>2. <<>> \in Seq(Byte) /\ o \o <<>> = o
        BY <1>3, EmptySeq, ConcatEmptySeq
      <3> QED  BY <3>1, <3>2, Zenon DEF Continues
    <2> QED  BY <2>1, <2>2
  <1>5. IsPrefix(o, w)
    BY <1>3, <1>4, ContinuesIsPrefix
  <1> QED  BY <1>1, <1>2, <1>5, Zenon DEF ResultsInOrder

\* What is known once the call has ended.
DoneInv == ResultsInOrder /\ VerdictJustified

\* A step that ends the call without touching the output.
LEMMA EndsInOrder ==
    ASSUME ParserInv, ThreadInv, BlockInv, CallInv, NEW k \in 0..N, Open(k),
           UNCHANGED <<file, plan, out>>
    PROVE  ResultsInOrder'
  <1>1. ResultsInOrder
    BY OpenInOrder
  <1>2. UpTo(N)' = UpTo(N)
    BY Zenon DEF UpTo, Contribution
  <1> QED  BY <1>1, <1>2, Zenon DEF ResultsInOrder

\* The error of a processor ends the call: everything before it was handed out.
LEMMA ErrorEnds ==
    ASSUME ParserInv, ThreadInv, BlockInv, CallInv, NEW k \in P, Open(k), plan[k].ending # "ok",
           DataOf(results[k]) = <<>>, verdict' = <<plan[k].ending, k>>, UNCHANGED <<file, plan, out>>
    PROVE  DoneInv'
  <1>1. k \in 0..N /\ k < N /\ \A q \in 0..(k - 1) : q \in P /\ q < k
    BY ReadAssumption DEF P
  <1>2. ResultsInOrder'
    BY <1>1, EndsInOrder
  <1>3. PICK e : e = plan[k].ending
    OBVIOUS
  <1>4. e \in {"err", "panic"}
    BY <1>3 DEF ThreadInv, ThreadType
  <1>5. verdict'[1] = e /\ verdict'[2] = k /\ plan'[k].ending = e
    BY <1>3
  <1>6. \A q \in 0..(k - 1) : plan'[q].ending = "ok"
    BY <1>1, Zenon DEF Open
  <1>7. IsPrefix(UpTo(k)', out')
    <2>1. PICK u : u = UpTo(k)
      OBVIOUS
    <2>2. PICK s : s = Sent(k)
      OBVIOUS
    <2>3. u \in Seq(Byte) /\ s \in Seq(Byte)
      BY <2>1, <2>2, SentContinues
    <2>4. out \o <<>> = out
      BY ConcatEmptySeq DEF Open
    <2>5. out = u \o s
      BY <1>1, <2>1, <2>2, <2>4, Zenon DEF Open
    <2>6. IsPrefix(u, u \o s)
      BY <2>3, ConcatIsPrefix
    <2>7. UpTo(k)' = UpTo(k)
      BY Zenon DEF UpTo, Contribution
    <2> QED  BY <2>1, <2>5, <2>6, <2>7, Zenon
  <1>8. VerdictJustified'
    BY <1>4, <1>5, <1>6, <1>7, Zenon DEF VerdictJustified
  <1> QED  BY <1>2, <1>8 DEF DoneInv

\* A message of the first channel that is open: a result goes to the output, Complete
\* opens the next channel, an error ends the call.
LEMMA MessageTaken ==
    ASSUME ParserInv, ThreadInv, BlockInv, CallInv, NEW k \in 0..N, Open(k),
           NEW next \in Reading \cup Finishing, TakeFrontMessage(next),
           next \in Reading => pc \in Reading, next \in Finishing => pc \in Finishing
    PROVE  IF pc' = "done" THEN DoneInv' ELSE CallInv' /\ \E j \in 0..N : Open(j)'
  <1>1. receivers = [i \in 1..(N - k) |-> k + i - 1] /\ results \in [P -> Seq(ResultMessages)] /\ out \in Seq(Byte)
    BY Zenon DEF Open
  <1>2. /\ k < N /\ k \in P /\ First = k /\ k + 1 \in 0..N
        /\ Tail(receivers) = [i \in 1..(N - (k + 1)) |-> (k + 1) + i - 1]
    <2>1. k < N
      BY <1>1, ReceiverFacts DEF TakeFrontMessage
    <2> QED  BY <1>1, <2>1, ReceiverFacts
  <1>3. PICK c : c = results[k]
    OBVIOUS
  <1>4. PICK m : m = Head(c)
    OBVIOUS
  <1>5. /\ c # <<>> /\ results' = [results EXCEPT ![k] = Tail(@)]
        /\ \/ m.kind = "Result" /\ out' = out \o m.data /\ pc' = next /\ UNCHANGED <<senders, receivers, verdict>>
           \/ m.kind = "Complete" /\ receivers' = Tail(receivers) /\ UNCHANGED <<pc, senders, out, verdict>>
           \/ m.kind = "Error" /\ Fail(m.why) /\ UNCHANGED out
        /\ UNCHANGED <<phase, blocks, single>> /\ UNCHANGED file /\ UNCHANGED readers
    BY <1>2, <1>3, <1>4, Zenon DEF TakeFrontMessage, parser, threads
  <1>6. UNCHANGED <<file, plan>>
    BY <1>5, Zenon DEF readers
  <1>7. ThreadType
    BY DEF ThreadInv
  <1>8. c \in Seq(ResultMessages) /\ ChannelInv(k)
    <2>1. c \in Seq(ResultMessages)
      BY <1>1, <1>2, <1>3
    <2>2. k >= k
      BY ReadAssumption
    <2> QED  BY <1>2, <2>1, <2>2, Zenon DEF Open
  <1>9. /\ m \in ResultMessages /\ Tail(c) \in Seq(ResultMessages)
        /\ m.data \in Seq(Byte) /\ DataOf(c) \in Seq(Byte) /\ DataOf(Tail(c)) \in Seq(Byte)
        /\ DataOf(c) = m.data \o DataOf(Tail(c))
    <2>1. m \in ResultMessages /\ Tail(c) \in Seq(ResultMessages)
      BY <1>4, <1>5, <1>8, HeadTailProperties
    <2>2. \A x \in ResultMessages : x.data \in Seq(Byte)
      BY <1>7, MessageFacts
    <2>3. DataOf(c) \in Seq(Byte)
      BY <1>8, <2>2, DataOfType
    <2>4. DataOf(Tail(c)) \in Seq(Byte)
      BY <2>1, <2>2, DataOfType
    <2>5. DataOf(c) = Head(c).data \o DataOf(Tail(c))
      BY <1>5, <1>8, <2>2, DataOfTail
    <2> QED  BY <1>4, <2>1, <2>2, <2>3, <2>4, <2>5, Zenon
  <1>10. /\ results' \in [P -> Seq(ResultMessages)] /\ results'[k] = Tail(c)
         /\ \A q \in P : q # k => results'[q] = results[q]
    BY <1>1, <1>2, <1>3, <1>5, <1>9
  <1>11. /\ Final(k).data = <<>> /\ Final(k).kind # "Result"
         /\ Final(k).kind = IF plan[k].ending = "ok" THEN "Complete" ELSE "Error"
         /\ plan[k].ending # "ok" => Final(k).why = <<plan[k].ending, k>>
    BY <1>2, <1>7, MessageFacts
  <1>12. /\ AllResults(c) => m.kind = "Result" /\ AllResults(Tail(c))
         /\ Closes(c, Final(k)) /\ m.kind = "Result" => Closes(Tail(c), Final(k))
         /\ Closes(c, Final(k)) /\ m.kind # "Result" => m = Final(k) /\ Tail(c) = <<>>
    BY <1>4, <1>5, <1>8, <1>11, ChannelShrinks
  <1>13. m.kind # "Result" => /\ phase[k] = "over" /\ m = Final(k)
                              /\ DataOf(c) = <<>>
    <2> SUFFICES ASSUME m.kind # "Result" PROVE phase[k] = "over" /\ m = Final(k) /\ DataOf(c) = <<>>
      OBVIOUS
    <2>1. phase[k] = "over" /\ m = Final(k) /\ Tail(c) = <<>>
      BY <1>3, <1>8, <1>12, Zenon DEF ChannelInv
    <2>2. PICK r : r = Tail(c)
      OBVIOUS
    <2>3. r \in Seq(ResultMessages) /\ r = <<>>
      BY <1>9, <2>1, <2>2, Zenon
    <2>4. \A x \in ResultMessages : x.data \in Seq(Byte)
      BY <1>7, MessageFacts
    <2>5. DataOf(r) = <<>>
      BY <2>3, <2>4, DataOfType
    <2>6. DataOf(c) = <<>> \o <<>>
      BY <1>9, <1>11, <2>1, <2>2, <2>5, Zenon
    <2>7. <<>> \o <<>> = <<>>
      BY ConcatEmptySeq, EmptySeq
    <2> QED  BY <2>1, <2>6, <2>7, Zenon
  <1>14. /\ \A n : UpTo(n)' = UpTo(n)
         /\ \A q \in P : Final(q)' = Final(q)
    BY <1>6, Zenon DEF UpTo, Contribution, Final
  <1>15. \A q \in P : q # k /\ ChannelInv(q) => ChannelInv(q)'
    BY <1>5, <1>10, <1>14, Zenon DEF ChannelInv
  <1>16. pc # "done" /\ (next # "done")
    BY DEF CallInv, Reading, Finishing
  <1>17. CASE m.kind = "Result"
    <2>1. out' = out \o m.data /\ pc' = next /\ UNCHANGED <<senders, receivers>>
      BY <1>5, <1>17
    <2>2. UNCHANGED <<blocks, senders, single, phase>> /\ pc' \in Reading \cup Finishing
      BY <1>5, <2>1, Zenon
    <2>3. CallInv' /\ \A p \in P : Sent(p)' = Sent(p)
      BY <1>5, <2>1, <2>2, FrameKeeps
    <2>4. ChannelInv(k)'
      BY <1>2, <1>3, <1>5, <1>8, <1>10, <1>12, <1>14, <1>17, Zenon DEF ChannelInv
    <2>5. \A q \in P : q >= k => ChannelInv(q)'
      BY <1>15, <2>4, Zenon DEF Open
    <2>6. ASSUME NEW q \in P, q > k PROVE DataOf(results'[q]) = Sent(q)'
      <3>1. q # k
        BY <2>6, ReadAssumption DEF P
      <3> QED  BY <1>10, <2>3, <2>6, <3>1, Zenon DEF Open
    <2>7. out' \in Seq(Byte) /\ out' \o DataOf(results'[k]) = UpTo(k)' \o Sent(k)'
      <3>1. PICK o : o = out
        OBVIOUS
      <3>2. PICK h : h = m.data
        OBVIOUS
      <3>3. PICK d : d = DataOf(Tail(c))
        OBVIOUS
      <3>4. o \in Seq(Byte) /\ h \in Seq(Byte) /\ d \in Seq(Byte)
        BY <1>1, <1>9, <3>1, <3>2, <3>3, Zenon
      <3>5. o \o h \in Seq(Byte)
        BY <3>4, ConcatProperties
      <3>6. Associates(o, h, d)
        BY <3>4, Associate
      <3>7. o \o (h \o d) = UpTo(k) \o Sent(k)
        BY <1>2, <1>3, <1>9, <3>1, <3>2, <3>3, Zenon DEF Open
      <3> QED  BY <1>2, <1>10, <1>14, <2>1, <2>3, <3>1, <3>2, <3>3, <3>5, <3>6, <3>7, Zenon DEF Associates
    <2>8. \A q \in P : q < k => phase'[q] = "over" /\ plan'[q].ending = "ok"
      BY <1>5, <1>6, Zenon DEF Open
    <2>9. receivers' = [i \in 1..(N - k) |-> k + i - 1]
      BY <1>1, <2>1, Zenon
    <2>10. Open(k)'
      BY <1>2, <1>10, <2>5, <2>6, <2>7, <2>8, <2>9, Zenon DEF Open
    <2> QED  BY <1>16, <2>1, <2>3, <2>10, Zenon
  <1>18. CASE m.kind = "Complete"
    <2>1. receivers' = Tail(receivers) /\ UNCHANGED <<pc, senders, out, verdict>>
      BY <1>5, <1>18
    <2>2. UNCHANGED <<blocks, senders, single, phase>> /\ pc' = pc
      BY <1>5, <2>1, Zenon
    <2>3. pc' \in Reading \cup Finishing
      BY <2>2, Zenon DEF CallInv
    <2>4. CallInv' /\ \A p \in P : Sent(p)' = Sent(p)
      BY <1>5, <2>2, <2>3, FrameKeeps
    <2>5. phase[k] = "over" /\ m = Final(k) /\ DataOf(c) = <<>>
      BY <1>13, <1>18
    <2>6. plan[k].ending = "ok"
      BY <1>11, <1>18, <2>5
    <2>7. Sent(k) = Contribution(k)
      <3>1. PartInv(k) /\ phase[k] \in {"complete", "over"}
        BY <1>2, <2>5 DEF CallInv
      <3> QED  BY <2>6, <3>1, Zenon DEF PartInv
    <2>8. out = UpTo(k + 1)
      <3>1. out \o <<>> = UpTo(k) \o Contribution(k)
        BY <1>2, <1>3, <2>5, <2>7, Zenon DEF Open
      <3>2. out \o <<>> = out
        BY <1>1, ConcatEmptySeq
      <3>3. UpTo(k + 1) = UpTo(k) \o Contribution(k)
        BY <1>2, <1>7, UpToFacts DEF ParserInv
      <3> QED  BY <3>1, <3>2, <3>3, Zenon
    <2>9. \A q \in P : (q >= k + 1 => q >= k /\ q > k /\ q # k) /\ (q > k + 1 => q > k /\ q # k)
                       /\ (q < k + 1 => q < k \/ q = k)
      BY ReadAssumption DEF P
    <2>10. \A q \in P : q >= k + 1 => ChannelInv(q)'
      BY <1>15, <2>9, Zenon DEF Open
    <2>11. \A q \in P : q > k => DataOf(results'[q]) = Sent(q)'
      <3>1. \A q \in P : q > k => q # k
        BY ReadAssumption DEF P
      <3> QED  BY <1>10, <2>4, <3>1, Zenon DEF Open
    <2>12. \A q \in P : q > k + 1 => DataOf(results'[q]) = Sent(q)'
      BY <2>9, <2>11, Zenon
    <2>13. \A q \in P : q < k + 1 => phase'[q] = "over" /\ plan'[q].ending = "ok"
      BY <1>5, <1>6, <2>5, <2>6, <2>9, Zenon DEF Open
    <2>14. IF k + 1 < N THEN out' \o DataOf(results'[k + 1]) = UpTo(k + 1)' \o Sent(k + 1)' ELSE out' = UpTo(N)'
      <3>1. CASE k + 1 < N
        <4>1. k + 1 \in P /\ k + 1 > k
          BY <1>2, <3>1, ReadAssumption DEF P
        <4> QED  BY <1>14, <2>1, <2>8, <2>11, <3>1, <4>1, Zenon
      <3>2. CASE ~(k + 1 < N)
        <4>1. k + 1 = N
          BY <1>2, <3>2, ReadAssumption
        <4> QED  BY <1>14, <2>1, <2>8, <3>2, <4>1, Zenon
      <3> QED  BY <3>1, <3>2
    <2>15. receivers' = [i \in 1..(N - (k + 1)) |-> (k + 1) + i - 1] /\ out' \in Seq(Byte)
      BY <1>1, <1>2, <2>1, Zenon
    <2>16. Open(k + 1)'
      BY <1>10, <2>10, <2>12, <2>13, <2>14, <2>15, Zenon DEF Open
    <2> QED  BY <1>2, <1>16, <2>2, <2>4, <2>16, Zenon
  <1>19. CASE m.kind = "Error"
    <2>1. Fail(m.why) /\ UNCHANGED out
      BY <1>5, <1>19
    <2>2. m = Final(k) /\ DataOf(c) = <<>>
      BY <1>13, <1>19
    <2>3. plan[k].ending # "ok"
      BY <1>11, <1>19, <2>2
    <2>4. pc' = "done" /\ verdict' = <<plan[k].ending, k>> /\ DataOf(results[k]) = <<>>
      BY <1>3, <1>11, <2>1, <2>2, <2>3, Zenon DEF Fail
    <2>5. UNCHANGED <<file, plan, out>>
      BY <1>6, <2>1, Zenon
    <2>6. DoneInv'
      BY <1>2, <2>3, <2>4, <2>5, ErrorEnds
    <2> QED  BY <2>4, <2>6
  <1> QED  BY <1>5, <1>17, <1>18, <1>19, Zenon

-----------------------------------------------------------------------------
(* What the parser knows of the file                                       *)

\* When the parser has everything and can go no further, it is where its blocks stop.
LEMMA ParserStops ==
    ASSUME ParserInv, StarvedInv, pc = "verify", Len(file.bytes) >= 4, NEW b \in Nat, AtBlock(b)
    PROVE  /\ b \in 1..(Len(Body) + 1) /\ Parsed \in 0..Len(Body)
           /\ StopsAt(Body, b, Parsed) /\ fed = Len(file.bytes) /\ Len(Body) + 4 = Len(file.bytes)
           /\ b = Len(Body) + 1 => Parsed = Len(Body)
  <1> DEFINE bytes == file.bytes
             M == Len(bytes)
             L == Len(Body)
             q == Parsed
             left == Len(extra_buffer) + Len(slice)
             len == current_state.len
  <1> USE DEF ParserInv
  <1>1. /\ L \in Nat /\ M \in Nat /\ L = IF M < 4 THEN 0 ELSE M - 4
        /\ \A i \in 1..L : Body[i] = bytes[i]
    BY BodyFacts
  <1>2. L = M - 4 /\ L + 4 = M
    <2>1. M >= 4
      OBVIOUS
    <2> HIDE DEF M, L
    <2> QED  BY <1>1, <2>1
  <1>3. fed = M /\ ~(left >= Wanted + RETENTION)
    <2>1. pc \in {"poll", "verify"} /\ pc # "idle"
      OBVIOUS
    <2> QED  BY <2>1, Zenon DEF StarvedInv, Available
  <1>4. q \in Nat /\ Least(fed, RETENTION) <= left /\ left \in Nat /\ q = fed - left
    <2>1. pc \in Reading
      BY DEF Reading
    <2>2. extra_buffer \in Seq(Byte) /\ slice \in Seq(Byte) /\ fed \in Nat
      BY DEF ParserType
    <2>3. Len(extra_buffer) \in Nat /\ Len(slice) \in Nat
      BY <2>2, LenProperties
    <2>4. q \in Nat /\ Least(fed, RETENTION) <= left
      BY <2>1, Zenon DEF PlaceInv
    <2> QED  BY <2>2, <2>3, <2>4 DEF Parsed
  <1>5. len \in Nat /\ b >= 1
    BY DEF ParserType, AtBlock
  <1>6. M >= 4
    OBVIOUS
  <1> HIDE DEF M, L, left, q, len
  <1>7. q <= L
    BY <1>1, <1>2, <1>3, <1>4, <1>6 DEF Least, RETENTION
  <1>8. CASE current_state.at = "StartBlock"
    <2>1. b = q + 1
      BY <1>8, Zenon DEF AtBlock, q
    <2>2. Wanted = 1
      BY <1>8 DEF Wanted
    <2>3. q = L /\ b = L + 1 /\ b > L /\ b \in 1..(L + 1) /\ q \in 0..L
      BY <1>1, <1>2, <1>3, <1>4, <1>7, <2>1, <2>2 DEF RETENTION
    <2>4. StopsAt(Body, b, q)
      BY <2>3, Zenon DEF StopsAt, L
    <2> QED  BY <1>2, <1>3, <2>3, <2>4, Zenon DEF L, q, M
  <1>9. ASSUME current_state.at # "StartBlock"
        PROVE  /\ b <= q /\ b <= L /\ b \in 1..L /\ b \in 1..(L + 1) /\ ~(b > L) /\ q \in 0..L /\ b # L + 1
               /\ MarkerPartition(Body[b]) < N /\ Body[b] = bytes[b]
    <2>1. b <= q
      BY <1>9, Zenon DEF AtBlock, q
    <2>2. b <= L /\ b \in 1..L /\ b \in 1..(L + 1) /\ ~(b > L) /\ q \in 0..L /\ b # L + 1
      BY <1>1, <1>4, <1>5, <1>7, <2>1
    <2>3. Body[b] = bytes[b]
      BY <1>1, <2>2, Zenon DEF L
    <2>4. MarkerPartition(bytes[b]) < N
      BY <1>9, Zenon DEF AtBlock
    <2> QED  BY <2>1, <2>2, <2>3, <2>4, Zenon
  <1>10. CASE current_state.at = "U16Length"
    <2>1. b = q /\ MarkerNeedsLength(bytes[b]) /\ current_state.at # "StartBlock"
      <3>1. current_state.at # "StartBlock" /\ current_state.at # "Block"
        BY <1>10
      <3> QED  BY <3>1, Zenon DEF AtBlock, q
    <2>2. Wanted = 2
      BY <1>10 DEF Wanted
    <2>3. b + 2 > L
      BY <1>1, <1>2, <1>3, <1>4, <2>1, <2>2 DEF RETENTION
    <2>4. StopsAt(Body, b, q)
      BY <1>9, <2>1, <2>3, Zenon DEF StopsAt, L
    <2> QED  BY <1>2, <1>3, <1>9, <2>1, <2>4, Zenon DEF L, q, M
  <1>11. CASE current_state.at = "Block"
    <2>1. q + 1 = DataStart(bytes, b) /\ len = DataLen(bytes, b) /\ current_state.at # "StartBlock"
      <3>1. current_state.at # "StartBlock" /\ current_state.at # "U16Length"
        BY <1>11
      <3> QED  BY <3>1, Zenon DEF AtBlock, q, len
    <2>2. Wanted = len
      BY <1>11 DEF Wanted, len
    <2>3. q + len > L
      BY <1>1, <1>2, <1>3, <1>4, <1>5, <2>2 DEF RETENTION
    <2>4. q + 1 <= L + 1 /\ (q + 1) - 1 = q
      BY <1>1, <1>4, <1>7
    <2>5. DataStart(Body, b) = q + 1 /\ DataLen(Body, b) = len
      <3>1. DataStart(file.bytes, b) <= Len(Body) + 1 /\ b <= Len(Body) /\ ParserType
        BY <1>9, <2>1, <2>4, Zenon DEF L
      <3> QED  BY <1>5, <2>1, <3>1, SameBlock
    <2>6. MarkerNeedsLength(Body[b]) => ~(b + 2 > L)
      <3> SUFFICES ASSUME MarkerNeedsLength(Body[b]) PROVE ~(b + 2 > L)
        OBVIOUS
      <3>1. DataStart(Body, b) = b + 3
        BY Zenon DEF DataStart
      <3>2. b + 3 = q + 1
        BY <2>5, <3>1, Zenon
      <3> QED  BY <1>1, <1>4, <1>7, <3>2
    <2>7. StopsAt(Body, b, q)
      BY <1>9, <2>1, <2>3, <2>4, <2>5, <2>6, Zenon DEF StopsAt, L
    <2> QED  BY <1>2, <1>3, <1>9, <2>1, <2>7, Zenon DEF L, q, M
  <1> QED  BY <1>8, <1>10, <1>11 DEF ParserType

\* The four bytes that are taken for the size follow what was parsed.
LEMMA SizeTaken ==
    ASSUME ParserInv, pc = "verify", Available(4, 0)
    PROVE  SizeLE(Taken(4)) = SizeLE(SubSeq(file.bytes, Parsed + 1, Parsed + 4)) /\ fed >= 4
  <1> DEFINE bytes == file.bytes
             q == Parsed
             a == Len(extra_buffer)
             u == SubSeq(extra_buffer, 1, 4)
             v == SubSeq(slice, 1, 0)
             w == SubSeq(bytes, q + 1, q + 4)
  <1>1. /\ bytes \in Seq(Byte) /\ Len(bytes) \in Nat /\ fed \in Nat /\ fed <= Len(bytes)
        /\ extra_buffer \in Seq(Byte) /\ slice = <<>> /\ a \in Nat /\ Len(slice) = 0
        /\ q \in Nat /\ q = fed - a - Len(slice)
        /\ \A i \in 1..a : extra_buffer[i] = bytes[q + i]
    <2>1. pc \in Reading /\ pc # "parse"
      BY DEF Reading
    <2>2. bytes \in Seq(Byte) /\ extra_buffer \in Seq(Byte) /\ fed \in Nat /\ fed <= Len(bytes)
      BY ReadAssumption DEF ParserInv, ParserType
    <2>3. slice = <<>> /\ q \in Nat /\ \A i \in 1..a : extra_buffer[i] = bytes[q + i]
      BY <2>1, Zenon DEF ParserInv, PlaceInv
    <2> QED  BY <2>2, <2>3, LenProperties, EmptySeq DEF Parsed
  <1>2. a >= 4
    BY <1>1 DEF Available
  <1>3. FromExtra(4) = 4
    BY <1>1, <1>2 DEF FromExtra
  <1>4. Taken(4) = u \o v
    <2>1. 4 - 4 = 0
      OBVIOUS
    <2> QED  BY <1>3, <2>1, Zenon DEF Taken
  <1>5. v = <<>>
    BY SubSeqEmpty
  <1>6. fed >= 4 /\ q + 4 <= Len(bytes)
    BY <1>1, <1>2
  <1> HIDE DEF q, bytes, a
  <1>7. u \in Seq(Byte) /\ Len(u) = 4 /\ \A i \in 1..4 : u[i] = extra_buffer[i]
    <2>1. 4 \in 0..Len(extra_buffer)
      BY <1>1, <1>2 DEF a
    <2> QED  BY <1>1, <2>1, PrefixEntries
  <1>8. w \in Seq(Byte) /\ Len(w) = 4 /\ \A i \in 1..4 : w[i] = bytes[q + i]
    <2>1. PICK e : e = q + 4
      OBVIOUS
    <2>2. e \in q..Len(bytes) /\ e - q = 4
      BY <1>1, <1>6, <2>1
    <2>3. /\ SubSeq(bytes, q + 1, e) \in Seq(Byte) /\ Len(SubSeq(bytes, q + 1, e)) = e - q
          /\ \A i \in 1..(e - q) : SubSeq(bytes, q + 1, e)[i] = bytes[q + i]
      BY <1>1, <2>2, PartEntries
    <2> QED  BY <2>1, <2>2, <2>3, Zenon
  <1> HIDE DEF u, v, w
  <1>9. u \o v = u
    BY <1>5, <1>7, ConcatEmptySeq
  <1>10. ASSUME NEW i \in 1..4 PROVE u[i] = w[i]
    <2>1. i \in 1..a
      BY <1>1, <1>2
    <2> QED  BY <1>1, <1>7, <1>8, <2>1, Zenon
  <1>11. Len(u) = Len(w) /\ \A i \in 1..Len(u) : u[i] = w[i]
    BY <1>7, <1>8, <1>10, Zenon
  <1>12. u = w
    BY <1>7, <1>8, <1>11, SeqEqual
  <1> QED  BY <1>4, <1>6, <1>9, <1>12, Zenon DEF w, q, bytes

\* The size is right exactly in a valid file.
LEMMA SizeTells ==
    ASSUME ParserInv, BlockInv, StarvedInv, pc = "verify"
    PROVE  file.valid <=> Available(4, 0) /\ SizeLE(Taken(4)) = fed
  <1>1. pc \in Reading
    BY DEF Reading
  <1>2. PICK b \in Nat : AtBlock(b)
    BY <1>1, Zenon DEF BlockInv
  <1>3. file \in Files /\ ParserType /\ fed \in Nat /\ Len(file.bytes) \in Nat /\ fed <= Len(file.bytes)
    BY ReadAssumption, LenProperties DEF ParserInv, ParserType
  <1>4. PICK q : q = Parsed
    OBVIOUS
  <1>5. PICK size : size = SizeLE(SubSeq(file.bytes, q + 1, q + 4))
    OBVIOUS
  <1>6. Available(4, 0) => SizeLE(Taken(4)) = size /\ fed >= 4
    BY <1>4, <1>5, SizeTaken
  <1>7. ASSUME file.valid PROVE Available(4, 0) /\ SizeLE(Taken(4)) = fed
    <2>1. Len(file.bytes) >= 4 /\ SizeLE(SubSeq(file.bytes, Len(Body) + 1, Len(file.bytes))) = Len(file.bytes)
      <3>1. Len(file.bytes) >= Footer
        BY <1>3, <1>7, FilesAssumption, Zenon
      <3>2. SizeLE(SubSeq(file.bytes, Len(Body) + 1, Len(file.bytes))) = Len(file.bytes)
        BY <1>3, <1>7, FilesAssumption, Zenon DEF Body
      <3> QED  BY <3>1, <3>2 DEF Footer
    <2>2. b = Len(Body) + 1
      BY <1>2, <1>7, ValidEnds
    <2>3. q = Len(Body) /\ fed = Len(file.bytes) /\ Len(Body) + 4 = Len(file.bytes)
      BY <1>2, <1>4, <2>1, <2>2, ParserStops
    <2>4. size = fed
      BY <1>5, <2>1, <2>3, Zenon
    <2>5. Available(4, 0)
      <3>1. Least(fed, RETENTION) <= Len(extra_buffer) + Len(slice)
        BY <1>1, Zenon DEF ParserInv, PlaceInv
      <3>2. extra_buffer \in Seq(Byte) /\ slice \in Seq(Byte)
        BY DEF ParserInv, ParserType
      <3>3. Len(extra_buffer) \in Nat /\ Len(slice) \in Nat
        BY <3>2, LenProperties
      <3>4. fed >= 4
        BY <2>1, <2>3
      <3> QED  BY <1>3, <3>1, <3>3, <3>4 DEF Available, Least, RETENTION
    <2> QED  BY <1>6, <2>4, <2>5, Zenon
  <1>8. ASSUME Available(4, 0), SizeLE(Taken(4)) = fed, ~file.valid PROVE FALSE
    <2>1. Len(file.bytes) >= 4
      BY <1>3, <1>6, <1>8
    <2>2. /\ b \in 1..(Len(Body) + 1) /\ q \in 0..Len(Body) /\ StopsAt(Body, b, q)
          /\ fed = Len(file.bytes)
      BY <1>2, <1>4, <2>1, ParserStops
    <2>3. Reaches(Body, b)
      BY <1>2, Zenon DEF AtBlock
    <2>4. Len(file.bytes) >= Footer
      BY <2>1 DEF Footer
    <2>5. size # Len(file.bytes)
      BY <1>3, <1>5, <1>8, <2>2, <2>3, <2>4, FilesAssumption, Zenon DEF Body
    <2> QED  BY <1>6, <1>8, <2>2, <2>5, Zenon
  <1> QED  BY <1>7, <1>8, Zenon

\* A marker that belongs to no partition is not in a valid file.
LEMMA BadMarker ==
    ASSUME ParserInv, BlockInv, ParseMarker, MarkerPartition(Taken(1)[1]) >= N
    PROVE  ~file.valid
  <1> SUFFICES ASSUME file.valid PROVE FALSE
    OBVIOUS
  <1>1. /\ pc = "parse" /\ current_state.at = "StartBlock" /\ TakeSome(1, RETENTION)
        /\ UNCHANGED <<file, fed>>
    BY Zenon DEF ParseMarker
  <1>2. pc \in Reading /\ 1 \in Nat /\ 1 \in 1..1
    BY <1>1 DEF Reading
  <1>3. PICK b \in Nat : AtBlock(b)
    BY <1>2, Zenon DEF BlockInv
  <1>4. b = Parsed + 1 /\ Reaches(Body, b)
    BY <1>1, <1>3, Zenon DEF AtBlock
  <1>5. /\ Parsed \in Nat /\ Parsed + 1 + RETENTION <= Len(file.bytes) /\ Len(file.bytes) \in Nat
        /\ Taken(1)[1] = file.bytes[Parsed + 1] /\ Taken(1)[1] \in Byte
    BY <1>1, <1>2, TakenBytes
  <1>6. ParserType /\ file \in Files
    BY DEF ParserInv, ParserType
  <1>7. /\ Len(Body) \in Nat /\ Len(Body) = IF Len(file.bytes) < 4 THEN 0 ELSE Len(file.bytes) - 4
        /\ \A i \in 1..Len(Body) : Body[i] = file.bytes[i]
    BY <1>6, BodyFacts
  <1>8. b \in 1..Len(Body) /\ b <= Len(Body)
    <2> DEFINE M == Len(file.bytes)
               L == Len(Body)
    <2>1. M \in Nat /\ L = (IF M < 4 THEN 0 ELSE M - 4) /\ Parsed + 1 + 4 <= M
      BY <1>5, <1>7 DEF RETENTION
    <2> HIDE DEF M, L
    <2>2. b \in 1..L /\ b <= L
      BY <1>4, <1>5, <2>1
    <2> QED  BY <2>2 DEF L
  <1>9. PICK starts \in SUBSET (1 .. Len(Body) + 1) : WholeBlocks(Body, starts)
    BY <1>6, FilesAssumption, Zenon DEF Body
  <1>10. b \in starts
    <2>1. PastWhole(Body, starts)
      BY <1>9, Zenon DEF WholeBlocks, PastWhole
    <2> QED  BY <1>4, <1>9, <2>1, Zenon DEF Reaches
  <1>11. MarkerPartition(Body[b]) < N
    BY <1>8, <1>9, <1>10, Zenon DEF WholeBlocks
  <1>12. Body[b] = Taken(1)[1]
    BY <1>4, <1>5, <1>7, <1>8, Zenon
  <1>13. MarkerPartition(Taken(1)[1]) \in Nat /\ N \in Nat
    BY <1>5, LengthTypes, ReadAssumption
  <1>14. MarkerPartition(Taken(1)[1]) < N
    BY <1>11, <1>12, Zenon
  <1> QED  BY <1>13, <1>14

-----------------------------------------------------------------------------
(* Every step                                                              *)

ResultInv == IF pc = "done" THEN DoneInv ELSE CallInv /\ \E k \in 0..N : Open(k)

\* The control states are different.
LEMMA NotDone ==
    /\ \A x \in Reading \cup Finishing : x # "done"
    /\ \A x \in Finishing : x \notin Reading
    /\ {"idle", "parse", "poll", "verify"} \subseteq Reading
    /\ {"finish", "inline", "running", "wait"} \subseteq Finishing
  BY DEF Reading, Finishing

\* Steps that touch neither closures nor results.
LEMMA QuietKeeps ==
    ASSUME CallInv, NEW k \in 0..N, Open(k), UNCHANGED file, UNCHANGED readers,
           UNCHANGED <<blocks, senders, single, phase>>, UNCHANGED <<results, out, receivers>>,
           pc' \in Reading \cup Finishing,
           pc' \in Reading => pc \in Reading, pc' \in Finishing => pc \in Finishing
    PROVE  ResultInv'
  <1>1. CallInv' /\ \A p \in P : Sent(p)' = Sent(p)
    BY FrameKeeps
  <1>2. UNCHANGED <<file, plan, results, out, receivers>>
    BY Zenon DEF readers
  <1>3. \A p \in P : Sent(p)' = Sent(p) /\ (phase'[p] = "over" <=> phase[p] = "over")
    BY <1>1, Zenon
  <1>4. Open(k)'
    BY <1>2, <1>3, OpenKept
  <1>5. pc' # "done"
    BY NotDone
  <1> QED  BY <1>1, <1>4, <1>5, Zenon DEF ResultInv

\* A refused file.
LEMMA RefusedEnds ==
    ASSUME ParserInv, ThreadInv, BlockInv, CallInv, NEW k \in 0..N, Open(k),
           UNCHANGED file, UNCHANGED readers, UNCHANGED out, ~file.valid,
           NEW why \in {"BadLeptonFile", "size mismatch", "no size"}, Fail(<<why, NoPart>>)
    PROVE  ResultInv'
  <1>1. UNCHANGED <<file, plan, out>>
    BY Zenon DEF readers
  <1>2. ResultsInOrder'
    BY <1>1, EndsInOrder
  <1>3. pc' = "done" /\ verdict' = <<why, NoPart>>
    BY Zenon DEF Fail
  <1>4. verdict'[1] = why
    BY <1>3
  <1>5. VerdictJustified'
    BY <1>1, <1>4, Zenon DEF VerdictJustified
  <1> QED  BY <1>2, <1>3, <1>5, Zenon DEF ResultInv, DoneInv

\* The channel of the first partition that is not complete can only be closed because
\* its closure was never run.
LEMMA DisconnectedEnds ==
    ASSUME ParserInv, ThreadInv, BlockInv, CallInv, NEW k \in 0..N, Open(k),
           TryGetDisconnected \/ WaitDisconnected
    PROVE  ResultInv'
  <1>1. /\ receivers # <<>> /\ Disconnected(First) /\ Fail(<<"disconnected", NoPart>>)
        /\ UNCHANGED <<file, phase, single, out>> /\ UNCHANGED readers
    BY Zenon DEF TryGetDisconnected, WaitDisconnected, parser, threads
  <1>2. receivers = [i \in 1..(N - k) |-> k + i - 1]
    BY Zenon DEF Open
  <1>3. k < N /\ k \in P /\ First = k
    <2>1. k < N
      BY <1>1, <1>2, ReceiverFacts
    <2> QED  BY <1>2, <2>1, ReceiverFacts
  <1>4. results[k] = <<>> /\ phase[k] \in {"over", "dropped"}
    BY <1>1, <1>3, Zenon DEF Disconnected, ResultSenderAlive
  <1>5. phase[k] # "over"
    <2>1. k >= k
      BY ReadAssumption
    <2>2. ChannelInv(k)
      BY <1>3, <2>1, Zenon DEF Open
    <2> QED  BY <1>4, <2>2, Zenon DEF ChannelInv, Closes
  <1>6. phase[k] = "dropped" /\ ~single
    <2>1. phase[k] = "dropped"
      BY <1>4, <1>5
    <2>2. PartInv(k)
      BY <1>3, Zenon DEF CallInv
    <2> QED  BY <2>1, <2>2, Zenon DEF PartInv
  <1>7. UNCHANGED <<file, plan, out>>
    BY <1>1, Zenon DEF readers
  <1>8. ResultsInOrder'
    BY <1>7, EndsInOrder
  <1>9. pc' = "done" /\ verdict' = <<"disconnected", NoPart>>
    BY <1>1, Zenon DEF Fail
  <1>10. verdict'[1] = "disconnected"
    BY <1>9
  <1>11. VerdictJustified'
    BY <1>1, <1>3, <1>6, <1>10, Zenon DEF VerdictJustified
  <1> QED  BY <1>8, <1>9, <1>11, Zenon DEF ResultInv, DoneInv

\* Ok is returned when every channel is complete.
LEMMA RetrievedEnds ==
    ASSUME ParserInv, ThreadInv, BlockInv, CallInv, NEW k \in 0..N, Open(k), AllRetrieved
    PROVE  ResultInv'
  <1>1. /\ pc = "wait" /\ receivers = <<>> /\ pc' = "done" /\ verdict' = <<"ok", NoPart>>
        /\ UNCHANGED file /\ UNCHANGED readers /\ UNCHANGED out
    BY Zenon DEF AllRetrieved, parser
  <1>2. UNCHANGED <<file, plan, out>>
    BY <1>1, Zenon DEF readers
  <1>3. ~(k < N) /\ k = N
    <2>1. ~(k < N)
      BY <1>1, ReceiverFacts DEF Open
    <2> QED  BY <2>1, ReadAssumption
  <1>4. out = UpTo(N) /\ UpTo(N)' = UpTo(N)
    BY <1>2, <1>3, Zenon DEF Open, UpTo, Contribution
  <1>5. \A q \in P : plan'[q].ending = "ok"
    <2>1. \A q \in P : q < k
      BY <1>3, ReadAssumption DEF P
    <2> QED  BY <1>2, <2>1, Zenon DEF Open
  <1>6. file'.valid
    <2>1. pc \in Finishing
      BY <1>1 DEF Finishing
    <2> QED  BY <1>1, <2>1, Zenon DEF CallInv
  <1>7. verdict'[1] = "ok"
    BY <1>1
  <1>8. VerdictJustified'
    BY <1>1, <1>4, <1>5, <1>6, <1>7, Zenon DEF VerdictJustified
  <1>9. ResultsInOrder'
    BY <1>2, EndsInOrder
  <1> QED  BY <1>1, <1>8, <1>9, Zenon DEF ResultInv, DoneInv

\* A marker: the parser goes on, or refuses the file.
LEMMA MarkerKeeps ==
    ASSUME ParserInv, ThreadInv, BlockInv, CallInv, NEW k \in 0..N, Open(k), ParseMarker
    PROVE  ResultInv'
  <1>1. /\ UNCHANGED file /\ UNCHANGED readers /\ UNCHANGED out /\ pc = "parse"
        /\ UNCHANGED <<blocks, results, single, phase>>
        /\ \/ MarkerPartition(Taken(1)[1]) >= N /\ Fail(<<"BadLeptonFile", NoPart>>)
           \/ UNCHANGED <<pc, senders, receivers, verdict>>
    BY Zenon DEF ParseMarker, threads, channels
  <1>2. CASE MarkerPartition(Taken(1)[1]) >= N /\ Fail(<<"BadLeptonFile", NoPart>>)
    <2>1. ~file.valid
      BY <1>2, BadMarker
    <2>2. PICK why \in {"BadLeptonFile", "size mismatch", "no size"} : why = "BadLeptonFile"
      OBVIOUS
    <2> QED  BY <1>1, <1>2, <2>1, <2>2, RefusedEnds
  <1>3. CASE UNCHANGED <<pc, senders, receivers, verdict>>
    <2>1. UNCHANGED <<blocks, senders, single, phase>> /\ UNCHANGED <<results, out, receivers>> /\ pc' = pc
      BY <1>1, <1>3, Zenon
    <2>2. pc' \in Reading \cup Finishing
      BY <2>1, Zenon DEF CallInv
    <2> QED  BY <1>1, <2>1, <2>2, QuietKeeps
  <1> QED  BY <1>1, <1>2, <1>3

\* A block goes to a closure that has not been told of the end.
LEMMA BlockKeeps ==
    ASSUME ParserInv, ThreadInv, BlockInv, CallInv, NEW k \in 0..N, Open(k), ParseBlock
    PROVE  ResultInv'
  <1>1. PICK j : j = current_state.part
    OBVIOUS
  <1>2. PICK m : m = Block(Taken(current_state.len))
    OBVIOUS
  <1>3. /\ UNCHANGED file /\ UNCHANGED readers /\ pc = "parse" /\ pc' = pc
        /\ UNCHANGED <<senders, single, phase>> /\ UNCHANGED <<results, out, receivers>>
        /\ blocks' = IF BlockReceiverAlive(j) THEN [blocks EXCEPT ![j] = Append(@, m)] ELSE blocks
        /\ current_state.at = "Block" /\ TakeSome(current_state.len, RETENTION) /\ UNCHANGED <<file, fed>>
    BY <1>1, <1>2, Zenon DEF ParseBlock, threads, ending
  <1>4. pc \in Reading /\ pc \notin Finishing /\ pc # "done" /\ senders
    BY <1>3 DEF Reading, Finishing, CallInv
  <1>5. m \in BlockMessages /\ ~m.eof
    <2>1. current_state.len \in Nat
      BY DEF ParserInv, ParserType
    <2>2. Taken(current_state.len) \in Seq(Byte)
      BY <1>3, <2>1, TakenBytes
    <2> QED  BY <1>2, <2>2, BlockMessageData DEF Block
  <1>6. UNCHANGED <<plan, end_of_file, got, count>>
    BY <1>3, Zenon DEF readers
  <1>7. ASSUME NEW p \in P PROVE PartInv(p)' /\ Sent(p)' = Sent(p)
    <2>1. PartInv(p)
      BY Zenon DEF CallInv
    <2>2. Sent(p)' = Sent(p) /\ Contribution(p)' = Contribution(p)
      BY <1>3, <1>6, Zenon DEF Sent, Contribution
    <2>3. ASSUME BlockReceiverAlive(p) PROVE InputInv(p)'
      <3>1. PICK c : c = blocks[p]
        OBVIOUS
      <3>2. c \in Seq(BlockMessages) /\ Len(c) \in Nat
        BY <3>1, PartTypes, LenProperties DEF ThreadInv
      <3>3. ~end_of_file[p] /\ NoEof(c)
        BY <1>4, <2>1, <2>3, <3>1, Zenon DEF PartInv, InputInv
      <3>4. blocks'[p] = c \/ blocks'[p] = Append(c, m)
        <4>1. blocks \in [P -> Seq(BlockMessages)]
          BY DEF ThreadInv, ThreadType
        <4> QED  BY <1>3, <3>1, <4>1
      <3>5. NoEof(Append(c, m))
        <4>1. PICK d : d = Append(c, m)
          OBVIOUS
        <4>2. Len(d) = Len(c) + 1 /\ d[Len(c) + 1] = m /\ \A i \in 1..Len(c) : d[i] = c[i]
          BY <1>5, <3>2, <4>1, AppendProperties
        <4>3. \A i \in 1..(Len(c) + 1) : i \in 1..Len(c) \/ i = Len(c) + 1
          BY <3>2
        <4> QED  BY <1>5, <3>3, <4>1, <4>2, <4>3, Zenon DEF NoEof
      <3> QED  BY <1>3, <1>4, <1>6, <3>3, <3>4, <3>5, Zenon DEF InputInv
    <2>4. BlockReceiverAlive(p)' = BlockReceiverAlive(p)
      BY <1>3, Zenon DEF BlockReceiverAlive
    <2> QED  BY <1>3, <1>4, <1>6, <2>1, <2>2, <2>3, <2>4, Zenon DEF PartInv
  <1>8. CallInv'
    BY <1>3, <1>4, <1>7, Zenon DEF CallInv
  <1>9. UNCHANGED <<file, plan, results, out, receivers>>
    BY <1>3, <1>6, Zenon
  <1>10. \A p \in P : Sent(p)' = Sent(p) /\ (phase'[p] = "over" <=> phase[p] = "over")
    BY <1>3, <1>7, Zenon
  <1>11. Open(k)'
    BY <1>9, <1>10, OpenKept
  <1> QED  BY <1>3, <1>4, <1>8, <1>11, Zenon DEF ResultInv

\* The size: the caller goes on to the end exactly with a valid file, all of whose
\* blocks have been sent.
LEMMA VerifyKeeps ==
    ASSUME ParserInv, ThreadInv, BlockInv, StarvedInv, CallInv, NEW k \in 0..N, Open(k), VerifySize
    PROVE  ResultInv'
  <1>1. /\ UNCHANGED file /\ UNCHANGED readers /\ UNCHANGED out /\ pc = "verify"
        /\ UNCHANGED <<blocks, results, single, phase>>
        /\ \/ /\ Available(4, 0) /\ SizeLE(Taken(4)) = fed
              /\ pc' = "finish" /\ UNCHANGED <<senders, receivers, verdict>>
           \/ /\ ~(Available(4, 0) /\ SizeLE(Taken(4)) = fed)
              /\ Fail(<<"size mismatch", NoPart>>) \/ Fail(<<"no size", NoPart>>)
    BY Zenon DEF VerifySize, parser, threads, channels
  <1>2. file.valid <=> Available(4, 0) /\ SizeLE(Taken(4)) = fed
    BY <1>1, SizeTells
  <1>3. CASE /\ ~(Available(4, 0) /\ SizeLE(Taken(4)) = fed)
             /\ Fail(<<"size mismatch", NoPart>>) \/ Fail(<<"no size", NoPart>>)
    <2>1. ~file.valid
      BY <1>2, <1>3, Zenon
    <2>2. PICK why \in {"BadLeptonFile", "size mismatch", "no size"} : Fail(<<why, NoPart>>)
      BY <1>3, Zenon
    <2> QED  BY <1>1, <2>1, <2>2, RefusedEnds
  <1>4. CASE /\ Available(4, 0) /\ SizeLE(Taken(4)) = fed
             /\ pc' = "finish" /\ UNCHANGED <<senders, receivers, verdict>>
    <2>1. file.valid
      BY <1>2, <1>4, Zenon
    <2>2. pc \in Reading /\ pc' \in Finishing /\ pc' \notin Reading /\ pc' # "done"
      BY <1>1, <1>4 DEF Reading, Finishing
    <2>3. PICK b \in Nat : AtBlock(b) /\ \A p \in P : BlockReceiverAlive(p) => ToCome(p, From[b][p])
      BY <2>2, Zenon DEF BlockInv
    <2>4. b = Len(Body) + 1
      BY <1>1, <2>1, <2>3, ValidEnds
    <2>5. UNCHANGED <<plan, current_buffer, end_of_file, got, count>> /\ From' = From
      BY <1>1 DEF readers, From, Body
    <2>6. ASSUME NEW p \in P PROVE PartInv(p)' /\ Sent(p)' = Sent(p)
      <3>1. PartInv(p)
        BY Zenon DEF CallInv
      <3>2. From[b][p] = <<>>
        BY <2>4, NothingAtEnd DEF ParserInv
      <3>3. BlockReceiverAlive(p) => ToCome(p, <<>>)
        BY <2>3, <3>2, Zenon
      <3>4. ToCome(p, <<>>) => ToCome(p, <<>>)'
        BY <1>1, <2>5, Zenon DEF ToCome, Holds
      <3>5. Sent(p)' = Sent(p) /\ Contribution(p)' = Contribution(p)
        BY <1>1, <2>5, Zenon DEF Sent, Contribution
      <3>6. InputInv(p)' = InputInv(p) /\ BlockReceiverAlive(p)' = BlockReceiverAlive(p)
        BY <1>1, <1>4, <2>5, Zenon DEF InputInv, BlockReceiverAlive
      <3> QED  BY <1>1, <2>5, <3>1, <3>3, <3>4, <3>5, <3>6, Zenon DEF PartInv
    <2>7. CallInv'
      BY <1>1, <2>1, <2>2, <2>6, Zenon DEF CallInv
    <2>8. UNCHANGED <<file, plan, results, out, receivers>>
      BY <1>1, <1>4, <2>5, Zenon
    <2>9. \A p \in P : Sent(p)' = Sent(p) /\ (phase'[p] = "over" <=> phase[p] = "over")
      BY <1>1, <2>6, Zenon
    <2>10. Open(k)'
      BY <2>8, <2>9, OpenKept
    <2> QED  BY <2>2, <2>7, <2>10, Zenon DEF ResultInv
  <1> QED  BY <1>1, <1>3, <1>4, Zenon

\* Every closure that still reads is told of the end, once.
LEMMA EofKeeps ==
    ASSUME ParserInv, ThreadInv, BlockInv, CallInv, NEW k \in 0..N, Open(k), SendEof
    PROVE  ResultInv'
  <1>1. /\ UNCHANGED file /\ UNCHANGED readers /\ pc = "finish" /\ pc' \in {"inline", "wait"}
        /\ UNCHANGED <<single, phase>> /\ UNCHANGED <<results, out, receivers>> /\ senders' = FALSE
        /\ blocks' = [p \in P |-> IF senders /\ BlockReceiverAlive(p) THEN Append(blocks[p], Eof)
                                  ELSE blocks[p]]
    BY Zenon DEF SendEof, threads, parser, ending
  <1>2. pc \in Finishing /\ pc' \in Finishing /\ pc' \notin Reading /\ pc' # "done"
    BY <1>1 DEF Reading, Finishing
  <1>3. UNCHANGED <<plan, current_buffer, end_of_file, got, count>> /\ From' = From
    BY <1>1 DEF readers, From, Body
  <1>4. PICK m : m = Eof
    OBVIOUS
  <1>5. m \in BlockMessages /\ m.data = <<>> /\ m.eof
    BY <1>4, BlockMessageData DEF Eof
  <1>6. ASSUME NEW p \in P PROVE PartInv(p)' /\ Sent(p)' = Sent(p)
    <2>1. PartInv(p)
      BY Zenon DEF CallInv
    <2>2. Sent(p)' = Sent(p) /\ Contribution(p)' = Contribution(p)
      BY <1>1, <1>3, Zenon DEF Sent, Contribution
    <2>3. BlockReceiverAlive(p)' = BlockReceiverAlive(p)
      BY <1>1, Zenon DEF BlockReceiverAlive
    <2>4. ASSUME BlockReceiverAlive(p) PROVE InputInv(p)' /\ ToCome(p, <<>>)'
      <3>1. InputInv(p) /\ ToCome(p, <<>>)
        BY <1>2, <2>1, <2>4, Zenon DEF PartInv
      <3>2. CASE ~senders
        <4>1. blocks'[p] = blocks[p]
          BY <1>1, <3>2, Zenon
        <4>2. ToCome(p, <<>>)'
          BY <1>1, <1>3, <3>1, <4>1, Zenon DEF ToCome, Holds
        <4> QED  BY <1>1, <1>3, <3>1, <3>2, <4>1, <4>2, Zenon DEF InputInv
      <3>3. CASE senders
        <4>1. PICK c : c = blocks[p]
          OBVIOUS
        <4>2. c \in Seq(BlockMessages) /\ Len(c) \in Nat
          BY <4>1, PartTypes, LenProperties DEF ThreadInv
        <4>3. ~end_of_file[p] /\ NoEof(c)
          BY <3>1, <3>3, <4>1, Zenon DEF InputInv
        <4>4. PICK d : d = Append(c, m)
          OBVIOUS
        <4>5. blocks'[p] = d /\ blocks'[p] = Append(blocks[p], m)
          BY <1>1, <1>4, <2>4, <3>3, <4>1, <4>4, Zenon
        <4>6. /\ d \in Seq(BlockMessages) /\ Len(d) = Len(c) + 1 /\ d[Len(c) + 1] = m
              /\ \A i \in 1..Len(c) : d[i] = c[i]
          BY <1>5, <4>2, <4>4, AppendProperties
        <4>7. \A i \in 1..(Len(c) + 1) : (i \in 1..Len(c) /\ i # Len(c) + 1) \/ i = Len(c) + 1
          BY <4>2
        <4>8. d # <<>>
          BY <4>2, <4>6, EmptySeq
        <4>9. EndsWithEof(d)
          BY <1>5, <4>3, <4>6, <4>7, <4>8, Zenon DEF NoEof, EndsWithEof
        <4>10. PICK e : e = <<>>
          OBVIOUS
        <4>11. e \in Seq(Byte) /\ e = m.data \o e
          BY <1>5, <4>10, EmptySeq, ConcatEmptySeq
        <4>12. UNCHANGED <<file, readers>> /\ ToCome(p, e) /\ ThreadType
          BY <1>1, <3>1, <4>10, Zenon DEF ThreadInv
        <4>13. ToCome(p, e)'
          BY <1>5, <4>5, <4>11, <4>12, MessageKeeps
        <4> QED  BY <1>1, <1>3, <4>3, <4>5, <4>9, <4>10, <4>13, Zenon DEF InputInv
      <3> QED  BY <3>2, <3>3
    <2> QED  BY <1>1, <1>3, <2>1, <2>2, <2>3, <2>4, Zenon DEF PartInv
  <1>7. CallInv'
    BY <1>1, <1>2, <1>6, Zenon DEF CallInv
  <1>8. UNCHANGED <<file, plan, results, out, receivers>>
    BY <1>1, <1>3, Zenon
  <1>9. \A p \in P : Sent(p)' = Sent(p) /\ (phase'[p] = "over" <=> phase[p] = "over")
    BY <1>1, <1>6, Zenon
  <1>10. Open(k)'
    BY <1>8, <1>9, OpenKept
  <1> QED  BY <1>2, <1>7, <1>10, Zenon DEF ResultInv

\* A worker takes a closure that is queued, or the queue is dropped with a pool.
LEMMA WorkerPhases ==
    ASSUME ThreadInv, NEW p \in P,
           \/ UNCHANGED <<queue, phase>>
           \/ TakeClosure
           \/ ~single /\ phase' = [q \in P |-> IF phase[q] = "queued" THEN "dropped" ELSE phase[q]]
    PROVE  \/ phase'[p] = phase[p]
           \/ phase[p] = "queued" /\ phase'[p] = "running"
           \/ phase[p] = "queued" /\ phase'[p] = "dropped" /\ ~single
  <1>1. CASE UNCHANGED <<queue, phase>>
    BY <1>1, Zenon
  <1>2. CASE ~single /\ phase' = [q \in P |-> IF phase[q] = "queued" THEN "dropped" ELSE phase[q]]
    BY <1>2
  <1>3. CASE TakeClosure
    <2>1. queue \in Seq(P) /\ queue # <<>> /\ phase' = [phase EXCEPT ![Head(queue)] = "running"]
      BY <1>3 DEF TakeClosure, ThreadInv, ThreadType
    <2>2. Len(queue) \in Nat \ {0}
      BY <2>1, EmptySeq
    <2>3. 1 \in 1..Len(queue) /\ Head(queue) = queue[1]
      BY <2>1, <2>2
    <2>4. phase[Head(queue)] = "queued"
      BY <2>3, Zenon DEF ThreadInv, QueueInv
    <2>5. phase \in [P -> Phases]
      BY DEF ThreadInv, ThreadType
    <2> QED  BY <2>1, <2>4, <2>5
  <1> QED  BY <1>1, <1>2, <1>3

\* Closures are taken and dropped before they have sent anything.
LEMMA WorkerStepKeeps ==
    ASSUME ThreadInv, CallInv, NEW k \in 0..N, Open(k), PoolWorkerStep \/ RunInline
    PROVE  ResultInv'
  <1>1. /\ UNCHANGED file /\ UNCHANGED readers /\ UNCHANGED <<blocks, senders, single>>
        /\ UNCHANGED <<results, out, receivers>>
        /\ pc' = pc \/ (pc = "inline" /\ pc' = "running")
    BY Zenon DEF PoolWorkerStep, RunInline, parser, channels, ending
  <1>2. \/ UNCHANGED <<queue, phase>>
        \/ TakeClosure
        \/ /\ ~single /\ phase' = [p \in P |-> IF phase[p] = "queued" THEN "dropped" ELSE phase[p]]
           /\ queue' = <<>>
    BY Zenon DEF PoolWorkerStep, RunInline, WorkerStarts, WorkerLost, WorkerExits, QueueDropped
  <1>3. pc' \in Reading \cup Finishing /\ (pc' \in Reading <=> pc \in Reading) /\ (pc' \in Finishing <=> pc \in Finishing)
    <2>1. CASE pc' = pc
      BY <2>1, Zenon DEF CallInv
    <2>2. CASE pc = "inline" /\ pc' = "running"
      BY <2>2 DEF Reading, Finishing
    <2> QED  BY <1>1, <2>1, <2>2, Zenon
  <1>4. \A q \in P : \A t : ToCome(q, t) => ToCome(q, t)'
    <2>1. UNCHANGED blocks
      BY <1>1, Zenon
    <2> QED  BY <1>1, <1>2, <2>1, WorkerKeeps
  <1>5. UNCHANGED <<plan, end_of_file, got, count>>
    BY <1>1, Zenon DEF readers
  <1>6. ASSUME NEW p \in P
        PROVE  PartInv(p)' /\ Sent(p)' = Sent(p) /\ (phase'[p] = "over" <=> phase[p] = "over")
    <2>1. PartInv(p)
      BY Zenon DEF CallInv
    <2>2. Sent(p)' = Sent(p) /\ Contribution(p)' = Contribution(p)
      BY <1>1, <1>5, Zenon DEF Sent, Contribution
    <2>3. \/ phase'[p] = phase[p]
          \/ phase[p] = "queued" /\ phase'[p] = "running"
          \/ phase[p] = "queued" /\ phase'[p] = "dropped" /\ ~single
      BY <1>2, WorkerPhases
    <2>4. InputInv(p)' = InputInv(p)
      BY <1>1, <1>5, Zenon DEF InputInv
    <2>5. ToCome(p, <<>>) => ToCome(p, <<>>)'
      BY <1>4, Zenon
    <2>6. CASE phase'[p] = phase[p]
      BY <1>1, <1>3, <1>5, <2>1, <2>2, <2>4, <2>5, <2>6, Zenon DEF PartInv, BlockReceiverAlive
    <2>7. CASE phase[p] = "queued" /\ phase'[p] = "running"
      <3>1. BlockReceiverAlive(p) /\ phase'[p] \notin {"broken", "dropped", "complete", "over"} /\ phase[p] # "over"
        BY <2>7 DEF BlockReceiverAlive
      <3> QED  BY <1>1, <1>3, <1>5, <2>1, <2>2, <2>4, <2>5, <3>1, Zenon DEF PartInv
    <2>8. CASE phase[p] = "queued" /\ phase'[p] = "dropped" /\ ~single
      <3>1. ~BlockReceiverAlive(p)' /\ phase'[p] \notin {"broken", "complete", "over"} /\ phase[p] # "over"
        BY <2>8 DEF BlockReceiverAlive
      <3> QED  BY <1>1, <1>5, <2>1, <2>2, <2>8, <3>1, Zenon DEF PartInv
    <2> QED  BY <2>3, <2>6, <2>7, <2>8
  <1>7. CallInv'
    BY <1>1, <1>3, <1>6, Zenon DEF CallInv
  <1>8. UNCHANGED <<file, plan, results, out, receivers>>
    BY <1>1, <1>5, Zenon
  <1>9. Open(k)'
    BY <1>6, <1>8, OpenKept
  <1>10. pc' # "done"
    BY <1>3, NotDone
  <1> QED  BY <1>7, <1>9, <1>10, Zenon DEF ResultInv

\* After the call has ended the closures run on, but the outcome stands.
LEMMA DoneKept ==
    ASSUME ThreadInv, pc = "done", DoneInv, [Next]_vars
    PROVE  ResultInv'
  <1>1. \/ PoolWorkerStep \/ DropInline \/ (\E p \in P : ClosureStep(p)) \/ UNCHANGED vars
    <2>1. ~CallerStep \/ DropInline
      BY DEF CallerStep, Feed, ParseStarved, ParseMarker, ParseLength, ParseBlock, TryGetMessage,
         TryGetDisconnected, PollEmpty, VerifySize, SendEof, WaitMessage, WaitDisconnected,
         AllRetrieved, RunInline, InlineReturned
    <2> QED  BY <2>1, Zenon DEF Next, Terminated
  <1>2. UNCHANGED <<file, plan, out, verdict, single, pc>>
    <2>1. CASE PoolWorkerStep
      BY <2>1, Zenon DEF PoolWorkerStep, parser, readers, ending
    <2>2. CASE DropInline
      BY <2>2, Zenon DEF DropInline, parser, readers, ending
    <2>3. ASSUME NEW p \in P, ClosureStep(p) PROVE UNCHANGED <<file, plan, out, verdict, single, pc>>
      BY <2>3, Zenon DEF ClosureStep, ReadBuffer, ReadSlow, SendPartial, SendLast, SendComplete,
         SendError, others, parser, readers, ending
    <2>4. CASE UNCHANGED vars
      BY <2>4, Zenon DEF vars, parser, readers, ending
    <2> QED  BY <1>1, <2>1, <2>2, <2>3, <2>4, Zenon
  <1>3. ASSUME NEW q \in P, phase[q] = "dropped" PROVE phase'[q] = "dropped"
    <2>1. CASE PoolWorkerStep
      <3>1. \/ UNCHANGED <<queue, phase>>
            \/ TakeClosure
            \/ ~single /\ phase' = [p \in P |-> IF phase[p] = "queued" THEN "dropped" ELSE phase[p]]
        BY <2>1, Zenon DEF PoolWorkerStep, WorkerStarts, WorkerLost, WorkerExits, QueueDropped
      <3>2. phase'[q] = phase[q] \/ phase[q] = "queued"
        BY <3>1, WorkerPhases
      <3> QED  BY <1>3, <3>2
    <2>2. CASE DropInline
      BY <1>3, <2>2 DEF DropInline
    <2>3. ASSUME NEW p \in P, ClosureStep(p) PROVE phase'[q] = "dropped"
      <3>1. phase \in [P -> Phases]
        BY DEF ThreadInv, ThreadType
      <3>2. phase[p] # "dropped" /\ (UNCHANGED phase \/ \E x : phase' = [phase EXCEPT ![p] = x])
        BY <2>3 DEF ClosureStep, ReadBuffer, ReadSlow, SendPartial, SendLast, SendComplete, SendError,
           ReadMore, Ready, ClosureReturns, threads
      <3> QED  BY <1>3, <3>1, <3>2
    <2>4. CASE UNCHANGED vars
      BY <1>3, <2>4, Zenon DEF vars, threads
    <2> QED  BY <1>1, <2>1, <2>2, <2>3, <2>4, Zenon
  <1>4. \A n : UpTo(n)' = UpTo(n)
    BY <1>2, Zenon DEF UpTo, Contribution
  <1>5. ResultsInOrder'
    BY <1>2, <1>4, Zenon DEF DoneInv, ResultsInOrder
  <1>6. VerdictJustified'
    BY <1>2, <1>3, <1>4, Zenon DEF DoneInv, VerdictJustified
  <1> QED  BY <1>2, <1>5, <1>6, Zenon DEF ResultInv, DoneInv

\* At first nothing has been sent.
LEMMA ResultInit ==
    ASSUME Init
    PROVE  ResultInv
  <1>1. /\ pc = "idle" /\ senders = TRUE /\ receivers = AllPartitions /\ phase = [p \in P |-> "queued"]
        /\ blocks = [p \in P |-> <<>>] /\ results = [p \in P |-> <<>>]
        /\ end_of_file = [p \in P |-> FALSE] /\ got = [p \in P |-> <<>>] /\ count = [p \in P |-> 0]
        /\ out = <<>>
    BY Zenon DEF Init, InitSpawned, InitInline
  <1>2. ParserType /\ ThreadType
    BY ParserInit, BlockInit DEF ParserInv, ThreadInv
  <1>3. N \in Nat /\ 0 \in 0..N /\ 0 < N /\ 0 \in P
    BY ReadAssumption DEF P
  <1>4. pc # "done" /\ pc \in Reading /\ pc \notin Finishing
    BY <1>1 DEF Reading, Finishing
  <1>5. Len(<<>>) = 0 /\ <<>> \in Seq(Byte) /\ <<>> \in Seq(ResultMessages)
    BY EmptySeq
  <1>6. ASSUME NEW p \in P
        PROVE  /\ phase[p] = "queued" /\ blocks[p] = <<>> /\ results[p] = <<>> /\ ~end_of_file[p]
               /\ got[p] = <<>> /\ count[p] = 0
    BY <1>1
  <1>7. ASSUME NEW p \in P PROVE PartInv(p) /\ AllResults(results[p])
    <2>1. NoEof(blocks[p]) /\ AllResults(results[p])
      <3>1. \A i \in 1..0 : FALSE
        OBVIOUS
      <3> QED  BY <1>5, <1>6, <3>1, Zenon DEF NoEof, AllResults
    <2>2. InputInv(p)
      BY <1>1, <1>6, <2>1, Zenon DEF InputInv
    <2>3. count[p] <= plan[p].want
      <3>1. plan[p].want \in Nat /\ count[p] = 0
        BY <1>2, <1>6 DEF ThreadType
      <3> QED  BY <3>1
    <2>4. phase[p] \notin {"broken", "dropped", "complete", "over"}
      BY <1>6
    <2> QED  BY <1>4, <2>1, <2>2, <2>3, <2>4, Zenon DEF PartInv
  <1>8. CallInv
    BY <1>1, <1>4, <1>7, Zenon DEF CallInv
  <1>9. ASSUME NEW p \in P PROVE Sent(p) = <<>> /\ DataOf(results[p]) = <<>>
    <2>1. PICK pay : pay = file.payload[p]
      OBVIOUS
    <2>2. pay \in Seq(Byte) /\ 0 \in 0..Len(pay)
      BY <1>2, <2>1, ContributionFacts, LenProperties
    <2>3. SubSeq(pay, 1, 0) = <<>>
      BY <2>2
    <2>4. 0 - 0 = 0
      OBVIOUS
    <2>5. Sent(p) = <<>>
      BY <1>5, <1>6, <2>1, <2>3, <2>4, Zenon DEF Sent
    <2>6. \A m \in ResultMessages : m.data \in Seq(Byte)
      BY <1>2, MessageFacts
    <2>7. PICK c : c = results[p]
      OBVIOUS
    <2>8. c \in Seq(ResultMessages) /\ c = <<>>
      BY <1>5, <1>6, <2>7, Zenon
    <2>9. DataOf(c) = <<>>
      BY <2>6, <2>8, DataOfType
    <2> QED  BY <2>5, <2>7, <2>9, Zenon
  <1>10. receivers = [i \in 1..(N - 0) |-> 0 + i - 1]
    <2>1. N - 0 = N /\ \A i \in 1..N : 0 + i - 1 = i - 1
      BY <1>3
    <2> QED  BY <1>1, <2>1 DEF AllPartitions
  <1>11. results \in [P -> Seq(ResultMessages)] /\ out \in Seq(Byte)
    BY <1>1, <1>5
  <1>12. out \o DataOf(results[0]) = UpTo(0) \o Sent(0)
    <2>1. UpTo(0) = <<>>
      BY <1>2, UpToFacts
    <2> QED  BY <1>1, <1>3, <1>9, <2>1, Zenon
  <1>13. \A p \in P : ~(p < 0)
    BY DEF P
  <1>14. \A p \in P : ChannelInv(p)
    <2>1. \A p \in P : phase[p] # "over"
      BY <1>6
    <2> QED  BY <1>7, <2>1, Zenon DEF ChannelInv
  <1>15. Open(0)
    BY <1>3, <1>9, <1>10, <1>11, <1>12, <1>13, <1>14, Zenon DEF Open
  <1> QED  BY <1>3, <1>4, <1>8, <1>15, Zenon DEF ResultInv

\* Every step of a call that has not ended.
LEMMA OpenStep ==
    ASSUME ParserInv, ThreadInv, BlockInv, StarvedInv, pc # "done", CallInv, NEW k \in 0..N, Open(k),
           [Next]_vars
    PROVE  ResultInv'
  <1> DEFINE Quiet(before, after) ==
                /\ UNCHANGED file /\ UNCHANGED readers
                /\ UNCHANGED <<blocks, senders, single, phase>> /\ UNCHANGED <<results, out, receivers>>
                /\ pc \in before /\ pc' \in after
  <1>1. ASSUME Quiet({"idle", "parse", "poll", "verify"}, {"idle", "parse", "poll", "verify"}) PROVE ResultInv'
    <2>1. pc \in Reading /\ pc' \in Reading /\ pc' \notin Finishing
      BY <1>1 DEF Reading, Finishing
    <2>2. pc' \in Reading \cup Finishing
      BY <2>1
    <2> QED  BY <1>1, <2>1, <2>2, QuietKeeps
  <1>2. ASSUME NEW n \in SliceSizes, NEW last \in BOOLEAN, Feed(n, last) PROVE ResultInv'
    <2>1. Quiet({"idle", "parse", "poll", "verify"}, {"idle", "parse", "poll", "verify"})
      BY <1>2, Zenon DEF Feed, threads, channels, ending
    <2> QED  BY <1>1, <2>1
  <1>3. CASE ParseStarved
    <2>1. Quiet({"idle", "parse", "poll", "verify"}, {"idle", "parse", "poll", "verify"})
      BY <1>3, Zenon DEF ParseStarved, parser, threads, channels, ending
    <2> QED  BY <1>1, <2>1
  <1>4. CASE ParseLength
    <2>1. Quiet({"idle", "parse", "poll", "verify"}, {"idle", "parse", "poll", "verify"})
      BY <1>4, Zenon DEF ParseLength, threads, channels, ending
    <2> QED  BY <1>1, <2>1
  <1>5. CASE PollEmpty
    <2>1. Quiet({"idle", "parse", "poll", "verify"}, {"idle", "parse", "poll", "verify"})
      BY <1>5, Zenon DEF PollEmpty, parser, threads, channels, ending
    <2> QED  BY <1>1, <2>1
  <1>6. CASE InlineReturned
    <2>1. Quiet({"running"}, {"finish"})
      BY <1>6, Zenon DEF InlineReturned, parser, threads, channels, ending
    <2>2. pc \in Finishing /\ pc' \in Finishing /\ pc' \notin Reading /\ pc' \in Reading \cup Finishing
      BY <2>1 DEF Reading, Finishing
    <2> QED  BY <2>1, <2>2, QuietKeeps
  <1>7. CASE UNCHANGED vars
    <2>1. /\ UNCHANGED file /\ UNCHANGED readers /\ UNCHANGED <<blocks, senders, single, phase>>
          /\ UNCHANGED <<results, out, receivers>> /\ pc' = pc
      BY <1>7, Zenon DEF vars, parser, threads, channels, ending
    <2>2. pc' \in Reading \cup Finishing /\ (pc' \in Reading => pc \in Reading) /\ (pc' \in Finishing => pc \in Finishing)
      BY <2>1, Zenon DEF CallInv
    <2> QED  BY <2>1, <2>2, QuietKeeps
  <1>8. ASSUME NEW next \in Reading \cup Finishing, TakeFrontMessage(next),
               next \in Reading => pc \in Reading, next \in Finishing => pc \in Finishing
        PROVE  ResultInv'
    <2>1. IF pc' = "done" THEN DoneInv' ELSE CallInv' /\ \E j \in 0..N : Open(j)'
      BY <1>8, MessageTaken
    <2> QED  BY <2>1, Zenon DEF ResultInv
  <1>9. CASE TryGetMessage
    <2>1. PICK next : next = pc
      OBVIOUS
    <2>2. TakeFrontMessage(next) /\ next \in Reading \cup Finishing
      BY <1>9, <2>1, Zenon DEF TryGetMessage, CallInv
    <2> QED  BY <1>8, <2>1, <2>2
  <1>10. CASE WaitMessage
    <2>1. PICK next : next = "finish"
      OBVIOUS
    <2>2. pc = "wait" /\ TakeFrontMessage(next)
      BY <1>10, <2>1, Zenon DEF WaitMessage
    <2>3. next \in Reading \cup Finishing /\ next \notin Reading /\ pc \in Finishing
      BY <2>1, <2>2 DEF Reading, Finishing
    <2> QED  BY <1>8, <2>2, <2>3
  <1>11. CASE TryGetDisconnected \/ WaitDisconnected
    BY <1>11, DisconnectedEnds
  <1>12. CASE PoolWorkerStep \/ RunInline
    BY <1>12, WorkerStepKeeps
  <1>13. CASE ParseMarker \/ ParseBlock \/ VerifySize \/ SendEof \/ AllRetrieved
    BY <1>13, MarkerKeeps, BlockKeeps, VerifyKeeps, EofKeeps, RetrievedEnds
  <1>14. ASSUME NEW p \in P, ClosureStep(p) PROVE ResultInv'
    <2>1. CallInv' /\ Open(k)'
      BY <1>14, ClosureOpen
    <2>2. pc' # "done"
      BY <2>1, NotDone DEF CallInv
    <2> QED  BY <2>1, <2>2, Zenon DEF ResultInv
  <1>15. ~DropInline /\ ~Terminated
    BY DEF DropInline, Terminated
  <1> QED
    BY <1>2, <1>3, <1>4, <1>5, <1>6, <1>7, <1>9, <1>10, <1>11, <1>12, <1>13, <1>14, <1>15, Zenon
       DEF Next, CallerStep

LEMMA ResultStep ==
    ASSUME ParserInv, ThreadInv, BlockInv, StarvedInv, ResultInv, [Next]_vars
    PROVE  ResultInv'
  <1>1. CASE pc = "done"
    <2>1. DoneInv
      BY <1>1, Zenon DEF ResultInv
    <2> QED  BY <1>1, <2>1, DoneKept
  <1>2. CASE pc # "done"
    <2>1. PICK k \in 0..N : CallInv /\ Open(k)
      BY <1>2, Zenon DEF ResultInv
    <2> QED  BY <1>2, <2>1, OpenStep
  <1> QED  BY <1>1, <1>2

\* The invariants say what the two properties say.
LEMMA ResultMeans ==
    ASSUME ParserInv, ThreadInv, BlockInv, ResultInv
    PROVE  ResultsInOrder /\ VerdictJustified
  <1>1. CASE pc = "done"
    BY <1>1, Zenon DEF ResultInv, DoneInv
  <1>2. CASE pc # "done"
    <2>1. PICK k \in 0..N : CallInv /\ Open(k)
      BY <1>2, Zenon DEF ResultInv
    <2>2. ResultsInOrder
      BY <2>1, OpenInOrder
    <2> QED  BY <1>2, <2>2, Zenon DEF VerdictJustified
  <1> QED  BY <1>1, <1>2

\* What retrieve_result has handed out is at every moment a beginning of the results of
\* partition 0, then of partition 1, and so on, whatever the schedule of the closures
\* and the slicing of the input (ResultsInOrder): multiplexer.rs, retrieve_result and
\* try_get_result, which look at the first channel that is not complete only.
THEOREM ReadResultsInOrder == Spec => []ResultsInOrder
  <1> DEFINE Inv == ParserInv /\ ThreadInv /\ BlockInv /\ StarvedInv /\ ResultInv
  <1>1. Init => Inv
    BY ParserInit, BlockInit, ResultInit
  <1>2. Inv /\ [Next]_vars => Inv'
    BY ParserStep, BlockStep, StarvedStep, ResultStep
  <1>3. Inv => ResultsInOrder
    BY ResultMeans
  <1> QED  BY <1>1, <1>2, <1>3, PTL DEF Spec

\* The call returns Ok only for a valid file, with the complete output of processors
\* that all returned Ok; a processor's error is that of the first one that fails, after
\* all that comes before it; the file is refused only when it is not valid, and the
\* channels are found closed only when the pool dropped a closure (VerdictJustified):
\* multiplexer.rs, process_buffer and retrieve_result, and verify_eof_file_size of
\* lepton_file_reader.rs.
THEOREM ReadVerdictJustified == Spec => []VerdictJustified
  <1> DEFINE Inv == ParserInv /\ ThreadInv /\ BlockInv /\ StarvedInv /\ ResultInv
  <1>1. Init => Inv
    BY ParserInit, BlockInit, ResultInit
  <1>2. Inv /\ [Next]_vars => Inv'
    BY ParserStep, BlockStep, StarvedStep, ResultStep
  <1>3. Inv => VerdictJustified
    BY ResultMeans
  <1> QED  BY <1>1, <1>2, <1>3, PTL DEF Spec
=============================================================================
