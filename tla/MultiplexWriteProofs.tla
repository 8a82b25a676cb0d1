------------------------ MODULE MultiplexWriteProofs ------------------------
(***************************************************************************)
(* multiplex_write for any number of partitions up to 16, any block size,  *)
(* any lengths and endings of the processors and any schedule: the error   *)
(* it returns is the right one, and what it writes is the reference stream,*)
(* all of it when the call returns Ok and a prefix of it when the output   *)
(* fails. First, the two ends of the stream agree on every block header.   *)
(***************************************************************************)
EXTENDS MultiplexWrite, StreamLemmas

-----------------------------------------------------------------------------
(* Block headers                                                           *)

\* A 16-bit length minus one is the two bytes it is written as.
LEMMA U16Bytes ==
    ASSUME NEW len \in 1..WriteBufferSize
    PROVE  /\ (len - 1) % 256 \in 0..255
           /\ (len - 1) \div 256 \in 0..255
           /\ ((len - 1) \div 256) * 256 + ((len - 1) % 256) + 1 = len
<1>1. PICK n \in Nat : n = len - 1 /\ n < 65536
  BY SMT DEF WriteBufferSize
<1>2. n % 256 \in 0..255 /\ n \div 256 \in 0..255 /\ (n \div 256) * 256 + (n % 256) = n
  BY <1>1, SMT
<1> QED  BY <1>1, <1>2, SMT

\* A marker byte with flags keeps partition and flags apart.
LEMMA MarkerByte ==
    ASSUME NEW tid \in 0..15, NEW f \in 1..3
    PROVE  /\ tid + 16 * f \in 0..255
           /\ ~ (tid + 16 * f < 16)
           /\ (tid + 16 * f) % 16 = tid
           /\ ((tid + 16 * f) \div 16) % 4 = f
<1>1. CASE f = 1
  BY <1>1, SMT
<1>2. CASE f = 2
  BY <1>2, SMT
<1>3. CASE f = 3
  BY <1>3, SMT
<1> QED  BY <1>1, <1>2, <1>3, SMT

\* Whatever block multiplex_write writes, of any partition and of any length up
\* to WRITE_BUFFER_SIZE, process_buffer takes the same partition, length and
\* number of header bytes from the header.
THEOREM HeadersRoundTrip ==
    \A tid \in 0..15, len \in 1..WriteBufferSize : HeaderRoundTrip(tid, len)
<1> SUFFICES ASSUME NEW tid \in 0..15, NEW len \in 1..WriteBufferSize
             PROVE  HeaderRoundTrip(tid, len)
  BY Zenon
<1>1. CASE HasFlag(len)
  <2> DEFINE f == FlagOf(len)
             marker == tid + 16 * f
  <2>1. f \in 1..3 /\ FlaggedLen(f) = len
    BY <1>1, Zenon DEF HasFlag, FlagOf
  <2> HIDE DEF f
  <2>2. /\ marker \in 0..255 /\ ~ (marker < 16)
        /\ marker % 16 = tid /\ (marker \div 16) % 4 = f
    BY <2>1, MarkerByte, Zenon
  <2>3. BlockHeader(tid, len) = <<marker>>
    BY <1>1, Zenon DEF BlockHeader, f
  <2> HIDE DEF marker
  <2>4. /\ Len(<<marker>>) = 1 /\ <<marker>>[1] = marker
        /\ \A i \in 1..Len(<<marker>>) : <<marker>>[i] \in 0..255
    BY <2>2, SMT
  <2>5. ~ MarkerNeedsLength(marker) /\ MarkerLen(marker) = len
        /\ MarkerPartition(marker) = tid
    BY <2>1, <2>2, Zenon DEF MarkerNeedsLength, MarkerLen, MarkerPartition
  <2> QED  BY <2>3, <2>4, <2>5, Zenon DEF HeaderRoundTrip, HeaderLen
<1>2. CASE ~ HasFlag(len)
  <2> DEFINE b0 == (len - 1) % 256
             b1 == (len - 1) \div 256
             header == <<tid, b0, b1>>
  <2>1. b0 \in 0..255 /\ b1 \in 0..255 /\ b1 * 256 + b0 + 1 = len
    BY U16Bytes, Zenon
  <2>2. BlockHeader(tid, len) = header
    BY <1>2, Zenon DEF BlockHeader
  <2> HIDE DEF b0, b1
  <2>3. /\ Len(header) = 3
        /\ header[1] = tid /\ header[2] = b0 /\ header[3] = b1
        /\ \A i \in 1..Len(header) : header[i] \in 0..255
    BY <2>1, SMT
  <2>4. tid % 16 = tid /\ tid < 16
    BY SMT
  <2>5. MarkerNeedsLength(tid) /\ MarkerPartition(tid) = tid /\ U16Len(b0, b1) = len
    BY <2>1, <2>4, Zenon DEF MarkerNeedsLength, MarkerPartition, U16Len
  <2> HIDE DEF header
  <2> QED  BY <2>2, <2>3, <2>5, Zenon DEF HeaderRoundTrip, HeaderLen
<1> QED  BY <1>1, <1>2, Zenon

-----------------------------------------------------------------------------
(* The control invariant                                                   *)

Phases == {"queued", "running", "eof", "report", "over", "dropped"}
Messages == [eof : BOOLEAN, part : P, data : Seq(Int)]

WriteType ==
    /\ plan \in [P -> [total : Nat, ending : Endings]]
    /\ queue \in Seq(P) /\ starting \in Nat /\ looking \in Nat
    /\ phase \in [P -> Phases]
    /\ left \in [P -> Nat] /\ chunk \in [P -> Nat]
    /\ buffer \in [P -> Seq(Int)] /\ \A p \in P : Len(buffer[p]) < Cap
    /\ chan \in [P -> Seq(Messages)]
    /\ outcome \in [P -> Endings \cup {"none"}]
    /\ pc \in {"inline", "carousel", "collect", "done"}
    /\ receivers \in Seq(P) /\ cur \in Nat
    /\ out \in Seq(Int)
    /\ collected \in 0..N

\* The closures in the queue are those nobody has taken.
QueueInv ==
    /\ \A i, j \in 1..Len(queue) : queue[i] = queue[j] => i = j
    /\ \A i \in 1..Len(queue) : phase[queue[i]] = "queued"

\* Where the caller is and what it still holds.
CallerInv ==
    /\ pc \in {"inline", "carousel"} =>
           cur < Len(receivers) /\ collected = 0 /\ verdict = <<"ok", NoPart>>
    /\ pc \in {"collect", "done"} => receivers = <<>>
    /\ pc = "collect" => collected < N /\ verdict[1] # "io"
    /\ pc = "done" => collected = N \/ verdict[1] = "io"

\* Unless the output failed, the caller listens to every closure that may still
\* send, and so every outcome is the processor's own.
SendersHeard ==
    verdict[1] # "io" =>
        /\ \A p \in P : SenderAlive(p) => ReceiverAlive(p)
        /\ \A p \in P : phase[p] \in {"report", "over"} => outcome[p] = plan[p].ending

\* Eof is sent, last of all, by closures whose processor returned Ok.
EofInv ==
    \A p \in P : /\ phase[p] = "eof" => plan[p].ending = "ok"
                 /\ \A i \in 1..Len(chan[p]) : chan[p][i].eof => phase[p] \in {"report", "over"}

Failed(p) == phase[p] = "over" /\ plan[p].ending # "ok"

\* The verdict after the results of the partitions below collected.
VerdictInv ==
    verdict[1] # "io" =>
        /\ \A p \in P : p < collected => phase[p] \in {"over", "dropped"}
        /\ \/ /\ verdict = <<"ok", NoPart>>
              /\ \A p \in P : p < collected => ~Failed(p) /\ phase[p] # "dropped"
           \/ \E p \in P :
                 /\ p < collected /\ Failed(p) /\ verdict = <<plan[p].ending, p>>
                 /\ \A q \in P : q < collected /\ Failed(q) => q <= p
           \/ \E p \in P :
                 /\ p < collected /\ phase[p] = "dropped" /\ verdict = <<"channel", p>>
                 /\ \A q \in P : q < collected => ~Failed(q)
                 /\ \A q \in P : q < collected /\ phase[q] = "dropped" => p <= q

ControlInv ==
    /\ WriteType
    /\ QueueInv
    /\ CallerInv
    /\ SendersHeard
    /\ EofInv
    /\ VerdictInv

-----------------------------------------------------------------------------
(* Types                                                                   *)

\* P has a first and a last element, and NoPart is not one of them.
LEMMA PartitionFacts ==
    /\ N \in Nat /\ N >= 1 /\ N <= 16 /\ P \subseteq Nat /\ 0 \in P /\ N - 1 \in P
    /\ \A p \in P : p < N /\ p # NoPart
  BY WriteAssumption DEF P, NoPart

\* The sequence of all partitions lists each of them once, in order.
LEMMA AllPartitionsFacts ==
    /\ AllPartitions \in Seq(P)
    /\ Len(AllPartitions) = N
    /\ \A i \in 1..N : AllPartitions[i] = i - 1
  <1>1. N \in Nat /\ \A i \in 1..N : i - 1 \in P
    BY PartitionFacts DEF P
  <1>2. AllPartitions \in [1..N -> P]
    BY <1>1 DEF AllPartitions
  <1> QED
    BY <1>1, <1>2 DEF AllPartitions

\* The first state has the types.
LEMMA WriteTypeInit == Init => WriteType
  <1> SUFFICES ASSUME Init PROVE WriteType
    OBVIOUS
  <1>1. plan \in [P -> [total : Nat, ending : Endings]]
    BY WriteAssumption DEF Init
  <1>2. /\ starting \in Nat /\ looking \in Nat /\ queue = AllPartitions
        /\ phase = [p \in P |-> "queued"] /\ pc \in {"inline", "carousel"}
    BY PartitionFacts DEF Init, InitInline, InitSpawned
  <1>3. 0 \in 0..N /\ <<>> \in Seq(Int) /\ <<>> \in Seq(Messages) /\ Len(<<>>) = 0 /\ 0 < Cap
    BY PartitionFacts, WriteAssumption
  <1>4. left \in [P -> Nat]
    <2>1. \A p \in P : plan[p].total \in Nat
      BY <1>1
    <2> QED
      BY <2>1 DEF Init
  <1>5. buffer \in [P -> Seq(Int)] /\ \A p \in P : Len(buffer[p]) < Cap
    BY <1>3 DEF Init
  <1> QED
    BY <1>1, <1>2, <1>3, <1>4, <1>5, AllPartitionsFacts DEF Init, WriteType, Phases

\* What a send does to the channel, the phase and the outcome.
LEMMA SendBlockType ==
    ASSUME WriteType, NEW p \in P, NEW data \in Seq(Int), SendBlock(p, data)
    PROVE  /\ chan' \in [P -> Seq(Messages)]
           /\ phase' \in [P -> Phases]
           /\ outcome' \in [P -> Endings \cup {"none"}]
  <1>1. Block(p, data) \in Messages
    BY DEF Block, Messages
  <1>2. chan[p] \in Seq(Messages)
    BY DEF WriteType
  <1>3. Append(chan[p], Block(p, data)) \in Seq(Messages)
    BY <1>1, <1>2, AppendProperties
  <1> QED
    BY <1>3 DEF WriteType, SendBlock, Phases, Endings

\* The bytes that are copied are integers.
LEMMA NextBytesType ==
    ASSUME WriteType, NEW p \in P, NEW n \in Nat
    PROVE  /\ NextBytes(p, n) \in Seq(Int)
           /\ Len(NextBytes(p, n)) = n
           /\ \A i \in 1..n : NextBytes(p, n)[i] = Payload(p, plan[p].total - left[p] - chunk[p] + i)
  <1> DEFINE first == plan[p].total - left[p] - chunk[p]
  <1>1. first \in Int /\ p \in Int
    <2>1. plan[p] \in [total : Nat, ending : Endings] /\ left[p] \in Nat /\ chunk[p] \in Nat
      BY DEF WriteType
    <2>2. plan[p].total \in Nat
      BY <2>1
    <2>3. p \in Nat
      BY PartitionFacts
    <2> QED
      BY <2>1, <2>2, <2>3
  <1>2. NextBytes(p, n) = [i \in 1..n |-> Payload(p, first + i)]
    BY Zenon DEF NextBytes
  <1> HIDE DEF first
  <1>3. \A i \in 1..n : Payload(p, first + i) \in Int
    BY <1>1 DEF Payload
  <1>4. NextBytes(p, n) \in [1..n -> Int]
    BY <1>2, <1>3
  <1> QED
    BY <1>2, <1>4 DEF first

\* Starting, losing and ending workers keeps the types.
LEMMA WriteTypeWorker == WriteType /\ WorkerStep => WriteType'
  <1> SUFFICES ASSUME WriteType, WorkerStep PROVE WriteType'
    OBVIOUS
  <1> USE DEF WriteType, WorkerStep, closure
  <1>1. CASE WorkerStarts /\ UNCHANGED pc
    BY <1>1 DEF WorkerStarts
  <1>2. CASE WorkerLost /\ UNCHANGED pc
    BY <1>2 DEF WorkerLost
  <1>3. CASE TakeClosure /\ UNCHANGED pc
    <2>1. queue # <<>> /\ queue' = Tail(queue) /\ phase' = [phase EXCEPT ![Head(queue)] = "running"]
          /\ looking > 0 /\ looking' = looking - 1 /\ starting' = starting
      BY <1>3 DEF TakeClosure
    <2>2. queue' \in Seq(P)
      BY <2>1, HeadTailProperties
    <2>3. phase' \in [P -> Phases] /\ looking' \in Nat
      BY <2>1 DEF Phases
    <2> QED
      BY <1>3, <2>1, <2>2, <2>3
  <1>4. CASE WorkerExits /\ pc' = IF pc = "inline" THEN "carousel" ELSE pc
    BY <1>4 DEF WorkerExits
  <1>5. CASE QueueDropped /\ UNCHANGED pc
    BY <1>5 DEF QueueDropped, Phases
  <1> QED
    BY <1>1, <1>2, <1>3, <1>4, <1>5

\* What one turn of the loop of write copies.
LEMMA CopyFacts ==
    ASSUME WriteType, NEW p \in P, CopyIntoBuffer(p)
    PROVE  \E amount \in Nat, filled \in Seq(Int) :
             /\ 1 <= amount /\ amount <= chunk[p]
             /\ Len(filled) = Len(buffer[p]) + amount /\ Len(filled) <= Cap
             /\ Len(filled) < Cap => amount = chunk[p]
             /\ filled = buffer[p] \o NextBytes(p, amount)
             /\ chunk' = [chunk EXCEPT ![p] = @ - amount]
             /\ \/ /\ Len(filled) = Cap
                   /\ SendBlock(p, filled)
                   /\ buffer' = [buffer EXCEPT ![p] = <<>>]
                \/ /\ Len(filled) # Cap
                   /\ buffer' = [buffer EXCEPT ![p] = filled]
                   /\ UNCHANGED <<phase, outcome, chan>>
  <1> DEFINE amount == IF Cap - Len(buffer[p]) < chunk[p] THEN Cap - Len(buffer[p]) ELSE chunk[p]
             filled == buffer[p] \o NextBytes(p, amount)
  <1>1. /\ buffer[p] \in Seq(Int) /\ chunk[p] \in Nat /\ Len(buffer[p]) \in Nat /\ Cap \in Nat
        /\ Len(buffer[p]) < Cap /\ chunk[p] > 0
    BY WriteAssumption DEF WriteType, CopyIntoBuffer
  <1>2. /\ amount \in Nat /\ 1 <= amount /\ amount <= chunk[p]
        /\ Len(buffer[p]) + amount <= Cap
        /\ Len(buffer[p]) + amount < Cap => amount = chunk[p]
    BY <1>1
  <1>3. /\ chunk' = [chunk EXCEPT ![p] = @ - amount]
        /\ IF Len(filled) = Cap
             THEN /\ SendBlock(p, filled)
                  /\ buffer' = [buffer EXCEPT ![p] = <<>>]
             ELSE /\ buffer' = [buffer EXCEPT ![p] = filled]
                  /\ UNCHANGED <<phase, outcome, chan>>
    BY Zenon DEF CopyIntoBuffer
  <1> HIDE DEF amount
  <1>4. NextBytes(p, amount) \in Seq(Int) /\ Len(NextBytes(p, amount)) = amount
    BY <1>2, NextBytesType
  <1>5. filled \in Seq(Int) /\ Len(filled) = Len(buffer[p]) + amount
    BY <1>1, <1>4, ConcatProperties
  <1>6. filled = buffer[p] \o NextBytes(p, amount)
    OBVIOUS
  <1> HIDE DEF filled
  <1>7. /\ Len(filled) <= Cap /\ (Len(filled) < Cap => amount = chunk[p])
    BY <1>2, <1>5
  <1> QED
    BY <1>2, <1>3, <1>5, <1>6, <1>7, Zenon

\* A step of the closure of partition p (a write, a send, its end) keeps the types.
LEMMA WriteTypeClosure ==
    ASSUME WriteType, NEW p \in P, ClosureStep(p) PROVE WriteType'
  <1> USE DEF WriteType
  <1>0. <<>> \in Seq(Int) /\ Len(<<>>) = 0 /\ 0 < Cap
    BY WriteAssumption
  <1>1. ASSUME NEW n \in 1..MaxChunk, BeginWrite(p, n) PROVE WriteType'
    <2>1. n \in Nat
      BY WriteAssumption
    <2> QED
      BY <1>1, <2>1 DEF BeginWrite, threads, caller
  <1>2. CASE CopyIntoBuffer(p)
    <2>1. PICK amount \in Nat, filled \in Seq(Int) :
             /\ amount <= chunk[p] /\ Len(filled) <= Cap
             /\ chunk' = [chunk EXCEPT ![p] = @ - amount]
             /\ \/ /\ SendBlock(p, filled)
                   /\ buffer' = [buffer EXCEPT ![p] = <<>>]
                \/ /\ Len(filled) # Cap
                   /\ buffer' = [buffer EXCEPT ![p] = filled]
                   /\ UNCHANGED <<phase, outcome, chan>>
      BY <1>2, CopyFacts, Zenon
    <2>2. UNCHANGED <<plan, queue, starting, looking, left, pc, receivers, cur, out, collected, verdict>>
      BY <1>2, Zenon DEF CopyIntoBuffer, caller
    <2>3. chunk' \in [P -> Nat]
      BY <2>1
    <2>4. CASE SendBlock(p, filled) /\ buffer' = [buffer EXCEPT ![p] = <<>>]
      <3>1. /\ chan' \in [P -> Seq(Messages)]
            /\ phase' \in [P -> Phases]
            /\ outcome' \in [P -> Endings \cup {"none"}]
        BY <2>4, SendBlockType
      <3>2. buffer' \in [P -> Seq(Int)] /\ \A q \in P : Len(buffer'[q]) < Cap
        BY <1>0, <2>4
      <3> QED
        BY <2>2, <2>3, <3>1, <3>2
    <2>5. CASE /\ Len(filled) # Cap
               /\ buffer' = [buffer EXCEPT ![p] = filled]
               /\ UNCHANGED <<phase, outcome, chan>>
      <3>1. Len(filled) < Cap
        BY <2>1, <2>5, WriteAssumption
      <3>2. buffer' \in [P -> Seq(Int)] /\ \A q \in P : Len(buffer'[q]) < Cap
        BY <2>5, <3>1
      <3> QED
        BY <2>2, <2>3, <2>5, <3>2
    <2> QED
      BY <2>1, <2>4, <2>5
  <1>3. CASE FinalFlush(p)
    <2>1. /\ buffer' = [buffer EXCEPT ![p] = <<>>] /\ buffer[p] \in Seq(Int)
          /\ UNCHANGED <<plan, queue, starting, looking, left, chunk,
                         pc, receivers, cur, out, collected, verdict>>
      BY <1>3 DEF FinalFlush, caller
    <2>2. buffer' \in [P -> Seq(Int)] /\ \A q \in P : Len(buffer'[q]) < Cap
      BY <1>0, <2>1
    <2>3. CASE SendBlock(p, buffer[p])
      <3>1. /\ chan' \in [P -> Seq(Messages)]
            /\ phase' \in [P -> Phases]
            /\ outcome' \in [P -> Endings \cup {"none"}]
        BY <2>1, <2>3, SendBlockType
      <3> QED
        BY <2>1, <2>2, <3>1
    <2>4. CASE /\ chan' = IF buffer[p] = <<>> THEN chan
                          ELSE [chan EXCEPT ![p] = Append(@, Block(p, buffer[p]))]
               /\ phase' = [phase EXCEPT ![p] = "eof"]
               /\ UNCHANGED outcome
      <3>1. Block(p, buffer[p]) \in Messages /\ chan[p] \in Seq(Messages)
        BY <2>1 DEF Block, Messages
      <3>2. Append(chan[p], Block(p, buffer[p])) \in Seq(Messages)
        BY <3>1, AppendProperties
      <3>3. chan' \in [P -> Seq(Messages)] /\ phase' \in [P -> Phases]
        BY <2>4, <3>2 DEF Phases
      <3> QED
        BY <2>1, <2>2, <2>4, <3>3
    <2> QED
      BY <1>3, <2>3, <2>4, Zenon DEF FinalFlush
  <1>4. CASE SendEof(p)
    <2>1. Eof(p) \in Messages /\ chan[p] \in Seq(Messages)
      BY <1>0 DEF Eof, Messages
    <2>2. Append(chan[p], Eof(p)) \in Seq(Messages)
      BY <2>1, AppendProperties
    <2> QED
      BY <1>4, <2>2 DEF SendEof, caller, Phases, Endings
  <1>5. CASE ProcessorFails(p)
    BY <1>5 DEF ProcessorFails, caller, Phases, Endings
  <1>6. CASE Report(p)
    BY <1>6 DEF Report, ClosureReturns, closure, caller, Phases
  <1> QED
    BY <1>1, <1>2, <1>3, <1>4, <1>5, <1>6 DEF ClosureStep

\* A block is written as a header and its bytes.
LEMMA FrameType ==
    ASSUME NEW m \in Messages PROVE Frame(m) \in Seq(Int)
  <1>1. m.part \in Int /\ m.data \in Seq(Int) /\ Len(m.data) \in Nat
    <2>1. m.part \in P /\ m.data \in Seq(Int)
      BY DEF Messages
    <2>2. Len(m.data) \in Nat
      BY <2>1, LenProperties
    <2>3. \A p \in P : p \in Int
      BY PartitionFacts
    <2> QED
      BY <2>1, <2>2, <2>3, Zenon
  <1> DEFINE len == Len(m.data)
             tid == m.part
  <1>2. tid \in Int /\ len \in Nat
    BY <1>1
  <1> HIDE DEF len, tid
  <1>3. BlockHeader(tid, len) \in Seq(Int)
    <2>1. CASE HasFlag(len)
      <3>1. FlagOf(len) \in 1..3
        BY <2>1, Zenon DEF HasFlag, FlagOf
      <3>2. tid + 16 * FlagOf(len) \in Int
        BY <1>2, <3>1
      <3> QED
        BY <2>1, <3>2 DEF BlockHeader
    <2>2. CASE ~HasFlag(len)
      <3>1. (len - 1) % 256 \in Int /\ (len - 1) \div 256 \in Int
        BY <1>2
      <3>2. BlockHeader(tid, len) = <<tid, (len - 1) % 256, (len - 1) \div 256>>
        BY <2>2, Zenon DEF BlockHeader
      <3> QED
        BY <1>2, <3>1, <3>2
    <2> QED
      BY <2>1, <2>2
  <1> QED
    BY <1>1, <1>3, ConcatProperties DEF Frame, len, tid

\* The partition the caller looks at, while it looks at one.
LEMMA CurrentType ==
    ASSUME WriteType, CallerInv, pc \in {"inline", "carousel"}
    PROVE  Current \in P /\ cur + 1 \in 1..Len(receivers) /\ Len(receivers) \in Nat
  <1>1. cur \in Nat /\ receivers \in Seq(P) /\ cur < Len(receivers) /\ Len(receivers) \in Nat
    BY DEF WriteType, CallerInv
  <1>2. cur + 1 \in 1..Len(receivers)
    BY <1>1
  <1> QED
    BY <1>1, <1>2, ElementOfSeq DEF Current

\* What the caller does when it meets a block, or the end of a partition.
LEMMA WriteTypeCaller == WriteType /\ CallerInv /\ CallerStep => WriteType'
  <1> SUFFICES ASSUME WriteType, CallerInv, CallerStep PROVE WriteType'
    OBVIOUS
  <1>0. ASSUME NextIsBlock
        PROVE  /\ Current \in P /\ cur + 1 \in 1..Len(receivers) /\ chan[Current] \in Seq(Messages)
               /\ Frame(Head(chan[Current])) \in Seq(Int)
               /\ Tail(chan[Current]) \in Seq(Messages)
    <2>1. Current \in P /\ cur + 1 \in 1..Len(receivers) /\ chan[Current] # <<>>
      BY <1>0, CurrentType DEF NextIsBlock
    <2>2. chan[Current] \in Seq(Messages)
      BY <2>1 DEF WriteType
    <2>3. Head(chan[Current]) \in Messages /\ Tail(chan[Current]) \in Seq(Messages)
      BY <2>1, <2>2, HeadTailProperties
    <2> QED
      BY <2>1, <2>2, <2>3, FrameType
  <1>1. CASE WriteBlock
    <2>1. NextIsBlock
      BY <1>1 DEF WriteBlock
    <2>2. out' \in Seq(Int)
      BY <1>0, <1>1, <2>1, ConcatProperties DEF WriteBlock, WriteType
    <2>3. chan' \in [P -> Seq(Messages)]
      BY <1>0, <1>1, <2>1 DEF WriteBlock, WriteType
    <2>4. cur' \in Nat
      <3>1. cur \in Nat /\ Len(receivers) \in Nat \ {0} /\ cur' = (cur + 1) % Len(receivers)
        BY <1>0, <1>1, <2>1 DEF WriteBlock, WriteType
      <3> QED
        BY <3>1
    <2>5. UNCHANGED <<plan, queue, starting, looking, phase, left, chunk, buffer, outcome,
                      pc, receivers, collected, verdict>>
      BY <1>1, Zenon DEF WriteBlock, threads
    <2> QED
      BY <2>2, <2>3, <2>4, <2>5 DEF WriteType
  <1>2. CASE OutputFails
    <2>1. NextIsBlock
      BY <1>2 DEF OutputFails
    <2> DEFINE frame == Frame(Head(chan[Current]))
    <2>2. frame \in Seq(Int) /\ Len(frame) \in Nat
      BY <1>0, <2>1, LenProperties
    <2>3. PICK k \in 0..(Len(frame) - 1) : out' = out \o SubSeq(frame, 1, k)
      BY <1>2, Zenon DEF OutputFails
    <2> HIDE DEF frame
    <2>4. SubSeq(frame, 1, k) \in Seq(Int)
      <3>1. k \in 0..Len(frame)
        BY <2>2
      <3> QED
        BY <2>2, <3>1, PrefixEntries
    <2>5. out' \in Seq(Int)
      BY <2>3, <2>4, ConcatProperties DEF WriteType
    <2>6. chan' \in [P -> Seq(Messages)]
      BY <1>0, <1>2, <2>1 DEF OutputFails, WriteType
    <2>7. /\ UNCHANGED <<plan, queue, starting, looking, phase, left, chunk, buffer, outcome,
                         cur, collected>>
          /\ pc' = "done" /\ receivers' = <<>>
      BY <1>2, Zenon DEF OutputFails, threads
    <2> QED
      BY <2>5, <2>6, <2>7 DEF WriteType
  <1>3. CASE RemovePartition
    <2> DEFINE rest == RemoveAt(receivers, cur + 1)
    <2>1. Current \in P /\ cur + 1 \in 1..Len(receivers) /\ receivers \in Seq(P)
      BY <1>3, CurrentType DEF RemovePartition, WriteType
    <2>2. rest \in Seq(P) /\ receivers' = rest
      BY <1>3, <2>1, RemoveAtEntries DEF RemovePartition
    <2> HIDE DEF rest
    <2>3. rest # <<>> => Len(rest) \in Nat \ {0}
      BY <2>2, EmptySeq
    <2>4. cur' \in Nat /\ pc' \in {"inline", "carousel", "collect", "done"}
      <3>1. CASE rest = <<>>
        BY <1>3, <3>1 DEF RemovePartition, rest, WriteType
      <3>2. CASE rest # <<>>
        <4>1. cur' = cur % Len(rest) /\ pc' = pc /\ cur \in Nat
          BY <1>3, <3>2 DEF RemovePartition, rest, WriteType
        <4> QED
          BY <2>3, <3>2, <4>1 DEF WriteType
      <3> QED
        BY <3>1, <3>2
    <2>5. /\ UNCHANGED <<plan, queue, starting, looking, phase, left, chunk, buffer, outcome,
                         out, collected, verdict>>
          /\ chan' = [chan EXCEPT ![Current] = <<>>]
      BY <1>3, Zenon DEF RemovePartition, threads
    <2>6. chan' \in [P -> Seq(Messages)]
      <3>1. <<>> \in Seq(Messages) /\ chan \in [P -> Seq(Messages)]
        BY EmptySeq DEF WriteType
      <3> QED
        BY <2>1, <2>5, <3>1
    <2> QED
      BY <2>2, <2>4, <2>5, <2>6 DEF WriteType
  <1>4. CASE Collect
    <2>1. /\ UNCHANGED <<plan, queue, starting, looking, phase, left, chunk, buffer, chan,
                         outcome, receivers, cur, out>>
          /\ pc = "collect" /\ collected' = collected + 1
          /\ pc' = IF collected + 1 = N THEN "done" ELSE pc
      BY <1>4, Zenon DEF Collect, threads, closure
    <2>2. collected' \in 0..N
      BY <2>1, PartitionFacts DEF WriteType, CallerInv
    <2> QED
      BY <2>1, <2>2 DEF WriteType
  <1> QED
    BY <1>1, <1>2, <1>3, <1>4 DEF CallerStep

-----------------------------------------------------------------------------
(* Control: the queue, the caller and the closures                         *)

\* multiplex_write starts with every closure queued and every channel open and empty.
LEMMA ControlInit == Init => ControlInv
  <1> SUFFICES ASSUME Init PROVE ControlInv
    OBVIOUS
  <1>1. WriteType
    BY WriteTypeInit
  <1>2. /\ queue = AllPartitions /\ phase = [p \in P |-> "queued"] /\ pc \in {"inline", "carousel"}
        /\ chan = [p \in P |-> <<>>] /\ receivers = AllPartitions /\ cur = 0 /\ collected = 0
        /\ verdict = <<"ok", NoPart>>
    BY DEF Init, InitInline, InitSpawned
  <1>3. QueueInv
    BY <1>2, AllPartitionsFacts, PartitionFacts DEF QueueInv, P
  <1>4. CallerInv
    BY <1>2, AllPartitionsFacts, PartitionFacts DEF CallerInv
  <1>5. SendersHeard
    <2>1. ASSUME NEW p \in P PROVE ReceiverAlive(p)
      <3>1. p + 1 \in 1..N /\ AllPartitions[p + 1] = p
        BY AllPartitionsFacts, PartitionFacts DEF P
      <3> QED
        BY <1>2, <3>1, AllPartitionsFacts DEF ReceiverAlive
    <2> QED
      BY <1>2, <2>1 DEF SendersHeard
  <1>6. EofInv
    BY <1>2 DEF EofInv
  <1>7. VerdictInv
    BY <1>2, PartitionFacts DEF VerdictInv
  <1> QED
    BY <1>1, <1>3, <1>4, <1>5, <1>6, <1>7 DEF ControlInv

\* A step that leaves results and verdict alone and no phase that is final.
LEMMA VerdictKept ==
    ASSUME WriteType, VerdictInv, UNCHANGED <<plan, collected, verdict>>,
           \A p \in P : phase[p] \in {"over", "dropped"} => phase'[p] = phase[p]
    PROVE  VerdictInv'
  <1> SUFFICES ASSUME verdict[1] # "io" PROVE VerdictInv'
    BY DEF VerdictInv
  <1>1. /\ \A p \in P : p < collected => phase[p] \in {"over", "dropped"} /\ phase'[p] = phase[p]
        /\ \A p \in P : p < collected => (Failed(p)' <=> Failed(p))
    BY DEF VerdictInv, Failed
  <1>2. CASE /\ verdict = <<"ok", NoPart>>
             /\ \A p \in P : p < collected => ~Failed(p) /\ phase[p] # "dropped"
    BY <1>1, <1>2, Zenon DEF VerdictInv
  <1>3. ASSUME NEW p \in P, p < collected, Failed(p), verdict = <<plan[p].ending, p>>,
               \A q \in P : q < collected /\ Failed(q) => q <= p
        PROVE  VerdictInv'
    BY <1>1, <1>3, Zenon DEF VerdictInv
  <1>4. ASSUME NEW p \in P, p < collected, phase[p] = "dropped", verdict = <<"channel", p>>,
               \A q \in P : q < collected => ~Failed(q),
               \A q \in P : q < collected /\ phase[q] = "dropped" => p <= q
        PROVE  VerdictInv'
    BY <1>1, <1>4, Zenon DEF VerdictInv
  <1> QED
    BY <1>2, <1>3, <1>4, Zenon DEF VerdictInv

\* Workers start closures that nobody started and drop closures that nobody took.
LEMMA ControlWorker == ControlInv /\ WorkerStep => ControlInv'
  <1> SUFFICES ASSUME ControlInv, WorkerStep PROVE ControlInv'
    OBVIOUS
  <1> USE DEF ControlInv
  <1>1. WriteType'
    BY WriteTypeWorker
  <1>2. UNCHANGED <<plan, left, chunk, buffer, chan, outcome, receivers, cur, out, collected, verdict>>
    BY Zenon DEF WorkerStep, closure
  <1>3. pc' = pc \/ (pc = "inline" /\ pc' = "carousel")
    BY Zenon DEF WorkerStep
  <1>4. CallerInv'
    BY <1>2, <1>3 DEF CallerInv
  <1>5. CASE UNCHANGED <<queue, phase>>
    <2>1. QueueInv'
      BY <1>5 DEF QueueInv
    <2>2. SendersHeard' /\ EofInv'
      BY <1>2, <1>5 DEF SendersHeard, EofInv, SenderAlive, ReceiverAlive
    <2>3. VerdictInv'
      BY <1>2, <1>5, VerdictKept
    <2> QED
      BY <1>1, <1>4, <2>1, <2>2, <2>3
  <1>6. CASE TakeClosure
    <2> DEFINE k == queue[1]
    <2>1. queue \in Seq(P) /\ queue # <<>> /\ Len(queue) \in Nat \ {0} /\ 1 \in 1..Len(queue)
      <3>1. queue \in Seq(P) /\ queue # <<>>
        BY <1>6 DEF TakeClosure, WriteType
      <3>2. Len(queue) \in Nat \ {0}
        BY <3>1, EmptySeq
      <3> QED
        BY <3>1, <3>2
    <2>2. /\ k \in P /\ phase[k] = "queued" /\ Head(queue) = k
          /\ Len(Tail(queue)) = Len(queue) - 1
          /\ \A i \in 1..(Len(queue) - 1) : Tail(queue)[i] = queue[i + 1] /\ queue[i + 1] # k
      <3>1. k \in P
        BY <2>1, ElementOfSeq
      <3>2. phase[k] = "queued" /\ Head(queue) = k
        BY <2>1 DEF QueueInv
      <3>3. Len(Tail(queue)) = Len(queue) - 1
        BY <2>1, HeadTailProperties
      <3>4. \A i \in 1..(Len(queue) - 1) : Tail(queue)[i] = queue[i + 1]
        BY <2>1, <3>3, HeadTailProperties
      <3>5. \A i \in 1..(Len(queue) - 1) : queue[i + 1] # k
        BY <2>1 DEF QueueInv
      <3> QED
        BY <3>1, <3>2, <3>3, <3>4, <3>5
    <2> HIDE DEF k
    <2>3. queue' = Tail(queue) /\ \A p \in P : phase'[p] = IF p = k THEN "running" ELSE phase[p]
      BY <1>6, <2>2 DEF TakeClosure, WriteType
    <2>4. QueueInv'
      <3>1. ASSUME NEW i \in 1..Len(queue')
            PROVE  i + 1 \in 1..Len(queue) /\ queue'[i] = queue[i + 1] /\ queue'[i] # k
                   /\ queue[i + 1] \in P
        BY <2>1, <2>2, <2>3, ElementOfSeq
      <3>2. \A i, j \in 1..Len(queue') : queue'[i] = queue'[j] => i = j
        <4>1. ASSUME NEW i \in 1..Len(queue'), NEW j \in 1..Len(queue'), queue'[i] = queue'[j]
              PROVE  i = j
          <5>1. i + 1 = j + 1
            BY <3>1, <4>1 DEF QueueInv
          <5> QED
            BY <5>1
        <4> QED
          BY <4>1
      <3>3. \A i \in 1..Len(queue') : phase'[queue'[i]] = "queued"
        BY <2>3, <3>1 DEF QueueInv
      <3> QED
        BY <3>2, <3>3 DEF QueueInv
    <2>5. SendersHeard' /\ EofInv'
      BY <1>2, <2>2, <2>3 DEF SendersHeard, EofInv, SenderAlive, ReceiverAlive
    <2>6. VerdictInv'
      BY <1>2, <2>2, <2>3, VerdictKept
    <2> QED
      BY <1>1, <1>4, <2>4, <2>5, <2>6
  <1>7. CASE QueueDropped
    <2>1. /\ queue' = <<>>
          /\ \A p \in P : phase'[p] = IF phase[p] = "queued" THEN "dropped" ELSE phase[p]
      BY <1>7 DEF QueueDropped
    <2>2. QueueInv'
      BY <2>1 DEF QueueInv
    <2>3. SendersHeard' /\ EofInv'
      BY <1>2, <2>1 DEF SendersHeard, EofInv, SenderAlive, ReceiverAlive
    <2>4. VerdictInv'
      BY <1>2, <2>1, VerdictKept
    <2> QED
      BY <1>1, <1>4, <2>2, <2>3, <2>4
  <1> QED
    BY <1>5, <1>6, <1>7, Zenon DEF WorkerStep, WorkerStarts, WorkerLost, WorkerExits

\* Closures that run are not in the queue, so a step of theirs keeps it.
LEMMA QueueKept ==
    ASSUME WriteType, QueueInv, NEW p \in P, phase[p] # "queued", queue' = queue,
           \A q \in P : q # p => phase'[q] = phase[q]
    PROVE  QueueInv'
  <1>1. \A i \in 1..Len(queue) : queue[i] \in P /\ queue[i] # p
    BY ElementOfSeq DEF WriteType, QueueInv
  <1> QED
    BY <1>1 DEF QueueInv

\* What a step of the closure of p does to its phase, outcome and channel, unless the
\* output failed: it stays as it is or adds a message, or it moves on.
ClosureMoves(p) ==
    \/ UNCHANGED <<phase, outcome, chan>>
    \/ /\ phase[p] = "running" /\ UNCHANGED <<phase, outcome>>
       /\ \E data \in Seq(Int) : chan' = [chan EXCEPT ![p] = Append(@, Block(p, data))]
    \/ /\ phase[p] = "running" /\ phase' = [phase EXCEPT ![p] = "eof"] /\ UNCHANGED outcome
       /\ plan[p].ending = "ok"
       /\ \/ UNCHANGED chan
          \/ \E data \in Seq(Int) : chan' = [chan EXCEPT ![p] = Append(@, Block(p, data))]
    \/ /\ phase[p] = "eof" /\ phase' = [phase EXCEPT ![p] = "report"]
       /\ outcome' = [outcome EXCEPT ![p] = "ok"]
       /\ chan' = [chan EXCEPT ![p] = Append(@, Eof(p))]
    \/ /\ phase[p] = "running" /\ phase' = [phase EXCEPT ![p] = "report"]
       /\ outcome' = [outcome EXCEPT ![p] = plan[p].ending] /\ UNCHANGED chan
    \/ /\ phase[p] = "report" /\ phase' = [phase EXCEPT ![p] = "over"]
       /\ UNCHANGED <<outcome, chan>>
    \/ /\ verdict[1] = "io" /\ phase[p] \in {"running", "eof"}
       /\ phase' = [phase EXCEPT ![p] = "report"] /\ UNCHANGED chan

\* Whatever a closure does, it only adds to its own channel or moves on in its phases.
LEMMA ClosureStepMoves ==
    ASSUME ControlInv, NEW p \in P, ClosureStep(p)
    PROVE  /\ ClosureMoves(p)
           /\ UNCHANGED <<plan, queue, pc, receivers, cur, out, collected, verdict>>
           /\ phase[p] \in {"running", "eof", "report"}
  <1> USE DEF ControlInv
  <1>0. phase[p] \in {"running", "eof"} /\ ~ReceiverAlive(p) => verdict[1] = "io"
    BY DEF SendersHeard, SenderAlive
  <1>1. ASSUME NEW n \in 1..MaxChunk, BeginWrite(p, n)
        PROVE  /\ ClosureMoves(p) /\ phase[p] = "running"
               /\ UNCHANGED <<plan, queue, pc, receivers, cur, out, collected, verdict>>
    BY <1>1, Zenon DEF BeginWrite, threads, caller, ClosureMoves
  <1>2. CASE CopyIntoBuffer(p)
    <2>1. /\ phase[p] = "running"
          /\ UNCHANGED <<plan, queue, pc, receivers, cur, out, collected, verdict>>
      BY <1>2, Zenon DEF CopyIntoBuffer, caller
    <2>2. PICK filled \in Seq(Int) : \/ SendBlock(p, filled)
                                   \/ UNCHANGED <<phase, outcome, chan>>
      BY <1>2, CopyFacts, Zenon
    <2>3. ClosureMoves(p)
      BY <1>0, <2>1, <2>2, Zenon DEF SendBlock, ClosureMoves
    <2> QED
      BY <2>1, <2>3
  <1>3. CASE FinalFlush(p)
    <2>1. /\ phase[p] = "running" /\ plan[p].ending = "ok" /\ buffer[p] \in Seq(Int)
          /\ UNCHANGED <<plan, queue, pc, receivers, cur, out, collected, verdict>>
      BY <1>3 DEF FinalFlush, AtEnd, caller, WriteType
    <2>2. CASE buffer[p] # <<>> /\ ~ReceiverAlive(p)
      BY <1>0, <1>3, <2>1, <2>2, Zenon DEF FinalFlush, SendBlock, ClosureMoves
    <2>3. CASE ~(buffer[p] # <<>> /\ ~ReceiverAlive(p))
      BY <1>3, <2>1, <2>3, Zenon DEF FinalFlush, ClosureMoves
    <2> QED
      BY <2>1, <2>2, <2>3
  <1>4. CASE SendEof(p)
    <2>1. /\ phase[p] = "eof"
          /\ UNCHANGED <<plan, queue, pc, receivers, cur, out, collected, verdict>>
      BY <1>4, Zenon DEF SendEof, caller
    <2>2. ClosureMoves(p)
      BY <1>0, <1>4, <2>1, Zenon DEF SendEof, ClosureMoves
    <2> QED
      BY <2>1, <2>2
  <1>5. CASE ProcessorFails(p)
    BY <1>5, Zenon DEF ProcessorFails, AtEnd, caller, ClosureMoves
  <1>6. CASE Report(p)
    BY <1>6, Zenon DEF Report, ClosureReturns, closure, caller, ClosureMoves
  <1> QED
    BY <1>1, <1>2, <1>3, <1>4, <1>5, <1>6, Zenon DEF ClosureStep

\* A step of a closure keeps what the caller relies on.
LEMMA ControlClosure ==
    ASSUME ControlInv, NEW p \in P, ClosureStep(p) PROVE ControlInv'
  <1> USE DEF ControlInv
  <1>1. WriteType'
    BY WriteTypeClosure
  <1>2. /\ ClosureMoves(p) /\ phase[p] \in {"running", "eof", "report"}
        /\ UNCHANGED <<plan, queue, pc, receivers, cur, out, collected, verdict>>
    BY ClosureStepMoves
  <1>3. \A q \in P : q # p => phase'[q] = phase[q] /\ outcome'[q] = outcome[q] /\ chan'[q] = chan[q]
    <2>1. \A q \in P : q # p => phase'[q] = phase[q]
      BY <1>2 DEF ClosureMoves, WriteType
    <2>2. \A q \in P : q # p => chan'[q] = chan[q]
      BY <1>2 DEF ClosureMoves, WriteType
    <2>3. ASSUME NEW q \in P, q # p PROVE outcome'[q] = outcome[q]
      <3>1. CASE SendEof(p) \/ ProcessorFails(p)
        BY <2>3, <3>1 DEF SendEof, ProcessorFails, WriteType
      <3>2. CASE CopyIntoBuffer(p) \/ FinalFlush(p)
        <4>1. \/ UNCHANGED outcome
              \/ outcome' = [outcome EXCEPT ![p] = "panic"]
          BY <3>2, Zenon DEF CopyIntoBuffer, FinalFlush, SendBlock
        <4> QED
          BY <2>3, <4>1 DEF WriteType
      <3>3. CASE (\E n \in 1..MaxChunk : BeginWrite(p, n)) \/ Report(p)
        BY <3>3, Zenon DEF BeginWrite, Report, closure
      <3> QED
        BY <3>1, <3>2, <3>3, Zenon DEF ClosureStep
    <2> QED
      BY <2>1, <2>2, <2>3
  <1>4. QueueInv'
    <2>1. phase[p] # "queued"
      BY <1>2
    <2> QED
      BY <1>2, <1>3, <2>1, QueueKept
  <1>5. CallerInv'
    BY <1>2 DEF CallerInv
  <1>6. SendersHeard'
    <2> SUFFICES ASSUME verdict[1] # "io" PROVE SendersHeard'
      BY <1>2, Zenon DEF SendersHeard
    <2>1. \A q \in P : (SenderAlive(q) => ReceiverAlive(q)) /\ (ReceiverAlive(q)' <=> ReceiverAlive(q))
      BY <1>2 DEF SendersHeard, ReceiverAlive
    <2>2. \A q \in P : SenderAlive(q)' => SenderAlive(q)
      BY <1>2, <1>3 DEF SenderAlive, ClosureMoves, WriteType
    <2>3. phase'[p] \in {"report", "over"} => outcome'[p] = plan[p].ending
      BY <1>2 DEF ClosureMoves, WriteType, SendersHeard, EofInv
    <2>4. \A q \in P : phase'[q] \in {"report", "over"} => outcome'[q] = plan[q].ending
      BY <1>3, <2>3 DEF SendersHeard
    <2> QED
      BY <1>2, <2>1, <2>2, <2>4 DEF SendersHeard
  <1>7. EofInv'
    <2>1. \A q \in P : q # p => (phase'[q] = "eof" => plan[q].ending = "ok")
      BY <1>3 DEF EofInv
    <2>2. \A q \in P : q # p =>
             \A i \in 1..Len(chan'[q]) : chan'[q][i].eof => phase'[q] \in {"report", "over"}
      BY <1>3 DEF EofInv
    <2>3. phase'[p] = "eof" => plan[p].ending = "ok"
      BY <1>2 DEF EofInv, ClosureMoves, WriteType
    <2>4. ASSUME NEW i \in 1..Len(chan'[p]), chan'[p][i].eof PROVE phase'[p] \in {"report", "over"}
      <3>1. chan[p] \in Seq(Messages) /\ Len(chan[p]) \in Nat
        BY LenProperties DEF WriteType
      <3>2. CASE UNCHANGED chan
        BY <1>2, <2>4, <3>2 DEF EofInv, ClosureMoves, WriteType
      <3>3. ASSUME NEW data \in Seq(Int), chan' = [chan EXCEPT ![p] = Append(@, Block(p, data))],
                   phase[p] = "running"
            PROVE  FALSE
        <4>1. Block(p, data) \in Messages /\ Block(p, data).eof = FALSE
          BY DEF Block, Messages
        <4>2. chan'[p] = Append(chan[p], Block(p, data))
          BY <3>3 DEF WriteType
        <4>3. /\ Len(chan'[p]) = Len(chan[p]) + 1
              /\ \A j \in 1..Len(chan[p]) : chan'[p][j] = chan[p][j]
              /\ chan'[p][Len(chan[p]) + 1] = Block(p, data)
          BY <3>1, <4>1, <4>2, AppendProperties
        <4>4. i \in 1..Len(chan[p])
          BY <2>4, <3>1, <4>1, <4>3
        <4> QED
          BY <2>4, <3>3, <4>3, <4>4 DEF EofInv
      <3>4. CASE phase' = [phase EXCEPT ![p] = "report"]
        BY <3>4 DEF WriteType
      <3> QED
        BY <1>2, <3>2, <3>3, <3>4, Zenon DEF ClosureMoves
    <2>5. ASSUME NEW q \in P
          PROVE  /\ phase'[q] = "eof" => plan[q].ending = "ok"
                 /\ \A i \in 1..Len(chan'[q]) : chan'[q][i].eof => phase'[q] \in {"report", "over"}
      BY <2>1, <2>2, <2>3, <2>4, Zenon
    <2> QED
      BY <1>2, <2>5 DEF EofInv
  <1>8. VerdictInv'
    <2>1. \A q \in P : phase[q] \in {"over", "dropped"} => phase'[q] = phase[q]
      BY <1>2, <1>3
    <2> QED
      BY <1>2, <2>1, VerdictKept
  <1> QED
    BY <1>1, <1>4, <1>5, <1>6, <1>7, <1>8

\* A step of the caller keeps what the closures and the caller rely on.
LEMMA ControlCaller == ControlInv /\ CallerStep => ControlInv'
  <1> SUFFICES ASSUME ControlInv, CallerStep PROVE ControlInv'
    OBVIOUS
  <1> USE DEF ControlInv
  <1>1. WriteType'
    BY WriteTypeCaller
  <1>2. UNCHANGED <<plan, queue, phase, outcome>>
    BY Zenon DEF CallerStep, WriteBlock, OutputFails, RemovePartition, Collect, threads, closure
  <1>3. QueueInv'
    BY <1>2 DEF QueueInv
  <1>4. CASE WriteBlock
    <2>1. NextIsBlock /\ pc \in {"inline", "carousel"}
          /\ UNCHANGED <<pc, receivers, collected, verdict>>
          /\ chan' = [chan EXCEPT ![Current] = Tail(@)] /\ cur' = (cur + 1) % Len(receivers)
      BY <1>4 DEF WriteBlock, NextIsBlock
    <2>2. Current \in P /\ cur \in Nat /\ Len(receivers) \in Nat \ {0}
      <3>1. Current \in P /\ cur + 1 \in 1..Len(receivers) /\ Len(receivers) \in Nat /\ cur \in Nat
        BY <2>1, CurrentType DEF WriteType
      <3> QED
        BY <3>1
    <2>3. CallerInv'
      <3>1. cur' < Len(receivers)
        BY <2>1, <2>2
      <3> QED
        BY <2>1, <3>1 DEF CallerInv
    <2>4. SendersHeard'
      BY <1>2, <2>1 DEF SendersHeard, SenderAlive, ReceiverAlive
    <2>5. EofInv'
      <3>1. ASSUME NEW i \in 1..Len(Tail(chan[Current])), Tail(chan[Current])[i].eof
            PROVE  phase[Current] \in {"report", "over"}
        <4>1. chan[Current] \in Seq(Messages) /\ chan[Current] # <<>> /\ Len(chan[Current]) \in Nat
          BY <2>1, <2>2, LenProperties DEF WriteType, NextIsBlock
        <4>2. /\ Len(Tail(chan[Current])) = Len(chan[Current]) - 1
              /\ Tail(chan[Current])[i] = chan[Current][i + 1]
          BY <4>1, HeadTailProperties
        <4>3. i + 1 \in 1..Len(chan[Current])
          BY <4>1, <4>2
        <4> QED
          BY <2>2, <3>1, <4>2, <4>3 DEF EofInv
      <3>2. \A q \in P : chan'[q] = IF q = Current THEN Tail(chan[Current]) ELSE chan[q]
        BY <2>1, <2>2 DEF WriteType
      <3> QED
        BY <1>2, <3>1, <3>2 DEF EofInv
    <2>6. VerdictInv'
      BY <1>2, <2>1, VerdictKept
    <2> QED
      BY <1>1, <1>3, <2>3, <2>4, <2>5, <2>6
  <1>5. CASE OutputFails
    <2>1. NextIsBlock /\ pc' = "done" /\ receivers' = <<>> /\ verdict' = <<"io", NoPart>>
          /\ UNCHANGED collected /\ chan' = [chan EXCEPT ![Current] = Tail(@)]
      BY <1>5, Zenon DEF OutputFails
    <2>2. Current \in P
      BY <2>1, CurrentType DEF NextIsBlock
    <2>3. CallerInv' /\ SendersHeard' /\ VerdictInv'
      BY <2>1 DEF CallerInv, SendersHeard, VerdictInv
    <2>4. EofInv'
      <3>1. ASSUME NEW i \in 1..Len(Tail(chan[Current])), Tail(chan[Current])[i].eof
            PROVE  phase[Current] \in {"report", "over"}
        <4>1. chan[Current] \in Seq(Messages) /\ chan[Current] # <<>> /\ Len(chan[Current]) \in Nat
          BY <2>1, <2>2, LenProperties DEF WriteType, NextIsBlock
        <4>2. /\ Len(Tail(chan[Current])) = Len(chan[Current]) - 1
              /\ Tail(chan[Current])[i] = chan[Current][i + 1]
          BY <4>1, HeadTailProperties
        <4>3. i + 1 \in 1..Len(chan[Current])
          BY <4>1, <4>2
        <4> QED
          BY <2>2, <3>1, <4>2, <4>3 DEF EofInv
      <3>2. \A q \in P : chan'[q] = IF q = Current THEN Tail(chan[Current]) ELSE chan[q]
        BY <2>1, <2>2 DEF WriteType
      <3> QED
        BY <1>2, <3>1, <3>2 DEF EofInv
    <2> QED
      BY <1>1, <1>3, <2>3, <2>4
  <1>6. CASE RemovePartition
    <2> DEFINE rest == RemoveAt(receivers, cur + 1)
    <2>1. /\ pc = "carousel" /\ Finished(Current) /\ receivers' = rest
          /\ UNCHANGED <<collected, verdict>> /\ chan' = [chan EXCEPT ![Current] = <<>>]
          /\ IF rest = <<>> THEN pc' = "collect" /\ UNCHANGED cur
             ELSE cur' = cur % Len(rest) /\ UNCHANGED pc
      BY <1>6, Zenon DEF RemovePartition
    <2>2. Current \in P /\ cur \in Nat /\ cur + 1 \in 1..Len(receivers) /\ receivers \in Seq(P)
          /\ Len(receivers) \in Nat
      BY <2>1, CurrentType DEF WriteType
    <2>3. /\ rest \in Seq(P) /\ Len(rest) = Len(receivers) - 1
          /\ \A j \in 1..(Len(receivers) - 1) :
                 rest[j] = IF j < cur + 1 THEN receivers[j] ELSE receivers[j + 1]
      BY <2>2, RemoveAtEntries
    <2> HIDE DEF rest
    <2>4. CallerInv'
      <3>1. CASE rest = <<>>
        BY <2>1, <3>1, PartitionFacts DEF CallerInv
      <3>2. CASE rest # <<>>
        <4>1. Len(rest) \in Nat \ {0}
          BY <2>3, <3>2, EmptySeq
        <4>2. cur' < Len(rest)
          BY <2>1, <2>2, <3>2, <4>1
        <4> QED
          BY <2>1, <3>2, <4>2 DEF CallerInv
      <3> QED
        BY <3>1, <3>2
    <2>5. ~SenderAlive(Current)
      <3>1. CASE chan[Current] = <<>>
        BY <2>1, <3>1 DEF Finished
      <3>2. CASE chan[Current] # <<>>
        <4>1. chan[Current] \in Seq(Messages)
          BY <2>2 DEF WriteType
        <4>2. 1 \in 1..Len(chan[Current]) /\ Head(chan[Current]) = chan[Current][1]
          BY <3>2, <4>1, EmptySeq
        <4>3. Head(chan[Current]).eof
          BY <2>1, <3>2 DEF Finished
        <4> QED
          BY <2>2, <4>2, <4>3 DEF EofInv, SenderAlive
      <3> QED
        BY <3>1, <3>2
    <2>6. SendersHeard'
      <3>1. verdict[1] # "io"
        BY <2>1 DEF CallerInv
      <3>2. ASSUME NEW q \in P, SenderAlive(q) PROVE \E j \in 1..Len(rest) : rest[j] = q
        <4>1. PICK i \in 1..Len(receivers) : receivers[i] = q
          BY <3>1, <3>2 DEF SendersHeard, ReceiverAlive
        <4>2. i # cur + 1
          BY <2>5, <3>2, <4>1 DEF Current
        <4>3. CASE i < cur + 1
          BY <2>2, <2>3, <4>1, <4>3
        <4>4. CASE i > cur + 1
          <5>1. i - 1 \in 1..Len(rest) /\ rest[i - 1] = receivers[(i - 1) + 1] /\ (i - 1) + 1 = i
            BY <2>2, <2>3, <4>1, <4>4
          <5> QED
            BY <4>1, <5>1
        <4> QED
          BY <2>2, <4>2, <4>3, <4>4
      <3> QED
        BY <1>2, <2>1, <3>1, <3>2 DEF SendersHeard, SenderAlive, ReceiverAlive
    <2>7. EofInv'
      <3>1. \A q \in P : chan'[q] = IF q = Current THEN <<>> ELSE chan[q]
        BY <2>1, <2>2 DEF WriteType
      <3> QED
        BY <1>2, <3>1 DEF EofInv
    <2>8. VerdictInv'
      BY <1>2, <2>1, VerdictKept
    <2> QED
      BY <1>1, <1>3, <2>4, <2>6, <2>7, <2>8
  <1>7. CASE Collect
    <2> DEFINE c == collected
    <2>1. /\ pc = "collect" /\ phase[c] \in {"over", "dropped"}
          /\ verdict' = IF phase[c] = "dropped"
                          THEN IF verdict[1] = "ok" THEN <<"channel", c>> ELSE verdict
                        ELSE IF outcome[c] # "ok" THEN <<outcome[c], c>>
                        ELSE verdict
          /\ collected' = c + 1
          /\ pc' = IF c + 1 = N THEN "done" ELSE pc
          /\ UNCHANGED <<receivers, chan>>
      BY <1>7, Zenon DEF Collect, closure
    <2>2. c \in P /\ c \in Nat /\ verdict[1] # "io" /\ receivers = <<>>
      BY <2>1, PartitionFacts DEF CallerInv, WriteType, P
    <2>3. phase[c] = "over" => outcome[c] = plan[c].ending
      BY <2>2 DEF SendersHeard
    <2>4. plan[c].ending \in Endings
      BY <2>2 DEF WriteType
    <2>5. verdict'[1] # "io"
      BY <2>1, <2>2, <2>3, <2>4 DEF Endings
    <2>6. CallerInv'
      BY <2>1, <2>2, <2>5, PartitionFacts DEF CallerInv, WriteType
    <2>7. SendersHeard' /\ EofInv'
      BY <1>2, <2>1, <2>2 DEF SendersHeard, EofInv, SenderAlive, ReceiverAlive
    <2>8. VerdictInv'
      <3>1. \A q \in P : q < collected' <=> q < c \/ q = c
        BY <2>1, <2>2, PartitionFacts
      <3>2. \A q \in P : Failed(q)' <=> Failed(q)
        BY <1>2 DEF Failed
      <3>3. \A q \in P : q < collected' => phase'[q] \in {"over", "dropped"}
        BY <1>2, <2>1, <2>2, <3>1 DEF VerdictInv
      <3>4. \A q \in P : q < c => q <= c /\ ~(c <= q)
        BY <2>2, PartitionFacts
      <3>5. c <= c /\ c < collected'
        BY <2>1, <2>2
      <3>6. /\ \A q \in P : Failed(q) => phase[q] # "dropped"
            /\ \A q \in P : Failed(q) => plan[q].ending # "ok"
        BY DEF Failed
      <3>7. \/ /\ verdict = <<"ok", NoPart>>
               /\ \A p \in P : p < c => ~Failed(p) /\ phase[p] # "dropped"
            \/ \E p \in P :
                  /\ p < c /\ Failed(p) /\ verdict = <<plan[p].ending, p>>
                  /\ \A q \in P : q < c /\ Failed(q) => q <= p
            \/ \E p \in P :
                  /\ p < c /\ phase[p] = "dropped" /\ verdict = <<"channel", p>>
                  /\ \A q \in P : q < c => ~Failed(q)
                  /\ \A q \in P : q < c /\ phase[q] = "dropped" => p <= q
        BY <2>2 DEF VerdictInv
      <3>8. CASE Failed(c)
        <4>1. verdict' = <<plan'[c].ending, c>>
          BY <1>2, <2>1, <2>3, <3>8 DEF Failed
        <4>2. \A q \in P : q < collected' => q <= c
          BY <3>1, <3>4, <3>5
        <4> QED
          BY <1>2, <2>2, <3>2, <3>3, <3>5, <3>8, <4>1, <4>2, Zenon DEF VerdictInv
      <3>9. CASE phase[c] = "dropped" /\ verdict[1] = "ok"
        <4>1. verdict' = <<"channel", c>>
          BY <2>1, <3>9
        <4>2. \A q \in P : q < c => ~Failed(q) /\ phase[q] # "dropped"
          BY <3>6, <3>7, <3>9
        <4>3. \A q \in P : q < collected' => ~Failed(q) /\ (phase[q] = "dropped" => c <= q)
          BY <2>2, <3>1, <3>5, <3>6, <3>9, <4>2
        <4> QED
          BY <1>2, <2>2, <3>2, <3>3, <3>5, <3>9, <4>1, <4>3, Zenon DEF VerdictInv
      <3>10. CASE ~Failed(c) /\ (phase[c] = "dropped" => verdict[1] # "ok")
        <4>1. verdict' = verdict
          BY <2>1, <2>2, <2>3, <3>10 DEF Failed
        <4>2. CASE /\ verdict = <<"ok", NoPart>>
                   /\ \A p \in P : p < c => ~Failed(p) /\ phase[p] # "dropped"
          <5>1. \A p \in P : p < collected' => ~Failed(p) /\ phase[p] # "dropped"
            BY <3>1, <3>10, <4>2
          <5> QED
            BY <1>2, <3>2, <3>3, <4>1, <4>2, <5>1 DEF VerdictInv
        <4>3. ASSUME NEW p \in P, p < c, Failed(p), verdict = <<plan[p].ending, p>>,
                     \A q \in P : q < c /\ Failed(q) => q <= p
              PROVE  VerdictInv'
          <5>1. p < collected' /\ \A q \in P : q < collected' /\ Failed(q) => q <= p
            BY <3>1, <3>10, <4>3
          <5> QED
            BY <1>2, <3>2, <3>3, <4>1, <4>3, <5>1, Zenon DEF VerdictInv
        <4>4. ASSUME NEW p \in P, p < c, phase[p] = "dropped", verdict = <<"channel", p>>,
                     \A q \in P : q < c => ~Failed(q),
                     \A q \in P : q < c /\ phase[q] = "dropped" => p <= q
              PROVE  VerdictInv'
          <5>1. /\ p < collected' /\ \A q \in P : q < collected' => ~Failed(q)
                /\ \A q \in P : q < collected' /\ phase[q] = "dropped" => p <= q
            BY <3>1, <3>4, <3>10, <4>4
          <5> QED
            BY <1>2, <3>2, <3>3, <4>1, <4>4, <5>1, Zenon DEF VerdictInv
        <4> QED
          BY <3>7, <4>2, <4>3, <4>4, Zenon
      <3> QED
        BY <3>8, <3>9, <3>10, Zenon
    <2> QED
      BY <1>1, <1>3, <2>6, <2>7, <2>8
  <1> QED
    BY <1>4, <1>5, <1>6, <1>7 DEF CallerStep

\* Every step keeps the control invariant.
LEMMA ControlStep == ControlInv /\ [Next]_vars => ControlInv'
  <1> SUFFICES ASSUME ControlInv, [Next]_vars PROVE ControlInv'
    OBVIOUS
  <1>1. CASE UNCHANGED vars
    <2>1. UNCHANGED <<plan, queue, starting, looking, phase, left, chunk, buffer, chan, outcome,
                      pc, receivers, cur, out, collected, verdict>>
      BY <1>1, Zenon DEF vars, threads, closure, caller
    <2>2. WriteType' /\ QueueInv' /\ CallerInv' /\ SendersHeard' /\ EofInv'
      BY <2>1 DEF ControlInv, WriteType, QueueInv, CallerInv, SendersHeard, EofInv,
         SenderAlive, ReceiverAlive
    <2>3. VerdictInv'
      BY <2>1, VerdictKept DEF ControlInv
    <2> QED
      BY <2>2, <2>3 DEF ControlInv
  <1> QED
    BY <1>1, ControlWorker, ControlClosure, ControlCaller, Zenon DEF Next, Terminated

\* The invariant holds of every behaviour, whatever the schedule and the failures.
THEOREM WriteControl == Spec => []ControlInv
  BY ControlInit, ControlStep, PTL DEF Spec

\* What receive_results returns when the output did not fail: the last real error of a
\* processor, else the first channel broken by a dropped closure, else Ok.
THEOREM WriteReportsRealError == Spec => []RealErrorReported
  <1>1. ControlInv => RealErrorReported
    <2> SUFFICES ASSUME ControlInv, pc = "done", verdict[1] # "io"
                 PROVE  LET failed == {p \in P : phase[p] = "over" /\ plan[p].ending # "ok"}
                            dropped == {p \in P : phase[p] = "dropped"}
                        IN  IF failed # {} THEN verdict = <<plan[Max(failed)].ending, Max(failed)>>
                            ELSE IF dropped # {} THEN verdict = <<"channel", Min(dropped)>>
                            ELSE verdict = <<"ok", NoPart>>
      BY Zenon DEF RealErrorReported
    <2> DEFINE failed == {p \in P : phase[p] = "over" /\ plan[p].ending # "ok"}
               dropped == {p \in P : phase[p] = "dropped"}
    <2>1. \A p \in P : p < collected
      BY PartitionFacts DEF ControlInv, CallerInv
    <2>2. \A p : p \in failed <=> p \in P /\ Failed(p)
      BY DEF Failed
    <2>3. CASE /\ verdict = <<"ok", NoPart>>
               /\ \A p \in P : ~Failed(p) /\ phase[p] # "dropped"
      <3>1. failed = {} /\ dropped = {}
        BY <2>2, <2>3
      <3> QED
        BY <2>3, <3>1
    <2>4. ASSUME NEW p \in P, Failed(p), verdict = <<plan[p].ending, p>>,
                 \A q \in P : Failed(q) => q <= p
          PROVE  failed # {} /\ verdict = <<plan[Max(failed)].ending, Max(failed)>>
      <3>1. p \in failed /\ \A q \in failed : p >= q
        BY <2>2, <2>4, PartitionFacts
      <3> HIDE DEF failed
      <3>2. Max(failed) \in failed /\ \A q \in failed : Max(failed) >= q
        BY <3>1, Zenon DEF Max
      <3>3. Max(failed) \in P /\ Max(failed) >= p /\ p >= Max(failed)
        BY <2>2, <3>1, <3>2
      <3>4. \A m \in P : m >= p /\ p >= m => m = p
        BY PartitionFacts
      <3>5. Max(failed) = p
        BY <3>3, <3>4, Zenon
      <3> QED
        BY <2>4, <3>1, <3>5, Zenon
    <2>5. ASSUME NEW p \in P, phase[p] = "dropped", verdict = <<"channel", p>>,
                 \A q \in P : ~Failed(q),
                 \A q \in P : phase[q] = "dropped" => p <= q
          PROVE  failed = {} /\ dropped # {} /\ verdict = <<"channel", Min(dropped)>>
      <3>1. failed = {} /\ p \in dropped /\ \A q \in dropped : p <= q
        BY <2>2, <2>5
      <3>2. \A q \in dropped : q \in P
        OBVIOUS
      <3> HIDE DEF dropped
      <3>3. Min(dropped) \in dropped /\ \A q \in dropped : Min(dropped) <= q
        BY <3>1, Zenon DEF Min
      <3>4. Min(dropped) \in P /\ Min(dropped) <= p /\ p <= Min(dropped)
        BY <3>1, <3>2, <3>3
      <3>5. \A m \in P : m <= p /\ p <= m => m = p
        BY PartitionFacts
      <3>6. Min(dropped) = p
        BY <3>4, <3>5, Zenon
      <3> QED
        BY <2>5, <3>1, <3>6, Zenon
    <2>6. \/ /\ verdict = <<"ok", NoPart>>
             /\ \A p \in P : ~Failed(p) /\ phase[p] # "dropped"
          \/ \E p \in P :
                /\ Failed(p) /\ verdict = <<plan[p].ending, p>>
                /\ \A q \in P : Failed(q) => q <= p
          \/ \E p \in P :
                /\ phase[p] = "dropped" /\ verdict = <<"channel", p>>
                /\ \A q \in P : ~Failed(q)
                /\ \A q \in P : phase[q] = "dropped" => p <= q
      BY <2>1, Zenon DEF ControlInv, VerdictInv
    <2> HIDE DEF failed, dropped
    <2>7. IF failed # {} THEN verdict = <<plan[Max(failed)].ending, Max(failed)>>
          ELSE IF dropped # {} THEN verdict = <<"channel", Min(dropped)>>
          ELSE verdict = <<"ok", NoPart>>
      <3>1. CASE /\ verdict = <<"ok", NoPart>>
                 /\ \A p \in P : ~Failed(p) /\ phase[p] # "dropped"
        BY <2>3, <3>1 DEF failed, dropped
      <3> QED
        BY <2>4, <2>5, <2>6, <3>1, Zenon
    <2> QED
      BY <2>7 DEF failed, dropped
  <1> QED
    BY <1>1, WriteControl, PTL

-----------------------------------------------------------------------------
(* The stream: what the caller writes is the carousel's reference          *)

\* The pool gave up no closure.
NoDropped == \A p \in P : phase[p] # "dropped"

\* The caller visits the partitions in order.
Sorted == \A i, j \in 1..Len(receivers) : i < j => receivers[i] < receivers[j]

\* How often partition p was visited before partition c in round r + 1.
Turn(r, c, p) == IF p < c THEN r + 1 ELSE r

\* The closure of p has sent s blocks, and its buffer holds what follows them.
Produced(p, s) ==
    /\ s <= Len(BlocksOf(p))
    /\ phase[p] \in {"queued", "running"} =>
          /\ plan[p].total - left[p] - chunk[p] = Cap * s + Len(buffer[p])
          /\ \A i \in 1..Len(buffer[p]) : buffer[p][i] = Payload(p, Cap * s + i)
    /\ phase[p] \in {"eof", "report", "over"} => s = Len(BlocksOf(p))

EofSent(p) == phase[p] \in {"report", "over"} /\ plan[p].ending = "ok"

\* The channel of p holds the blocks sent but the first w, and then perhaps Eof.
InChannel(p, w, s) ==
    /\ w <= s
    /\ Len(chan[p]) = s - w + (IF EofSent(p) THEN 1 ELSE 0)
    /\ \A i \in 1..(s - w) : chan[p][i] = Block(p, BlocksOf(p)[w + i])
    /\ EofSent(p) => chan[p][s - w + 1] = Eof(p)

\* What one partition still has to contribute after w visits.
Pending(p, w) ==
    IF ReceiverAlive(p) THEN \E s \in Nat : Produced(p, s) /\ InChannel(p, w, s)
    ELSE Len(BlocksOf(p)) <= w

\* The caller is about to visit partition c in round r + 1.
AtTurn(r, c) ==
    /\ out = Carousel[r * N + c]
    /\ \A p \in P : Pending(p, Turn(r, c, p))

\* What was written can be completed to the reference stream.
Completable(s) == Continues(s, Reference, Int)

StreamInv ==
    /\ Sorted
    /\ NoDropped =>
          /\ Completable(out)
          /\ pc \in {"inline", "carousel"} => \E r \in Nat, c \in P : c = Current /\ AtTurn(r, c)
          /\ pc \in {"collect", "done"} /\ verdict[1] # "io" => out = Reference

-----------------------------------------------------------------------------
(* The blocks of a partition                                               *)

Whole(p) == plan[p].total \div Cap
Rest(p) == IF plan[p].total % Cap > 0 /\ plan[p].ending = "ok" THEN 1 ELSE 0
BlockSize(p, b) == IF b <= Whole(p) THEN Cap ELSE plan[p].total % Cap

\* How many blocks there are, how long they are and what they hold.
LEMMA BlockFacts ==
    ASSUME WriteType, NEW p \in P
    PROVE  /\ Whole(p) \in Nat /\ plan[p].total \in Nat
           /\ BlocksOf(p) \in Seq(Seq(Int))
           /\ Len(BlocksOf(p)) = Whole(p) + Rest(p)
           /\ \A b \in 1..Len(BlocksOf(p)) :
                 /\ BlocksOf(p)[b] \in Seq(Int)
                 /\ Len(BlocksOf(p)[b]) = BlockSize(p, b)
                 /\ \A i \in 1..BlockSize(p, b) : BlocksOf(p)[b][i] = Payload(p, (b - 1) * Cap + i)
  <1>1. plan[p].total \in Nat /\ Cap \in Nat \ {0} /\ p \in Nat
    <2>1. plan[p] \in [total : Nat, ending : Endings]
      BY DEF WriteType
    <2> QED
      BY <2>1, WriteAssumption, PartitionFacts
  <1>2. Whole(p) \in Nat /\ plan[p].total % Cap \in Nat /\ Rest(p) \in Nat
    BY <1>1, QuotientExists DEF Whole, Rest
  <1>3. \A b : BlockSize(p, b) \in Nat
    BY <1>1, <1>2 DEF BlockSize
  <1> DEFINE n == Whole(p) + Rest(p)
             entries(b) == [i \in 1..BlockSize(p, b) |-> Payload(p, (b - 1) * Cap + i)]
  <1>4. BlocksOf(p) = [b \in 1..n |-> entries(b)]
    BY Zenon DEF BlocksOf, Whole, Rest, BlockSize
  <1>5. n \in Nat
    BY <1>2
  <1>6. ASSUME NEW b \in 1..n
        PROVE  /\ entries(b) \in Seq(Int) /\ Len(entries(b)) = BlockSize(p, b)
               /\ \A i \in 1..BlockSize(p, b) : entries(b)[i] = Payload(p, (b - 1) * Cap + i)
    <2> DEFINE size == BlockSize(p, b)
    <2>1. size \in Nat
      BY <1>3
    <2> HIDE DEF size
    <2>2. \A i \in 1..size : Payload(p, (b - 1) * Cap + i) \in Int
      <3>1. (b - 1) * Cap \in Int
        BY <1>1, <1>5
      <3> QED
        BY <1>1, <3>1 DEF Payload
    <2>3. entries(b) \in [1..size -> Int]
      BY <2>2, Zenon DEF size
    <2>4. entries(b) \in Seq(Int) /\ Len(entries(b)) = size
      <3> HIDE DEF entries
      <3> QED
        BY <2>1, <2>3
    <2> QED
      BY <2>4, Zenon DEF size
  <1> HIDE DEF n, entries
  <1>7. BlocksOf(p) \in [1..n -> Seq(Int)]
    BY <1>4, <1>6, Zenon
  <1>8. BlocksOf(p) \in Seq(Seq(Int)) /\ Len(BlocksOf(p)) = n
    BY <1>5, <1>7
  <1>9. \A b \in 1..n : BlocksOf(p)[b] = entries(b)
    BY <1>4, Zenon
  <1> QED
    BY <1>1, <1>2, <1>6, <1>8, <1>9, Zenon DEF n

-----------------------------------------------------------------------------
(* The reference stream                                                    *)

Visits == [k \in Nat |-> Visit(k \div N + 1, k % N)]

\* Every visit adds a sequence of bytes.
LEMMA VisitType ==
    ASSUME WriteType, NEW b \in Nat \ {0}, NEW p \in P
    PROVE  Visit(b, p) \in Seq(Int)
  <1>1. CASE b <= Len(BlocksOf(p))
    <2>1. b \in 1..Len(BlocksOf(p))
      BY <1>1, BlockFacts
    <2>2. BlocksOf(p)[b] \in Seq(Int)
      BY <2>1, BlockFacts
    <2>3. Block(p, BlocksOf(p)[b]) \in Messages
      BY <2>2 DEF Block, Messages
    <2> QED
      BY <1>1, <2>3, FrameType DEF Visit
  <1>2. CASE ~(b <= Len(BlocksOf(p)))
    BY <1>2, EmptySeq DEF Visit
  <1> QED
    BY <1>1, <1>2

\* The reference is a stream whose pieces are the visits.
LEMMA CarouselIsStream == WriteType => IsStream(Carousel, Visits, Int)
  <1> SUFFICES ASSUME WriteType PROVE IsStream(Carousel, Visits, Int)
    OBVIOUS
  <1>1. ASSUME NEW k \in Nat PROVE Visits[k] \in Seq(Int)
    <2>1. N \in Nat \ {0}
      BY PartitionFacts
    <2>2. k \div N \in Nat /\ k % N \in Nat /\ k % N < N
      BY <2>1, QuotientExists
    <2>3. k \div N + 1 \in Nat \ {0} /\ k % N \in P
      BY <2>1, <2>2 DEF P
    <2> QED
      BY <2>3, VisitType DEF Visits
  <1>2. \E g : g = [k \in Nat |-> IF k = 0 THEN <<>> ELSE g[k - 1] \o Visits[k - 1]]
    BY JoinExists, Zenon
  <1>3. PICK g : g = [k \in Nat |-> IF k = 0 THEN <<>> ELSE g[k - 1] \o Visits[k - 1]]
    BY <1>2, Zenon
  <1>4. \A h : (h = [k \in Nat |-> IF k = 0 THEN <<>> ELSE h[k - 1] \o Visits[k - 1]])
             <=> (h = [k \in Nat |-> IF k = 0 THEN <<>>
                                      ELSE h[k - 1] \o Visit((k - 1) \div N + 1, (k - 1) % N)])
    <2>1. \A k \in Nat : k # 0 => Visits[k - 1] = Visit((k - 1) \div N + 1, (k - 1) % N)
      BY DEF Visits
    <2> QED
      BY <2>1, Zenon
  <1>5. Carousel = [k \in Nat |-> IF k = 0 THEN <<>>
                                   ELSE Carousel[k - 1] \o Visit((k - 1) \div N + 1, (k - 1) % N)]
    BY <1>3, <1>4, Zenon DEF Carousel
  <1>6. Carousel = [k \in Nat |-> IF k = 0 THEN <<>> ELSE Carousel[k - 1] \o Visits[k - 1]]
    BY <1>4, <1>5, Zenon
  <1> QED
    BY <1>1, <1>6, Zenon DEF IsStream

\* One more visit adds its piece.
LEMMA CarouselStep ==
    ASSUME WriteType
    PROVE  \A k \in Nat : Carousel[k + 1] = Carousel[k] \o Visits[k] /\ Visits[k] \in Seq(Int)
  <1> DEFINE g == Carousel
             v == Visits
  <1>1. IsStream(g, v, Int)
    BY CarouselIsStream
  <1>2. \A k \in Nat : v[k] \in Seq(Int)
    BY <1>1, Zenon DEF IsStream
  <1> HIDE DEF g, v
  <1>3. /\ g[0] = <<>>
        /\ \A k \in Nat : g[k + 1] = g[k] \o v[k]
        /\ \A k \in Nat : g[k] \in Seq(Int)
    BY <1>1, StreamStep, Zenon
  <1> QED
    BY <1>2, <1>3, Zenon DEF g, v

\* The reference stream depends on the plan alone.
LEMMA ReferenceKept ==
    ASSUME plan' = plan
    PROVE  /\ Carousel' = Carousel
           /\ Reference' = Reference
           /\ \A p \in P : BlocksOf(p)' = BlocksOf(p)
  <1> DEFINE blocks(x, p) ==
                LET total == x[p].total
                    whole == total \div Cap
                    rest == IF total % Cap > 0 /\ x[p].ending = "ok" THEN 1 ELSE 0
                IN  [b \in 1..(whole + rest) |->
                        [i \in 1..(IF b <= whole THEN Cap ELSE total % Cap) |->
                            Payload(p, (b - 1) * Cap + i)]]
             visit(x, b, p) ==
                IF b <= Len(blocks(x, p)) THEN Frame(Block(p, blocks(x, p)[b])) ELSE <<>>
             carousel(x) ==
                CHOOSE g : g = [k \in Nat |->
                    IF k = 0 THEN <<>>
                    ELSE g[k - 1] \o visit(x, (k - 1) \div N + 1, (k - 1) % N)]
             reference(x) == carousel(x)[N * Max({Len(blocks(x, p)) : p \in P})]
  <1>1. /\ \A p \in P : BlocksOf(p) = blocks(plan, p) /\ BlocksOf(p)' = blocks(plan', p)
        /\ Carousel = carousel(plan) /\ Carousel' = carousel(plan')
        /\ Reference = reference(plan) /\ Reference' = reference(plan')
    BY Zenon DEF BlocksOf, Visit, Carousel, Reference
  <1> HIDE DEF blocks, visit, carousel, reference
  <1> QED
    BY <1>1, Zenon

\* Of finitely many numbers one is the largest.
LEMMA LargestExists ==
    ASSUME NEW f, NEW n \in Nat, \A i \in 0..n : f[i] \in Nat
    PROVE  \E i \in 0..n : \A j \in 0..n : f[j] <= f[i]
  <1> DEFINE T == {k \in Nat : k <= n => \E i \in 0..k : \A j \in 0..k : f[j] <= f[i]}
  <1>1. 0 \in T
    OBVIOUS
  <1>2. ASSUME NEW k \in Nat, k \in T PROVE k + 1 \in T
    <2> SUFFICES ASSUME k + 1 <= n
                 PROVE  \E i \in 0..(k + 1) : \A j \in 0..(k + 1) : f[j] <= f[i]
      OBVIOUS
    <2>1. PICK i \in 0..k : \A j \in 0..k : f[j] <= f[i]
      BY <1>2
    <2>2. f[i] \in Nat /\ f[k + 1] \in Nat /\ \A j \in 0..k : f[j] \in Nat
      OBVIOUS
    <2>3. CASE f[k + 1] <= f[i]
      BY <2>1, <2>3
    <2>4. CASE f[i] < f[k + 1]
      <3>1. \A j \in 0..(k + 1) : f[j] <= f[k + 1]
        BY <2>1, <2>2, <2>4
      <3> QED
        BY <3>1
    <2> QED
      BY <2>2, <2>3, <2>4
  <1> HIDE DEF T
  <1>3. \A k \in Nat : k \in T
    BY <1>1, <1>2, InductionOnSet, Zenon
  <1>4. n <= n
    OBVIOUS
  <1> QED
    BY <1>3, <1>4, Zenon DEF T

Rounds == Max({Len(BlocksOf(p)) : p \in P})

\* The number of rounds is the number of blocks of the longest partition.
LEMMA RoundsFacts ==
    ASSUME WriteType
    PROVE  /\ Rounds \in Nat
           /\ \A p \in P : Len(BlocksOf(p)) <= Rounds
           /\ \E p \in P : Len(BlocksOf(p)) = Rounds
           /\ Reference = Carousel[N * Rounds]
  <1> DEFINE f == [p \in P |-> Len(BlocksOf(p))]
             S == {Len(BlocksOf(p)) : p \in P}
  <1>1. \A p \in P : f[p] \in Nat /\ f[p] = Len(BlocksOf(p))
    <2>1. \A p \in P : Len(BlocksOf(p)) \in Nat
      BY BlockFacts, LenProperties
    <2> QED
      BY <2>1
  <1>2. \E i \in P : \A j \in P : f[j] <= f[i]
    <2> HIDE DEF f
    <2>1. N - 1 \in Nat /\ P = 0..(N - 1)
      BY PartitionFacts DEF P
    <2> QED
      BY <1>1, <2>1, LargestExists
  <1>3. PICK m \in S : \A x \in S : m >= x
    BY <1>1, <1>2
  <1> HIDE DEF S
  <1>4. Max(S) \in S /\ \A x \in S : Max(S) >= x
    BY <1>3, Zenon DEF Max
  <1>5. Rounds \in S /\ \A x \in S : Rounds >= x
    BY <1>4, Zenon DEF Rounds, S
  <1>6. Reference = Carousel[N * Rounds]
    BY Zenon DEF Reference, Rounds
  <1> HIDE DEF f
  <1>7. \A x \in S : x \in Nat
    BY <1>1, Zenon DEF S
  <1>8. \A p \in P : Len(BlocksOf(p)) \in S
    BY Zenon DEF S
  <1>9. \E p \in P : Len(BlocksOf(p)) = Rounds
    BY <1>5, Zenon DEF S
  <1>10. Rounds \in Nat /\ \A p \in P : Len(BlocksOf(p)) <= Rounds
    BY <1>5, <1>7, <1>8
  <1> QED
    BY <1>6, <1>9, <1>10

\* The visits in order: rounds of N visits each.
LEMMA VisitAt ==
    ASSUME NEW r \in Nat, NEW p \in P
    PROVE  r * N + p \in Nat /\ Visits[r * N + p] = Visit(r + 1, p)
  <1>1. N \in Nat \ {0} /\ p \in Nat /\ p < N
    BY PartitionFacts
  <1>2. r * N + p \in Nat /\ r * N + p = N * r + p
    BY <1>1
  <1>3. (r * N + p) \div N = r /\ (r * N + p) % N = p
    BY <1>1, <1>2, QuotientFacts
  <1> QED
    BY <1>2, <1>3 DEF Visits

\* Every number of visits is a number of rounds and some visits of the next one.
LEMMA VisitOf ==
    ASSUME NEW k \in Nat
    PROVE  \E r \in Nat, p \in P : k = r * N + p
  <1>1. N \in Nat \ {0}
    BY PartitionFacts
  <1>2. k \div N \in Nat /\ k % N \in P /\ k = (k \div N) * N + (k % N)
    BY <1>1, QuotientExists DEF P
  <1> QED
    BY <1>2

\* After the last round nothing is added.
LEMMA CarouselEnds ==
    ASSUME WriteType, NEW k \in Nat, N * Rounds <= k
    PROVE  Carousel[k] = Reference
  <1>1. N \in Nat \ {0} /\ Rounds \in Nat /\ N * Rounds \in Nat
    BY PartitionFacts, RoundsFacts
  <1>2. ASSUME NEW i \in Nat, N * Rounds <= i PROVE Visits[i] = <<>>
    <2>1. PICK r \in Nat, p \in P : i = r * N + p
      BY VisitOf
    <2>2. Rounds <= r
      <3>1. N * Rounds < N * (r + 1)
        BY <1>1, <1>2, <2>1, PartitionFacts
      <3> QED
        BY <1>1, <3>1
    <2>3. ~(r + 1 <= Len(BlocksOf(p)))
      <3>1. Len(BlocksOf(p)) <= Rounds /\ Len(BlocksOf(p)) \in Nat
        BY RoundsFacts, BlockFacts, LenProperties
      <3> QED
        BY <1>1, <2>2, <3>1
    <2> QED
      BY <2>1, <2>3, VisitAt DEF Visit
  <1>3. IsStream(Carousel, Visits, Int)
    BY CarouselIsStream
  <1>4. Carousel[k] = Carousel[N * Rounds]
    BY <1>1, <1>2, <1>3, StreamSkips
  <1> QED
    BY <1>4, RoundsFacts

\* Whatever the number of visits, the rest of the reference may follow.
LEMMA CarouselCompletable ==
    ASSUME WriteType, NEW k \in Nat
    PROVE  Carousel[k] \in Seq(Int) /\ Reference \in Seq(Int) /\ Completable(Carousel[k])
  <1>1. N * Rounds \in Nat /\ Reference = Carousel[N * Rounds]
    BY PartitionFacts, RoundsFacts
  <1>2. IsStream(Carousel, Visits, Int)
    BY CarouselIsStream
  <1>3. \A i \in Nat : Carousel[i] \in Seq(Int)
    BY <1>2, StreamStep
  <1>4. CASE k <= N * Rounds
    <2>1. Continues(Carousel[k], Carousel[N * Rounds], Int)
      BY <1>1, <1>2, <1>4, StreamGrows
    <2> QED
      BY <1>1, <1>3, <2>1, Zenon DEF Completable
  <1>5. CASE N * Rounds <= k
    <2>1. Carousel[k] = Reference
      BY <1>5, CarouselEnds
    <2>2. Reference \in Seq(Int) /\ <<>> \in Seq(Int) /\ Reference = Reference \o <<>>
      BY <1>1, <1>3, EmptySeq, ConcatEmptySeq
    <2> QED
      BY <2>1, <2>2, Zenon DEF Completable, Continues
  <1>6. k <= N * Rounds \/ N * Rounds <= k
    BY <1>1
  <1> QED
    BY <1>1, <1>3, <1>4, <1>5, <1>6, Zenon

-----------------------------------------------------------------------------
(* From one visit to the next                                              *)

\* How often partition p was visited when c has just been visited in round r + 1.
Visited(r, c, p) == IF p <= c THEN r + 1 ELSE r

\* From c in round r + 1 the next of the partitions A is d in round q + 1.
Follows(A, r, c, q, d) ==
    \/ q = r /\ c < d /\ \A p \in A : p <= c \/ d <= p
    \/ q = r + 1 /\ d <= c /\ \A p \in A : d <= p /\ p <= c

\* All other partitions have ended.
OthersEnded(A, r, c) ==
    \A p \in P : p \notin A => Len(BlocksOf(p)) <= Visited(r, c, p)

\* Nothing is missing in the stream when the visit to d begins, and everyone left has
\* been visited as often as the rounds say.
Arrives(A, r, c, q, d) ==
    /\ Carousel[q * N + d] = Carousel[r * N + c + 1]
    /\ \A p \in A : Turn(q, d, p) = Visited(r, c, p)
    /\ \A p \in P : p \notin A => Len(BlocksOf(p)) <= Turn(q, d, p)

\* The partitions that are passed over between c and d have ended.
LEMMA NextVisit ==
    ASSUME WriteType, NEW A \in SUBSET P, NEW c \in P, NEW d \in P, NEW r \in Nat, NEW q \in Nat,
           Follows(A, r, c, q, d), OthersEnded(A, r, c)
    PROVE  Arrives(A, r, c, q, d)
  <1>1. N \in Nat \ {0} /\ \A p \in P : p \in Nat /\ p < N
    BY PartitionFacts
  <1>2. \A p \in A : p \in P
    OBVIOUS
  <1>3. \A p \in P : Len(BlocksOf(p)) \in Nat
    BY BlockFacts, LenProperties
  <1>4. \A p \in A : Turn(q, d, p) = Visited(r, c, p)
    BY <1>1, <1>2 DEF Turn, Visited, Follows
  <1>5. \A p \in P : p \notin A => Len(BlocksOf(p)) <= Turn(q, d, p)
    <2>1. \A p \in P : Turn(q, d, p) \in Nat /\ Visited(r, c, p) \in Nat
                       /\ Visited(r, c, p) <= Turn(q, d, p)
      BY <1>1 DEF Turn, Visited, Follows
    <2> QED
      BY <1>3, <2>1 DEF OthersEnded
  <1>6. Carousel[q * N + d] = Carousel[r * N + c + 1]
    <2> DEFINE from == r * N + c + 1
               to == q * N + d
    <2>1. from \in Nat /\ to \in Nat /\ from <= to
      <3>1. CASE q = r /\ c < d
        BY <1>1, <3>1
      <3>2. CASE q = r + 1
        <4>1. q * N = r * N + N
          BY <1>1, <3>2
        <4> QED
          BY <1>1, <4>1
      <3> QED
        BY <3>1, <3>2 DEF Follows
    <2>2. ASSUME NEW i \in Nat, from <= i, i < to PROVE Visits[i] = <<>>
      <3>1. PICK s \in Nat, p \in P : i = s * N + p
        BY VisitOf
      <3>2. p \in Nat /\ p < N /\ s * N \in Nat
        BY <1>1
      <3>3. \/ s = r /\ c < p /\ (q = r => p < d)
            \/ s = r + 1 /\ q = r + 1 /\ p < d
        <4>1. r * N < (s + 1) * N /\ s * N < (q + 1) * N
          BY <1>1, <2>2, <3>1, <3>2
        <4>2. r < s + 1 /\ s < q + 1
          BY <1>1, <4>1
        <4>3. s = r \/ (s = r + 1 /\ q = r + 1)
          BY <4>2 DEF Follows
        <4>4. CASE s = r
          BY <1>1, <2>2, <3>1, <3>2, <4>4
        <4>5. CASE s = r + 1 /\ q = r + 1
          BY <1>1, <2>2, <3>1, <3>2, <4>5
        <4> QED
          BY <4>3, <4>4, <4>5
      <3>4. p \notin A
        BY <1>1, <3>2, <3>3 DEF Follows
      <3>5. Visited(r, c, p) <= s
        BY <1>1, <3>2, <3>3 DEF Visited
      <3>6. ~(s + 1 <= Len(BlocksOf(p)))
        <4>1. Len(BlocksOf(p)) <= Visited(r, c, p) /\ Visited(r, c, p) \in Nat
          BY <3>4 DEF Visited, OthersEnded
        <4> QED
          BY <1>3, <3>5, <4>1
      <3> QED
        BY <3>1, <3>6, VisitAt DEF Visit
    <2>3. IsStream(Carousel, Visits, Int)
      BY CarouselIsStream
    <2> HIDE DEF from, to
    <2>4. \A i \in Nat : from <= i /\ i < to => Visits[i] = <<>>
      BY <2>2, Zenon
    <2>5. Carousel[to] = Carousel[from]
      BY <2>1, <2>3, <2>4, StreamSkips
    <2> QED
      BY <2>5 DEF from, to
  <1> QED
    BY <1>4, <1>5, <1>6, Zenon DEF Arrives

\* Once every partition has ended, the stream is complete.
LEMMA LastVisit ==
    ASSUME WriteType, NEW c \in P, NEW r \in Nat,
           \A p \in P : Len(BlocksOf(p)) <= Visited(r, c, p)
    PROVE  Carousel[r * N + c + 1] = Reference
  <1>1. N \in Nat \ {0} /\ \A p \in P : p \in Nat /\ p < N
    BY PartitionFacts
  <1>2. \A p \in P : Len(BlocksOf(p)) \in Nat
    BY BlockFacts, LenProperties
  <1>3. 0 \in P /\ 0 <= c
    BY <1>1, PartitionFacts
  <1>4. Carousel[(r + 1) * N + 0] = Carousel[r * N + c + 1]
    <2> DEFINE A == {}
               d == 0
               q == r + 1
    <2>1. A \in SUBSET P /\ d \in P /\ q \in Nat /\ Follows(A, r, c, q, d)
      BY <1>3 DEF Follows
    <2>2. OthersEnded(A, r, c)
      BY DEF OthersEnded
    <2> HIDE DEF A, d, q
    <2>3. Arrives(A, r, c, q, d)
      BY <2>1, <2>2, NextVisit, Zenon
    <2> QED
      BY <2>3, Zenon DEF Arrives, d, q
  <1>5. N * Rounds <= (r + 1) * N + 0 /\ (r + 1) * N + 0 \in Nat
    <2>1. PICK p \in P : Len(BlocksOf(p)) = Rounds
      BY RoundsFacts
    <2>2. Rounds <= r + 1 /\ Rounds \in Nat
      BY <1>2, <2>1 DEF Visited
    <2> QED
      BY <1>1, <2>2
  <1> QED
    BY <1>4, <1>5, CarouselEnds

-----------------------------------------------------------------------------
(* The closures                                                            *)

\* Nobody has visited anyone, and nothing was sent.
LEMMA StreamInit == Init => StreamInv
  <1> SUFFICES ASSUME Init PROVE StreamInv
    OBVIOUS
  <1>1. WriteType /\ N \in Nat /\ 0 \in P
    BY WriteTypeInit, PartitionFacts
  <1>2. /\ phase = [p \in P |-> "queued"] /\ pc \in {"inline", "carousel"}
        /\ left = [p \in P |-> plan[p].total] /\ chunk = [p \in P |-> 0]
        /\ buffer = [p \in P |-> <<>>] /\ chan = [p \in P |-> <<>>]
        /\ receivers = AllPartitions /\ cur = 0 /\ out = <<>>
    BY DEF Init, InitInline, InitSpawned
  <1>3. Sorted
    BY <1>1, <1>2, AllPartitionsFacts DEF Sorted
  <1>4. IsStream(Carousel, Visits, Int)
    BY <1>1, CarouselIsStream
  <1>5. out = Carousel[0]
    BY <1>2, <1>4, StreamStep
  <1>6. Completable(out)
    BY <1>1, <1>5, CarouselCompletable
  <1>7. Current = 0
    BY <1>1, <1>2, AllPartitionsFacts, PartitionFacts DEF Current
  <1>8. ASSUME NEW p \in P PROVE Pending(p, 0)
    <2>1. ReceiverAlive(p)
      <3>1. p + 1 \in 1..N /\ AllPartitions[p + 1] = p
        BY AllPartitionsFacts, PartitionFacts DEF P
      <3> QED
        BY <1>2, <3>1, AllPartitionsFacts DEF ReceiverAlive
    <2>2. Produced(p, 0)
      <3>1. plan[p].total \in Nat /\ Len(BlocksOf(p)) \in Nat /\ Cap * 0 = 0
        BY <1>1, BlockFacts, LenProperties, WriteAssumption
      <3>2. left[p] = plan[p].total /\ chunk[p] = 0 /\ buffer[p] = <<>> /\ phase[p] = "queued"
        BY <1>2
      <3> QED
        BY <3>1, <3>2 DEF Produced
    <2>3. InChannel(p, 0, 0)
      <3>1. ~EofSent(p) /\ chan[p] = <<>> /\ Len(<<>>) = 0
        BY <1>2 DEF EofSent
      <3> QED
        BY <3>1 DEF InChannel
    <2> QED
      BY <2>1, <2>2, <2>3 DEF Pending
  <1>9. AtTurn(0, 0)
    <2>1. 0 * N + 0 = 0
      BY <1>1
    <2>2. \A p \in P : Turn(0, 0, p) = 0
      BY PartitionFacts DEF Turn
    <2> QED
      BY <1>5, <1>8, <2>1, <2>2, Zenon DEF AtTurn
  <1>10. ~(pc \in {"collect", "done"})
    BY <1>2
  <1>11. \E r \in Nat, c \in P : c = Current /\ AtTurn(r, c)
    BY <1>1, <1>7, <1>9
  <1> QED
    BY <1>3, <1>6, <1>10, <1>11 DEF StreamInv

\* A partition whose closure and channel are left alone.
LEMMA PendingKept ==
    ASSUME NEW p \in P, NEW w \in Nat, Pending(p, w), plan' = plan, ReceiverAlive(p)' <=> ReceiverAlive(p),
           \/ phase'[p] = phase[p]
           \/ phase[p] = "queued" /\ phase'[p] = "running"
           \/ phase[p] = "report" /\ phase'[p] = "over",
           left'[p] = left[p], chunk'[p] = chunk[p], buffer'[p] = buffer[p], chan'[p] = chan[p]
    PROVE  Pending(p, w)'
  <1>1. BlocksOf(p)' = BlocksOf(p)
    BY ReferenceKept
  <1>2. /\ phase[p] \in {"queued", "running"} <=> phase'[p] \in {"queued", "running"}
        /\ phase[p] \in {"report", "over"} <=> phase'[p] \in {"report", "over"}
        /\ phase[p] \in {"eof", "report", "over"} <=> phase'[p] \in {"eof", "report", "over"}
    OBVIOUS
  <1>3. EofSent(p)' <=> EofSent(p)
    BY <1>2, Zenon DEF EofSent
  <1>4. \A s \in Nat : Produced(p, s)' <=> Produced(p, s)
    BY <1>1, <1>2, Zenon DEF Produced
  <1>5. \A s \in Nat : InChannel(p, w, s)' <=> InChannel(p, w, s)
    BY <1>1, <1>3 DEF InChannel
  <1> QED
    BY <1>1, <1>4, <1>5, Zenon DEF Pending

\* A block that is sent goes behind those in the channel.
LEMMA BlockSent ==
    ASSUME WriteType, NEW p \in P, NEW w \in Nat, NEW s \in Nat, InChannel(p, w, s),
           plan' = plan, ~EofSent(p), ~EofSent(p)',
           chan'[p] = Append(chan[p], Block(p, BlocksOf(p)[s + 1]))
    PROVE  InChannel(p, w, s + 1)'
  <1> DEFINE m == Block(p, BlocksOf(p)[s + 1])
             ch == chan[p]
  <1>1. BlocksOf(p)' = BlocksOf(p)
    BY ReferenceKept
  <1>2. ch \in Seq(Messages) /\ w <= s /\ Len(ch) = s - w
    BY DEF WriteType, InChannel
  <1>3. chan'[p] = Append(ch, m)
    OBVIOUS
  <1>4. \A i \in 1..(s - w) : ch[i] = Block(p, BlocksOf(p)[w + i])
    BY DEF InChannel
  <1>5. m = Block(p, BlocksOf(p)[w + ((s - w) + 1)])
    <2>1. w + ((s - w) + 1) = s + 1
      OBVIOUS
    <2> QED
      BY <2>1, Zenon
  <1> HIDE DEF m, ch
  <1>6. Len(chan'[p]) = (s + 1) - w
    BY <1>2, <1>3
  <1>7. ASSUME NEW i \in 1..((s + 1) - w) PROVE chan'[p][i] = Block(p, BlocksOf(p)[w + i])
    <2>1. CASE i = (s - w) + 1
      <3>1. chan'[p][i] = m
        BY <1>2, <1>3, <2>1
      <3> QED
        BY <1>5, <2>1, <3>1, Zenon
    <2>2. CASE i # (s - w) + 1
      <3>1. i \in 1..(s - w) /\ chan'[p][i] = ch[i]
        BY <1>2, <1>3, <2>2
      <3> QED
        BY <1>4, <3>1, Zenon
    <2> QED
      BY <2>1, <2>2
  <1>8. w <= s + 1 /\ Len(chan'[p]) = (s + 1) - w + 0
    BY <1>2, <1>6
  <1> QED
    BY <1>1, <1>7, <1>8, Zenon DEF InChannel

\* The bytes are those of partition p from the end of its first s full blocks on.
HoldsFrom(p, s, data) == \A i \in 1..Len(data) : data[i] = Payload(p, Cap * s + i)

\* What is copied continues what the buffer holds.
LEMMA FilledFacts ==
    ASSUME WriteType, NEW p \in P, NEW s \in Nat, NEW amount \in Nat, NEW filled,
           filled = buffer[p] \o NextBytes(p, amount),
           plan[p].total - left[p] - chunk[p] = Cap * s + Len(buffer[p]),
           HoldsFrom(p, s, buffer[p])
    PROVE  HoldsFrom(p, s, filled)
  <1> DEFINE b == buffer[p]
             n == NextBytes(p, amount)
             base == Cap * s
  <1>1. b \in Seq(Int) /\ Len(b) \in Nat /\ base \in Nat
    BY WriteAssumption, LenProperties DEF WriteType
  <1>2. /\ n \in Seq(Int) /\ Len(n) = amount
        /\ \A i \in 1..amount : n[i] = Payload(p, (base + Len(b)) + i)
    <2>1. /\ n \in Seq(Int) /\ Len(n) = amount
          /\ \A i \in 1..amount : n[i] = Payload(p, plan[p].total - left[p] - chunk[p] + i)
      BY NextBytesType
    <2> HIDE DEF n
    <2> QED
      BY <2>1, Zenon
  <1>3. filled = b \o n /\ \A i \in 1..Len(b) : b[i] = Payload(p, base + i)
    BY DEF HoldsFrom
  <1> HIDE DEF b, n, base
  <1>4. filled \in Seq(Int) /\ Len(filled) = Len(b) + amount
    <2>1. b \o n \in Seq(Int) /\ Len(b \o n) = Len(b) + Len(n)
      BY <1>1, <1>2, ConcatProperties
    <2> QED
      BY <1>2, <1>3, <2>1, Zenon
  <1>5. ASSUME NEW i \in 1..Len(filled) PROVE filled[i] = Payload(p, base + i)
    <2>1. CASE i <= Len(b)
      BY <1>1, <1>2, <1>3, <1>4, <2>1
    <2>2. CASE ~(i <= Len(b))
      <3>1. i - Len(b) \in 1..amount /\ (base + Len(b)) + (i - Len(b)) = base + i
        BY <1>1, <1>4, <2>2
      <3>2. filled[i] = n[i - Len(b)]
        BY <1>1, <1>2, <1>3, <1>4, <2>2
      <3> QED
        BY <1>2, <3>1, <3>2, Zenon
    <2> QED
      BY <2>1, <2>2
  <1> QED
    BY <1>5 DEF base, HoldsFrom

\* A sequence with the length and the bytes of a block is that block.
LEMMA IsBlock ==
    ASSUME WriteType, NEW p \in P, NEW s \in Nat, s + 1 <= Len(BlocksOf(p)), NEW data \in Seq(Int),
           Len(data) = BlockSize(p, s + 1),
           \A i \in 1..Len(data) : data[i] = Payload(p, Cap * s + i)
    PROVE  data = BlocksOf(p)[s + 1]
  <1> DEFINE block == BlocksOf(p)[s + 1]
             size == BlockSize(p, s + 1)
  <1>1. s + 1 \in 1..Len(BlocksOf(p)) /\ ((s + 1) - 1) * Cap = Cap * s
    <2>1. Len(BlocksOf(p)) \in Nat /\ Cap \in Nat
      BY BlockFacts, LenProperties, WriteAssumption
    <2> QED
      BY <2>1
  <1>2. /\ block \in Seq(Int) /\ Len(block) = size
        /\ \A i \in 1..size : block[i] = Payload(p, ((s + 1) - 1) * Cap + i)
    BY <1>1, BlockFacts
  <1>3. \A i \in 1..size : block[i] = data[i]
    BY <1>1, <1>2, Zenon
  <1> HIDE DEF block, size
  <1>4. Len(data) = size
    BY DEF size
  <1>5. block = data
    BY <1>2, <1>3, <1>4, SeqEqual
  <1> QED
    BY <1>5 DEF block

\* While the caller listens, a closure's steps keep its account: what it has produced
\* is in the channel, in the buffer or already written.
LEMMA PendingClosure ==
    ASSUME ControlInv, NEW p \in P, ClosureStep(p), verdict[1] # "io",
           NEW w \in Nat, Pending(p, w)
    PROVE  Pending(p, w)'
  <1>0. WriteType /\ EofInv /\ Cap \in Nat \ {0}
    BY WriteAssumption DEF ControlInv
  <1>1. plan' = plan /\ receivers' = receivers
    BY Zenon DEF ClosureStep, BeginWrite, CopyIntoBuffer, FinalFlush, SendEof, ProcessorFails, Report,
       caller
  <1>2. BlocksOf(p)' = BlocksOf(p) /\ (ReceiverAlive(p)' <=> ReceiverAlive(p))
    BY <1>1, ReferenceKept, Zenon DEF ReceiverAlive
  <1>3. CASE ~ReceiverAlive(p)
    BY <1>2, <1>3, Zenon DEF Pending
  <1>4. CASE ReceiverAlive(p)
    <2>0. PICK s \in Nat : Produced(p, s) /\ InChannel(p, w, s)
      BY <1>4, Zenon DEF Pending
    <2> SUFFICES \E z \in Nat : Produced(p, z)' /\ InChannel(p, w, z)'
      BY <1>2, <1>4, Zenon DEF Pending
    <2> DEFINE total == plan[p].total
               len == Len(buffer[p])
    <2>1. /\ total \in Nat /\ left[p] \in Nat /\ chunk[p] \in Nat /\ len \in Nat /\ len < Cap
          /\ buffer[p] \in Seq(Int) /\ chan[p] \in Seq(Messages) /\ Cap * s \in Nat
          /\ Whole(p) \in Nat /\ Len(BlocksOf(p)) = Whole(p) + Rest(p)
      <3>1. /\ left[p] \in Nat /\ chunk[p] \in Nat /\ len < Cap
            /\ buffer[p] \in Seq(Int) /\ chan[p] \in Seq(Messages)
        BY <1>0 DEF WriteType
      <3>2. total \in Nat /\ Whole(p) \in Nat /\ Len(BlocksOf(p)) = Whole(p) + Rest(p)
        BY <1>0, BlockFacts
      <3>3. len \in Nat /\ Cap * s \in Nat
        BY <1>0, <3>1, LenProperties
      <3> QED
        BY <3>1, <3>2, <3>3
    <2>2. phase[p] = "running" =>
              /\ total - left[p] - chunk[p] = Cap * s + len
              /\ \A i \in 1..len : buffer[p][i] = Payload(p, Cap * s + i)
      BY <2>0, Zenon DEF Produced
    <2>3. ASSUME NEW n \in 1..MaxChunk, BeginWrite(p, n)
          PROVE  Produced(p, s)' /\ InChannel(p, w, s)'
      <3>1. /\ phase[p] = "running" /\ chunk[p] = 0 /\ n <= left[p] /\ n \in Nat
            /\ chunk'[p] = n /\ left'[p] = left[p] - n /\ UNCHANGED <<phase, buffer, chan>>
        BY <1>0, <2>3, WriteAssumption DEF BeginWrite, WriteType, threads
      <3>2. total - left'[p] - chunk'[p] = Cap * s + len
        BY <2>1, <2>2, <3>1
      <3>3. Produced(p, s)'
        BY <1>1, <1>2, <2>0, <3>1, <3>2, Zenon DEF Produced
      <3>4. EofSent(p)' <=> EofSent(p)
        BY <1>1, <3>1, Zenon DEF EofSent
      <3>5. InChannel(p, w, s)'
        BY <1>2, <2>0, <3>1, <3>4 DEF InChannel
      <3> QED
        BY <3>3, <3>5
    <2>4. CASE CopyIntoBuffer(p)
      <3>1. PICK amount \in Nat, filled \in Seq(Int) :
             /\ 1 <= amount /\ amount <= chunk[p]
             /\ Len(filled) = Len(buffer[p]) + amount /\ Len(filled) <= Cap
             /\ filled = buffer[p] \o NextBytes(p, amount)
             /\ chunk' = [chunk EXCEPT ![p] = @ - amount]
             /\ \/ /\ Len(filled) = Cap
                   /\ SendBlock(p, filled)
                   /\ buffer' = [buffer EXCEPT ![p] = <<>>]
                \/ /\ Len(filled) # Cap
                   /\ buffer' = [buffer EXCEPT ![p] = filled]
                   /\ UNCHANGED <<phase, outcome, chan>>
        BY <1>0, <2>4, CopyFacts, Zenon
      <3>2. phase[p] = "running" /\ left' = left
        BY <2>4 DEF CopyIntoBuffer
      <3>3. \A i \in 1..Len(filled) : filled[i] = Payload(p, Cap * s + i)
        <4>1. /\ plan[p].total - left[p] - chunk[p] = Cap * s + Len(buffer[p])
              /\ HoldsFrom(p, s, buffer[p])
          BY <2>2, <3>2 DEF HoldsFrom
        <4>2. filled = buffer[p] \o NextBytes(p, amount)
          BY <3>1
        <4> QED
          <5>1. HoldsFrom(p, s, filled)
            BY <1>0, <4>1, <4>2, FilledFacts
          <5> QED
            BY <5>1, Zenon DEF HoldsFrom
      <3>4. chunk'[p] = chunk[p] - amount
        BY <1>0, <3>1 DEF WriteType
      <3>5. total - left'[p] - chunk'[p] = Cap * s + Len(filled)
        <4>1. left'[p] = left[p] /\ Len(filled) = len + amount
          BY <3>1, <3>2
        <4>2. total - left[p] - chunk[p] = Cap * s + len
          BY <2>2, <3>2
        <4>3. total \in Int /\ left[p] \in Int /\ chunk[p] \in Int /\ Cap * s \in Int /\ len \in Int
              /\ amount \in Int
          BY <2>1
        <4> DEFINE l == left[p]
                   c == chunk[p]
                   b == Cap * s
        <4>4. total - l - c = b + len
          BY <4>2
        <4> HIDE DEF total, len, l, c, b
        <4>5. total - l - (c - amount) = b + (len + amount)
          <5>1. total \in Int /\ l \in Int /\ c \in Int /\ b \in Int /\ len \in Int /\ amount \in Int
            BY <4>3 DEF l, c, b
          <5> QED
            BY <4>4, <5>1
        <4> QED
          BY <3>4, <4>1, <4>5, Zenon DEF l, c, b
      <3>6. CASE /\ Len(filled) # Cap
                 /\ buffer' = [buffer EXCEPT ![p] = filled]
                 /\ UNCHANGED <<phase, outcome, chan>>
        <4>1. buffer'[p] = filled
          BY <1>0, <3>6 DEF WriteType
        <4>2. Produced(p, s)'
          BY <1>1, <1>2, <2>0, <3>2, <3>3, <3>5, <3>6, <4>1, Zenon DEF Produced
        <4>3. EofSent(p)' <=> EofSent(p)
          BY <1>1, <3>6, Zenon DEF EofSent
        <4>4. InChannel(p, w, s)'
          BY <1>2, <2>0, <3>6, <4>3 DEF InChannel
        <4> QED
          BY <4>2, <4>4
      <3>7. CASE /\ Len(filled) = Cap
                 /\ SendBlock(p, filled)
                 /\ buffer' = [buffer EXCEPT ![p] = <<>>]
        <4>1. Cap * (s + 1) <= total /\ total - left'[p] - chunk'[p] = Cap * (s + 1)
          <5>1. Cap * (s + 1) = Cap * s + Cap
            BY <1>0
          <5>2. left'[p] \in Nat /\ chunk'[p] \in Nat
            <6>1. left'[p] = left[p] /\ amount <= chunk[p]
              BY <3>1, <3>2
            <6> HIDE DEF total, len
            <6> QED
              BY <2>1, <3>4, <6>1
          <5> HIDE DEF total, len
          <5> QED
            BY <1>0, <2>1, <3>5, <3>7, <5>1, <5>2
        <4>2. s + 1 <= Whole(p) /\ s + 1 <= Len(BlocksOf(p))
          <5>1. s + 1 <= Whole(p)
            <6>1. s + 1 \in Nat
              OBVIOUS
            <6> QED
              BY <1>0, <2>1, <4>1, <6>1, QuotientLargest, Zenon DEF Whole
          <5> QED
            BY <2>1, <5>1 DEF Rest
        <4>3. filled = BlocksOf(p)[s + 1]
          <5>1. Len(filled) = BlockSize(p, s + 1)
            BY <3>7, <4>2 DEF BlockSize
          <5> QED
            BY <1>0, <3>3, <4>2, <5>1, IsBlock
        <4>4. /\ UNCHANGED phase
              /\ chan'[p] = Append(chan[p], Block(p, BlocksOf(p)[s + 1]))
          BY <1>0, <1>4, <3>7, <4>3 DEF SendBlock, WriteType
        <4>5. buffer'[p] = <<>> /\ Len(<<>>) = 0
          BY <1>0, <3>7 DEF WriteType
        <4>6. Produced(p, s + 1)'
          <5>1. total - left'[p] - chunk'[p] = Cap * (s + 1) + 0
            BY <1>0, <4>1
          <5>2. \A i \in 1..0 : FALSE
            OBVIOUS
          <5> QED
            BY <1>1, <1>2, <3>2, <4>2, <4>4, <4>5, <5>1, <5>2 DEF Produced
        <4>7. InChannel(p, w, s + 1)'
          <5>1. ~EofSent(p) /\ ~EofSent(p)'
            BY <3>2, <4>4 DEF EofSent
          <5> QED
            BY <1>0, <1>1, <2>0, <4>4, <5>1, BlockSent
        <4> QED
          BY <4>6, <4>7
      <3> QED
        BY <3>1, <3>6, <3>7, Zenon
    <2>5. CASE FinalFlush(p)
      <3>1. /\ phase[p] = "running" /\ chunk[p] = 0 /\ left[p] = 0 /\ plan[p].ending = "ok"
            /\ chan' = IF buffer[p] = <<>> THEN chan
                       ELSE [chan EXCEPT ![p] = Append(@, Block(p, buffer[p]))]
            /\ phase'[p] = "eof"
        BY <1>0, <1>4, <2>5 DEF FinalFlush, AtEnd, WriteType
      <3>2. total = Cap * s + len
        BY <2>1, <2>2, <3>1
      <3>3. s = Whole(p) /\ len = total % Cap
        BY <1>0, <2>1, <3>2, QuotientFacts DEF Whole
      <3>4. ~EofSent(p) /\ ~EofSent(p)'
        BY <3>1 DEF EofSent
      <3>5. CASE buffer[p] = <<>>
        <4>1. s = Len(BlocksOf(p))
          BY <2>1, <3>3, <3>5 DEF Rest
        <4>2. Produced(p, s)'
          BY <1>2, <2>0, <3>1, <4>1 DEF Produced
        <4>3. InChannel(p, w, s)'
          BY <1>2, <2>0, <3>1, <3>4, <3>5 DEF InChannel
        <4> QED
          BY <4>2, <4>3
      <3>6. CASE buffer[p] # <<>>
        <4>1. len > 0
          BY <2>1, <3>6, EmptySeq
        <4>2. s + 1 = Len(BlocksOf(p)) /\ len = BlockSize(p, s + 1)
          BY <2>1, <3>1, <3>3, <4>1 DEF Rest, BlockSize
        <4>3. buffer[p] = BlocksOf(p)[s + 1]
          <5>1. s + 1 <= Len(BlocksOf(p))
            BY <4>2
          <5> QED
            BY <1>0, <2>1, <2>2, <3>1, <4>2, <5>1, IsBlock
        <4>4. chan'[p] = Append(chan[p], Block(p, BlocksOf(p)[s + 1]))
          BY <1>0, <3>1, <3>6, <4>3 DEF WriteType
        <4>5. Produced(p, s + 1)'
          BY <1>2, <3>1, <4>2 DEF Produced
        <4>6. InChannel(p, w, s + 1)'
          BY <1>0, <1>1, <2>0, <3>4, <4>4, BlockSent
        <4> QED
          BY <4>5, <4>6
      <3> QED
        BY <3>5, <3>6
    <2>6. CASE SendEof(p)
      <3>1. /\ phase[p] = "eof" /\ phase'[p] = "report" /\ plan[p].ending = "ok"
            /\ chan'[p] = Append(chan[p], Eof(p))
        BY <1>0, <1>4, <2>6 DEF SendEof, WriteType, EofInv
      <3>2. Produced(p, s)'
        BY <1>2, <2>0, <3>1 DEF Produced
      <3>3. ~EofSent(p) /\ EofSent(p)'
        BY <1>1, <3>1 DEF EofSent
      <3>4. /\ w <= s /\ Len(chan[p]) = s - w
            /\ \A i \in 1..(s - w) : chan[p][i] = Block(p, BlocksOf(p)[w + i])
        BY <2>0, <2>1, <3>3 DEF InChannel
      <3>5. /\ Len(chan'[p]) = s - w + 1 /\ chan'[p][s - w + 1] = Eof(p)
            /\ \A i \in 1..(s - w) : chan'[p][i] = chan[p][i]
        BY <2>1, <3>1, <3>4, AppendProperties
      <3>6. \A i \in 1..(s - w) : chan'[p][i] = Block(p, BlocksOf(p)[w + i])
        BY <3>4, <3>5, Zenon
      <3>7. InChannel(p, w, s)'
        BY <1>2, <3>3, <3>4, <3>5, <3>6, Zenon DEF InChannel
      <3> QED
        BY <3>2, <3>7
    <2>7. CASE ProcessorFails(p)
      <3>1. /\ phase[p] = "running" /\ chunk[p] = 0 /\ left[p] = 0 /\ plan[p].ending # "ok"
            /\ phase'[p] = "report" /\ UNCHANGED chan
        BY <1>0, <2>7 DEF ProcessorFails, AtEnd, WriteType
      <3>2. total = Cap * s + len
        BY <2>1, <2>2, <3>1
      <3>3. s = Whole(p)
        BY <1>0, <2>1, <3>2, QuotientFacts DEF Whole
      <3>4. ~EofSent(p) /\ ~EofSent(p)'
        BY <1>1, <3>1 DEF EofSent
      <3>5. s = Len(BlocksOf(p))
        BY <2>1, <3>1, <3>3 DEF Rest
      <3>6. Produced(p, s)'
        BY <1>2, <2>0, <3>1, <3>5 DEF Produced
      <3>7. InChannel(p, w, s)'
        BY <1>2, <2>0, <3>1, <3>4 DEF InChannel
      <3> QED
        BY <3>6, <3>7
    <2>8. CASE Report(p)
      <3>1. phase[p] = "report" /\ phase'[p] = "over" /\ UNCHANGED <<left, chunk, buffer, chan>>
        BY <1>0, <2>8 DEF Report, ClosureReturns, closure, WriteType
      <3>2. Pending(p, w)'
        BY <1>1, <1>2, <3>1, PendingKept
      <3> QED
        BY <1>2, <1>4, <3>2, Zenon DEF Pending
    <2> QED
      BY <2>3, <2>4, <2>5, <2>6, <2>7, <2>8, Zenon DEF ClosureStep
  <1> QED
    BY <1>3, <1>4

\* A step of the closure of p touches nothing of the others.
LEMMA ClosureIsLocal ==
    ASSUME WriteType, NEW p \in P, ClosureStep(p), NEW q \in P, q # p
    PROVE  /\ phase'[q] = phase[q] /\ left'[q] = left[q] /\ chunk'[q] = chunk[q]
           /\ buffer'[q] = buffer[q] /\ chan'[q] = chan[q]
  <1> USE DEF WriteType, threads, closure
  <1>1. ASSUME NEW n \in 1..MaxChunk, BeginWrite(p, n)
        PROVE  /\ phase'[q] = phase[q] /\ left'[q] = left[q] /\ chunk'[q] = chunk[q]
               /\ buffer'[q] = buffer[q] /\ chan'[q] = chan[q]
    BY <1>1 DEF BeginWrite
  <1>2. CASE CopyIntoBuffer(p)
    <2>1. PICK amount \in Nat, filled \in Seq(Int) :
             /\ chunk' = [chunk EXCEPT ![p] = @ - amount]
             /\ \/ /\ SendBlock(p, filled)
                   /\ buffer' = [buffer EXCEPT ![p] = <<>>]
                \/ /\ buffer' = [buffer EXCEPT ![p] = filled]
                   /\ UNCHANGED <<phase, outcome, chan>>
      BY <1>2, CopyFacts, Zenon
    <2>2. left' = left
      BY <1>2, Zenon DEF CopyIntoBuffer
    <2> QED
      BY <2>1, <2>2 DEF SendBlock
  <1>3. CASE FinalFlush(p)
    BY <1>3 DEF FinalFlush, SendBlock
  <1>4. CASE SendEof(p)
    BY <1>4 DEF SendEof
  <1>5. CASE ProcessorFails(p)
    BY <1>5 DEF ProcessorFails
  <1>6. CASE Report(p)
    BY <1>6 DEF Report, ClosureReturns
  <1> QED
    BY <1>1, <1>2, <1>3, <1>4, <1>5, <1>6, Zenon DEF ClosureStep

\* A step that writes nothing and takes nothing from a channel keeps the stream.
LEMMA StreamKept ==
    ASSUME StreamInv, UNCHANGED <<plan, receivers, cur, out>>,
           pc' = pc \/ (pc = "inline" /\ pc' = "carousel") \/ (pc = "collect" /\ pc' = "done"),
           verdict[1] = "io" => verdict'[1] = "io",
           NoDropped' => NoDropped,
           NoDropped' /\ pc \in {"inline", "carousel"} =>
               \A p \in P : \A w \in Nat : Pending(p, w) => Pending(p, w)'
    PROVE  StreamInv'
  <1>1. Sorted'
    BY DEF StreamInv, Sorted
  <1> SUFFICES ASSUME NoDropped'
               PROVE  /\ Completable(out)'
                      /\ pc' \in {"inline", "carousel"} =>
                            \E r \in Nat, c \in P : c = Current' /\ AtTurn(r, c)'
                      /\ pc' \in {"collect", "done"} /\ verdict'[1] # "io" => out' = Reference'
    BY <1>1, Zenon DEF StreamInv
  <1>2. Carousel' = Carousel /\ Reference' = Reference
    BY ReferenceKept, Zenon
  <1>3. Completable(out)'
    BY <1>2, Zenon DEF StreamInv, Completable, Continues
  <1>4. ASSUME pc' \in {"inline", "carousel"}
        PROVE  \E r \in Nat, c \in P : c = Current' /\ AtTurn(r, c)'
    <2>1. pc \in {"inline", "carousel"} /\ Current' = Current
      BY <1>4 DEF Current
    <2>2. PICK r \in Nat, c \in P : c = Current /\ AtTurn(r, c)
      BY <2>1, Zenon DEF StreamInv
    <2>3. \A p \in P : Turn(r, c, p) \in Nat
      BY DEF Turn
    <2>4. AtTurn(r, c)'
      BY <1>2, <2>1, <2>2, <2>3, Zenon DEF AtTurn
    <2> QED
      BY <2>1, <2>2, <2>4, Zenon
  <1>5. ASSUME pc' \in {"collect", "done"}, verdict'[1] # "io" PROVE out' = Reference'
    <2>1. pc \in {"collect", "done"} /\ verdict[1] # "io"
      BY <1>5
    <2> QED
      BY <1>2, <2>1, Zenon DEF StreamInv
  <1> QED
    BY <1>3, <1>4, <1>5, Zenon

\* Workers take closures that have not begun, or drop one.
LEMMA StreamWorker == ControlInv /\ StreamInv /\ WorkerStep => StreamInv'
  <1> SUFFICES ASSUME ControlInv, StreamInv, WorkerStep PROVE StreamInv'
    OBVIOUS
  <1>1. UNCHANGED <<plan, left, chunk, buffer, chan, receivers, cur, out, verdict>>
    BY Zenon DEF WorkerStep, closure
  <1>2. pc' = pc \/ (pc = "inline" /\ pc' = "carousel")
    BY Zenon DEF WorkerStep
  <1>3. \A p \in P : ReceiverAlive(p)' <=> ReceiverAlive(p)
    BY <1>1, Zenon DEF ReceiverAlive
  <1>4. NoDropped' => \A p \in P : \/ phase'[p] = phase[p]
                                   \/ phase[p] = "queued" /\ phase'[p] = "running"
    <2>1. CASE UNCHANGED phase
      BY <2>1
    <2>2. CASE TakeClosure
      <3>1. queue \in Seq(P) /\ queue # <<>> /\ phase' = [phase EXCEPT ![Head(queue)] = "running"]
            /\ phase \in [P -> Phases]
        BY <2>2 DEF TakeClosure, ControlInv, WriteType
      <3>2. 1 \in 1..Len(queue) /\ Head(queue) = queue[1] /\ queue[1] \in P
        BY <3>1, EmptySeq, ElementOfSeq
      <3>3. phase[queue[1]] = "queued"
        BY <3>2 DEF ControlInv, QueueInv
      <3> QED
        BY <3>1, <3>2, <3>3
    <2>3. CASE QueueDropped
      <3>1. queue \in Seq(P) /\ queue # <<>>
            /\ phase' = [p \in P |-> IF phase[p] = "queued" THEN "dropped" ELSE phase[p]]
        BY <2>3 DEF QueueDropped, ControlInv, WriteType
      <3>2. 1 \in 1..Len(queue) /\ queue[1] \in P
        BY <3>1, EmptySeq, ElementOfSeq
      <3>3. phase'[queue[1]] = "dropped"
        BY <3>1, <3>2 DEF ControlInv, QueueInv
      <3> QED
        BY <3>2, <3>3 DEF NoDropped
    <2> QED
      BY <2>1, <2>2, <2>3, Zenon DEF WorkerStep, WorkerStarts, WorkerLost, WorkerExits
  <1>5. NoDropped' => NoDropped
    BY <1>4 DEF NoDropped
  <1>6. NoDropped' => \A p \in P : \A w \in Nat : Pending(p, w) => Pending(p, w)'
    BY <1>1, <1>3, <1>4, PendingKept
  <1> QED
    BY <1>1, <1>2, <1>5, <1>6, StreamKept

\* Closures add to their channels what the stream still lacks.
LEMMA StreamClosure ==
    ASSUME ControlInv, StreamInv, NEW p \in P, ClosureStep(p) PROVE StreamInv'
  <1>0. WriteType
    BY DEF ControlInv
  <1>1. UNCHANGED <<plan, pc, receivers, cur, out, verdict>>
    BY Zenon DEF ClosureStep, BeginWrite, CopyIntoBuffer, FinalFlush, SendEof, ProcessorFails, Report,
       caller
  <1>2. \A q \in P : ReceiverAlive(q)' <=> ReceiverAlive(q)
    BY <1>1, Zenon DEF ReceiverAlive
  <1>3. phase[p] # "dropped"
    BY DEF ClosureStep, BeginWrite, CopyIntoBuffer, FinalFlush, AtEnd, SendEof, ProcessorFails, Report
  <1>4. NoDropped' => NoDropped
    BY <1>0, <1>3, ClosureIsLocal DEF NoDropped
  <1>5. ASSUME pc \in {"inline", "carousel"}, NEW q \in P, NEW w \in Nat, Pending(q, w)
        PROVE  Pending(q, w)'
    <2>1. verdict[1] # "io"
      BY <1>5 DEF ControlInv, CallerInv
    <2>2. CASE q = p
      BY <1>5, <2>1, <2>2, PendingClosure
    <2>3. CASE q # p
      <3>1. /\ phase'[q] = phase[q] /\ left'[q] = left[q] /\ chunk'[q] = chunk[q]
            /\ buffer'[q] = buffer[q] /\ chan'[q] = chan[q]
        BY <1>0, <2>3, ClosureIsLocal
      <3> QED
        BY <1>1, <1>2, <1>5, <3>1, PendingKept
    <2> QED
      BY <2>2, <2>3
  <1> QED
    BY <1>1, <1>4, <1>5, StreamKept

-----------------------------------------------------------------------------
(* The caller                                                              *)

\* The block the caller meets is the one the reference has at this visit.
LEMMA BlockMet ==
    ASSUME ControlInv, NextIsBlock, NEW r \in Nat, NEW c \in P, c = Current, AtTurn(r, c)
    PROVE  /\ Frame(Head(chan[c])) = Visits[r * N + c]
           /\ \E s \in Nat : Produced(c, s) /\ InChannel(c, r, s) /\ r < s
  <1>1. WriteType /\ pc = "carousel" /\ chan[c] # <<>> /\ ~Head(chan[c]).eof
    BY DEF ControlInv, NextIsBlock
  <1>2. ReceiverAlive(c)
    <2>1. cur + 1 \in 1..Len(receivers)
      BY <1>1, CurrentType DEF ControlInv
    <2> QED
      BY <2>1 DEF ReceiverAlive, Current
  <1>3. Turn(r, c, c) = r
    BY PartitionFacts DEF Turn
  <1>4. Pending(c, r)
    BY <1>3, Zenon DEF AtTurn
  <1>5. PICK s \in Nat : Produced(c, s) /\ InChannel(c, r, s)
    BY <1>2, <1>4, Zenon DEF Pending
  <1>6. chan[c] \in Seq(Messages) /\ Len(chan[c]) \in Nat \ {0} /\ Head(chan[c]) = chan[c][1]
    BY <1>1, EmptySeq DEF WriteType
  <1>7. r < s
    <2> SUFFICES ASSUME r = s PROVE FALSE
      BY <1>5 DEF InChannel
    <2>1. EofSent(c) /\ chan[c][1] = Eof(c)
      BY <1>5, <1>6 DEF InChannel
    <2> QED
      BY <1>1, <1>6, <2>1 DEF Eof
  <1>8. Head(chan[c]) = Block(c, BlocksOf(c)[r + 1])
    <2>1. 1 \in 1..(s - r)
      BY <1>7
    <2> QED
      BY <1>5, <1>6, <2>1 DEF InChannel
  <1>9. r + 1 <= Len(BlocksOf(c))
    <2>1. s <= Len(BlocksOf(c)) /\ Len(BlocksOf(c)) \in Nat
      BY <1>1, <1>5, BlockFacts, LenProperties DEF Produced
    <2> QED
      BY <1>7, <2>1
  <1>10. Frame(Head(chan[c])) = Visit(r + 1, c)
    BY <1>8, <1>9, Zenon DEF Visit
  <1> QED
    BY <1>5, <1>7, <1>10, VisitAt, Zenon

\* The visit to c is done; the caller goes on to d.
LEMMA AfterVisit ==
    ASSUME WriteType, plan' = plan, NEW r \in Nat, NEW c \in P, NEW q \in Nat, NEW d \in P,
           Follows({p \in P : ReceiverAlive(p)'}, r, c, q, d),
           out' = Carousel[r * N + c + 1],
           \A p \in P : Pending(p, Visited(r, c, p))'
    PROVE  AtTurn(q, d)'
  <1> DEFINE A == {p \in P : ReceiverAlive(p)'}
  <1>0. Carousel' = Carousel /\ \A p \in P : BlocksOf(p)' = BlocksOf(p)
    BY ReferenceKept, Zenon
  <1>1. A \in SUBSET P /\ \A p \in P : p \in A <=> ReceiverAlive(p)'
    OBVIOUS
  <1>2. Follows(A, r, c, q, d)
    OBVIOUS
  <1> HIDE DEF A
  <1>3. OthersEnded(A, r, c)
    BY <1>0, <1>1, Zenon DEF OthersEnded, Pending
  <1>4. Arrives(A, r, c, q, d)
    BY <1>1, <1>2, <1>3, NextVisit, Zenon
  <1>5. out' = Carousel[q * N + d]
    BY <1>4, Zenon DEF Arrives
  <1>6. ASSUME NEW p \in P PROVE Pending(p, Turn(q, d, p))'
    <2>1. CASE p \in A
      BY <1>4, <2>1, Zenon DEF Arrives
    <2>2. CASE p \notin A
      BY <1>0, <1>1, <1>4, <2>2, Zenon DEF Arrives, Pending
    <2> QED
      BY <2>1, <2>2
  <1> QED
    BY <1>0, <1>5, <1>6, Zenon DEF AtTurn

\* Later receivers are larger partitions.
LEMMA SortedOrder ==
    ASSUME WriteType, Sorted, NEW i \in 1..Len(receivers), NEW j \in 1..Len(receivers)
    PROVE  /\ receivers[i] \in P /\ receivers[j] \in P
           /\ i <= j => receivers[i] <= receivers[j]
           /\ i < j => receivers[i] < receivers[j]
  <1>1. receivers \in Seq(P) /\ receivers[i] \in P /\ receivers[j] \in P
    BY ElementOfSeq DEF WriteType
  <1>2. i < j => receivers[i] < receivers[j]
    BY DEF Sorted
  <1>3. i \in Nat /\ j \in Nat /\ receivers[i] \in Nat /\ receivers[j] \in Nat
    <2>1. i \in Nat /\ j \in Nat /\ \A p \in P : p \in Nat
      BY <1>1, LenProperties, PartitionFacts
    <2> QED
      BY <1>1, <2>1, Zenon
  <1>4. i <= j => receivers[i] <= receivers[j]
    BY <1>2, <1>3
  <1> QED
    BY <1>1, <1>2, <1>4

\* A written block is the next piece of the stream.
LEMMA StreamWrite == ControlInv /\ StreamInv /\ WriteBlock => StreamInv'
  <1> SUFFICES ASSUME ControlInv, StreamInv, WriteBlock PROVE StreamInv'
    OBVIOUS
  <1>1. /\ NextIsBlock /\ pc = "carousel" /\ WriteType
        /\ out' = out \o Frame(Head(chan[Current]))
        /\ chan' = [chan EXCEPT ![Current] = Tail(@)]
        /\ cur' = (cur + 1) % Len(receivers)
        /\ UNCHANGED <<plan, phase, left, chunk, buffer, pc, receivers, verdict>>
    BY Zenon DEF WriteBlock, NextIsBlock, threads, ControlInv
  <1>2. Sorted /\ Sorted'
    BY <1>1 DEF StreamInv, Sorted
  <1>3. NoDropped' <=> NoDropped
    BY <1>1 DEF NoDropped
  <1> SUFFICES ASSUME NoDropped
               PROVE  Completable(out)' /\ \E r \in Nat, c \in P : c = Current' /\ AtTurn(r, c)'
    BY <1>1, <1>2, <1>3 DEF StreamInv
  <1>4. PICK r \in Nat, c \in P : c = Current /\ AtTurn(r, c)
    BY <1>1 DEF StreamInv
  <1>5. Frame(Head(chan[c])) = Visits[r * N + c]
    BY <1>1, <1>4, BlockMet
  <1>6. PICK s \in Nat : Produced(c, s) /\ InChannel(c, r, s) /\ r < s
    BY <1>1, <1>4, BlockMet, Zenon
  <1>7. r * N + c \in Nat /\ r * N + c + 1 \in Nat /\ out' = Carousel[r * N + c + 1]
    <2> DEFINE k == r * N + c
    <2>1. k \in Nat
      BY VisitAt
    <2> HIDE DEF k
    <2>3. Carousel[k + 1] = Carousel[k] \o Visits[k]
      BY <1>1, <2>1, CarouselStep, Zenon
    <2>4. out = Carousel[k] /\ out' = out \o Visits[k]
      BY <1>1, <1>4, <1>5, Zenon DEF AtTurn, k
    <2>5. k \in Nat /\ k + 1 \in Nat /\ out' = Carousel[k + 1]
      BY <2>1, <2>3, <2>4
    <2> QED
      BY <2>5 DEF k
  <1>8. Carousel' = Carousel /\ Reference' = Reference /\ \A p \in P : BlocksOf(p)' = BlocksOf(p)
    BY <1>1, ReferenceKept, Zenon
  <1>9. Completable(out)'
    <2>1. Completable(out')
      BY <1>1, <1>7, CarouselCompletable, Zenon
    <2> QED
      BY <1>8, <2>1, Zenon DEF Completable, Continues
  <1>10. \A p \in P : ReceiverAlive(p)' <=> ReceiverAlive(p)
    BY <1>1, Zenon DEF ReceiverAlive
  <1>11. ASSUME NEW p \in P PROVE Pending(p, Visited(r, c, p))'
    <2>1. p \in Nat /\ c \in Nat
      BY PartitionFacts
    <2>2. CASE p # c
      <3>1. Visited(r, c, p) = Turn(r, c, p) /\ Visited(r, c, p) \in Nat
        BY <2>1, <2>2 DEF Visited, Turn
      <3>2. Pending(p, Visited(r, c, p))
        BY <1>4, <3>1, Zenon DEF AtTurn
      <3>3. chan'[p] = chan[p]
        BY <1>1, <1>4, <2>2 DEF WriteType
      <3> QED
        BY <1>1, <1>10, <3>1, <3>2, <3>3, PendingKept
    <2>3. CASE p = c
      <3>1. Visited(r, c, p) = r + 1
        BY <2>1, <2>3 DEF Visited
      <3>2. Produced(c, s)'
        BY <1>1, <1>6, <1>8, Zenon DEF Produced
      <3>3. /\ chan[c] \in Seq(Messages) /\ chan[c] # <<>> /\ chan'[c] = Tail(chan[c])
        BY <1>1, <1>4 DEF WriteType, NextIsBlock
      <3>4. /\ r + 1 <= s /\ Len(chan[c]) = s - r + (IF EofSent(c) THEN 1 ELSE 0)
            /\ \A i \in 1..(s - r) : chan[c][i] = Block(c, BlocksOf(c)[r + i])
            /\ EofSent(c) => chan[c][s - r + 1] = Eof(c)
        BY <1>6 DEF InChannel
      <3>5. /\ Len(chan'[c]) = Len(chan[c]) - 1
            /\ \A i \in 1..(Len(chan[c]) - 1) : chan'[c][i] = chan[c][i + 1]
        BY <3>3, HeadTailProperties
      <3>6. Len(chan'[c]) = s - (r + 1) + (IF EofSent(c) THEN 1 ELSE 0)
        BY <3>4, <3>5
      <3>7. ASSUME NEW i \in 1..(s - (r + 1)) PROVE chan'[c][i] = Block(c, BlocksOf(c)[(r + 1) + i])
        <4>1. /\ i \in 1..(Len(chan[c]) - 1) /\ i + 1 \in 1..(s - r)
              /\ r + (i + 1) = (r + 1) + i
          BY <3>4
        <4> QED
          BY <3>4, <3>5, <4>1, Zenon
      <3>8. EofSent(c) => chan'[c][s - (r + 1) + 1] = Eof(c)
        <4> SUFFICES ASSUME EofSent(c) PROVE chan'[c][s - (r + 1) + 1] = Eof(c)
          OBVIOUS
        <4> DEFINE i == s - (r + 1) + 1
        <4>1. i \in 1..(Len(chan[c]) - 1) /\ i + 1 = s - r + 1
          BY <3>4
        <4> QED
          BY <3>4, <3>5, <4>1, Zenon
      <3>9. EofSent(c)' <=> EofSent(c)
        BY <1>1, Zenon DEF EofSent
      <3>10. InChannel(c, r + 1, s)'
        BY <1>8, <3>4, <3>6, <3>7, <3>8, <3>9, Zenon DEF InChannel
      <3>11. ReceiverAlive(c)'
        <4>1. cur + 1 \in 1..Len(receivers)
          BY <1>1, CurrentType DEF ControlInv
        <4> QED
          BY <1>1, <1>4, <4>1 DEF ReceiverAlive, Current
      <3> QED
        BY <2>3, <3>1, <3>2, <3>10, <3>11, Zenon DEF Pending
    <2> QED
      BY <2>2, <2>3
  <1>12. \E q \in Nat, d \in P : d = Current' /\ Follows({p \in P : ReceiverAlive(p)'}, r, c, q, d)
    <2> DEFINE n == Len(receivers)
               A == {p \in P : ReceiverAlive(p)'}
    <2>1. n \in Nat /\ cur \in Nat /\ cur + 1 \in 1..n /\ c = receivers[cur + 1]
      BY <1>1, <1>4, CurrentType DEF ControlInv, WriteType, Current
    <2>2. \A p \in A : \E i \in 1..n : receivers[i] = p
      BY <1>10 DEF ReceiverAlive
    <2> HIDE DEF A
    <2>3. \A i, j \in 1..n : /\ receivers[i] \in P
                             /\ i <= j => receivers[i] <= receivers[j]
                             /\ i < j => receivers[i] < receivers[j]
      BY <1>1, <1>2, SortedOrder
    <2>4. CASE cur + 1 < n
      <3>1. cur' = cur + 1 /\ (cur + 1) + 1 \in 1..n /\ n \in Nat \ {0}
        <4>1. cur' = (cur + 1) % n
          BY <1>1
        <4> HIDE DEF n
        <4> QED
          BY <2>1, <2>4, <4>1
      <3>2. Current' = receivers[(cur + 1) + 1]
        BY <1>1, <3>1, Zenon DEF Current
      <3> DEFINE d == receivers[(cur + 1) + 1]
      <3>3. d \in P /\ c < d
        BY <2>1, <2>3, <3>1
      <3>4. ASSUME NEW p \in A PROVE p <= c \/ d <= p
        <4>1. PICK i \in 1..n : receivers[i] = p
          BY <2>2
        <4>2. i <= cur + 1 \/ (cur + 1) + 1 <= i
          BY <2>1
        <4> QED
          BY <2>1, <2>3, <3>1, <4>1, <4>2, Zenon
      <3>5. Follows(A, r, c, r, d)
        BY <3>3, <3>4, Zenon DEF Follows
      <3> QED
        BY <3>2, <3>3, <3>5, Zenon DEF A
    <2>5. CASE cur + 1 = n
      <3>1. cur' = 0 /\ 0 + 1 \in 1..n /\ n \in Nat \ {0}
        <4>1. cur' = n % n
          BY <1>1, <2>5
        <4> HIDE DEF n
        <4> QED
          BY <2>1, <2>5, <4>1
      <3>2. Current' = receivers[0 + 1]
        BY <1>1, <3>1, Zenon DEF Current
      <3> DEFINE d == receivers[0 + 1]
      <3>3. d \in P /\ d <= c
        BY <2>1, <2>3, <3>1
      <3>4. ASSUME NEW p \in A PROVE d <= p /\ p <= c
        <4>1. PICK i \in 1..n : receivers[i] = p
          BY <2>2
        <4>2. i <= cur + 1 /\ 0 + 1 <= i
          BY <2>1, <2>5
        <4> QED
          BY <2>1, <2>3, <3>1, <4>1, <4>2, Zenon
      <3>5. Follows(A, r, c, r + 1, d) /\ r + 1 \in Nat
        BY <3>3, <3>4 DEF Follows
      <3> QED
        BY <3>2, <3>3, <3>5, Zenon DEF A
    <2> QED
      BY <2>1, <2>4, <2>5
  <1>13. PICK q \in Nat, d \in P : d = Current' /\ Follows({p \in P : ReceiverAlive(p)'}, r, c, q, d)
    BY <1>12, Zenon
  <1>14. AtTurn(q, d)'
    BY <1>1, <1>7, <1>11, <1>13, AfterVisit
  <1> QED
    BY <1>9, <1>13, <1>14, Zenon

\* A partition that ended has nothing to add at this visit, nor later.
LEMMA EndMet ==
    ASSUME ControlInv, NoDropped, pc = "carousel", Finished(Current),
           NEW r \in Nat, NEW c \in P, c = Current, AtTurn(r, c)
    PROVE  Len(BlocksOf(c)) <= r
  <1>1. WriteType
    BY DEF ControlInv
  <1>2. ReceiverAlive(c)
    <2>1. cur + 1 \in 1..Len(receivers)
      BY <1>1, CurrentType DEF ControlInv
    <2> QED
      BY <2>1 DEF ReceiverAlive, Current
  <1>3. Turn(r, c, c) = r
    BY PartitionFacts DEF Turn
  <1>4. Pending(c, r)
    BY <1>3, Zenon DEF AtTurn
  <1>5. PICK s \in Nat : Produced(c, s) /\ InChannel(c, r, s)
    BY <1>2, <1>4, Zenon DEF Pending
  <1>6. phase[c] \in {"report", "over"} /\ s = r
    <2>1. CASE chan[c] = <<>>
      <3>1. ~SenderAlive(c) /\ phase[c] \in Phases /\ phase[c] # "dropped"
        BY <1>1, <2>1 DEF Finished, NoDropped, WriteType
      <3>2. phase[c] \in {"report", "over"}
        BY <3>1 DEF SenderAlive, Phases
      <3>3. Len(chan[c]) = 0
        BY <2>1
      <3> QED
        BY <1>5, <3>2, <3>3 DEF InChannel
    <2>2. CASE chan[c] # <<>>
      <3>1. chan[c] \in Seq(Messages) /\ Len(chan[c]) \in Nat \ {0} /\ Head(chan[c]) = chan[c][1]
        BY <1>1, <2>2, EmptySeq DEF WriteType
      <3>2. chan[c][1].eof
        BY <2>2, <3>1 DEF Finished
      <3>3. phase[c] \in {"report", "over"}
        BY <3>1, <3>2 DEF ControlInv, EofInv
      <3>4. s = r
        <4> SUFFICES ASSUME r < s PROVE FALSE
          BY <1>5 DEF InChannel
        <4>1. 1 \in 1..(s - r)
          OBVIOUS
        <4>2. chan[c][1] = Block(c, BlocksOf(c)[r + 1])
          BY <1>5, <4>1 DEF InChannel
        <4> QED
          BY <3>2, <4>2 DEF Block
      <3> QED
        BY <3>3, <3>4
    <2> QED
      BY <2>1, <2>2
  <1>7. s = Len(BlocksOf(c))
    BY <1>5, <1>6 DEF Produced
  <1> QED
    BY <1>6, <1>7

\* Removing a partition that ended leaves out nothing.
LEMMA StreamRemove == ControlInv /\ StreamInv /\ RemovePartition => StreamInv'
  <1> SUFFICES ASSUME ControlInv, StreamInv, RemovePartition PROVE StreamInv'
    OBVIOUS
  <1> DEFINE rest == RemoveAt(receivers, cur + 1)
             n == Len(receivers)
  <1>1. /\ pc = "carousel" /\ WriteType /\ Finished(Current)
        /\ receivers' = rest
        /\ IF rest = <<>> THEN pc' = "collect" /\ UNCHANGED cur
           ELSE cur' = cur % Len(rest) /\ UNCHANGED pc
        /\ chan' = [chan EXCEPT ![Current] = <<>>]
        /\ UNCHANGED <<plan, phase, left, chunk, buffer, out, verdict>>
    BY Zenon DEF RemovePartition, threads, ControlInv
  <1>2. n \in Nat /\ cur \in Nat /\ cur + 1 \in 1..n /\ Current = receivers[cur + 1]
    BY <1>1, CurrentType DEF ControlInv, WriteType, Current
  <1>3. /\ rest \in Seq(P) /\ Len(rest) = n - 1
        /\ \A j \in 1..(n - 1) : rest[j] = IF j < cur + 1 THEN receivers[j] ELSE receivers[j + 1]
    <2>1. receivers \in Seq(P)
      BY <1>1 DEF WriteType
    <2> QED
      BY <1>2, <2>1, RemoveAtEntries
  <1> HIDE DEF rest
  <1>4. Sorted
    BY DEF StreamInv
  <1>5. \A i, j \in 1..n : /\ receivers[i] \in P
                           /\ i <= j => receivers[i] <= receivers[j]
                           /\ i < j => receivers[i] < receivers[j]
    BY <1>1, <1>4, SortedOrder
  <1>6. ASSUME NEW j \in 1..(n - 1)
        PROVE  \E i \in 1..n : /\ rest[j] = receivers[i]
                               /\ i = IF j < cur + 1 THEN j ELSE j + 1
    BY <1>2, <1>3
  <1>7. Sorted'
    <2>1. ASSUME NEW i \in 1..Len(rest), NEW j \in 1..Len(rest), i < j PROVE rest[i] < rest[j]
      <3>1. PICK a \in 1..n : rest[i] = receivers[a] /\ a = IF i < cur + 1 THEN i ELSE i + 1
        BY <1>3, <1>6
      <3>2. PICK b \in 1..n : rest[j] = receivers[b] /\ b = IF j < cur + 1 THEN j ELSE j + 1
        BY <1>3, <1>6
      <3>3. a < b
        BY <1>2, <1>3, <2>1, <3>1, <3>2
      <3> QED
        BY <1>5, <3>1, <3>2, <3>3, Zenon
    <2> QED
      BY <1>1, <2>1 DEF Sorted
  <1>8. NoDropped' <=> NoDropped
    BY <1>1 DEF NoDropped
  <1> SUFFICES ASSUME NoDropped
               PROVE  /\ Completable(out)'
                      /\ pc' \in {"inline", "carousel"} =>
                            \E q \in Nat, d \in P : d = Current' /\ AtTurn(q, d)'
                      /\ pc' \in {"collect", "done"} => out' = Reference'
    BY <1>7, <1>8, Zenon DEF StreamInv
  <1>9. Carousel' = Carousel /\ Reference' = Reference /\ \A p \in P : BlocksOf(p)' = BlocksOf(p)
    BY <1>1, ReferenceKept, Zenon
  <1>10. Completable(out)'
    BY <1>1, <1>9, Zenon DEF StreamInv, Completable, Continues
  <1>11. PICK r \in Nat, c \in P : c = Current /\ AtTurn(r, c)
    BY <1>1 DEF StreamInv
  <1>12. Len(BlocksOf(c)) <= r
    BY <1>1, <1>11, EndMet
  <1>13. out' = Carousel[r * N + c + 1]
    <2> DEFINE k == r * N + c
    <2>1. k \in Nat /\ Visits[k] = Visit(r + 1, c)
      BY VisitAt
    <2>2. Visit(r + 1, c) = <<>>
      <3>1. Len(BlocksOf(c)) \in Nat
        BY <1>1, BlockFacts, LenProperties
      <3>2. ~(r + 1 <= Len(BlocksOf(c)))
        BY <1>12, <3>1
      <3> QED
        BY <3>2 DEF Visit
    <2> HIDE DEF k
    <2>3. Carousel[k + 1] = Carousel[k] \o <<>> /\ Carousel[k] \in Seq(Int)
      BY <1>1, <2>1, <2>2, CarouselStep, CarouselCompletable, Zenon
    <2>4. Carousel[k + 1] = Carousel[k]
      BY <2>3, ConcatEmptySeq, Zenon
    <2>5. out' = Carousel[k]
      BY <1>1, <1>11, Zenon DEF AtTurn, k
    <2> QED
      BY <2>4, <2>5 DEF k
  <1>14. \A p \in P : ReceiverAlive(p)' <=> \E j \in 1..(n - 1) : rest[j] = p
    BY <1>1, <1>3 DEF ReceiverAlive
  <1>15. ~ReceiverAlive(c)'
    <2>1. ASSUME NEW j \in 1..(n - 1), rest[j] = c PROVE FALSE
      <3>1. PICK i \in 1..n : rest[j] = receivers[i] /\ i = IF j < cur + 1 THEN j ELSE j + 1
        BY <1>6
      <3>2. i < cur + 1 \/ cur + 1 < i
        BY <1>2, <3>1
      <3>3. receivers[i] = receivers[cur + 1]
        BY <1>2, <1>11, <2>1, <3>1, Zenon
      <3>4. receivers[i] < receivers[cur + 1] \/ receivers[cur + 1] < receivers[i]
        BY <1>2, <1>5, <3>2, Zenon
      <3>5. \A p \in P : ~(p < p)
        BY PartitionFacts
      <3> QED
        BY <1>2, <1>5, <3>3, <3>4, <3>5, Zenon
    <2> QED
      BY <1>14, <2>1, Zenon
  <1>16. ASSUME NEW p \in P, p # c PROVE ReceiverAlive(p)' <=> ReceiverAlive(p)
    <2>1. ASSUME ReceiverAlive(p)' PROVE ReceiverAlive(p)
      BY <1>6, <1>14, <2>1 DEF ReceiverAlive
    <2>2. ASSUME ReceiverAlive(p) PROVE ReceiverAlive(p)'
      <3>1. PICK i \in 1..n : receivers[i] = p
        BY <2>2 DEF ReceiverAlive
      <3>2. i # cur + 1
        BY <1>2, <1>11, <1>16, <3>1
      <3>3. CASE i < cur + 1
        <4>1. i \in 1..(n - 1) /\ rest[i] = receivers[i]
          BY <1>2, <1>3, <3>3
        <4> QED
          BY <1>14, <3>1, <4>1, Zenon
      <3>4. CASE i > cur + 1
        <4>1. i - 1 \in 1..(n - 1) /\ ~(i - 1 < cur + 1) /\ (i - 1) + 1 = i
          BY <1>2, <3>4
        <4>2. rest[i - 1] = receivers[i]
          BY <1>3, <4>1
        <4> QED
          BY <1>14, <3>1, <4>1, <4>2, Zenon
      <3> QED
        BY <1>2, <3>2, <3>3, <3>4
    <2> QED
      BY <2>1, <2>2
  <1>17. ASSUME NEW p \in P PROVE Pending(p, Visited(r, c, p))'
    <2>1. p \in Nat /\ c \in Nat
      BY PartitionFacts
    <2>2. CASE p # c
      <3>1. Visited(r, c, p) = Turn(r, c, p) /\ Visited(r, c, p) \in Nat
        BY <2>1, <2>2 DEF Visited, Turn
      <3>2. Pending(p, Visited(r, c, p))
        BY <1>11, <3>1, Zenon DEF AtTurn
      <3>3. chan'[p] = chan[p]
        BY <1>1, <1>11, <2>2 DEF WriteType
      <3> QED
        BY <1>1, <1>16, <2>2, <3>1, <3>2, <3>3, PendingKept
    <2>3. CASE p = c
      <3>1. Visited(r, c, p) = r + 1
        BY <2>1, <2>3 DEF Visited
      <3>2. Len(BlocksOf(c)) <= r + 1
        <4>1. Len(BlocksOf(c)) \in Nat
          BY <1>1, BlockFacts, LenProperties
        <4> QED
          BY <1>12, <4>1
      <3> QED
        BY <1>9, <1>15, <2>3, <3>1, <3>2, Zenon DEF Pending
    <2> QED
      BY <2>2, <2>3
  <1>18. CASE rest = <<>>
    <2>1. n - 1 = 0 /\ pc' = "collect"
      BY <1>1, <1>3, <1>18
    <2>2. \A p \in P : ~ReceiverAlive(p)'
      <3>1. \A j \in 1..0 : FALSE
        OBVIOUS
      <3> HIDE DEF n
      <3> QED
        BY <1>14, <2>1, <3>1, Zenon
    <2>3. \A p \in P : Len(BlocksOf(p)) <= Visited(r, c, p)
      BY <1>9, <1>17, <2>2, Zenon DEF Pending
    <2>4. out' = Reference'
      BY <1>1, <1>9, <1>13, <2>3, LastVisit, Zenon
    <2> QED
      BY <1>10, <2>1, <2>4
  <1>19. CASE rest # <<>>
    <2> DEFINE A == {p \in P : ReceiverAlive(p)'}
    <2>1. n - 1 \in Nat \ {0} /\ cur' = cur % (n - 1) /\ pc' = "carousel"
      <3>1. Len(rest) \in Nat \ {0}
        BY <1>3, <1>19, EmptySeq
      <3> QED
        BY <1>1, <1>3, <1>19, <3>1
    <2>2. \A p \in A : \E j \in 1..(n - 1) : rest[j] = p
      BY <1>14
    <2> HIDE DEF A
    <2>3. \E q \in Nat, d \in P : d = Current' /\ Follows(A, r, c, q, d)
      <3>1. CASE cur < n - 1
        <4>1. cur' = cur /\ cur + 1 \in 1..(n - 1) /\ (cur + 1) + 1 \in 1..n
          <5> HIDE DEF n
          <5> QED
            BY <1>2, <2>1, <3>1
        <4> DEFINE d == receivers[(cur + 1) + 1]
        <4>2. Current' = d
          <5>1. Current' = rest[cur + 1]
            BY <1>1, <4>1, Zenon DEF Current
          <5>2. rest[cur + 1] = receivers[(cur + 1) + 1]
            BY <1>2, <1>3, <4>1
          <5> QED
            BY <5>1, <5>2, Zenon
        <4>3. d \in P /\ c < d
          BY <1>2, <1>5, <1>11, <4>1
        <4>4. ASSUME NEW p \in A PROVE p <= c \/ d <= p
          <5>1. PICK j \in 1..(n - 1) : rest[j] = p
            BY <2>2
          <5>2. PICK i \in 1..n : rest[j] = receivers[i] /\ i = IF j < cur + 1 THEN j ELSE j + 1
            BY <1>6
          <5>3. i <= cur + 1 \/ (cur + 1) + 1 <= i
            BY <1>2
          <5>4. receivers[i] <= receivers[cur + 1] \/ d <= receivers[i]
            BY <1>2, <1>5, <4>1, <5>3, Zenon
          <5> QED
            BY <1>2, <1>11, <5>1, <5>2, <5>4, Zenon
        <4>5. Follows(A, r, c, r, d)
          BY <4>3, <4>4, Zenon DEF Follows
        <4> QED
          BY <4>2, <4>3, <4>5, Zenon
      <3>2. CASE cur = n - 1
        <4>1. cur' = 0 /\ 0 + 1 \in 1..n /\ 0 + 1 \in 1..(n - 1) /\ 0 + 1 < cur + 1
          <5> DEFINE m == n - 1
          <5>1. m \in Nat \ {0} /\ cur' = m % m
            BY <2>1, <3>2
          <5> HIDE DEF m
          <5>2. cur' = 0
            BY <5>1
          <5> QED
            BY <1>2, <2>1, <3>2, <5>2
        <4> DEFINE d == receivers[0 + 1]
        <4>2. Current' = d
          <5>1. Current' = rest[0 + 1]
            BY <1>1, <4>1, Zenon DEF Current
          <5>2. rest[0 + 1] = receivers[0 + 1]
            BY <1>3, <4>1
          <5> QED
            BY <5>1, <5>2, Zenon
        <4>3. d \in P /\ d <= c
          BY <1>2, <1>5, <1>11, <4>1
        <4>4. ASSUME NEW p \in A PROVE d <= p /\ p <= c
          <5>1. PICK j \in 1..(n - 1) : rest[j] = p
            BY <2>2
          <5>2. PICK i \in 1..n : rest[j] = receivers[i] /\ i = IF j < cur + 1 THEN j ELSE j + 1
            BY <1>6
          <5>3. i <= cur + 1 /\ 0 + 1 <= i
            BY <1>2, <3>2
          <5>4. receivers[i] <= receivers[cur + 1] /\ d <= receivers[i]
            BY <1>2, <1>5, <4>1, <5>3, Zenon
          <5> QED
            BY <1>2, <1>11, <5>1, <5>2, <5>4, Zenon
        <4>5. Follows(A, r, c, r + 1, d) /\ r + 1 \in Nat
          BY <4>3, <4>4 DEF Follows
        <4> QED
          BY <4>2, <4>3, <4>5, Zenon
      <3> QED
        BY <1>2, <3>1, <3>2
    <2>4. PICK q \in Nat, d \in P : d = Current' /\ Follows(A, r, c, q, d)
      BY <2>3, Zenon
    <2>5. AtTurn(q, d)'
      BY <1>1, <1>13, <1>17, <2>4, AfterVisit DEF A
    <2> QED
      BY <1>10, <2>1, <2>4, <2>5, Zenon
  <1> QED
    BY <1>18, <1>19

\* When the output fails within a block, what it took is still the beginning of the
\* reference.
LEMMA StreamFails == ControlInv /\ StreamInv /\ OutputFails => StreamInv'
  <1> SUFFICES ASSUME ControlInv, StreamInv, OutputFails PROVE StreamInv'
    OBVIOUS
  <1> DEFINE frame == Frame(Head(chan[Current]))
  <1>1. /\ NextIsBlock /\ pc = "carousel" /\ WriteType
        /\ \E k \in 0..(Len(frame) - 1) : out' = out \o SubSeq(frame, 1, k)
        /\ receivers' = <<>> /\ pc' = "done" /\ verdict' = <<"io", NoPart>>
        /\ UNCHANGED <<plan, phase>>
    BY Zenon DEF OutputFails, NextIsBlock, threads, ControlInv
  <1>2. Sorted'
    BY <1>1 DEF Sorted
  <1>3. NoDropped' <=> NoDropped
    BY <1>1 DEF NoDropped
  <1> SUFFICES ASSUME NoDropped PROVE Completable(out)'
    BY <1>1, <1>2, <1>3 DEF StreamInv
  <1>4. PICK r \in Nat, c \in P : c = Current /\ AtTurn(r, c)
    BY <1>1 DEF StreamInv
  <1> DEFINE i == r * N + c
  <1>5. i \in Nat /\ frame = Visits[i] /\ out = Carousel[i]
    <2>1. Frame(Head(chan[c])) = Visits[r * N + c]
      BY <1>1, <1>4, BlockMet
    <2> QED
      BY <1>4, <2>1, VisitAt, Zenon DEF AtTurn
  <1> HIDE DEF i, frame
  <1>6. /\ Carousel[i + 1] = out \o frame /\ i + 1 \in Nat
        /\ frame \in Seq(Int) /\ Len(frame) \in Nat /\ out \in Seq(Int)
    <2>1. Carousel[i + 1] = out \o frame /\ frame \in Seq(Int)
      BY <1>1, <1>5, CarouselStep, Zenon
    <2>2. i + 1 \in Nat /\ Len(frame) \in Nat /\ out \in Seq(Int)
      BY <1>1, <1>5, <2>1, LenProperties DEF WriteType
    <2> QED
      BY <2>1, <2>2
  <1>7. Continues(out \o frame, Reference, Int)
    BY <1>1, <1>6, CarouselCompletable, Zenon DEF Completable
  <1>8. PICK k \in 0..(Len(frame) - 1) : out' = out \o SubSeq(frame, 1, k)
    BY <1>1
  <1>9. k \in 0..Len(frame)
    BY <1>6
  <1>10. Continues(out', Reference, Int)
    BY <1>6, <1>7, <1>8, <1>9, PartContinues, Zenon
  <1>11. Reference' = Reference
    BY <1>1, ReferenceKept, Zenon
  <1> QED
    BY <1>10, <1>11, Zenon DEF Completable, Continues

\* Every step keeps the stream.
LEMMA StreamNext == ControlInv /\ StreamInv /\ [Next]_vars => StreamInv'
  <1> SUFFICES ASSUME ControlInv, StreamInv, [Next]_vars PROVE StreamInv'
    OBVIOUS
  <1>1. CASE UNCHANGED vars
    <2>1. UNCHANGED <<plan, phase, left, chunk, buffer, chan, pc, receivers, cur, out, verdict>>
      BY <1>1, Zenon DEF vars, threads, closure, caller
    <2>2. NoDropped' => NoDropped
      BY <2>1 DEF NoDropped
    <2>3. \A p \in P : ReceiverAlive(p)' <=> ReceiverAlive(p)
      BY <2>1, Zenon DEF ReceiverAlive
    <2>4. \A p \in P : \A w \in Nat : Pending(p, w) => Pending(p, w)'
      BY <2>1, <2>3, PendingKept
    <2> QED
      BY <2>1, <2>2, <2>4, StreamKept
  <1>2. CASE Collect
    <2>1. /\ UNCHANGED <<plan, phase, receivers, cur, out>> /\ pc = "collect"
          /\ pc' = IF collected + 1 = N THEN "done" ELSE pc
      BY <1>2, Zenon DEF Collect, threads
    <2>2. NoDropped' => NoDropped
      BY <2>1 DEF NoDropped
    <2>3. verdict[1] # "io"
      BY <2>1 DEF ControlInv, CallerInv
    <2> QED
      BY <2>1, <2>2, <2>3, StreamKept
  <1> QED
    BY <1>1, <1>2, StreamWorker, StreamClosure, StreamWrite, StreamFails, StreamRemove, Zenon
       DEF Next, CallerStep, Terminated

\* The invariant of the stream, for every behaviour of multiplex_write.
THEOREM WriteStream == Spec => [](ControlInv /\ StreamInv)
  BY ControlInit, ControlStep, StreamInit, StreamNext, PTL DEF Spec

-----------------------------------------------------------------------------
(* The properties                                                          *)

\* The "deterministic order" multiplex_write promises: whatever the number of workers,
\* the schedule, the sizes of the writes and the failures, unless the pool dropped a
\* closure, the output is at any time a prefix of one stream that the partitions' data
\* alone determine.
THEOREM WriteOutputIsCarousel == Spec => []OutputIsCarousel
  <1>1. ControlInv /\ StreamInv => OutputIsCarousel
    <2> SUFFICES ASSUME ControlInv, StreamInv, NoDropped PROVE IsPrefix(out, Reference)
      BY Zenon DEF OutputIsCarousel, NoDropped
    <2>1. out \in Seq(Int) /\ Continues(out, Reference, Int)
      BY Zenon DEF ControlInv, WriteType, StreamInv, Completable
    <2> QED
      BY <2>1, ContinuesIsPrefix, Zenon
  <1> QED
    BY <1>1, WriteStream, PTL

\* multiplex_write returns Ok only when every processor returned Ok and the output holds
\* the whole stream: no lost worker, failed processor or unfinished partition goes unseen.
THEOREM WriteOkMeansComplete == Spec => []OkMeansComplete
  <1>1. ControlInv /\ StreamInv => OkMeansComplete
    <2> SUFFICES ASSUME ControlInv, StreamInv, pc = "done", verdict[1] = "ok"
                 PROVE  (\A p \in P : plan[p].ending = "ok") /\ out = Reference
      BY DEF OkMeansComplete
    <2>1. collected = N
      BY DEF ControlInv, CallerInv
    <2>2. \A p \in P : p < collected
      BY <2>1, PartitionFacts
    <2>3. \A p \in P : phase[p] \in {"over", "dropped"}
      BY <2>2 DEF ControlInv, VerdictInv
    <2>4. \A p \in P : ~Failed(p) /\ phase[p] # "dropped"
      <3>1. ASSUME NEW p \in P, Failed(p), verdict = <<plan[p].ending, p>> PROVE FALSE
        BY <3>1 DEF Failed
      <3>2. ASSUME NEW p \in P, verdict = <<"channel", p>> PROVE FALSE
        BY <3>2
      <3>3. verdict[1] # "io"
        OBVIOUS
      <3> QED
        BY <2>2, <3>1, <3>2, <3>3, Zenon DEF ControlInv, VerdictInv
    <2>5. NoDropped
      BY <2>4 DEF NoDropped
    <2>6. out = Reference
      BY <2>5 DEF StreamInv
    <2>7. \A p \in P : plan[p].ending = "ok"
      BY <2>3, <2>4 DEF Failed
    <2> QED
      BY <2>6, <2>7
  <1> QED
    BY <1>1, WriteStream, PTL
=============================================================================
