--------------------------- MODULE MultiplexWrite ---------------------------
(***************************************************************************)
(* multiplex_write of rust/lib/src/structs/multiplexer.rs.                 *)
(*                                                                         *)
(* One closure per partition runs the processor, cuts what it writes into  *)
(* blocks and sends them over a channel of its own.  Pool threads, at most *)
(* max_processor_threads of them, take the closures from a shared queue;   *)
(* without parallelism the caller runs them itself first.  The caller then *)
(* visits the channels round-robin, writes the blocks to the output and    *)
(* finally collects the results.  Closures may fail or panic, the output   *)
(* may fail, and the pool may drop a worker before it starts.              *)
(***************************************************************************)
EXTENDS MultiplexFormat, ProcessorThreads, SequencesExt

CONSTANTS
    Cap,       \* WRITE_BUFFER_SIZE
    MaxChunk,  \* the largest buffer a processor passes to write at once
    Plans      \* what processors may do: functions from partitions to records
               \* [total: bytes written, ending: "ok", "err" or "panic"]

NoPart == N
Endings == {"ok", "err", "panic"}

ASSUME WriteAssumption ==
    /\ N \in 1..16
    /\ Cap \in Nat \ {0}
    /\ MaxChunk \in Nat \ {0}
    /\ \A plan \in Plans :
         plan \in [P -> [total : Nat, ending : Endings]]

VARIABLES
    plan,       \* what the processor of each partition does in this run
    left,       \* per partition: bytes the processor has yet to pass to write
    chunk,      \* per partition: bytes of the current write call not yet copied
    buffer,     \* per partition: MultiplexWriter.buffer
    chan,       \* per partition: the channel to the caller
    outcome,    \* per partition: what catch_unwind_result returned
    pc,         \* where the caller is
    receivers,  \* packet_receivers
    cur,        \* current_thread_writer
    out,        \* bytes written to the output
    collected,  \* number of results received by receive_results
    verdict     \* what multiplex_write returns: kind and partition

closure == <<left, chunk, buffer, chan, outcome>>
caller == <<pc, receivers, cur, out, collected, verdict>>
vars == <<plan, threads, closure, caller>>

\* Bytes are told apart by partition and position so that a lost, repeated or
\* reordered byte shows up in the output.
Payload(p, i) == 32 * (p + 1) + i

Block(p, data) == [eof |-> FALSE, part |-> p, data |-> data]
Eof(p) == [eof |-> TRUE, part |-> p, data |-> <<>>]

SenderAlive(p) == phase[p] \in {"queued", "running", "eof"}
ReceiverAlive(p) == \E i \in 1..Len(receivers) : receivers[i] = p

\* Either the pool gets min(N, max_processor_threads) workers, possibly none, or
\* max_parallelism() <= 1 and the caller runs the closures before the carousel.
Init ==
    /\ plan \in Plans
    /\ \/ pc = "inline" /\ InitInline
       \/ pc = "carousel" /\ InitSpawned
    /\ left = [p \in P |-> plan[p].total]
    /\ chunk = [p \in P |-> 0]
    /\ buffer = [p \in P |-> <<>>]
    /\ chan = [p \in P |-> <<>>]
    /\ outcome = [p \in P |-> "none"]
    /\ receivers = AllPartitions
    /\ cur = 0
    /\ out = <<>>
    /\ collected = 0
    /\ verdict = <<"ok", NoPart>>

-----------------------------------------------------------------------------
(* The workers; an inline caller that finds the queue empty goes on         *)

WorkerStep ==
    /\ \/ WorkerStarts /\ UNCHANGED pc
       \/ WorkerLost /\ UNCHANGED pc
       \/ TakeClosure /\ UNCHANGED pc
       \/ WorkerExits /\ pc' = IF pc = "inline" THEN "carousel" ELSE pc
       \/ QueueDropped /\ UNCHANGED pc
    /\ UNCHANGED <<plan, closure, receivers, cur, out, collected, verdict>>

-----------------------------------------------------------------------------
(* The closure of partition p                                              *)

\* The processor calls write with a buffer of n bytes.
BeginWrite(p, n) ==
    /\ phase[p] = "running"
    /\ chunk[p] = 0
    /\ n <= left[p]
    /\ chunk' = [chunk EXCEPT ![p] = n]
    /\ left' = [left EXCEPT ![p] = @ - n]
    /\ UNCHANGED <<plan, threads, buffer, chan, outcome, caller>>

\* sender.send(WriteBlock).unwrap(): panics once the caller dropped the receiver.
SendBlock(p, data) ==
    IF ReceiverAlive(p)
      THEN /\ chan' = [chan EXCEPT ![p] = Append(@, Block(p, data))]
           /\ UNCHANGED <<phase, outcome>>
      ELSE /\ phase' = [phase EXCEPT ![p] = "report"]
           /\ outcome' = [outcome EXCEPT ![p] = "panic"]
           /\ UNCHANGED chan

NextBytes(p, n) ==
    LET first == plan[p].total - left[p] - chunk[p]
    IN  [i \in 1..n |-> Payload(p, first + i)]

\* One turn of the loop of write, with the flush of a full buffer.
CopyIntoBuffer(p) ==
    LET amount == IF Cap - Len(buffer[p]) < chunk[p] THEN Cap - Len(buffer[p]) ELSE chunk[p]
        filled == buffer[p] \o NextBytes(p, amount)
    IN  /\ phase[p] = "running"
        /\ chunk[p] > 0
        /\ chunk' = [chunk EXCEPT ![p] = @ - amount]
        /\ IF Len(filled) = Cap
             THEN /\ SendBlock(p, filled)
                  /\ buffer' = [buffer EXCEPT ![p] = <<>>]
             ELSE /\ buffer' = [buffer EXCEPT ![p] = filled]
                  /\ UNCHANGED <<phase, outcome, chan>>
        /\ UNCHANGED <<plan, queue, starting, looking, left, caller>>

AtEnd(p) == phase[p] = "running" /\ chunk[p] = 0 /\ left[p] = 0

\* The processor returned Ok: what is left in the buffer is sent.
FinalFlush(p) ==
    /\ AtEnd(p)
    /\ plan[p].ending = "ok"
    /\ IF buffer[p] # <<>> /\ ~ReceiverAlive(p)
         THEN SendBlock(p, buffer[p])
         ELSE /\ chan' = IF buffer[p] = <<>> THEN chan
                         ELSE [chan EXCEPT ![p] = Append(@, Block(p, buffer[p]))]
              /\ phase' = [phase EXCEPT ![p] = "eof"]
              /\ UNCHANGED outcome
    /\ buffer' = [buffer EXCEPT ![p] = <<>>]
    /\ UNCHANGED <<plan, queue, starting, looking, left, chunk, caller>>

SendEof(p) ==
    /\ phase[p] = "eof"
    /\ phase' = [phase EXCEPT ![p] = "report"]
    /\ IF ReceiverAlive(p)
         THEN /\ chan' = [chan EXCEPT ![p] = Append(@, Eof(p))]
              /\ outcome' = [outcome EXCEPT ![p] = "ok"]
         ELSE /\ outcome' = [outcome EXCEPT ![p] = "err"]
              /\ UNCHANGED chan
    /\ UNCHANGED <<plan, queue, starting, looking, left, chunk, buffer, caller>>

\* The processor failed or panicked: no flush and no Eof; its writer, and with it
\* the sending half of the channel, is dropped before the result is sent.
ProcessorFails(p) ==
    /\ AtEnd(p)
    /\ plan[p].ending # "ok"
    /\ phase' = [phase EXCEPT ![p] = "report"]
    /\ outcome' = [outcome EXCEPT ![p] = plan[p].ending]
    /\ UNCHANGED <<plan, queue, starting, looking, left, chunk, buffer, chan, caller>>

\* send_results: the outcome goes to the caller, the worker looks for more work.
Report(p) ==
    /\ phase[p] = "report"
    /\ ClosureReturns(p)
    /\ UNCHANGED <<plan, closure, caller>>

-----------------------------------------------------------------------------
(* The caller                                                              *)

Current == receivers[cur + 1]

NextIsBlock ==
    /\ pc = "carousel"
    /\ chan[Current] # <<>>
    /\ ~Head(chan[Current]).eof

Frame(block) == BlockHeader(block.part, Len(block.data)) \o block.data

WriteBlock ==
    /\ NextIsBlock
    /\ out' = out \o Frame(Head(chan[Current]))
    /\ chan' = [chan EXCEPT ![Current] = Tail(@)]
    /\ cur' = (cur + 1) % Len(receivers)
    /\ UNCHANGED <<plan, threads, left, chunk, buffer, outcome,
                   pc, receivers, collected, verdict>>

\* The output fails after some bytes: the function returns at once, dropping the
\* receivers of blocks and of results.
OutputFails ==
    /\ NextIsBlock
    /\ LET frame == Frame(Head(chan[Current])) IN
       \E k \in 0..(Len(frame) - 1) : out' = out \o SubSeq(frame, 1, k)
    /\ chan' = [chan EXCEPT ![Current] = Tail(@)]
    /\ receivers' = <<>>
    /\ pc' = "done"
    /\ verdict' = <<"io", NoPart>>
    /\ UNCHANGED <<plan, threads, left, chunk, buffer, outcome,
                   cur, collected>>

Finished(p) ==
    IF chan[p] = <<>> THEN ~SenderAlive(p) ELSE Head(chan[p]).eof

\* Mutant: a partition whose channel broke is passed over, not removed.
RemovePartitionOnEofOnly ==
    /\ pc = "carousel"
    /\ Finished(Current)
    /\ LET broken == chan[Current] = <<>>
           rest == IF broken THEN receivers ELSE RemoveAt(receivers, cur + 1)
       IN /\ receivers' = rest
          /\ IF rest = <<>> THEN pc' = "collect" /\ UNCHANGED cur
             ELSE cur' = (IF broken THEN cur + 1 ELSE cur) % Len(rest) /\ UNCHANGED pc
    /\ chan' = [chan EXCEPT ![Current] = <<>>]
    /\ UNCHANGED <<plan, threads, left, chunk, buffer, outcome,
                   out, collected, verdict>>

\* Mutant: the loop ends with the first partition that ends.
RemovePartitionStops ==
    /\ pc = "carousel"
    /\ Finished(Current)
    /\ pc' = "collect"
    /\ UNCHANGED <<plan, threads, closure, receivers, cur, out, collected, verdict>>

\* Mutant: the step to the next partition is taken after a removal too.
RemovePartitionAndSkip ==
    /\ pc = "carousel"
    /\ Finished(Current)
    /\ LET rest == RemoveAt(receivers, cur + 1)
       IN /\ receivers' = rest
          /\ IF rest = <<>> THEN pc' = "collect" /\ UNCHANGED cur
             ELSE cur' = (cur + 1) % Len(rest) /\ UNCHANGED pc
    /\ chan' = [chan EXCEPT ![Current] = <<>>]
    /\ UNCHANGED <<plan, threads, left, chunk, buffer, outcome,
                   out, collected, verdict>>

\* Ok(Message::Eof(_)) | Err(_)
RemovePartition ==
    /\ pc = "carousel"
    /\ Finished(Current)
    /\ LET rest == RemoveAt(receivers, cur + 1)
       IN /\ receivers' = rest
          /\ IF rest = <<>> THEN pc' = "collect" /\ UNCHANGED cur
             ELSE cur' = cur % Len(rest) /\ UNCHANGED pc
    /\ chan' = [chan EXCEPT ![Current] = <<>>]
    /\ UNCHANGED <<plan, threads, left, chunk, buffer, outcome,
                   out, collected, verdict>>

\* Mutant: a broken result channel replaces an error found earlier.
CollectLastError ==
    /\ pc = "collect"
    /\ phase[collected] \in {"over", "dropped"}
    /\ verdict' = IF phase[collected] = "dropped" THEN <<"channel", collected>>
                  ELSE IF outcome[collected] # "ok" THEN <<outcome[collected], collected>>
                  ELSE verdict
    /\ collected' = collected + 1
    /\ pc' = IF collected + 1 = N THEN "done" ELSE pc
    /\ UNCHANGED <<plan, threads, closure, receivers, cur, out>>

\* One turn of the loop of receive_results; a real error replaces what was found,
\* a broken channel only counts if nothing was found before.
Collect ==
    /\ pc = "collect"
    /\ phase[collected] \in {"over", "dropped"}
    /\ verdict' = IF phase[collected] = "dropped"
                    THEN IF verdict[1] = "ok" THEN <<"channel", collected>> ELSE verdict
                  ELSE IF outcome[collected] # "ok" THEN <<outcome[collected], collected>>
                  ELSE verdict
    /\ collected' = collected + 1
    /\ pc' = IF collected + 1 = N THEN "done" ELSE pc
    /\ UNCHANGED <<plan, threads, closure, receivers, cur, out>>

\* The call has returned and every worker went back to the pool.
Terminated == pc = "done" /\ WorkersGone /\ UNCHANGED vars

ClosureStep(p) ==
    \/ \E n \in 1..MaxChunk : BeginWrite(p, n)
    \/ CopyIntoBuffer(p)
    \/ FinalFlush(p)
    \/ SendEof(p)
    \/ ProcessorFails(p)
    \/ Report(p)

CallerStep == WriteBlock \/ OutputFails \/ RemovePartition \/ Collect

Next ==
    \/ WorkerStep
    \/ \E p \in P : ClosureStep(p)
    \/ CallerStep
    \/ Terminated

Spec == Init /\ [][Next]_vars

\* Threads that can run are scheduled, and processors go on writing until they
\* return; a failing output or a lost worker is never required.
Fairness ==
    /\ WF_vars(WorkerStep)
    /\ \A p \in P : WF_vars(ClosureStep(p))
    /\ WF_vars(CallerStep)

FairSpec == Spec /\ Fairness

-----------------------------------------------------------------------------
(* Properties                                                              *)

\* The blocks a partition contributes: full ones while the processor runs, and the
\* rest only if it returned Ok.
BlocksOf(p) ==
    LET total == plan[p].total
        whole == total \div Cap
        rest == IF total % Cap > 0 /\ plan[p].ending = "ok" THEN 1 ELSE 0
    IN  [b \in 1..(whole + rest) |->
            [i \in 1..(IF b <= whole THEN Cap ELSE total % Cap) |->
                Payload(p, (b - 1) * Cap + i)]]

\* The order promised by "deterministic order" in the code: the first blocks of all
\* partitions, then the second blocks, and so on.  The k-th visit is in round
\* k \div N + 1 to partition k % N, and adds nothing once that one has ended.
Visit(b, p) ==
    IF b <= Len(BlocksOf(p)) THEN Frame(Block(p, BlocksOf(p)[b])) ELSE <<>>

Carousel[k \in Nat] ==
    IF k = 0 THEN <<>>
    ELSE Carousel[k - 1] \o Visit((k - 1) \div N + 1, (k - 1) % N)

Reference == Carousel[N * Max({Len(BlocksOf(p)) : p \in P})]

\* Whatever the schedule, the number of workers and the sizes of the writes, the
\* output is the same stream: at any time, also after a failure of the output, it
\* is a prefix of the reference stream (unless a closure was dropped).
OutputIsCarousel ==
    (\A p \in P : phase[p] # "dropped") => IsPrefix(out, Reference)

\* multiplex_write returns Ok only if every processor returned Ok and every byte
\* they wrote is in the output.
OkMeansComplete ==
    pc = "done" /\ verdict[1] = "ok" =>
        /\ \A p \in P : plan[p].ending = "ok"
        /\ out = Reference

\* The error returned is that of a processor that really failed, if there is one
\* (the last of them); a panic caused by the caller closing the channel, or a
\* broken channel, never hides it.
RealErrorReported ==
    pc = "done" /\ verdict[1] # "io" =>
        LET failed == {p \in P : phase[p] = "over" /\ plan[p].ending # "ok"}
            dropped == {p \in P : phase[p] = "dropped"}
        IN  IF failed # {} THEN verdict = <<plan[Max(failed)].ending, Max(failed)>>
            ELSE IF dropped # {} THEN verdict = <<"channel", Min(dropped)>>
            ELSE verdict = <<"ok", NoPart>>

\* The call returns and all workers finish, also when processors fail, the output
\* fails while processors still write, workers are lost, or there are none.
CallReturns == <>(pc = "done" /\ WorkersGone)
=============================================================================
