---------------------------- MODULE MultiplexRead ----------------------------
(***************************************************************************)
(* multiplex_read, MultiplexReader and MultiplexReaderState of             *)
(* rust/lib/src/structs/multiplexer.rs, driven the way the ScanBaseline    *)
(* state of lepton_file_reader.rs drives them.                             *)
(*                                                                         *)
(* The caller feeds slices of the file.  A parser that keeps its place     *)
(* between slices sends each block to the channel of its partition.  One   *)
(* closure per partition, on pool threads or at the very end on the        *)
(* caller's thread, reads its blocks, sends partial results and then       *)
(* Complete, or an error.  The caller takes results from the first channel *)
(* that is not complete; when the input has ended it sends Eof to all and  *)
(* waits for the rest.  Loops of the code are one action per turn.         *)
(***************************************************************************)
EXTENDS GoMultiplex, PartialBuffer, ProcessorThreads, SequencesExt

CONSTANTS
    Files,       \* inputs: records [bytes, payload: per partition, valid]
    SliceSizes,  \* the sizes of the slices in which a file arrives
    ReadSize,    \* bytes a processor asks for in one read
    ResultSize,  \* bytes a processor turns into one partial result
    Plans        \* per partition: [want: bytes it needs, ending: "ok", "err", "panic"]

Byte == 0 .. 255

ASSUME ReadAssumption ==
    /\ N \in Nat \ {0}
    /\ SliceSizes \subseteq Nat /\ ReadSize \in Nat \ {0} /\ ResultSize \in Nat \ {0}
    /\ Plans \subseteq [P -> [want : Nat, ending : {"ok", "err", "panic"}]]
    /\ \A f \in Files : /\ f.bytes \in Seq(Byte)
                        /\ f.payload \in [P -> Seq(Byte)]
                        /\ f.valid \in BOOLEAN

RETENTION == 4  \* retention_bytes: the file size at the end is not parsed

VARIABLES
    file,           \* the file being read (an element of Files)
    fed,            \* number of bytes given to process_buffer (total_read_size)
    complete,       \* the caller has said that the input is complete
    current_state,  \* the parser's State
    pc,             \* what the caller is doing
    senders,        \* sender_channels has not been cleared or dropped
    receivers,      \* receiver_channels: partitions, front first
    single,         \* single_thread_work is Some
    blocks,         \* per partition: channel of blocks
    results,        \* per partition: channel of results
    plan,           \* what the processors do in this run
    current_buffer, \* per partition: unread rest of the current block
    end_of_file,    \* per partition: Eof was received
    got,            \* per partition: bytes read and not yet sent as a result
    count,          \* per partition: number of bytes read
    out,            \* results handed out by retrieve_result, concatenated
    verdict         \* how the call ended: kind and partition

parser == <<file, fed, complete, current_state>>
channels == <<blocks, results>>
readers == <<plan, current_buffer, end_of_file, got, count>>
ending == <<out, verdict>>
vars == <<parser, partial, threads, pc, senders, receivers, single, channels, readers, ending>>

StartBlock == [at |-> "StartBlock", part |-> 0, len |-> 0]
U16Length(p) == [at |-> "U16Length", part |-> p, len |-> 0]
BlockState(p, len) == [at |-> "Block", part |-> p, len |-> len]

Block(data) == [eof |-> FALSE, data |-> data]
Eof == [eof |-> TRUE, data |-> <<>>]
NoPart == N
Nothing == <<"none", NoPart>>
Result(data) == [kind |-> "Result", data |-> data, why |-> Nothing]
Error(why) == [kind |-> "Error", data |-> <<>>, why |-> why]
Complete == [kind |-> "Complete", data |-> <<>>, why |-> Nothing]

ResultSenderAlive(p) == phase[p] \notin {"over", "dropped"}
BlockReceiverAlive(p) == phase[p] \notin {"over", "dropped"}

\* u32::from_le_bytes
SizeLE(b) == b[1] + 256 * b[2] + 65536 * b[3] + 16777216 * b[4]

\* What is known of the files: starts are the positions of blocks, and of the end, in
\* a body of whole blocks for the N partitions.
WholeBlocks(body, starts) ==
    /\ 1 \in starts
    /\ \A b \in starts : b <= Len(body) =>
          /\ MarkerPartition(body[b]) < N
          /\ DataStart(body, b) <= Len(body)
          /\ DataStart(body, b) + DataLen(body, b) \in starts

\* The parser gets to b: past every whole block for one of the N partitions it goes on
\* with what follows.
PastWhole(body, starts) ==
    /\ 1 \in starts
    /\ \A b \in starts :
          /\ b <= Len(body) /\ MarkerPartition(body[b]) < N
          /\ DataStart(body, b) <= Len(body) + 1
          /\ DataStart(body, b) + DataLen(body, b) <= Len(body) + 1
          => DataStart(body, b) + DataLen(body, b) \in starts
Reaches(body, b) ==
    \A starts \in SUBSET (1 .. Len(body) + 1) : PastWhole(body, starts) => b \in starts

\* A body in which the block at b is not whole, or that ends there: what can be taken
\* of that block ends at q.
StopsAt(body, b, q) ==
    IF b > Len(body) THEN q = Len(body)
    ELSE /\ MarkerPartition(body[b]) < N
         /\ IF MarkerNeedsLength(body[b]) /\ b + 2 > Len(body) THEN q = b
            ELSE q = DataStart(body, b) - 1 /\ q + DataLen(body, b) > Len(body)

\* The payload of a partition begins with what the blocks hold; a valid file is whole
\* blocks, which hold the payloads, and its own size. In a file that is not valid the
\* size does not stand where its blocks end.
ASSUME FilesAssumption ==
    \A f \in Files :
        LET body == WithoutFooter(f.bytes)
        IN  /\ \A p \in P : IsPrefix(GoDemultiplex(body, N)[p], f.payload[p])
            /\ f.valid =>
                  /\ Len(f.bytes) >= Footer
                  /\ \E starts \in SUBSET (1 .. Len(body) + 1) : WholeBlocks(body, starts)
                  /\ \A p \in P : f.payload[p] = GoDemultiplex(body, N)[p]
                  /\ SizeLE(SubSeq(f.bytes, Len(body) + 1, Len(f.bytes))) = Len(f.bytes)
            /\ ~f.valid /\ Len(f.bytes) >= Footer =>
                  \A b \in 1 .. Len(body) + 1, q \in 0 .. Len(body) :
                      StopsAt(body, b, q) /\ Reaches(body, b)
                          => SizeLE(SubSeq(f.bytes, q + 1, q + 4)) # Len(f.bytes)

Init ==
    /\ file \in Files /\ plan \in Plans
    /\ fed = 0 /\ complete = FALSE
    /\ current_state = StartBlock
    /\ InitPartial
    /\ \/ InitSpawned /\ single = FALSE
       \/ InitInline /\ single = TRUE
    /\ pc = "idle"
    /\ senders = TRUE
    /\ receivers = AllPartitions
    /\ blocks = [p \in P |-> <<>>]
    /\ results = [p \in P |-> <<>>]
    /\ current_buffer = [p \in P |-> <<>>]
    /\ end_of_file = [p \in P |-> FALSE]
    /\ got = [p \in P |-> <<>>]
    /\ count = [p \in P |-> 0]
    /\ out = <<>>
    /\ verdict = Nothing

\* The caller gives up: the state is dropped, with its ends of all channels and,
\* without a pool, with the closures that have not run.
Fail(why) ==
    /\ verdict' = why
    /\ pc' = "done"
    /\ senders' = FALSE
    /\ receivers' = <<>>

-----------------------------------------------------------------------------
(* process_buffer                                                          *)

\* The next slice; the caller may say only later that it was the last one.
Feed(n, last) ==
    LET size == IF n > Len(file.bytes) - fed THEN Len(file.bytes) - fed ELSE n IN
    /\ pc = "idle"
    /\ size > 0 \/ last
    /\ last => fed + size = Len(file.bytes)
    /\ NewSlice(SubSeq(file.bytes, fed + 1, fed + size))
    /\ fed' = fed + size
    /\ complete' = last
    /\ pc' = "parse"
    /\ UNCHANGED <<file, current_state, threads, senders, receivers, single, channels,
                   readers, ending>>

\* How many bytes the parser asks for in its current state.
Wanted ==
    CASE current_state.at = "StartBlock" -> 1
      [] current_state.at = "U16Length" -> 2
      [] current_state.at = "Block" -> current_state.len

ParseStarved ==
    /\ pc = "parse"
    /\ TakeNone(Wanted, RETENTION)
    /\ pc' = "poll"
    /\ UNCHANGED <<parser, threads, senders, receivers, single, channels, readers, ending>>

ParseMarker ==
    LET marker == Taken(1)[1]
        p == MarkerPartition(marker)
    IN  /\ pc = "parse"
        /\ current_state.at = "StartBlock"
        /\ TakeSome(1, RETENTION)
        /\ IF p >= N THEN Fail(<<"BadLeptonFile", NoPart>>) /\ UNCHANGED current_state
           ELSE /\ current_state' = IF MarkerNeedsLength(marker) THEN U16Length(p)
                                    ELSE BlockState(p, MarkerLen(marker))
                /\ UNCHANGED <<pc, senders, receivers, verdict>>
        /\ UNCHANGED <<file, fed, complete, threads, single, channels, readers, out>>

\* Mutant: the length is read in the other byte order.
ParseLengthSwapped ==
    LET b == Taken(2) IN
    /\ pc = "parse"
    /\ current_state.at = "U16Length"
    /\ TakeSome(2, RETENTION)
    /\ current_state' = BlockState(current_state.part, U16Len(b[2], b[1]))
    /\ UNCHANGED <<file, fed, complete, threads, pc, senders, receivers, single, channels,
                   readers, ending>>

ParseLength ==
    LET b == Taken(2) IN
    /\ pc = "parse"
    /\ current_state.at = "U16Length"
    /\ TakeSome(2, RETENTION)
    /\ current_state' = BlockState(current_state.part, U16Len(b[1], b[2]))
    /\ UNCHANGED <<file, fed, complete, threads, pc, senders, receivers, single, channels,
                   readers, ending>>

\* The send to a closure that has ended is ignored.
ParseBlock ==
    LET p == current_state.part IN
    /\ pc = "parse"
    /\ current_state.at = "Block"
    /\ TakeSome(current_state.len, RETENTION)
    /\ blocks' = IF BlockReceiverAlive(p)
                   THEN [blocks EXCEPT ![p] = Append(@, Block(Taken(current_state.len)))]
                   ELSE blocks
    /\ current_state' = StartBlock
    /\ UNCHANGED <<file, fed, complete, threads, pc, senders, receivers, single, results,
                   readers, ending>>

-----------------------------------------------------------------------------
(* retrieve_result                                                         *)

First == Head(receivers)
Disconnected(p) == results[p] = <<>> /\ ~ResultSenderAlive(p)

\* Mutant: results are taken from any partition that has one.
TakeAnyMessage(nextpc) ==
    /\ \E p \in Range(receivers) :
         /\ results[p] # <<>>
         /\ p = First \/ Head(results[p]).kind = "Result"
         /\ results' = [results EXCEPT ![p] = Tail(@)]
         /\ LET m == Head(results[p]) IN
            \/ /\ m.kind = "Result"
               /\ out' = out \o m.data
               /\ pc' = nextpc
               /\ UNCHANGED <<senders, receivers, verdict>>
            \/ /\ m.kind = "Complete"
               /\ receivers' = SelectSeq(receivers, LAMBDA q : q # p)
               /\ UNCHANGED <<pc, senders, out, verdict>>
            \/ /\ m.kind = "Error"
               /\ Fail(m.why)
               /\ UNCHANGED out
    /\ UNCHANGED <<parser, partial, threads, single, blocks, readers>>

\* Handling of one message from the first channel; the code has it twice, after
\* try_recv and after recv.  A result makes retrieve_result return, and the caller
\* calls it again: nextpc.
TakeFrontMessage(nextpc) ==
    /\ receivers # <<>>
    /\ results[First] # <<>>
    /\ results' = [results EXCEPT ![First] = Tail(@)]
    /\ LET m == Head(results[First]) IN
       \/ /\ m.kind = "Result"
          /\ out' = out \o m.data
          /\ pc' = nextpc
          /\ UNCHANGED <<senders, receivers, verdict>>
       \/ /\ m.kind = "Complete"
          /\ receivers' = Tail(receivers)
          /\ UNCHANGED <<pc, senders, out, verdict>>
       \/ /\ m.kind = "Error"
          /\ Fail(m.why)
          /\ UNCHANGED out
    /\ UNCHANGED <<parser, partial, threads, single, blocks, readers>>

\* try_get_result, in retrieve_result(false), retrieve_result(true) and after each
\* closure that is run inline.
TryGetMessage ==
    /\ pc \in {"poll", "finish"}
    /\ TakeFrontMessage(pc)

TryGetDisconnected ==
    /\ pc \in {"poll", "finish"}
    /\ receivers # <<>>
    /\ Disconnected(First)
    /\ Fail(<<"disconnected", NoPart>>)
    /\ UNCHANGED <<parser, partial, threads, single, channels, readers, out>>

NothingThere ==
    receivers # <<>> => results[First] = <<>> /\ ResultSenderAlive(First)

\* retrieve_result(false) returned None.
PollEmpty ==
    /\ pc = "poll"
    /\ NothingThere
    /\ pc' = IF complete THEN "verify" ELSE "idle"
    /\ UNCHANGED <<parser, partial, threads, senders, receivers, single, channels, readers,
                   ending>>

\* verify_eof_file_size: the first four bytes that are left are the file size.
VerifySize ==
    /\ pc = "verify"
    /\ IF Available(4, 0)
         THEN /\ TakeSome(4, 0)
              /\ IF SizeLE(Taken(4)) = fed
                   THEN pc' = "finish" /\ UNCHANGED <<senders, receivers, verdict>>
                   ELSE Fail(<<"size mismatch", NoPart>>)
         ELSE TakeNone(4, 0) /\ Fail(<<"no size", NoPart>>)
    /\ UNCHANGED <<parser, threads, single, channels, readers, out>>

\* Mutant: the channels are polled for results without telling anyone of the end.
SendEofPolls ==
    /\ pc = "finish"
    /\ NothingThere
    /\ pc' = IF receivers = <<>> THEN "wait" ELSE "finish"
    /\ UNCHANGED <<parser, partial, threads, senders, receivers, single, channels, readers,
                   ending>>

\* retrieve_result(true) found nothing: Eof to all partitions (only the first time,
\* sender_channels is cleared), then the closures inline or a blocking wait.
SendEof ==
    /\ pc = "finish"
    /\ NothingThere
    /\ blocks' = [p \in P |-> IF senders /\ BlockReceiverAlive(p) THEN Append(blocks[p], Eof)
                              ELSE blocks[p]]
    /\ senders' = FALSE
    /\ pc' = IF single /\ queue # <<>> THEN "inline" ELSE "wait"
    /\ UNCHANGED <<parser, partial, threads, receivers, single, results, readers, ending>>

\* Blocking recv on the first channel.
WaitMessage ==
    /\ pc = "wait"
    /\ TakeFrontMessage("finish")

WaitDisconnected ==
    /\ pc = "wait"
    /\ receivers # <<>>
    /\ Disconnected(First)
    /\ Fail(<<"disconnected", NoPart>>)
    /\ UNCHANGED <<parser, partial, threads, single, channels, readers, out>>

AllRetrieved ==
    /\ pc = "wait"
    /\ receivers = <<>>
    /\ verdict' = <<"ok", NoPart>>
    /\ pc' = "done"
    /\ UNCHANGED <<parser, partial, threads, senders, receivers, single, channels, readers,
                   out>>

-----------------------------------------------------------------------------
(* Workers; without a pool the caller runs one closure at a time           *)

PoolWorkerStep ==
    /\ ~single
    /\ WorkerStarts \/ WorkerLost \/ TakeClosure \/ WorkerExits \/ QueueDropped
    /\ UNCHANGED <<parser, partial, pc, senders, receivers, single, channels, readers, ending>>

RunInline ==
    /\ single /\ pc = "inline"
    /\ TakeClosure
    /\ pc' = "running"
    /\ UNCHANGED <<parser, partial, senders, receivers, single, channels, readers, ending>>

\* f() has returned: try_get_result before the next closure.
InlineReturned ==
    /\ pc = "running"
    /\ looking = 1
    /\ pc' = "finish"
    /\ UNCHANGED <<parser, partial, threads, senders, receivers, single, channels, readers,
                   ending>>

\* Without a pool the closures that never ran go with the state.
DropInline ==
    /\ single /\ pc = "done"
    /\ looking = 1
    /\ phase' = [p \in P |-> IF phase[p] = "queued" THEN "dropped" ELSE phase[p]]
    /\ queue' = <<>>
    /\ looking' = 0
    /\ UNCHANGED <<starting, parser, partial, pc, senders, receivers, single, channels,
                   readers, ending>>

-----------------------------------------------------------------------------
(* The closure of partition p: the processor and its MultiplexReader       *)

others == <<parser, partial, pc, senders, receivers, single, ending>>

ReadMore(p) == phase[p] = "running" /\ count[p] < plan[p].want /\ Len(got[p]) < ResultSize

\* Read::read with data in the current buffer.
ReadBuffer(p) ==
    LET room == IF ReadSize < plan[p].want - count[p] THEN ReadSize ELSE plan[p].want - count[p]
        n == IF room < Len(current_buffer[p]) THEN room ELSE Len(current_buffer[p])
    IN  /\ ReadMore(p)
        /\ n > 0
        /\ got' = [got EXCEPT ![p] = @ \o SubSeq(current_buffer[p], 1, n)]
        /\ current_buffer' = [current_buffer EXCEPT ![p] = SubSeq(@, n + 1, Len(@))]
        /\ count' = [count EXCEPT ![p] = @ + n]
        /\ UNCHANGED <<plan, end_of_file, threads, channels, others>>

\* read_slow: the next block or Eof from the channel, or an error once it is broken.
ReadSlow(p) ==
    /\ ReadMore(p)
    /\ current_buffer[p] = <<>>
    /\ ~end_of_file[p]
    /\ IF blocks[p] # <<>>
         THEN /\ blocks' = [blocks EXCEPT ![p] = Tail(@)]
              /\ IF Head(blocks[p]).eof
                   THEN end_of_file' = [end_of_file EXCEPT ![p] = TRUE] /\ UNCHANGED current_buffer
                   ELSE /\ current_buffer' = [current_buffer EXCEPT ![p] = Head(blocks[p]).data]
                        /\ UNCHANGED end_of_file
              /\ UNCHANGED phase
         ELSE /\ ~senders
              /\ phase' = [phase EXCEPT ![p] = "broken"]
              /\ UNCHANGED <<blocks, end_of_file, current_buffer>>
    /\ UNCHANGED <<plan, got, count, queue, starting, looking, results, others>>

\* Everything read, or read returned 0: the processor has what it can get.
Ready(p) ==
    phase[p] = "running" /\ (count[p] = plan[p].want \/ (end_of_file[p] /\ current_buffer[p] = <<>>))

ResultsAccepted(p) == p \in Range(receivers)

\* sender.send(Result)? of a full partial result.
SendPartial(p) ==
    /\ phase[p] = "running"
    /\ Len(got[p]) >= ResultSize
    /\ IF ResultsAccepted(p)
         THEN results' = [results EXCEPT ![p] = Append(@, Result(got[p]))] /\ UNCHANGED phase
         ELSE phase' = [phase EXCEPT ![p] = "broken"] /\ UNCHANGED results
    /\ got' = [got EXCEPT ![p] = <<>>]
    /\ UNCHANGED <<plan, current_buffer, end_of_file, count, queue, starting, looking, blocks,
                   others>>

\* The last result, then (SendComplete) Complete.
SendLast(p) ==
    /\ Ready(p) /\ Len(got[p]) < ResultSize /\ plan[p].ending = "ok"
    /\ IF ResultsAccepted(p)
         THEN /\ results' = [results EXCEPT ![p] = Append(@, Result(got[p]))]
              /\ phase' = [phase EXCEPT ![p] = "complete"]
         ELSE phase' = [phase EXCEPT ![p] = "broken"] /\ UNCHANGED results
    /\ got' = [got EXCEPT ![p] = <<>>]
    /\ UNCHANGED <<plan, current_buffer, end_of_file, count, queue, starting, looking, blocks,
                   others>>

SendComplete(p) ==
    /\ phase[p] = "complete"
    /\ results' = IF ResultsAccepted(p) THEN [results EXCEPT ![p] = Append(@, Complete)]
                  ELSE results
    /\ ClosureReturns(p)
    /\ UNCHANGED <<readers, blocks, others>>

\* Mutant: a panic is not caught.
SendErrorUncaught(p) ==
    /\ \/ phase[p] = "broken"
       \/ Ready(p) /\ Len(got[p]) < ResultSize /\ plan[p].ending # "ok"
    /\ results' = IF ResultsAccepted(p) /\ plan[p].ending # "panic"
                    THEN [results EXCEPT ![p] = Append(@, Error(<<plan[p].ending, p>>))]
                    ELSE results
    /\ ClosureReturns(p)
    /\ UNCHANGED <<readers, blocks, others>>

\* The processor returned an error or panicked: one Error message, if anyone listens.
SendError(p) ==
    /\ \/ phase[p] = "broken"
       \/ Ready(p) /\ Len(got[p]) < ResultSize /\ plan[p].ending # "ok"
    /\ results' = IF ResultsAccepted(p)
                    THEN [results EXCEPT ![p] =
                            Append(@, Error(IF phase[p] = "broken" THEN <<"broken", p>>
                                            ELSE <<plan[p].ending, p>>))]
                    ELSE results
    /\ ClosureReturns(p)
    /\ UNCHANGED <<readers, blocks, others>>

ClosureStep(p) ==
    ReadBuffer(p) \/ ReadSlow(p) \/ SendPartial(p) \/ SendLast(p) \/ SendComplete(p) \/ SendError(p)

CallerStep ==
    \/ \E n \in SliceSizes, last \in BOOLEAN : Feed(n, last)
    \/ ParseStarved \/ ParseMarker \/ ParseLength \/ ParseBlock
    \/ TryGetMessage \/ TryGetDisconnected \/ PollEmpty
    \/ VerifySize
    \/ SendEof
    \/ WaitMessage \/ WaitDisconnected \/ AllRetrieved
    \/ RunInline \/ InlineReturned \/ DropInline

Terminated == pc = "done" /\ WorkersGone /\ UNCHANGED vars

Next ==
    \/ CallerStep
    \/ PoolWorkerStep
    \/ \E p \in P : ClosureStep(p)
    \/ Terminated

Spec == Init /\ [][Next]_vars

\* The caller goes on feeding the file; threads that can run are scheduled.
Fairness ==
    /\ WF_vars(CallerStep)
    /\ WF_vars(PoolWorkerStep)
    /\ \A p \in P : WF_vars(ClosureStep(p))

FairSpec == Spec /\ Fairness

-----------------------------------------------------------------------------
(* Properties                                                              *)

Prefix(s, n) == SubSeq(s, 1, IF n < Len(s) THEN n ELSE Len(s))

\* What partition p contributes to the output if its processor returns Ok.
Contribution(p) == Prefix(file.payload[p], plan[p].want)
UpTo(n) == FlattenSeq([i \in 1..n |-> Contribution(i - 1)])

\* retrieve_result hands out the results of partition 0, then those of partition 1,
\* and so on, each complete and in order, whatever the schedule and the slicing.
ResultsInOrder == IsPrefix(out, UpTo(N))

\* The blocks of a partition reach its reader byte for byte, however the file is cut
\* into slices: what was read, the rest of the current block and what is still in
\* the channel are a prefix of the partition's data, and all of it once a valid
\* file has been parsed. The demultiplexer of the Go port, which is silent about
\* damaged files, gives the partition no byte that is not its own either, and at
\* least what this parser does: also where this one refuses the file because of a
\* block of an unknown partition, which that one drops, going on behind it.
BlocksIntact ==
    \A p \in P :
        LET inChannel == FlattenSeq([i \in 1..Len(blocks[p]) |-> blocks[p][i].data])
            unread == current_buffer[p] \o inChannel
            payload == file.payload[p]
        IN  /\ got[p] = SubSeq(payload, count[p] - Len(got[p]) + 1, count[p])
            /\ IsPrefix(unread, SubSeq(payload, count[p] + 1, Len(payload)))
            /\ (file.valid /\ pc = "verify" /\ BlockReceiverAlive(p)) =>
                    count[p] + Len(unread) = Len(payload)
            /\ fed = Len(file.bytes) =>
                    LET go == GoDemultiplex(WithoutFooter(file.bytes), N)[p]
                    IN  IsPrefix(go, payload) /\ count[p] + Len(unread) <= Len(go)

\* Between slices no byte of the input is lost or seen twice, and the last four bytes
\* fed so far, which may be the file size, are never taken for blocks.
PendingIsUnread ==
    pc \in {"idle", "parse", "poll", "verify"} =>
        /\ Pending = SubSeq(file.bytes, fed - Len(Pending) + 1, fed)
        /\ Len(Pending) >= IF fed < RETENTION THEN fed ELSE RETENTION

\* Ok is returned exactly for a valid file whose processors all returned Ok, with
\* the complete output; an error is that of the first failing processor, after
\* everything of the partitions before it; "disconnected" means the pool never ran
\* a closure; no processor ever sees a broken channel as the cause.
VerdictJustified ==
    pc = "done" =>
        LET kind == verdict[1]
            p == verdict[2]
        IN  \/ /\ kind = "ok" /\ file.valid
               /\ \A q \in P : plan[q].ending = "ok"
               /\ out = UpTo(N)
            \/ /\ kind \in {"err", "panic"} /\ plan[p].ending = kind
               /\ \A q \in 0..(p - 1) : plan[q].ending = "ok"
               /\ IsPrefix(UpTo(p), out)
            \/ kind = "disconnected" /\ ~single /\ \E q \in P : phase[q] = "dropped"
            \/ kind \in {"BadLeptonFile", "size mismatch", "no size"} /\ ~file.valid

\* The file is decoded or refused, and every closure returns its thread to the pool,
\* also when the caller gave up while processors waited for data.
CallReturns == <>(pc = "done" /\ WorkersGone)
==============================================================================
