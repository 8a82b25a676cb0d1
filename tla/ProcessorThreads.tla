-------------------------- MODULE ProcessorThreads --------------------------
(***************************************************************************)
(* spawn_processor_threads of rust/lib/src/structs/multiplexer.rs: workers *)
(* on pool threads take closures, one per partition, from a shared queue.  *)
(* Workers are interchangeable, so they are counted, not named.  The       *)
(* actions only constrain the variables of this module; multiplex_write    *)
(* and multiplex_read add what happens to theirs.                          *)
(***************************************************************************)
EXTENDS Naturals, Sequences

CONSTANT N  \* number of partitions, hence of closures

P == 0..(N - 1)

VARIABLES
    queue,     \* shared_queue: closures that nobody has taken
    starting,  \* workers handed to thread_pool.run that have not started
    looking,   \* workers between two closures
    phase      \* per partition: "queued", a state of the running closure,
               \* "over" or "dropped"

threads == <<queue, starting, looking, phase>>

AllPartitions == [i \in 1..N |-> i - 1]
Running(p) == phase[p] \notin {"queued", "over", "dropped"}
WorkersGone == starting = 0 /\ looking = 0 /\ \A p \in P : phase[p] \in {"over", "dropped"}

\* min(work.len(), max_processor_threads) workers, possibly none.
InitSpawned ==
    /\ queue = AllPartitions
    /\ starting \in 0..N
    /\ looking = 0
    /\ phase = [p \in P |-> "queued"]

\* max_parallelism() <= 1: the closures stay with the caller, which runs them.
InitInline ==
    /\ queue = AllPartitions
    /\ starting = 0
    /\ looking = 1
    /\ phase = [p \in P |-> "queued"]

WorkerStarts ==
    /\ starting > 0
    /\ starting' = starting - 1
    /\ looking' = looking + 1
    /\ UNCHANGED <<queue, phase>>

\* The pool thread died while setting its priority and dropped the worker.
WorkerLost ==
    /\ starting > 0
    /\ starting' = starting - 1
    /\ UNCHANGED <<queue, looking, phase>>

TakeClosure ==
    /\ looking > 0
    /\ queue # <<>>
    /\ queue' = Tail(queue)
    /\ phase' = [phase EXCEPT ![Head(queue)] = "running"]
    /\ looking' = looking - 1
    /\ UNCHANGED starting

WorkerExits ==
    /\ looking > 0
    /\ queue = <<>>
    /\ looking' = looking - 1
    /\ UNCHANGED <<queue, starting, phase>>

\* The last owner of the queue is gone: its closures are dropped unexecuted, and
\* with them their ends of the channels.
QueueDropped ==
    /\ queue # <<>>
    /\ starting = 0 /\ looking = 0
    /\ \A p \in P : ~Running(p)
    /\ phase' = [p \in P |-> IF phase[p] = "queued" THEN "dropped" ELSE phase[p]]
    /\ queue' = <<>>
    /\ UNCHANGED <<starting, looking>>

ClosureReturns(p) ==
    /\ phase' = [phase EXCEPT ![p] = "over"]
    /\ looking' = looking + 1
    /\ UNCHANGED <<queue, starting>>
=============================================================================
