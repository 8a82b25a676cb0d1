----------------------------- MODULE ThreadPool -----------------------------
(***************************************************************************)
(* The growing thread pool of rust/lib/src/structs/simple_threadpool.rs.   *)
(*                                                                         *)
(* The pool is one mutex-protected stack of idle threads, each represented *)
(* by the sending half of its private work channel.  Callers of execute    *)
(* pop a thread and send it their closure, or spawn a new thread when the  *)
(* stack is empty; a thread that finishes a closure pushes itself back     *)
(* unless the stack is already too long.  Nothing in the pool ever waits   *)
(* for a closure to finish, which is why the code does not use a           *)
(* fixed-size pool.                                                        *)
(***************************************************************************)
EXTENDS Naturals, Sequences, FiniteSets

CONSTANTS
    Callers,   \* threads outside the pool that call execute concurrently
    Tasks,     \* the closures they submit, each of them once
    Threads,   \* names for the threads the pool may spawn
    NumCpus,   \* *NUM_CPUS
    Priority,  \* the pool's LeptonThreadPriority: "Low", "Normal" or "High"
    NoTask     \* a value that is not a task

ASSUME PoolAssumption ==
    /\ NumCpus \in Nat \ {0}
    /\ Priority \in {"Low", "Normal", "High"}
    /\ NoTask \notin Tasks

VARIABLES
    unsent,  \* tasks no caller has passed to execute yet
    caller,  \* per caller: the task it is about to spawn a thread for, or NoTask
    idle,    \* the Vec of senders, top of the stack last
    chan,    \* per thread: contents of its rx_schedule channel
    tstate,  \* per thread: where it is in its loop
    job,     \* per thread: the closure it holds, or NoTask
    fate     \* per task: what became of it

vars == <<unsent, caller, idle, chan, tstate, job, fate>>

ThreadStates == {"unborn", "setup", "running", "parking", "waiting", "exited"}
Fates == {"open", "started", "finished", "panicked", "dropped"}

\* The types, and that a thread owns a closure exactly while it sets up or runs.
TypeOK ==
    /\ unsent \in SUBSET Tasks
    /\ caller \in [Callers -> Tasks \cup {NoTask}]
    /\ idle \in Seq(Threads)
    /\ chan \in [Threads -> Seq(Tasks)]
    /\ tstate \in [Threads -> ThreadStates]
    /\ job \in [Threads -> Tasks \cup {NoTask}]
    /\ fate \in [Tasks -> Fates]
    /\ \A t \in Threads : job[t] # NoTask <=> tstate[t] \in {"setup", "running"}

Init ==
    /\ unsent = Tasks
    /\ caller = [c \in Callers |-> NoTask]
    /\ idle = <<>>
    /\ chan = [t \in Threads |-> <<>>]
    /\ tstate = [t \in Threads |-> "unborn"]
    /\ job = [t \in Threads |-> NoTask]
    /\ fate = [k \in Tasks |-> "open"]

-----------------------------------------------------------------------------
(* execute: callers of the pool                                            *)

\* Mutant: last() instead of pop() leaves the thread on the stack.
ExecutePeeks(c, k) ==
    /\ caller[c] = NoTask
    /\ k \in unsent
    /\ idle # <<>>
    /\ chan' = [chan EXCEPT ![idle[Len(idle)]] = Append(@, k)]
    /\ unsent' = unsent \ {k}
    /\ UNCHANGED <<caller, idle, tstate, job, fate>>

\* The guard of the if-let lives until the end of its block, so the pop and the
\* send are one critical section of the idle mutex.
ExecuteOnIdle(c, k) ==
    LET top == idle[Len(idle)] IN
    /\ caller[c] = NoTask
    /\ k \in unsent
    /\ idle # <<>>
    /\ idle' = SubSeq(idle, 1, Len(idle) - 1)
    /\ chan' = [chan EXCEPT ![top] = Append(@, k)]
    /\ unsent' = unsent \ {k}
    /\ UNCHANGED <<caller, tstate, job, fate>>

\* Mutant: a pool of fixed size queues the closure on a thread that is busy.
ExecuteQueuesOnBusy(c, k) ==
    /\ caller[c] = NoTask
    /\ k \in unsent
    /\ idle = <<>>
    /\ IF \E t \in Threads : tstate[t] = "running"
         THEN /\ \E t \in Threads : /\ tstate[t] = "running"
                                   /\ chan' = [chan EXCEPT ![t] = Append(@, k)]
              /\ UNCHANGED caller
         ELSE /\ caller' = [caller EXCEPT ![c] = k]
              /\ UNCHANGED chan
    /\ unsent' = unsent \ {k}
    /\ UNCHANGED <<idle, tstate, job, fate>>

\* pop returned None: the mutex is released before the else branch runs, so
\* other threads may park themselves before this caller spawns its thread.
ExecuteFindsNoIdle(c, k) ==
    /\ caller[c] = NoTask
    /\ k \in unsent
    /\ idle = <<>>
    /\ caller' = [caller EXCEPT ![c] = k]
    /\ unsent' = unsent \ {k}
    /\ UNCHANGED <<idle, chan, tstate, job, fate>>

Spawn(c, t) ==
    /\ caller[c] # NoTask
    /\ tstate[t] = "unborn"
    /\ tstate' = [tstate EXCEPT ![t] = "setup"]
    /\ job' = [job EXCEPT ![t] = caller[c]]
    /\ caller' = [caller EXCEPT ![c] = NoTask]
    /\ UNCHANGED <<unsent, idle, chan, fate>>

-----------------------------------------------------------------------------
(* The closure of a pool thread                                            *)

StartFirst(t) ==
    /\ tstate[t] = "setup"
    /\ tstate' = [tstate EXCEPT ![t] = "running"]
    /\ fate' = [fate EXCEPT ![job[t]] = "started"]
    /\ UNCHANGED <<unsent, caller, idle, chan, job>>

\* set_current_thread_priority(..).unwrap() panics before the closure has run:
\* the thread unwinds and the closure is dropped with it.
SetPriorityFails(t) ==
    /\ tstate[t] = "setup"
    /\ Priority # "Normal"
    /\ tstate' = [tstate EXCEPT ![t] = "exited"]
    /\ fate' = [fate EXCEPT ![job[t]] = "dropped"]
    /\ job' = [job EXCEPT ![t] = NoTask]
    /\ UNCHANGED <<unsent, caller, idle, chan>>

Finish(t) ==
    /\ tstate[t] = "running"
    /\ tstate' = [tstate EXCEPT ![t] = "parking"]
    /\ fate' = [fate EXCEPT ![job[t]] = "finished"]
    /\ job' = [job EXCEPT ![t] = NoTask]
    /\ UNCHANGED <<unsent, caller, idle, chan>>

\* The pool does not catch a panic of the closure; the thread unwinds.
Panic(t) ==
    /\ tstate[t] = "running"
    /\ tstate' = [tstate EXCEPT ![t] = "exited"]
    /\ fate' = [fate EXCEPT ![job[t]] = "panicked"]
    /\ job' = [job EXCEPT ![t] = NoTask]
    /\ UNCHANGED <<unsent, caller, idle, chan>>

\* Mutant: push first, test afterwards; a dead sender stays on the stack.
ParkPushesThenExits(t) ==
    /\ tstate[t] = "parking"
    /\ tstate' = [tstate EXCEPT ![t] = IF Len(idle) > NumCpus THEN "exited" ELSE "waiting"]
    /\ idle' = Append(idle, t)
    /\ UNCHANGED <<unsent, caller, chan, job, fate>>

\* One critical section: exit if the stack is over-full, push otherwise.
Park(t) ==
    /\ tstate[t] = "parking"
    /\ IF Len(idle) > NumCpus
         THEN /\ tstate' = [tstate EXCEPT ![t] = "exited"]
              /\ UNCHANGED idle
         ELSE /\ tstate' = [tstate EXCEPT ![t] = "waiting"]
              /\ idle' = Append(idle, t)
    /\ UNCHANGED <<unsent, caller, chan, job, fate>>

\* Mutant: recv_timeout, after which a thread takes its sender off the stack and
\* exits, although a caller may have sent to it in between.
ReceiveOrRetire(t) ==
    /\ tstate[t] = "waiting"
    /\ \/ /\ chan[t] # <<>>
          /\ tstate' = [tstate EXCEPT ![t] = "running"]
          /\ chan' = [chan EXCEPT ![t] = Tail(@)]
          /\ job' = [job EXCEPT ![t] = Head(chan[t])]
          /\ fate' = [fate EXCEPT ![Head(chan[t])] = "started"]
          /\ UNCHANGED idle
       \/ /\ tstate' = [tstate EXCEPT ![t] = "exited"]
          /\ idle' = SelectSeq(idle, LAMBDA u : u # t)
          /\ UNCHANGED <<chan, job, fate>>
    /\ UNCHANGED <<unsent, caller>>

\* rx_schedule.recv(): the thread itself owns a sender, so it cannot disconnect.
Receive(t) ==
    /\ tstate[t] = "waiting"
    /\ chan[t] # <<>>
    /\ tstate' = [tstate EXCEPT ![t] = "running"]
    /\ chan' = [chan EXCEPT ![t] = Tail(@)]
    /\ job' = [job EXCEPT ![t] = Head(chan[t])]
    /\ fate' = [fate EXCEPT ![Head(chan[t])] = "started"]
    /\ UNCHANGED <<unsent, caller, idle>>

Next ==
    \/ \E c \in Callers, k \in Tasks : ExecuteOnIdle(c, k)
    \/ \E c \in Callers, k \in Tasks : ExecuteFindsNoIdle(c, k)
    \/ \E c \in Callers, t \in Threads : Spawn(c, t)
    \/ \E t \in Threads : StartFirst(t)
    \/ \E t \in Threads : SetPriorityFails(t)
    \/ \E t \in Threads : Finish(t)
    \/ \E t \in Threads : Panic(t)
    \/ \E t \in Threads : Park(t)
    \/ \E t \in Threads : Receive(t)

Spec == Init /\ [][Next]_vars

\* A caller that entered execute and a pool thread that can run are scheduled by
\* the operating system.  No fairness on Finish: a closure may block forever.
Fairness ==
    /\ \A c \in Callers : WF_vars(\E t \in Threads : Spawn(c, t))
    /\ \A t \in Threads : /\ WF_vars(StartFirst(t) \/ SetPriorityFails(t))
                          /\ WF_vars(Park(t))
                          /\ WF_vars(Receive(t))

FairSpec == Spec /\ Fairness

-----------------------------------------------------------------------------
(* Properties                                                              *)

InIdle(t) == \E i \in 1..Len(idle) : idle[i] = t

\* sender.send(..).unwrap() in execute never panics and never gives one thread to
\* two callers: every entry of the idle stack is a different thread that is alive,
\* blocked in recv and has an empty channel.
IdleThreadsAreFree ==
    /\ \A i, j \in 1..Len(idle) : idle[i] = idle[j] => i = j
    /\ \A i \in 1..Len(idle) : tstate[idle[i]] = "waiting" /\ chan[idle[i]] = <<>>

\* A closure sits only in the channel of a thread that waits for it and for
\* nothing else; it is never stuck behind a closure that is still running.
NeverBehindBusyThread ==
    \A t \in Threads :
        /\ chan[t] # <<>> => tstate[t] = "waiting" /\ ~InIdle(t) /\ Len(chan[t]) = 1
        /\ tstate[t] = "waiting" /\ chan[t] = <<>> => InIdle(t)

\* A closure passed to execute is never lost: until its thread is done with it, it is
\* in exactly one place from which it still comes to run - with a caller about to
\* spawn a thread, in the channel of a thread that has not exited, or on a thread.
\* Only a pool that changes priorities may drop one unexecuted.
Whereabouts(k) ==
    {<<"caller", c>> : c \in {x \in Callers : caller[x] = k}}
    \cup {<<"job", t>> : t \in {x \in Threads : job[x] = k}}
    \cup {<<"chan", t>> : t \in {x \in Threads :
              tstate[x] # "exited" /\ \E i \in 1..Len(chan[x]) : chan[x][i] = k}}

ExactlyOnePlace ==
    \A k \in Tasks :
        LET places == Whereabouts(k) IN
        /\ \A p, q \in places : p = q
        /\ k \in unsent => places = {} /\ fate[k] = "open"
        /\ k \notin unsent /\ places = {} => fate[k] \in {"finished", "panicked", "dropped"}
        /\ fate[k] \in {"finished", "panicked", "dropped"} => places = {}
        /\ fate[k] = "dropped" => Priority # "Normal"

\* A closure handed to execute is started even when every other closure blocks
\* forever (or, if setting the priority failed, is dropped with its thread).
EveryTaskStarts ==
    \A k \in Tasks : k \notin unsent ~> fate[k] # "open"

\* The threads that have nothing to do and wait for a caller.
IdleThreads == {t \in Threads : tstate[t] = "waiting" /\ chan[t] = <<>>}

\* The comment of SimpleThreadPool (line 73): "the number of idle threads is limited to
\* the number of CPUs available". It does not hold: the stack is tested with '>'
\* before the push.
IdleThreadsLimited == Cardinality(IdleThreads) <= NumCpus
=============================================================================
