-------------------------- MODULE ThreadPoolProofs --------------------------
(***************************************************************************)
(* Safety of the thread pool for any number of callers, closures, threads  *)
(* and CPUs.  PoolInv is inductive as it stands: that an idle thread is    *)
(* free (IdleThreadsAreFree) is kept by execute only because no thread is  *)
(* on the stack twice, and by Park only because a thread that is not       *)
(* waiting has an empty channel (NeverBehindBusyThread).                   *)
(***************************************************************************)
EXTENDS ThreadPool, SequenceTheorems, FiniteSetTheorems, TLAPS

\* The stack is tested with '>' before the push.
StackBound == Len(idle) <= NumCpus + 1

PoolInv ==
    /\ TypeOK
    /\ IdleThreadsAreFree
    /\ NeverBehindBusyThread
    /\ StackBound

\* A prefix of a sequence has the sequence's entries at the same places.
LEMMA PrefixFacts ==
    ASSUME NEW S, NEW s \in Seq(S), NEW n \in Nat, n <= Len(s)
    PROVE  /\ SubSeq(s, 1, n) \in Seq(S)
           /\ Len(SubSeq(s, 1, n)) = n
           /\ \A i \in 1..n : SubSeq(s, 1, n)[i] = s[i]
  <1>1. \A i \in 1..n : s[i] \in S
    BY LenProperties, ElementOfSeq
  <1>2. /\ SubSeq(s, 1, n) \in Seq(S)
        /\ Len(SubSeq(s, 1, n)) = IF 1 <= n THEN n - 1 + 1 ELSE 0
        /\ \A i \in 1..(n - 1 + 1) : SubSeq(s, 1, n)[i] = s[1 + i - 1]
    <2>1. 1 \in Int /\ n \in Int
      OBVIOUS
    <2> QED
      BY <1>1, <2>1, SubSeqProperties, SMTT(30)
  <1> QED
    BY <1>2

\* Only the empty sequence has length 0.
LEMMA NoEntries ==
    ASSUME NEW S, NEW s \in Seq(S), Len(s) = 0
    PROVE  s = <<>>
  <1>1. s # <<>> => Len(s) \in Nat \ {0}
    BY EmptySeq
  <1> QED
    BY <1>1

\* The pool starts in PoolInv.
LEMMA PoolInit == Init => PoolInv
  BY PoolAssumption DEF Init, PoolInv, TypeOK, IdleThreadsAreFree, NeverBehindBusyThread,
     StackBound, InIdle, ThreadStates, Fates

\* Every action keeps PoolInv.
LEMMA PoolStep == PoolInv /\ [Next]_vars => PoolInv'
  <1> SUFFICES ASSUME PoolInv, [Next]_vars PROVE PoolInv'
    OBVIOUS
  <1> USE PoolAssumption DEF PoolInv, ThreadStates, Fates
  <1>1. ASSUME NEW c \in Callers, NEW k \in Tasks, ExecuteOnIdle(c, k) PROVE PoolInv'
    <2> DEFINE n == Len(idle) - 1
               top == idle[Len(idle)]
    <2>1. n \in Nat /\ n <= Len(idle) /\ top \in Threads /\ Len(idle) \in 1..Len(idle)
      BY <1>1 DEF ExecuteOnIdle, TypeOK
    <2>2. /\ idle' \in Seq(Threads) /\ Len(idle') = n
          /\ \A i \in 1..n : idle'[i] = idle[i]
      <3>1. idle \in Seq(Threads) /\ idle' = SubSeq(idle, 1, n)
        BY <1>1 DEF ExecuteOnIdle, TypeOK
      <3> HIDE DEF n
      <3> QED
        BY <2>1, <3>1, PrefixFacts
    <2>3. tstate[top] = "waiting" /\ chan[top] = <<>>
      BY <2>1 DEF IdleThreadsAreFree
    <2>4. /\ chan' \in [Threads -> Seq(Tasks)]
          /\ Len(chan'[top]) = 1
          /\ chan'[top] # <<>>
          /\ \A t \in Threads \ {top} : chan'[t] = chan[t]
      BY <1>1, <2>1, <2>3 DEF ExecuteOnIdle, TypeOK
    <2>5. /\ \A i \in 1..n : idle[i] # top
          /\ \A t \in Threads \ {top} : InIdle(t) => \E i \in 1..n : idle[i] = t
      BY <2>1 DEF IdleThreadsAreFree, InIdle
    <2>6. TypeOK'
      BY <1>1, <2>2, <2>4 DEF ExecuteOnIdle, TypeOK
    <2>7. IdleThreadsAreFree'
      <3>1. tstate' = tstate /\ 1..n \subseteq 1..Len(idle)
        BY <1>1, <2>1 DEF ExecuteOnIdle
      <3>2. \A i \in 1..n : idle[i] \in Threads \ {top}
        BY <2>1, <2>5 DEF TypeOK
      <3>3. 1..Len(idle') = 1..n
        BY <2>2
      <3>4. \A i, j \in 1..n : idle[i] = idle[j] => i = j
        BY <3>1 DEF IdleThreadsAreFree
      <3>5. \A i \in 1..n : tstate[idle[i]] = "waiting" /\ chan[idle[i]] = <<>>
        BY <3>1 DEF IdleThreadsAreFree
      <3> HIDE DEF n, top
      <3>6. \A i, j \in 1..n : idle'[i] = idle'[j] => i = j
        BY <2>2, <3>4
      <3>7. \A i \in 1..n : tstate'[idle'[i]] = "waiting" /\ chan'[idle'[i]] = <<>>
        BY <2>2, <2>4, <3>1, <3>2, <3>5
      <3> QED
        BY <3>3, <3>6, <3>7 DEF IdleThreadsAreFree
    <2>8. ASSUME NEW t \in Threads PROVE InIdle(t)' <=> (t # top /\ InIdle(t))
      BY <2>1, <2>2, <2>5 DEF InIdle
    <2>9. NeverBehindBusyThread'
      BY <1>1, <2>1, <2>3, <2>4, <2>8 DEF ExecuteOnIdle, TypeOK, NeverBehindBusyThread
    <2> QED
      BY <2>1, <2>2, <2>6, <2>7, <2>9 DEF StackBound
  <1>2. ASSUME NEW c \in Callers, NEW k \in Tasks, ExecuteFindsNoIdle(c, k) PROVE PoolInv'
    BY <1>2 DEF ExecuteFindsNoIdle, TypeOK, IdleThreadsAreFree, NeverBehindBusyThread,
       StackBound, InIdle
  <1>3. ASSUME NEW c \in Callers, NEW t \in Threads, Spawn(c, t) PROVE PoolInv'
    BY <1>3 DEF Spawn, TypeOK, IdleThreadsAreFree, NeverBehindBusyThread, StackBound, InIdle
  <1>4. ASSUME NEW t \in Threads, StartFirst(t) PROVE PoolInv'
    BY <1>4 DEF StartFirst, TypeOK, IdleThreadsAreFree, NeverBehindBusyThread, StackBound,
       InIdle
  <1>5. ASSUME NEW t \in Threads, SetPriorityFails(t) PROVE PoolInv'
    BY <1>5 DEF SetPriorityFails, TypeOK, IdleThreadsAreFree, NeverBehindBusyThread,
       StackBound, InIdle
  <1>6. ASSUME NEW t \in Threads, Finish(t) PROVE PoolInv'
    BY <1>6 DEF Finish, TypeOK, IdleThreadsAreFree, NeverBehindBusyThread, StackBound, InIdle
  <1>7. ASSUME NEW t \in Threads, Panic(t) PROVE PoolInv'
    BY <1>7 DEF Panic, TypeOK, IdleThreadsAreFree, NeverBehindBusyThread, StackBound, InIdle
  <1>8. ASSUME NEW t \in Threads, Park(t) PROVE PoolInv'
    <2>1. CASE Len(idle) > NumCpus
      <3>1. /\ tstate' = [tstate EXCEPT ![t] = "exited"] /\ tstate[t] = "parking"
            /\ UNCHANGED <<unsent, caller, idle, chan, job, fate>>
        BY <1>8, <2>1 DEF Park
      <3>2. TypeOK'
        BY <3>1 DEF TypeOK
      <3>3. IdleThreadsAreFree'
        BY <3>1 DEF TypeOK, IdleThreadsAreFree
      <3>4. NeverBehindBusyThread'
        BY <3>1 DEF TypeOK, NeverBehindBusyThread, InIdle
      <3> QED
        BY <3>1, <3>2, <3>3, <3>4 DEF StackBound
    <2>2. CASE ~(Len(idle) > NumCpus)
      <3>1. /\ idle' = Append(idle, t) /\ Len(idle) \in Nat /\ Len(idle) <= NumCpus
            /\ tstate' = [tstate EXCEPT ![t] = "waiting"] /\ tstate[t] = "parking"
            /\ chan' = chan
        BY <1>8, <2>2 DEF Park, TypeOK
      <3>2. /\ idle' \in Seq(Threads) /\ Len(idle') = Len(idle) + 1
            /\ idle'[Len(idle) + 1] = t
            /\ \A i \in 1..Len(idle) : idle'[i] = idle[i]
        BY <3>1 DEF TypeOK
      <3>3. ~InIdle(t) /\ chan[t] = <<>>
        BY <3>1 DEF InIdle, IdleThreadsAreFree, NeverBehindBusyThread
      <3>4. TypeOK'
        BY <1>8, <2>2, <3>1, <3>2 DEF Park, TypeOK
      <3>5. IdleThreadsAreFree'
        <4>1. \A i \in 1..Len(idle) : idle[i] \in Threads /\ idle[i] # t
          BY <3>3 DEF InIdle, TypeOK
        <4>2. \A i \in 1..Len(idle') : i \in 1..Len(idle) \/ i = Len(idle) + 1
          BY <3>1, <3>2
        <4>3. \A i, j \in 1..Len(idle') : idle'[i] = idle'[j] => i = j
          BY <3>2, <4>1, <4>2 DEF IdleThreadsAreFree
        <4>4. \A i \in 1..Len(idle') : tstate'[idle'[i]] = "waiting" /\ chan'[idle'[i]] = <<>>
          BY <3>1, <3>2, <3>3, <4>1, <4>2 DEF IdleThreadsAreFree, TypeOK
        <4> QED
          BY <4>3, <4>4 DEF IdleThreadsAreFree
      <3>6. ASSUME NEW u \in Threads PROVE InIdle(u)' <=> (u = t \/ InIdle(u))
        BY <3>1, <3>2 DEF InIdle
      <3>7. NeverBehindBusyThread'
        BY <3>1, <3>3, <3>6 DEF NeverBehindBusyThread, TypeOK
      <3> QED
        BY <3>1, <3>2, <3>4, <3>5, <3>7 DEF StackBound
    <2> QED
      BY <2>1, <2>2
  <1>9. ASSUME NEW t \in Threads, Receive(t) PROVE PoolInv'
    <2>1. /\ chan[t] \in Seq(Tasks) /\ chan[t] # <<>> /\ Len(chan[t]) = 1 /\ ~InIdle(t)
          /\ tstate[t] = "waiting"
      BY <1>9 DEF Receive, TypeOK, NeverBehindBusyThread
    <2>2. Tail(chan[t]) = <<>> /\ Head(chan[t]) \in Tasks
      <3>1. Len(Tail(chan[t])) = 0
        BY <2>1
      <3>2. Tail(chan[t]) \in Seq(Tasks)
        BY <2>1
      <3>3. Tail(chan[t]) = <<>>
        BY <3>1, <3>2, NoEntries, Zenon
      <3>4. Head(chan[t]) \in Tasks
        BY <2>1
      <3> QED
        BY <3>3, <3>4
    <2>3. TypeOK'
      BY <1>9, <2>1, <2>2 DEF Receive, TypeOK
    <2> QED
      BY <1>9, <2>1, <2>2, <2>3 DEF Receive, TypeOK, IdleThreadsAreFree,
         NeverBehindBusyThread, StackBound, InIdle
  <1>10. CASE UNCHANGED vars
    BY <1>10 DEF vars, TypeOK, IdleThreadsAreFree, NeverBehindBusyThread, StackBound, InIdle
  <1> QED
    BY <1>1, <1>2, <1>3, <1>4, <1>5, <1>6, <1>7, <1>8, <1>9, <1>10 DEF Next

\* execute never sends to a thread that has exited or is busy, and no closure waits
\* behind another one, with any number of callers, closures, threads and CPUs.
THEOREM PoolSafe == Spec => [](TypeOK /\ IdleThreadsAreFree /\ NeverBehindBusyThread)
  <1>1. Spec => []PoolInv
    BY PoolInit, PoolStep, PTL DEF Spec
  <1>2. PoolInv => TypeOK /\ IdleThreadsAreFree /\ NeverBehindBusyThread
    BY DEF PoolInv
  <1> QED
    BY <1>1, <1>2, PTL

\* A thread without work is on the stack, so there are no more of them than entries.
LEMMA IdleThreadsOnStack ==
    ASSUME PoolInv PROVE IsFiniteSet(IdleThreads) /\ Cardinality(IdleThreads) <= Len(idle)
  <1> DEFINE n == Len(idle)
             S == {idle[i] : i \in 1..n}
  <1>1. n \in Nat
    BY DEF PoolInv, TypeOK
  <1>2. IsFiniteSet(1..n) /\ Cardinality(1..n) = n
    <2> HIDE DEF n, S
    <2>1. 1 \in Int /\ n \in Int
      BY <1>1
    <2>2. IsFiniteSet(1..n) /\ Cardinality(1..n) = IF 1 > n THEN 0 ELSE n - 1 + 1
      BY <2>1, FS_Interval, Zenon
    <2> QED
      BY <1>1, <2>2
  <1>3. IsFiniteSet(S) /\ Cardinality(S) <= n
    <2> DEFINE f == [i \in 1..n |-> idle[i]]
    <2>1. f \in Surjection(1..n, S)
      BY DEF Surjection
    <2> HIDE DEF f, S
    <2> QED
      BY <1>2, <2>1, FS_Surjection
  <1>4. IdleThreads \subseteq S
    BY DEF PoolInv, NeverBehindBusyThread, IdleThreads, InIdle
  <1>5. IsFiniteSet(IdleThreads) /\ Cardinality(IdleThreads) <= Cardinality(S)
    BY <1>3, <1>4, FS_Subset, Zenon
  <1>6. Cardinality(IdleThreads) \in Nat /\ Cardinality(S) \in Nat
    BY <1>3, <1>5, FS_CardinalityType, Zenon
  <1> HIDE DEF S, n
  <1>7. Cardinality(IdleThreads) <= n
    BY <1>1, <1>3, <1>5, <1>6
  <1> QED
    BY <1>5, <1>7 DEF n

\* However the threads interleave, at most NUM_CPUS + 1 of them wait with nothing to
\* do: one more than line 73 promises, but no thread waits forgotten, off the stack.
THEOREM PoolIdleThreadsBounded ==
    Spec => [](IsFiniteSet(IdleThreads) /\ Cardinality(IdleThreads) <= NumCpus + 1)
  <1>1. Spec => []PoolInv
    BY PoolInit, PoolStep, PTL DEF Spec
  <1>2. ASSUME PoolInv
        PROVE  IsFiniteSet(IdleThreads) /\ Cardinality(IdleThreads) <= NumCpus + 1
    <2>1. Len(idle) \in Nat /\ Len(idle) <= NumCpus + 1
      BY <1>2 DEF PoolInv, TypeOK, StackBound
    <2>2. IsFiniteSet(IdleThreads) /\ Cardinality(IdleThreads) <= Len(idle)
      BY <1>2, IdleThreadsOnStack
    <2>3. Cardinality(IdleThreads) \in Nat
      BY <2>2, FS_CardinalityType
    <2> QED
      BY <2>1, <2>2, <2>3, PoolAssumption
  <1> QED
    BY <1>1, <1>2, PTL

\* The two conjuncts of PoolSafe that a reader of execute wants on their own: the
\* sender popped from the stack belongs to a live thread blocked in recv, popped
\* by nobody else,
THEOREM PoolIdleFree == Spec => []IdleThreadsAreFree
  BY PoolSafe, PTL

\* and a closure never sits behind one that is still running.
THEOREM PoolNeverBehind == Spec => []NeverBehindBusyThread
  BY PoolSafe, PTL

-----------------------------------------------------------------------------
(* A closure is in one place.  ExactlyOnePlace speaks of a set of tagged   *)
(* places; OnePlace says the same place by place, which is what the        *)
(* actions change.                                                         *)

InChan(t, k) == \E i \in 1..Len(chan[t]) : chan[t][i] = k

Placed(k) == \/ \E c \in Callers : caller[c] = k
             \/ \E t \in Threads : job[t] = k
             \/ \E t \in Threads : InChan(t, k)

Over == {"finished", "panicked", "dropped"}

AtMostOnce(k) ==
    /\ \A c, d \in Callers : caller[c] = k /\ caller[d] = k => c = d
    /\ \A t, u \in Threads : job[t] = k /\ job[u] = k => t = u
    /\ \A t, u \in Threads : InChan(t, k) /\ InChan(u, k) => t = u
    /\ \A c \in Callers, t \in Threads : caller[c] = k => job[t] # k /\ ~InChan(t, k)
    /\ \A t, u \in Threads : job[t] = k => ~InChan(u, k)

Accounted(k) ==
    /\ k \in unsent => ~Placed(k) /\ fate[k] = "open"
    /\ k \notin unsent /\ ~Placed(k) => fate[k] \in Over
    /\ fate[k] \in Over => ~Placed(k)

OnePlace == \A k \in Tasks : AtMostOnce(k) /\ Accounted(k)

\* Only set_current_thread_priority makes a thread drop its closure.
DroppedWithPriority == \A k \in Tasks : fate[k] = "dropped" => Priority # "Normal"

\* A closure in a channel is not lost: that thread is still there to receive it.
LEMMA ChannelsAreAlive ==
    ASSUME PoolInv, NEW t \in Threads, NEW k, InChan(t, k) PROVE tstate[t] # "exited"
  <1>1. chan[t] # <<>>
    BY DEF InChan
  <1> QED
    BY <1>1 DEF PoolInv, NeverBehindBusyThread

\* No place is the same as an empty set of places.
LEMMA PlacedIsSome ==
    ASSUME PoolInv, NEW k PROVE Placed(k) <=> Whereabouts(k) # {}
  BY ChannelsAreAlive, Zenon DEF Placed, Whereabouts, InChan

\* OnePlace implies the property the run checks.
LEMMA OnePlaceSuffices == PoolInv /\ OnePlace /\ DroppedWithPriority => ExactlyOnePlace
  <1> SUFFICES ASSUME PoolInv, OnePlace, DroppedWithPriority, NEW k \in Tasks
               PROVE  /\ \A p, q \in Whereabouts(k) : p = q
                      /\ k \in unsent => Whereabouts(k) = {} /\ fate[k] = "open"
                      /\ k \notin unsent /\ Whereabouts(k) = {} => fate[k] \in Over
                      /\ fate[k] \in Over => Whereabouts(k) = {}
                      /\ fate[k] = "dropped" => Priority # "Normal"
    BY Zenon DEF ExactlyOnePlace, Over
  <1>1. AtMostOnce(k) /\ Accounted(k)
    BY Zenon DEF OnePlace
  <1>2. ASSUME NEW p \in Whereabouts(k)
        PROVE  \/ \E c \in Callers : p = <<"caller", c>> /\ caller[c] = k
               \/ \E t \in Threads : p = <<"job", t>> /\ job[t] = k
               \/ \E t \in Threads : p = <<"chan", t>> /\ InChan(t, k)
    BY Zenon DEF Whereabouts, InChan
  <1>3. ASSUME NEW p \in Whereabouts(k), NEW q \in Whereabouts(k) PROVE p = q
    <2>1. CASE \E c \in Callers : p = <<"caller", c>> /\ caller[c] = k
      BY <1>1, <1>2, <2>1, Zenon DEF AtMostOnce
    <2>2. CASE \E t \in Threads : p = <<"job", t>> /\ job[t] = k
      BY <1>1, <1>2, <2>2, Zenon DEF AtMostOnce
    <2>3. CASE \E t \in Threads : p = <<"chan", t>> /\ InChan(t, k)
      BY <1>1, <1>2, <2>3, Zenon DEF AtMostOnce
    <2> QED
      BY <1>2, <2>1, <2>2, <2>3, Zenon
  <1> QED
    BY <1>1, <1>3, PlacedIsSome, Zenon DEF Accounted, DroppedWithPriority

\* What a step may do to closure k, told by its places before and after.
\* Nothing moved and no fate changed,
LEMMA SameAccount ==
    ASSUME OnePlace, NEW k \in Tasks,
           \A c \in Callers : caller'[c] = k <=> caller[c] = k,
           \A t \in Threads : job'[t] = k <=> job[t] = k,
           \A t \in Threads : InChan(t, k)' <=> InChan(t, k),
           k \in unsent' <=> k \in unsent,
           fate'[k] = fate[k] \/ (fate'[k] \notin Over /\ Placed(k))
    PROVE  AtMostOnce(k)' /\ Accounted(k)'
  <1>1. AtMostOnce(k) /\ Accounted(k)
    BY Zenon DEF OnePlace
  <1>2. Placed(k)' <=> Placed(k)
    BY Zenon DEF Placed
  <1>3. AtMostOnce(k)'
    BY <1>1, Zenon DEF AtMostOnce
  <1>4. Accounted(k)'
    BY <1>1, <1>2, Zenon DEF Accounted
  <1> QED
    BY <1>3, <1>4

\* it is with exactly one caller,
LEMMA AtCaller ==
    ASSUME NEW k \in Tasks, NEW c \in Callers, k \notin unsent', fate'[k] \notin Over,
           \A d \in Callers : caller'[d] = k <=> d = c,
           \A t \in Threads : job'[t] # k /\ ~InChan(t, k)'
    PROVE  AtMostOnce(k)' /\ Accounted(k)'
  <1>1. AtMostOnce(k)'
    BY Zenon DEF AtMostOnce
  <1>2. Placed(k)'
    BY Zenon DEF Placed
  <1> QED
    BY <1>1, <1>2, Zenon DEF Accounted

\* in exactly one channel,
LEMMA AtChan ==
    ASSUME NEW k \in Tasks, NEW t \in Threads, k \notin unsent', fate'[k] \notin Over,
           \A u \in Threads : InChan(u, k)' <=> u = t,
           \A c \in Callers : caller'[c] # k,
           \A u \in Threads : job'[u] # k
    PROVE  AtMostOnce(k)' /\ Accounted(k)'
  <1>1. AtMostOnce(k)'
    BY Zenon DEF AtMostOnce
  <1>2. Placed(k)'
    BY Zenon DEF Placed
  <1> QED
    BY <1>1, <1>2, Zenon DEF Accounted

\* on exactly one thread,
LEMMA AtJob ==
    ASSUME NEW k \in Tasks, NEW t \in Threads, k \notin unsent', fate'[k] \notin Over,
           \A u \in Threads : job'[u] = k <=> u = t,
           \A c \in Callers : caller'[c] # k,
           \A u \in Threads : ~InChan(u, k)'
    PROVE  AtMostOnce(k)' /\ Accounted(k)'
  <1>1. AtMostOnce(k)'
    BY Zenon DEF AtMostOnce
  <1>2. Placed(k)'
    BY Zenon DEF Placed
  <1> QED
    BY <1>1, <1>2, Zenon DEF Accounted

\* or its thread is done with it.
LEMMA AtEnd ==
    ASSUME NEW k \in Tasks, k \notin unsent', fate'[k] \in Over,
           \A c \in Callers : caller'[c] # k,
           \A t \in Threads : job'[t] # k /\ ~InChan(t, k)'
    PROVE  AtMostOnce(k)' /\ Accounted(k)'
  <1>1. AtMostOnce(k)'
    BY Zenon DEF AtMostOnce
  <1>2. ~Placed(k)'
    BY Zenon DEF Placed
  <1> QED
    BY <1>1, <1>2, Zenon DEF Accounted

\* A closure leaves its place only for the next one: every action keeps OnePlace.
LEMMA OnePlaceStep == PoolInv /\ OnePlace /\ [Next]_vars => OnePlace'
  <1> SUFFICES ASSUME PoolInv, OnePlace, [Next]_vars, NEW j \in Tasks
               PROVE  AtMostOnce(j)' /\ Accounted(j)'
    BY Zenon DEF OnePlace
  <1>0. TypeOK /\ NoTask \notin Tasks /\ AtMostOnce(j) /\ Accounted(j)
    BY PoolAssumption, Zenon DEF PoolInv, OnePlace
  <1>1. ASSUME NEW c \in Callers, NEW k \in Tasks, ExecuteOnIdle(c, k)
        PROVE  AtMostOnce(j)' /\ Accounted(j)'
    <2> DEFINE top == idle[Len(idle)]
    <2>1. top \in Threads /\ chan[top] = <<>>
      BY <1>0, <1>1 DEF ExecuteOnIdle, TypeOK, PoolInv, IdleThreadsAreFree
    <2>2. chan' = [chan EXCEPT ![top] = <<k>>]
      BY <1>1, <2>1 DEF ExecuteOnIdle
    <2>3. /\ UNCHANGED <<caller, job, fate>> /\ unsent' = unsent \ {k} /\ k \in unsent
      BY <1>1, Zenon DEF ExecuteOnIdle
    <2> HIDE DEF top
    <2>4. \A u \in Threads : InChan(u, j)' <=> IF u = top THEN j = k ELSE InChan(u, j)
      BY <1>0, <2>1, <2>2 DEF InChan, TypeOK
    <2>5. ~InChan(top, j)
      BY <2>1 DEF InChan
    <2>6. CASE j = k
      <3>1. ~Placed(j) /\ fate[j] = "open"
        BY <1>0, <2>3, <2>6, Zenon DEF Accounted
      <3> QED
        BY <2>1, <2>3, <2>4, <2>6, <3>1, AtChan, Zenon DEF Placed, Over
    <2>7. CASE j # k
      BY <2>1, <2>3, <2>4, <2>5, <2>7, SameAccount, Zenon
    <2> QED
      BY <2>6, <2>7
  <1>2. ASSUME NEW c \in Callers, NEW k \in Tasks, ExecuteFindsNoIdle(c, k)
        PROVE  AtMostOnce(j)' /\ Accounted(j)'
    <2>1. /\ UNCHANGED <<chan, job, fate>> /\ unsent' = unsent \ {k} /\ k \in unsent
          /\ caller[c] = NoTask
      BY <1>2, Zenon DEF ExecuteFindsNoIdle
    <2>2. \A d \in Callers : caller'[d] = IF d = c THEN k ELSE caller[d]
      BY <1>0, <1>2 DEF ExecuteFindsNoIdle, TypeOK
    <2>3. \A u \in Threads : InChan(u, j)' <=> InChan(u, j)
      BY <2>1, Zenon DEF InChan
    <2>4. CASE j = k
      <3>1. ~Placed(j) /\ fate[j] = "open"
        BY <1>0, <2>1, <2>4, Zenon DEF Accounted
      <3> QED
        BY <2>1, <2>2, <2>3, <2>4, <3>1, AtCaller, Zenon DEF Placed, Over
    <2>5. CASE j # k
      BY <1>0, <2>1, <2>2, <2>3, <2>5, SameAccount, Zenon
    <2> QED
      BY <2>4, <2>5
  <1>3. ASSUME NEW c \in Callers, NEW t \in Threads, Spawn(c, t)
        PROVE  AtMostOnce(j)' /\ Accounted(j)'
    <2>1. /\ UNCHANGED <<chan, unsent, fate>> /\ caller[c] # NoTask /\ job[t] = NoTask
      BY <1>0, <1>3 DEF Spawn, TypeOK
    <2>2. /\ \A d \in Callers : caller'[d] = IF d = c THEN NoTask ELSE caller[d]
          /\ \A u \in Threads : job'[u] = IF u = t THEN caller[c] ELSE job[u]
      BY <1>0, <1>3 DEF Spawn, TypeOK
    <2>3. \A u \in Threads : InChan(u, j)' <=> InChan(u, j)
      BY <2>1, Zenon DEF InChan
    <2>4. CASE j = caller[c]
      <3>1. Placed(j) /\ j \notin unsent /\ fate[j] \notin Over
        BY <1>0, <2>4, Zenon DEF Accounted, Placed
      <3>2. /\ \A d \in Callers : caller[d] = j => d = c
            /\ \A u \in Threads : job[u] # j /\ ~InChan(u, j)
        BY <1>0, <2>4, Zenon DEF AtMostOnce
      <3>3. /\ \A d \in Callers : caller'[d] # j
            /\ \A u \in Threads : job'[u] = j <=> u = t
        BY <1>0, <2>2, <2>4, <3>2, Zenon
      <3> QED
        BY <2>1, <2>3, <3>1, <3>2, <3>3, AtJob, Zenon
    <2>5. CASE j # caller[c]
      BY <1>0, <2>1, <2>2, <2>3, <2>5, SameAccount, Zenon
    <2> QED
      BY <2>4, <2>5
  <1>4. ASSUME NEW t \in Threads, StartFirst(t)
        PROVE  AtMostOnce(j)' /\ Accounted(j)'
    <2>1. /\ UNCHANGED <<chan, unsent, caller, job>> /\ job[t] \in Tasks
      BY <1>0, <1>4 DEF StartFirst, TypeOK
    <2>2. fate'[j] = IF j = job[t] THEN "started" ELSE fate[j]
      BY <1>0, <1>4, <2>1 DEF StartFirst, TypeOK
    <2>3. \A u \in Threads : InChan(u, j)' <=> InChan(u, j)
      BY <2>1, Zenon DEF InChan
    <2>4. j = job[t] => Placed(j)
      BY Zenon DEF Placed
    <2>5. "started" \notin Over
      BY DEF Over
    <2> QED
      BY <2>1, <2>2, <2>3, <2>4, <2>5, SameAccount, Zenon
  <1>5. ASSUME NEW t \in Threads, SetPriorityFails(t) \/ Finish(t) \/ Panic(t)
        PROVE  AtMostOnce(j)' /\ Accounted(j)'
    <2>1. /\ UNCHANGED <<chan, unsent, caller>> /\ job[t] \in Tasks
          /\ \E f \in Over : fate' = [fate EXCEPT ![job[t]] = f]
          /\ job' = [job EXCEPT ![t] = NoTask]
      BY <1>0, <1>5 DEF SetPriorityFails, Finish, Panic, TypeOK, Over
    <2>2. /\ \A u \in Threads : job'[u] = IF u = t THEN NoTask ELSE job[u]
          /\ j = job[t] => fate'[j] \in Over
          /\ j # job[t] => fate'[j] = fate[j]
      BY <1>0, <2>1 DEF TypeOK
    <2>3. \A u \in Threads : InChan(u, j)' <=> InChan(u, j)
      BY <2>1, Zenon DEF InChan
    <2>4. CASE j = job[t]
      <3>1. Placed(j) /\ j \notin unsent
        BY <1>0, <2>4, Zenon DEF Accounted, Placed
      <3>2. /\ \A d \in Callers : caller[d] # j
            /\ \A u \in Threads : (job[u] = j => u = t) /\ ~InChan(u, j)
        BY <1>0, <2>4, Zenon DEF AtMostOnce
      <3> QED
        BY <1>0, <2>1, <2>2, <2>3, <2>4, <3>1, <3>2, AtEnd, Zenon
    <2>5. CASE j # job[t]
      BY <1>0, <2>1, <2>2, <2>3, <2>5, SameAccount, Zenon
    <2> QED
      BY <2>4, <2>5
  <1>6. ASSUME NEW t \in Threads, Park(t)
        PROVE  AtMostOnce(j)' /\ Accounted(j)'
    <2>1. UNCHANGED <<chan, unsent, caller, job, fate>>
      BY <1>6, Zenon DEF Park
    <2> QED
      BY <2>1, SameAccount, Zenon DEF InChan
  <1>7. ASSUME NEW t \in Threads, Receive(t)
        PROVE  AtMostOnce(j)' /\ Accounted(j)'
    <2>1. /\ chan[t] \in Seq(Tasks) /\ Len(chan[t]) = 1
          /\ UNCHANGED <<unsent, caller>> /\ job[t] = NoTask
      BY <1>0, <1>7 DEF Receive, TypeOK, PoolInv, NeverBehindBusyThread
    <2> DEFINE k == chan[t][1]
    <2>2. k \in Tasks /\ Head(chan[t]) = k /\ Len(Tail(chan[t])) = 0 /\ InChan(t, k)
      BY <2>1 DEF InChan
    <2>3. /\ \A u \in Threads : job'[u] = IF u = t THEN k ELSE job[u]
          /\ \A u \in Threads : u # t => chan'[u] = chan[u]
          /\ Len(chan'[t]) = 0
          /\ fate'[j] = IF j = k THEN "started" ELSE fate[j]
      BY <1>0, <1>7, <2>2 DEF Receive, TypeOK
    <2>4. InChan(t, j) => j = k
      BY <2>1 DEF InChan
    <2> HIDE DEF k
    <2>5. \A u \in Threads : InChan(u, j)' <=> u # t /\ InChan(u, j)
      BY <2>3 DEF InChan
    <2>6. CASE j = k
      <3>1. Placed(j) /\ j \notin unsent
        BY <1>0, <2>2, <2>6, Zenon DEF Accounted, Placed
      <3>2. /\ \A d \in Callers : caller[d] # j
            /\ \A u \in Threads : job[u] # j /\ (InChan(u, j) => u = t)
        BY <1>0, <2>2, <2>6, Zenon DEF AtMostOnce
      <3>3. fate'[j] \notin Over
        BY <2>3, <2>6 DEF Over
      <3>4. /\ \A u \in Threads : job'[u] = j <=> u = t
            /\ \A d \in Callers : caller'[d] # j
            /\ \A u \in Threads : ~InChan(u, j)'
        BY <2>1, <2>3, <2>5, <2>6, <3>2
      <3>5. j \notin unsent'
        BY <2>1, <3>1
      <3> QED
        BY <3>3, <3>4, <3>5, AtJob, Zenon
    <2>7. CASE j # k
      <3>1. /\ \A u \in Threads : job'[u] = j <=> job[u] = j
            /\ \A d \in Callers : caller'[d] = j <=> caller[d] = j
            /\ \A u \in Threads : InChan(u, j)' <=> InChan(u, j)
        BY <1>0, <2>1, <2>3, <2>4, <2>5, <2>7
      <3>2. (j \in unsent' <=> j \in unsent) /\ fate'[j] = fate[j]
        BY <2>1, <2>3, <2>7
      <3> QED
        BY <3>1, <3>2, SameAccount, Zenon
    <2> QED
      BY <2>6, <2>7
  <1>8. CASE UNCHANGED vars
    BY <1>8, SameAccount, Zenon DEF vars, InChan
  <1> QED
    BY <1>1, <1>2, <1>3, <1>4, <1>5, <1>6, <1>7, <1>8, Zenon DEF Next

\* No action but SetPriorityFails drops a closure, and that one has no place in a pool
\* of normal priority.
LEMMA DropStep == TypeOK /\ DroppedWithPriority /\ [Next]_vars => DroppedWithPriority'
  <1> SUFFICES ASSUME TypeOK, DroppedWithPriority, [Next]_vars,
                      NEW k \in Tasks, fate'[k] = "dropped", fate[k] # "dropped"
               PROVE  Priority # "Normal"
    BY DEF DroppedWithPriority
  <1>1. fate \in [Tasks -> Fates] /\ fate' # fate
    BY DEF TypeOK
  <1>2. CASE \E t \in Threads : SetPriorityFails(t)
    BY <1>2 DEF SetPriorityFails
  <1>3. CASE \E t \in Threads : StartFirst(t) \/ Finish(t) \/ Panic(t) \/ Receive(t)
    BY <1>1, <1>3 DEF StartFirst, Finish, Panic, Receive
  <1>4. CASE UNCHANGED fate
    BY <1>1, <1>4
  <1> QED
    BY <1>2, <1>3, <1>4 DEF Next, vars, ExecuteOnIdle, ExecuteFindsNoIdle, Spawn, Park

\* No closure passed to execute is lost or in two places, however the callers and the
\* threads interleave and whichever of them panic or exit.
THEOREM PoolExactlyOnePlace == Spec => []ExactlyOnePlace
  <1>1. Init => OnePlace
    <2> SUFFICES ASSUME Init, NEW k \in Tasks PROVE AtMostOnce(k) /\ Accounted(k)
      BY Zenon DEF OnePlace
    <2>1. ~Placed(k) /\ k \in unsent /\ fate[k] = "open"
      BY PoolAssumption DEF Init, Placed, InChan
    <2> QED
      BY <2>1 DEF AtMostOnce, Accounted, Placed, Over
  <1>2. Init => DroppedWithPriority
    BY DEF Init, DroppedWithPriority
  <1>3. PoolInv => TypeOK
    BY DEF PoolInv
  <1>4. Spec => [](PoolInv /\ OnePlace /\ DroppedWithPriority)
    BY <1>1, <1>2, <1>3, PoolInit, PoolStep, OnePlaceStep, DropStep, PTL DEF Spec
  <1> QED
    BY <1>4, OnePlaceSuffices, PTL
=============================================================================
