-------------------------- MODULE MCMultiplexWrite --------------------------
(* Three partitions, blocks of at most two bytes (an abbreviated length).  *)
EXTENDS MultiplexWrite

Scaled == <<9, 8, 7, 2>>

Plan(t, e) == [total |-> t, ending |-> e]

\* Uneven lengths (none, less than a block, exactly full, more), with a failure in
\* the first, the middle and the last place, and two failures at once.
MCPlans ==
    { <<Plan(a, "ok"), Plan(b, "ok"), Plan(c, "ok")>> : a \in {0, 3}, b \in {0, 2}, c \in {1, 4} }
    \cup { <<Plan(3, "err"), Plan(0, "ok"), Plan(2, "ok")>>,
           <<Plan(1, "ok"), Plan(2, "panic"), Plan(3, "ok")>>,
           <<Plan(1, "err"), Plan(2, "ok"), Plan(1, "panic")>> }

PlanFunctions == { [p \in 0..2 |-> q[p + 1]] : q \in MCPlans }
=============================================================================
