SPECIFICATION FairSpec
CONSTANTS
    Callers = {c1, c2}
    Tasks = {k1, k2, k3, k4}
    Threads = {t1, t2, t3, t4}
    NumCpus = 1
    Priority = "High"
    NoTask = NoTask
INVARIANTS
    IdleThreadsAreFree NeverBehindBusyThread ExactlyOnePlace
PROPERTIES
    EveryTaskStarts
CHECK_DEADLOCK FALSE
