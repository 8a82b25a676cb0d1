SPECIFICATION Spec
CONSTANTS
    Callers = {c1, c2}
    Tasks = {k1, k2}
    Threads = {t1, t2}
    NumCpus = 1
    Priority = "Normal"
    NoTask = NoTask
INVARIANT IdleThreadsLimited
CHECK_DEADLOCK FALSE
