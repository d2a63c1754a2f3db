SPECIFICATION FairSpec
CONSTANTS
    t2 = t2
    t3 = t3
    t1 = t1
    c2 = c2
    c1 = c1
    w2 = w2
    w1 = w1
    w3 = w3
    Workers = {w1, w2, w3}
    Callers = {c1, c2}
    Tasks = {t1, t2, t3}
    Owner = Owner
    NoTask = NoTask
    NoThread = NoThread
INVARIANTS
    TypeOK
    CountersInv
    NoLostWakeup
    OnePlace
    AbortsAtRest
PROPERTIES
    StopReturns
    ImplementsTaskQueue
CHECK_DEADLOCK FALSE
