SPECIFICATION Spec
CONSTANTS
    r1 = r1
    w1 = w1
    w2 = w2
    ok = ok
    Sets = {r1}
    Dels = {}
    Gets = {}
    Requests = {r1}
    Op <- MCOp
    NumSlaves = 2
    MaxAttempts = 3
    Workers = {w1, w2}
    Values = {ok}
    Failed = Failed
    Idle = Idle
INVARIANTS
    TypeOK
    Agreement
    FinishedIsDone
PROPERTY
    ImplementsAtomicWrite
CHECK_DEADLOCK FALSE
