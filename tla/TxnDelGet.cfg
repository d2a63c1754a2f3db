SPECIFICATION FairSpec
CONSTANTS
    r1 = r1
    r2 = r2
    w1 = w1
    w2 = w2
    ok = ok
    Sets = {}
    Dels = {r1}
    Gets = {r2}
    Requests = {r1, r2}
    Op <- MCOp
    NumSlaves = 2
    MaxAttempts = 3
    Workers = {w1, w2}
    Values = {ok}
    Failed = Failed
    Idle = Idle
INVARIANTS
    PendingHasTask
    NotStarved
PROPERTY
    AllServed
CHECK_DEADLOCK FALSE
