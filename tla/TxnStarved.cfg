SPECIFICATION FairSpec
CONSTANTS
    r1 = r1
    r2 = r2
    w1 = w1
    w2 = w2
    ok = ok
    Sets = {r1}
    Dels = {r2}
    Gets = {}
    Requests = {r1, r2}
    Op <- MCOp
    NumSlaves = 1
    MaxAttempts = 3
    Workers = {w1, w2}
    Values = {ok}
    Failed = Failed
    Idle = Idle
PROPERTY ServedOrStarved
CHECK_DEADLOCK FALSE
