SPECIFICATION Spec
CONSTANTS
    t2 = t2
    t1 = t1
    c1 = c1
    w2 = w2
    w1 = w1
    Workers = {w1, w2}
    Callers = {c1}
    Tasks = {t1, t2}
    Owner = Owner
    NoTask = NoTask
    NoThread = NoThread
INVARIANT FrontHasTask
CHECK_DEADLOCK FALSE
