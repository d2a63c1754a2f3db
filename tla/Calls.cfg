SPECIFICATION FairSpec
CONSTANTS
    Ops <- MCOps
    MaxAttempts = 3
INVARIANTS
    TypeOK
    TriedFirst
    EndsOnLateReply
PROPERTIES
    ImplementsSlaveWrite
    CallEnds
CHECK_DEADLOCK FALSE
