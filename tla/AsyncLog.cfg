SPECIFICATION FairSpec
CONSTANTS
    Writers = {w1, w2}
    NoThread = NoThread
    Byte = {1, 2, 3}
    Logs <- MCLogs
    OUTPUT_BUF_SIZE = 4
    POLL_SIZE = 3
    MaxLogs = 3
    MaxInits = 2
INVARIANTS
    TypeOK
    InOrder
    NoLostNotice
PROPERTIES
    EverythingPrinted
    DeinitReturns
CHECK_DEADLOCK FALSE
