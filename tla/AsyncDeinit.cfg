SPECIFICATION Spec
CONSTANTS
    Writers = {w1}
    NoThread = NoThread
    Byte = {1, 2, 3}
    Logs <- MCLogs
    OUTPUT_BUF_SIZE = 4
    POLL_SIZE = 3
    MaxLogs = 2
    MaxInits = 1
INVARIANTS
    NothingLeftBehind
CHECK_DEADLOCK FALSE
