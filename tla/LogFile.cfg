SPECIFICATION FairSpec
CONSTANTS
    caller = caller
    output = output
    other = other
    p1 = p1
    p2 = p2
    Threads = {caller, output, other}
    Processes = {p1, p2}
    ProcessOf <- MCProcessOf
    Earlier <- MCEarlier
    MAX_SIZE = 1
    MAX_ROTATE = 3
    MaxLogs = 2
    MaxFaults = 2
INVARIANTS
    TypeOK
    SemaphoreWhole
    LogsKept
PROPERTIES
    LockComesBack
