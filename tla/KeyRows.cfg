SPECIFICATION Spec
CONSTANTS
    r1 = r1
    r2 = r2
    s1 = s1
    s2 = s2
    Writes = {r1, r2}
    Slaves = {s1, s2}
    OldValue = OldValue
    NoString = NoString
INVARIANTS
    TypeOK
    OneRow
    ReplicasAgree
PROPERTIES
    LastWriteShows
CHECK_DEADLOCK FALSE
