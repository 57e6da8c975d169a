\* Two servers, each of which stands in for the other; both start, and start again.
CONSTANTS
    m1 = m1
    Servers = 2
    Area <- TwoAreas
    ObjId = {0, 1, 2, INVALID_32}
    INVALID_32 = INVALID_32
    INVALID_08 = 255
    Message = {m1}
    NULL = NULL
    MaxStarts = 3
    MaxConn = 2

SPECIFICATION FairSpec

INVARIANTS
    TypeOK
    ActiveWatched
PROPERTIES
    CrashNoticed
    MessageHandled

CHECK_DEADLOCK FALSE
