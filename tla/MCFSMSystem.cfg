\* Three automates, two mailboxes; the process may end.
CONSTANTS
    o1 = o1
    o2 = o2
    o3 = o3
    Object = {o1, o2, o3}
    NULL = NULL
    NumberOfObjects = 3
    NumberOfMbx = 2
    MaxCount = 4

SPECIFICATION FairSpec

INVARIANTS
    TypeOK
    HandedOutOnce
    ListIntact
    EndsOnlyWhenAllWork
PROPERTIES
    StopReturns

CHECK_DEADLOCK FALSE
