\* Two sizes of buffers, without assertions: the list of the smaller one runs empty.
CONSTANTS
    t1 = t1
    t2 = t2
    b1 = b1
    b2 = b2
    b3 = b3
    b4 = b4
    Thread = {t1, t2}
    NoThread = NoThread
    Buffer = {b1, b2, b3}
    NULL = NULL
    BuffersLength <- TwoLengths
    BUFF_CODE <- TwoCodes
    Length = {50, 100}
    Debug = FALSE
    MaxHeld = 2
    MaxDepth = 1

SPECIFICATION Spec
CHECK_DEADLOCK FALSE

INVARIANTS
    LockedOnlyInCalls
