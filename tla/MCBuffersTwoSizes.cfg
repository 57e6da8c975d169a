\* Two sizes of buffers, without assertions.
CONSTANTS
    t1 = t1
    t2 = t2
    b1 = b1
    b2 = b2
    b3 = b3
    b4 = b4
    Thread = {t1, t2}
    NoThread = NoThread
    Buffer = {b1, b2, b3, b4}
    NULL = NULL
    BuffersLength <- TwoLengths
    BUFF_CODE <- ThreeCodes
    Length = {50, 100}
    Debug = FALSE
    MaxHeld = 2
    MaxDepth = 1

SPECIFICATION Spec
SYMMETRY Symmetry
\* Exhaustion ends the process, and a critical section may stay locked.
CHECK_DEADLOCK FALSE

INVARIANTS
    TypeOK
    ListsIntact
    NoBufferLost
PROPERTIES
    ImplementsPool
