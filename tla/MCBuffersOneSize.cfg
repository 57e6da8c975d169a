\* One size of buffers, more requests than buffers, with assertions.
CONSTANTS
    t1 = t1
    t2 = t2
    b1 = b1
    b2 = b2
    b3 = b3
    b4 = b4
    Thread = {t1, t2}
    NoThread = NoThread
    Buffer = {b1, b2, b3}
    NULL = NULL
    BuffersLength <- OneLength
    BUFF_CODE <- OneCode
    Length = {100}
    Debug = TRUE
    MaxHeld = 2
    MaxDepth = 1

SPECIFICATION FairSpec
\* Exhaustion ends the process.
CHECK_DEADLOCK FALSE

PROPERTIES
    CallsReturn
