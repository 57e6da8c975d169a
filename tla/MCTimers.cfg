\* Two timers of two or four ticks and four buffers for them and for messages.
CONSTANTS
    t1 = t1
    t2 = t2
    b1 = b1
    b2 = b2
    b3 = b3
    b4 = b4
    Timer = {t1, t2}
    Buffer = {b1, b2, b3, b4}
    NULL = NULL
    Message = Message
    DISCARDED = DISCARDED
    Count = {1, 2}
    TimerResolution = 200
    SystemResolution = 100
    W = 5

SPECIFICATION FairSpec

INVARIANTS
    TypeOK
    TimerBufferCurrent
    TimeoutKnown
PROPERTIES
    OnTime
    TimeoutHandled
