\* Two threads besides the system thread; semaphores that reach their maximum.
CONSTANTS
    sys = sys
    t1 = t1
    t2 = t2
    b1 = b1
    b2 = b2
    Thread = {sys, t1, t2}
    System = sys
    Buffer = {b1, b2}
    MailBoxesNum = 2
    MaxSem = 2
    MaxHeld = 2

SPECIFICATION FairSpec

INVARIANTS
    TypeOK
    NoLostWakeup
    OnePlace
    StoppedNotDelivered
PROPERTIES
    FirstMailboxServed
    QuietMailboxServed
