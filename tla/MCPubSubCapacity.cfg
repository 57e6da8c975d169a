\* More new topics than rows.
CONSTANTS
    c1 = c1
    c2 = c2
    Clients = {c1, c2}
    NoClient = NoClient
    Upper <- MCUpper
    Other <- MCOther
    Preset <- MCPreset
    Items <- MCItems
    Topics <- UpperTopics
    RowLen = 16
    MAX_PUBLISHERS = 4
    Failures = {}
    Network = {}
    Asked <- WellFormed
    MaxFaults = 0
    MaxPublish = 3

SPECIFICATION Spec
CHECK_DEADLOCK FALSE

INVARIANTS
    PublishStaysInBounds
