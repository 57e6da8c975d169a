\* No faults: two clients, every kind of request.
CONSTANTS
    c1 = c1
    c2 = c2
    Clients = {c1, c2}
    NoClient = NoClient
    Upper <- MCUpper
    Other <- MCOther
    Preset <- MCPreset
    Items <- MCItems
    Topics <- MCTopics
    RowLen = 16
    MAX_PUBLISHERS = 6
    Failures = {}
    Network = {}
    Asked <- SafeRequests
    MaxFaults = 0
    MaxPublish = 2

SPECIFICATION FairSpec
\* An unrecognized request stops the server.
CHECK_DEADLOCK FALSE

INVARIANTS
    TypeOK
    PresetDataCurrent
    ListCurrent
PROPERTIES
    PublishTouchesOnlyItsTopic
    EveryRequestAnswered
