\* Every call of the socket library may fail, a datagram may be lost and one
\* duplicated.
CONSTANTS
    c1 = c1
    c2 = c2
    Clients = {c1, c2}
    NoClient = NoClient
    Upper <- MCUpper
    Other <- MCOther
    Preset <- MCPreset
    Items <- MCItems
    Topics <- FewTopics
    RowLen = 20
    MAX_PUBLISHERS = 6
    Failures = {"start", "recvfrom", "sendto"}
    Network = {"lose", "duplicate"}
    Asked <- AllRequests
    MaxFaults = 1
    MaxPublish = 1

SPECIFICATION Spec
SYMMETRY Symmetry
\* A failed call stops the server, a lost datagram a client.
CHECK_DEADLOCK FALSE

INVARIANTS
    NoUnexpectedEvent
    StopsOnlyOnFailure
    AnswerMatches
    PresetDataConsistent
