\* The lookup of a topic over small memories.
CONSTANTS
    Upper <- MCUpper
    Other <- MCOther
    Preset <- MCPreset
    RowLen = 9
    MAX_PUBLISHERS = 4
    Memories <- MCMemories
    Asked <- MCAsked

SPECIFICATION ScanSpec
CHECK_DEADLOCK FALSE

INVARIANTS
    ScanInBounds
    ScanComputesReply
PROPERTIES
    ScanEnds
