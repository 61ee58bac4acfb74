SPECIFICATION ReaderSpec
CONSTANTS
    Steps = {s1, s2, s3}
    Errors = {s3}
    TerminalIds = {1, 7}
    SegmentSize = 2
    RingSize = 2
    MaxBuffer = 2
    MaxKeys = 2
    Limit = 3
    MaxEventFaults = 1
SYMMETRY OtherSteps
INVARIANTS
    EventTypeOK
    ArchiveKeepsEvents
    OneEventPerRequest
PROPERTIES
    IdsIncrease
    ReplayIsComplete
CHECK_DEADLOCK FALSE
