SPECIFICATION Spec
CONSTANTS
    Requests = {q1, q2, q3, q4}
    None = None
    MaxLease = 2
    MaxStep = 2
    MaxTries = 2
    MaxFaults = 2
SYMMETRY Symmetry
INVARIANTS
    AckedStepSurvives
    PointerIsReadable
    EndedRunHasNoCheckpoint
    GarbageIsBounded
CHECK_DEADLOCK FALSE
