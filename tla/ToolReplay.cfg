SPECIFICATION Spec
CONSTANTS
    Keys = {k1}
    Tools = {t1}
    Requests = {q1, q2}
    None = None
    MaxLease = 1
    MaxFaults = 1
    LostSuccess = TRUE
SYMMETRY Symmetry
INVARIANT AtMostOnceEffect
CHECK_DEADLOCK FALSE
