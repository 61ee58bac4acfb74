SPECIFICATION Spec
CONSTANTS
    Keys = {k1}
    Tools = {t1, t2}
    Requests = {q1, q2, q3, q4}
    None = None
    MaxLease = 2
    MaxFaults = 1
    LostSuccess = FALSE
SYMMETRY Symmetry
INVARIANTS
    TypeOK
    AtMostOnceEffect
    OutcomesAreTrue
PROPERTY UncertainIsKept
CHECK_DEADLOCK FALSE
