SPECIFICATION Spec
CONSTANTS
    Schemas = {s1, s2}
    Destructive = {s2}
    Threads = {t1, t2}
    Args = {a1}
    Runs = {r1, r2}
    Confirmations = {c1}
    Listings = {l1}
    Reviews = {v1}
    Deciders = {d1, d2}
    None = None
    MaxMoves = 2
SYMMETRY Alike
INVARIANTS
    OneCallPerApproval
    ApprovalIsSpentOnACall
    EnabledIsReviewed
PROPERTIES
    DecisionIsFinal
CHECK_DEADLOCK FALSE
