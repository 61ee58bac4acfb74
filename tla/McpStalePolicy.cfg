SPECIFICATION Spec
CONSTANTS
    Schemas = {s1, s2}
    Destructive = {s2}
    Threads = {t1}
    Args = {a1}
    Runs = {r1}
    Confirmations = {c1}
    Listings = {l1}
    Reviews = {v1}
    Deciders = {d1}
    None = None
    MaxMoves = 3
SYMMETRY Alike
PROPERTIES
    CurrentPolicyDecides
CHECK_DEADLOCK FALSE
