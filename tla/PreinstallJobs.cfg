SPECIFICATION FairSpec
CONSTANTS
    a = a
    b = b
    Workers = {w1, w2}
    Catalogs <- Listings
    FirstCatalog <- OneApp
    None = None
    MaxAttempts = 2
    MaxChanges = 2
    MaxFaults = 1
INVARIANTS
    CompletedMeansInstalled
    OneWorkerPerJob
PROPERTIES
    EveryJobEnds
CHECK_DEADLOCK FALSE
