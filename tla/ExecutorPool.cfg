\* One run, two leases, one place in a warm slot and one in a big one.
SPECIFICATION FairSpec
CONSTANTS
    Runs = {r1}
    Tier1 = {s1}
    Tier3 = {s3}
    Capacity <- OnePlace
    None = None
    MaxLease = 2
    MaxFaults = 2
INVARIANTS
    CapacityIsRespected
PROPERTIES
    LiveTokenIsKept
    PlacesReturn
CHECK_DEADLOCK FALSE
