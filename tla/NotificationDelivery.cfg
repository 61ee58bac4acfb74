SPECIFICATION FairSpec
CONSTANTS
    Dispatchers = {flush, cron}
    Crons = {cron}
    Sweepers = {sweep}
    Msgs = {m1, m2}
    None = None
    MaxRetries = 1
    MaxFaults = 2
INVARIANTS
    OneEmission
    OnePostWithoutFaults
PROPERTIES
    KeepsPromise
    EveryOutcomeSettles
CHECK_DEADLOCK FALSE
