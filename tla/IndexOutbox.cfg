SPECIFICATION FairSpec
CONSTANTS
    Dispatchers = {flush, cron}
    Sweepers = {cron}
    MaxDeliveries = 4
    MaxRetries = 1
    MaxDlqRetries = 1
    MaxFaults = 2
INVARIANTS
    HandlerOwnsJob
PROPERTIES
    OutcomeIsFinal
    EveryJobEnds
CHECK_DEADLOCK FALSE
