SPECIFICATION FairSpec
CONSTANTS
    Runs = {r1}
    Invocations = {i1, i2}
    Crons = {c1}
    None = None
    MaxLease = 3
    MaxRetries = 1
    MaxFaults = 1
    CancelTries = 3
    Cancellable = {r1}
    PromptCreation = TRUE
INVARIANTS
    TypeOK
    OneTerminalRecord
    CompletionByNewestLease
    AnswersAreTrue
    WaitingRunsAreUnowned
PROPERTIES
    TerminalIsFinal
    LiveLeaseIsKept
    ImplementsLedger
    EveryRunEnds
CHECK_DEADLOCK FALSE
