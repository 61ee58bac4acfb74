SPECIFICATION Spec
CONSTANTS
    Runs = {r1}
    Invocations = {i1, i2}
    Crons = {c1}
    None = None
    MaxLease = 3
    MaxRetries = 1
    MaxFaults = 1
    CancelTries = 2
    Cancellable = {r1}
    PromptCreation = FALSE
SYMMETRY Symmetry
PROPERTY TerminalIsFinal
CHECK_DEADLOCK FALSE
