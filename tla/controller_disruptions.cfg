CONSTANTS
    Jobs = {j1}
    MaxRetries = 1
    HasTimeOut = TRUE
    HasTTL = FALSE
    UserMayDelete = FALSE
    FaultKinds = {"disruption", "read"}
    MaxFaults = 1
    MaxPodFailures = 1
    None = None
SPECIFICATION Spec
CHECK_DEADLOCK FALSE
INVARIANTS OnlyCurrentAttemptRuns CompletedByItsAttempt FailedForAReason
PROPERTIES TerminalIsFinal ImplementsLifecycle
