CONSTANTS
    Jobs = {j1}
    MaxRetries = 1
    HasTimeOut = FALSE
    HasTTL = FALSE
    UserMayDelete = FALSE
    FaultKinds = {"crash"}
    MaxFaults = 1
    MaxPodFailures = 1
    None = None
SPECIFICATION TerseSpec
CHECK_DEADLOCK FALSE
INVARIANTS CompletedByItsAttempt FailedForAReason
PROPERTIES TerminalIsFinal ImplementsLifecycle
