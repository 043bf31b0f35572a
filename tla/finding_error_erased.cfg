CONSTANTS
    Jobs = {j1}
    MaxRetries = 0
    HasTimeOut = TRUE
    HasTTL = FALSE
    UserMayDelete = FALSE
    FaultKinds = {}
    MaxFaults = 0
    MaxPodFailures = 1
    None = None
SPECIFICATION Spec
CHECK_DEADLOCK FALSE
INVARIANT FailedHasErrorDetails
