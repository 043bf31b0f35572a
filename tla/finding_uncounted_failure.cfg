CONSTANTS
    Jobs = {j1}
    MaxRetries = 1
    HasTimeOut = FALSE
    HasTTL = FALSE
    UserMayDelete = FALSE
    FaultKinds = {}
    MaxFaults = 0
    MaxPodFailures = 2
    None = None
SPECIFICATION Spec
CHECK_DEADLOCK FALSE
INVARIANT EachFailureCounts
