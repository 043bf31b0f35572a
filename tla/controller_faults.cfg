CONSTANTS
    Jobs = {j1}
    MaxRetries = 1
    HasTimeOut = TRUE
    HasTTL = TRUE
    UserMayDelete = TRUE
    FaultKinds = {"crash", "api"}
    MaxFaults = 1
    MaxPodFailures = 1
    None = None
SPECIFICATION FairSpec
CHECK_DEADLOCK FALSE
INVARIANTS TypeOK OneSimulatorAtATime CompletedWithoutError
PROPERTIES RetryDeletesOnlyFailedPods EventuallyFinished EventuallyCollected
