CONSTANTS
    Jobs = {j1}
    MaxRetries = 0
    HasTimeOut = TRUE
    HasTTL = FALSE
    UserMayDelete = FALSE
    FaultKinds = {}
    MaxFaults = 0
    MaxPodFailures = 0
    None = None
SPECIFICATION FairSpec
CHECK_DEADLOCK FALSE
PROPERTY TerminalJobIsCleanedUp
