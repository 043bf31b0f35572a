CONSTANTS
    j1 = j1
    r1 = r1
    r2 = r2
    Jobs <- OneJob
    Requests <- Resubmission
    Straight <- Resubmission
    JobOf <- SameJob
    MaxRetries = 0
    HasTimeOut = TRUE
    HasTTL = FALSE
    UserMayDelete = FALSE
    FaultKinds = {}
    None = None
SPECIFICATION Spec
CHECK_DEADLOCK FALSE
INVARIANT OneCircuitPerJob
