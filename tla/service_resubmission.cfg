CONSTANTS
    j1 = j1
    r1 = r1
    r2 = r2
    Jobs <- OneJob
    Requests <- Resubmission
    Straight <- OneRequest
    JobOf <- SameJob
    MaxRetries = 0
    HasTimeOut = TRUE
    HasTTL = TRUE
    UserMayDelete = FALSE
    FaultKinds = {"api", "store", "network", "crash"}
    None = None
SPECIFICATION Spec
CHECK_DEADLOCK FALSE
INVARIANTS TypeOK CircuitBeforeResource FailureIsReal SuccessIsReal
