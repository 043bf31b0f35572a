CONSTANTS
    j1 = j1
    r1 = r1
    r2 = r2
    Jobs <- OneJob
    Requests <- OneRequest
    Straight <- OneRequest
    JobOf <- SameJob
    MaxRetries = 0
    HasTimeOut = TRUE
    HasTTL = FALSE
    UserMayDelete = FALSE
    FaultKinds = {"api"}
    None = None
SPECIFICATION Spec
CHECK_DEADLOCK FALSE
PROPERTY NotCompletedIsTrue
