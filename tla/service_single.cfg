CONSTANTS
    j1 = j1
    r1 = r1
    r2 = r2
    Jobs <- OneJob
    Requests <- OneRequest
    Straight <- NoRequest
    JobOf <- SameJob
    MaxRetries = 1
    HasTimeOut = TRUE
    HasTTL = TRUE
    UserMayDelete = TRUE
    FaultKinds = {"api", "network", "crash"}
    None = None
SPECIFICATION FairSpec
CHECK_DEADLOCK FALSE
INVARIANTS BrokenForAReason CompletedHasResult
PROPERTIES AnswerArrives WorkerEnds
