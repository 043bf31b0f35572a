CONSTANTS
    ClientTimeOut = 5
    Interval = 1
    JobTimeOut = 4
    TTL = 4
    StoreTTL = 8
    Lag = 1
    MaxTime = 22
SPECIFICATION Spec
CHECK_DEADLOCK FALSE
INVARIANTS TimedOutIsTrue
