SPECIFICATION FairBreakerSpec
CONSTANTS
    Callers = {c1, c2, c3}
    FailureThreshold = 3
    SuccessThresholdHalfOpen = 2
    MaxOutage = 7
INVARIANTS CountersFitState
PROPERTIES ClosesOnUnbrokenSuccesses EventuallyClosed
CHECK_DEADLOCK FALSE
