SPECIFICATION FairSpec
CONSTANTS
    c1 = c1
    c2 = c2
    Callers = {c1, c2}
    Threshold = 1
    OpenTimeout = 1
    MaxFailures = 1
    MaxConcurrent = 1
    MaxWait = 1
    MaxAttempts = 2
    Retryable <- RetryTransient
    Waived <- WaiveBusiness
INVARIANTS
    TypeOK
    SlotsInsideBreaker
    OpensOnlyWhenBlamed
PROPERTIES
    TripsWhenDown
    CallsEnd
