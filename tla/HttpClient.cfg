SPECIFICATION FairSpec
CONSTANTS
    r1 = r1
    r2 = r2
    Requests = {r1, r2}
    MaxRetries = 2
INVARIANTS
    SafeRepeats
    ReturnsOneOf
    NothingLeft
    StopsWhenCancelled
    OutcomesMatch
    InflightPaired
PROPERTIES
    Returns
