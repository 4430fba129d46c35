SPECIFICATION Spec
CONSTANTS
    r1 = r1
    Requests = {r1}
    MaxRetries = 1
INVARIANTS
    WarnedWhenAllFail
