SPECIFICATION FairSpec
CONSTANTS
    c1 = c1
    c2 = c2
    c3 = c3
    Callers = {c1, c2, c3}
    Threshold = 2
    OpenTimeout = 2
    MaxFailures = 4
    Outcomes = {"ok", "failure", "cancelled", "ignored", "panic"}
INVARIANTS
    ClosedIffBelowThreshold
    TokenAccounted
    ProbesAccounted
    NotificationsBalance
PROPERTIES
    ImplementsCircuit
    OpenEnds
    ProbeEnds
    Recovers
