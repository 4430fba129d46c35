SPECIFICATION Spec
CONSTANTS
    c1 = c1
    c2 = c2
    Callers = {c1, c2}
    Threshold = 1
    OpenTimeout = 2
    MaxFailures = 3
    Outcomes = {"ok", "failure", "cancelled"}
SYMMETRY Symmetry
INVARIANTS
    SingleProbe
