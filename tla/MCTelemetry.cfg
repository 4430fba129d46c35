CONSTANTS
  Order <- MCOrder
  Logs = "logs"
  Callers = {c1, c2}
  Errors = {e1, e2, e3}
  Window = 1
SPECIFICATION FairSpec
INVARIANTS ErrorsConserved LossesTraced
PROPERTIES ImplementsShutdown CloseEnds
CHECK_DEADLOCK FALSE
