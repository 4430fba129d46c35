CONSTANTS
  Ring = 2
  Modulus = 4
  MaxCycles = 7
  MaxCPU = 3
  Keys = {"traceparent", "baggage"}
  Values = {0, 1}
  None = 0
  Unset = 2
  MaxHeaders = 3
  MaxDuration = 31
  Second = 3
  Cap = 10
  MaxAttempts = 7
SPECIFICATION Algorithms
INVARIANTS ReadsAsWritten 
PROPERTY SamplesOnce
CHECK_DEADLOCK FALSE
