CONSTANTS
  Goroutines = {g1}
  MaxCalls = 1
  MaxDepth = 1
  MaxLines = 1
SPECIFICATION Spec
INVARIANT SpanStatus
CHECK_DEADLOCK FALSE
