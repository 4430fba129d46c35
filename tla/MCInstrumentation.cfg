CONSTANTS
  Goroutines = {g1, g2}
  MaxCalls = 2
  MaxDepth = 2
  MaxLines = 1
SYMMETRY Symmetry
SPECIFICATION Spec
INVARIANTS TypeOK SpansAccounted GaugesPaired Tallies 
CHECK_DEADLOCK FALSE
