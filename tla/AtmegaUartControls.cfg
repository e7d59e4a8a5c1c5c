CONSTANTS
  RingSize = 4
  Wrap = 8
  Lag = 1
  Controls = {"intr", "stop", "go", "ping"}
SPECIFICATION Spec
INVARIANTS
  WritesAreExact
