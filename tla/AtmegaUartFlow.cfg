CONSTANTS
  RingSize = 8
  Wrap = 2
  Lag = 1
  Controls = {"intr", "stop", "go"}
SPECIFICATION LiveSpec
INVARIANTS
  NoOverrun
  SomeoneSends
PROPERTIES
  HostResumes
  WritesArrive
