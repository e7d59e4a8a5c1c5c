SPECIFICATION Spec
CONSTANTS
  Full = 2
  Samples = 3
  Steps <- ToneSteps
  Boards <- AllBoards
INVARIANTS OutputsAreRight InputsAreQuiet
PROPERTY ToneFollows
