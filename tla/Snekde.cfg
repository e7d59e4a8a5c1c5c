CONSTANTS
  Ring = 4
  Fifo = 16
  RomSize = 5
  Limit = 4
  TabWidth = 2
  PageLines = 2
  Plans <- AllPlans
SPECIFICATION Spec
INVARIANTS
  FilesAgree
  NoOverrun
  EditsCanBeUndone
PROPERTIES
  Settles
  InterruptStops
CHECK_DEADLOCK FALSE
