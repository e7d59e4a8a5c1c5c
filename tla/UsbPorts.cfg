CONSTANTS
  InSize = 2
  OutSize = 2
  FifoSize = 3
  Plans <- EachAlone
SPECIFICATION Spec
INVARIANTS
  AnswersAreRight
  BytesInOrder
PROPERTIES
  BytesArrive
  InterruptNoticed
