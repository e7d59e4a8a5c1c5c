CONSTANTS
  Pool = 5
  NChunk = 2
  StackSize = 2
  MaxLen = 2
  Slack = 0
  Ops = {"list", "num"}
SPECIFICATION HeapSpec
INVARIANTS
  FullCollectionPacks
PROPERTY
  ImplementsObjectGraph
