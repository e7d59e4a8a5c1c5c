CONSTANTS
  Pool = 4
  NChunk = 2
  StackSize = 1
  MaxLen = 2
  Slack = 0
  Ops = {"list", "frame", "blob"}
SPECIFICATION HeapLive
INVARIANTS
  Layout
  ChunksAreLowest
PROPERTIES
  OldObjectsStay
  SlideIsSafe
  AllocReturns
  ImplementsObjectGraph
