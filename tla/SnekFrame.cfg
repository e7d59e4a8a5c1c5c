CONSTANTS
  Name = {x, y}
  Value = {none, func}
  Null = none
  Default = none
  GLOBAL = GLOBAL
  NoId = NoId
  NoCall = NoCall
  VarBytes = 8
  IdEnd = 6
  MaxFormals = 2
  MaxFrames = 2
  MaxGlobals = 2
SYMMETRY Symmetry
SPECIFICATION Spec
INVARIANTS
  NamesOnce
PROPERTY ImplementsScopes
