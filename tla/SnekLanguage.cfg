SPECIFICATION Spec
CONSTANTS
  ValueStackSize = 16
  StackSize = 8
  Omitted = 32764
  BuiltinPrint = 1
  BuiltinAbs = 2
  BuiltinNone = 3
  Underscore = 4
  Programs <- AllPrograms
INVARIANTS StackDiscipline OnInstruction ParserStackKept Agreement
PROPERTY Ends
