SPECIFICATION Spec
CONSTANTS
  MaxIndent = 2
  Allowed <- FewLines
INVARIANTS RunsWhatIsTyped WholeCommands FindsBack
CHECK_DEADLOCK FALSE
