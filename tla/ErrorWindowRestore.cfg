CONSTANTS
  Insns = {"ADD_reg", "MUL"}
  Classes = {"a", "b"}
  FileLines <- MCFileLines
  CommandLines <- MCCommandLines
  Program <- MCProgram
  PageSize = 4
  Entry = 1
  Vector = 7
  MaxCommands = 2
SPECIFICATION Spec
INVARIANT StateIsRestored
CHECK_DEADLOCK FALSE
