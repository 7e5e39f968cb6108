CONSTANTS
  Insns = {"ADD_reg", "MUL"}
  Classes = {"a", "b"}
  FileLines <- MCFileLines
  CommandLines <- MCCommandLines
  Program <- MCProgram
  PageSize = 4
  Entry = 1
  Vector = 7
  MaxCommands = 2
SPECIFICATION Spec
INVARIANTS
  ConfigAsWritten
  OpenWindowNeverLeft
PROPERTIES
  RestoreIsExact
  ErrorsInsideWindow
CHECK_DEADLOCK FALSE
