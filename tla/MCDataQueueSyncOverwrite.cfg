SPECIFICATION Spec
CONSTANTS
  TotalSize = 8
  CmdSlots = 4
  Prologue = 2
  Shape <- FewShapes
  MaxCommands = 8
  WaitGivesUp = FALSE
INVARIANTS
  NoOverwrite
CHECK_DEADLOCK FALSE
