SPECIFICATION FairSpec
CONSTANTS
  TotalSize = 8
  CmdSlots = 3
  Prologue = 2
  Shape <- MixedShapes
  MaxCommands = 6
  WaitGivesUp = TRUE
INVARIANTS
  TypeOK
  OffsetsAgree
  ProtectedElsewhere
  ReleaseForWaiter
PROPERTIES
  CommandSent
CHECK_DEADLOCK FALSE
