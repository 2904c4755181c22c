SPECIFICATION Spec
CONSTANTS
  Present = Present
  MaxQueued = 1
  MaxRecycled = 1
  MayFail = FALSE
  MaxCommands = 4
  Rereads = TRUE
INVARIANTS
  MappedIsUntouched
CHECK_DEADLOCK FALSE
