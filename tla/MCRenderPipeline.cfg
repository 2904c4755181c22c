SPECIFICATION FairSpec
CONSTANTS
  Present = Present
  MaxQueued = 1
  MaxRecycled = 1
  MayFail = TRUE
  MaxCommands = 4
  Rereads = FALSE
INVARIANTS
  TypeOK
  MappedIsUntouched
  RecordedListIsIdle
  IdleIsIdle
PROPERTIES
  CallsEnd
CHECK_DEADLOCK FALSE
