SPECIFICATION LockSpec
CONSTANTS
  r1 = r1
  r2 = r2
  None = None
  Resources = {r1, r2}
  Flags <- AllFlags
  BufferIds = {1, 2, 3}
  Places = {1, 2}
  MaxLocks = 2
  MaxCommands = 3
  MaxWrites = 2
INVARIANTS
  LockTypeOK
  ServerReadsItsData
  LostInThreeWays
CHECK_DEADLOCK FALSE
