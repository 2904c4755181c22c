SPECIFICATION FairSpec
CONSTANTS
  Images = 2
  Interpolated = 2
  MaxFrames = 3
INVARIANTS
  TypeOK
  BuffersAreOwned
  RecreateIsIdle
  WaitsAreSignalled
PROPERTIES
  PresentsEnd
CHECK_DEADLOCK FALSE
