SPECIFICATION Spec
CONSTANTS
  Images = 2
  Interpolated = 2
  MaxFrames = 3
INVARIANTS
  RecreateIsSafe
CHECK_DEADLOCK FALSE
