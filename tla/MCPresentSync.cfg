SPECIFICATION FairSpec
CONSTANTS
  Threads = {t1, t2}
  MaxFrames = 2
  MaxRetries = 1
  QueueSlots = 2
  MaxPresents = 4
  MaxOthers = 1
  MaxFocus = 1
INVARIANTS
  TypeOK
  LeadIsAwaited
  ReleasesArrive
PROPERTIES
  PresentReturns
CHECK_DEADLOCK FALSE
