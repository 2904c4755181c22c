SPECIFICATION Spec
CONSTANTS
  MaxChunks = 6
  SegmentChunks = 3
  Sizes <- MCSizes
  MaxIds = 4
  QueueSlots = 2
INVARIANTS
  TypeOK
  AllocationsApart
  ServerAgrees
CHECK_DEADLOCK FALSE
PROPERTIES
  KeepsPromise
