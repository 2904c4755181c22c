SPECIFICATION FairSpec
CONSTANTS
  QueueSize = 3
  Object = {o1, o2}
  Default = default
  Torn = torn
  PushMayTimeOut = TRUE
  MaxPushed = 5
INVARIANTS
  TypeOK
  ReferenceStable
PROPERTIES
  FifoSpec
  PushReturns
CHECK_DEADLOCK FALSE
