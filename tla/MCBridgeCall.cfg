SPECIFICATION FairSpec
CONSTANTS
  Threads = {t1, t2}
  Kinds = {"locked", "unlocked", "reset"}
  Settings = {TRUE, FALSE}
  Retries = 1
  MaxCalls = 4
  ResponseSlots = 2
INVARIANTS
  TypeOK
  OwnAnswer
  HeadersMatchData
PROPERTIES
  CallsReturn
CHECK_DEADLOCK FALSE
