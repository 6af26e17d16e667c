CONSTANTS
  b1 = b1  k1 = k1  r1 = r1  r2 = r2
  User <- Three
  Broadcast = {b1}
  Key = {k1}
  KeyOf <- SameKey
  Lists <- AllOrSome
  Run = {r1, r2}
  PageSize = 2
  MaxAttempts = 1
  MaxFailures = 1
  MaxErasures = 1
SPECIFICATION FairSpec
CHECK_DEADLOCK FALSE
INVARIANTS OneEach FannedOutIsTold
PROPERTIES DoneIsTold QueuedIsFannedOut
