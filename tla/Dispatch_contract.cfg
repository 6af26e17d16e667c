CONSTANTS
  d1 = d1  d2 = d2  u1 = u1  p1 = p1  p2 = p2
  Delivery = {d1, d2}
  User = {u1}
  UserOf <- OneUser
  Dispatcher = {p1, p2}
  MaxAttempts = 2
  BatchSize = 2
  MaxAbandoned = 1
  MaxOverruns = 0
  MaxErased = 1
SPECIFICATION FairSpec
CHECK_DEADLOCK FALSE
PROPERTIES SettledIsFinal RefinesContract Drains
