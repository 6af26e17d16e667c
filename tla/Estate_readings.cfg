CONSTANTS
  u1 = u1  u2 = u2  f1 = f1  f2 = f2  i1 = i1  i2 = i2  i3 = i3  s1 = s1  s2 = s2
  Users = {u1, u2}
  Org = org
  Nobody = nobody
  Facts = {f1, f2}
  Thing = thing
  SessionOf <- Sessions
  Chain = chain
  EventIds = {i1, i2, i3}
  Stories <- All
SPECIFICATION Spec
CHECK_DEADLOCK FALSE
INVARIANTS NewsReachesTheConcerned TheSinksAgree ErasureIsComplete DistinctFactsAreTold OneFactOneNotice
