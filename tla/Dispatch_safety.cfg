CONSTANTS
  d1 = d1  d2 = d2  u1 = u1  p1 = p1  p2 = p2
  Delivery = {d1, d2}
  User = {u1}
  UserOf <- OneUser
  Dispatcher = {p1, p2}
  MaxAttempts = 2
  BatchSize = 2
  MaxAbandoned = 1
  MaxOverruns = 1
  MaxErased = 1
SPECIFICATION Spec
CHECK_DEADLOCK FALSE
SYMMETRY Passes
INVARIANTS ClaimsAreExclusive AttemptsWithinBudget DuplicatesHaveACause OutcomesAreTrue
