CONSTANTS
  u1 = u1  u2 = u2  n1 = n1  n2 = n2  n3 = n3  f1 = f1  f2 = f2
  User = {u1}
  Item = {n1, n2}
  UserOf <- OneUser
  Flusher = {f1, f2}
  Limit = 1
  LastWindow = 2
  MaxLate = 1
  MaxErasures = 1
  MaxFailures = 1
SPECIFICATION FairSpec
CHECK_DEADLOCK FALSE
INVARIANTS SummariesNameTheirOwn OneSummaryEach FlushedIsTold
PROPERTIES WindowIsKept BatchedIsTold
