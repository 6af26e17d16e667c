CONSTANTS
  u1 = u1  u2 = u2  h1 = h1  h2 = h2
  i1 = i1  i2 = i2  i3 = i3  i4 = i4  i5 = i5
  k1 = k1  k2 = k2  k3 = k3  f1 = f1  f2 = f2  f3 = f3  f4 = f4
  a1 = a1  a2 = a2  in_app = in_app  email = email  webhook = webhook
  Channel = {in_app, email, webhook}
  FloorChannel = in_app
  Email = email
  Event <- Everything
  Id = {i1, i2, i3, i4, i5}
  User = {u1, u2}
  Key = {k1, k2, k3}
  Fact = {f1, f2, f3, f4}
  Address = {a1, a2}
  Reserved = {a1}
  Chosen <- SomeChoice
  Handler = {h1, h2}
  MaxFailures = 1
SPECIFICATION Spec
CHECK_DEADLOCK FALSE
SYMMETRY Requests
INVARIANTS CriticalReaches SecretsAreNotBatched AddressIsKept AnsweredIsTold
PROPERTIES RefinesSink
