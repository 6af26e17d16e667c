CONSTANTS
  u1 = u1  u2 = u2  h1 = h1  h2 = h2  i1 = i1  i2 = i2  i3 = i3
  ownerTopic = ownerTopic  otherTopic = otherTopic
  newTopic = newTopic  erasureTopic = erasureTopic
  Envelope <- Mixed
  User = {u1, u2}
  Topic = {ownerTopic, otherTopic, newTopic, erasureTopic}
  Id = {i1, i2, i3}
  ErasureTopic = erasureTopic
  Handler = {h1, h2}
  KeepDays <- Days
  InboxDays = 1
  Horizon = 1
  Oldest = 3
  BatchSize = 1
  MaxPasses = 2
  MaxFailures = 1
SPECIFICATION Spec
CHECK_DEADLOCK FALSE
SYMMETRY Requests
INVARIANTS HandledAtMostOnce AnsweredIsHandled
PROPERTIES RecordsLeaveLawfully ErasureReaches RefinesSink
