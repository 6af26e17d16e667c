CONSTANTS
  u1 = u1  u2 = u2  h1 = h1  h2 = h2  i1 = i1  i2 = i2  i3 = i3
  ownerTopic = ownerTopic  otherTopic = otherTopic
  newTopic = newTopic  erasureTopic = erasureTopic
  Envelope <- Three
  User = {u1, u2}
  Topic = {ownerTopic, otherTopic, newTopic, erasureTopic}
  Id = {i1, i2, i3}
  ErasureTopic = erasureTopic
  Handler = {h1, h2}
  KeepDays <- Short
  InboxDays = 0
  Horizon = 0
  Oldest = 1
  BatchSize = 1
  MaxPasses = 1
  MaxFailures = 1
SPECIFICATION FairSpec
CHECK_DEADLOCK FALSE
PROPERTIES PublishedIsHandled OverdueIsPruned
