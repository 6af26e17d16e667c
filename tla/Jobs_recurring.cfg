CONSTANTS
  p1 = p1  p2 = p2  prune = prune  dispatch = dispatch  digest = digest
  Process = {p1, p2}
  Kind = {prune, dispatch}
  ModuleOf <- OneOfEach
  Pulled = dispatch
  Wedging = {dispatch}
  Budget <- Slots
  MaxAttempts = 2
  MaxFailures = 2
  MaxStops = 1
  MaxEnqueueFailures = 1
SPECIFICATION FairSpec
CHECK_DEADLOCK FALSE
INVARIANTS OneAtATime
PROPERTIES JobsAreCarried JobsGoOn DrainsEnd
