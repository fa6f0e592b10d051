SPECIFICATION FairSpec
CONSTANTS
  e1 = e1
  e2 = e2
  TaskEvents = {e1, e2}
  MaxTurns = 3
  MaxTools = 1
  ProviderErrors = TRUE
  SendFailures = TRUE
CHECK_DEADLOCK FALSE
INVARIANTS
  OneResponseAtATime
  EventsAccounted
PROPERTIES
  NeverBeforeCommit
  RequestServed
