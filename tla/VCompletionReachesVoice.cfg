SPECIFICATION FairSpec
CONSTANTS
  c1 = c1
  Callers = {c1}
  MaxEvents = 2
  PollFaults = TRUE
CHECK_DEADLOCK FALSE
PROPERTY CompletionReachesVoice
