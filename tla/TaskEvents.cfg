SPECIFICATION FairSpec
CONSTANTS
  c1 = c1
  c2 = c2
  Callers = {c1, c2}
  MaxEvents = 4
  PollFaults = TRUE
CHECK_DEADLOCK FALSE
INVARIANTS
  AnswerUsedOnce
  AnswerableWhileAsked
  PublishedInOrder
PROPERTIES
  EventsReachVoice
  WatcherEnds
