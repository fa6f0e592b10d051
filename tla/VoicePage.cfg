SPECIFICATION FairSpec
CONSTANTS
  MaxStarts = 2
  MaxResponses = 2
  MaxCalling = 1
CHECK_DEADLOCK FALSE
INVARIANTS
  ExecutedOnce
  ToolsStayAvailable
PROPERTIES
  ExecutesForLiveSession
  EndSessionCloses
