SPECIFICATION FairService
CONSTANTS
  s1 = s1
  NoSession = NoSession
  Sessions = {s1}
  QueueCapacity = 1
  PageReasons = {"button"}
  Origins = {"socket", "http"}
  Faults = {"close_browser"}
CHECK_DEADLOCK FALSE
INVARIANTS
  PageHeardOut
  MarkerTellsTruth
  ExitIsClean
PROPERTIES
  ServiceStops
