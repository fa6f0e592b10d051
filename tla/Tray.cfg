SPECIFICATION FairSpec
CONSTANTS
  CaptureTexts = {"healthy", "unhealthy"}
  ControllerTexts = {"ready"}
  Faults = {"subscribe", "command"}
  MaxMessages = 1
INVARIANTS
  CacheIsExplained
  IconIsCurrent
  OnIsEarned
PROPERTIES
  MenuComesBack
