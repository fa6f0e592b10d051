SPECIFICATION FairSpec
CONSTANTS
  Capacity = 3
  Window = 2
  ConsecutiveWindows = 2
  HealthTimeout = 1
  MaxSamples = 4
  ModelRate = 3
  Rates = {1, 2, 3, 4, 7, 9}
  MaxFrames = 7
  MaxBuffers = 4
CHECK_DEADLOCK FALSE
INVARIANTS
  WindowIsRecording
  ExitTellsFailure
  TornDownInOrder
  NoHalfArchive
  RecordingIsWhole
PROPERTIES
  StallIsNoticed
  StopIsObeyed
