SPECIFICATION FairSpec
CONSTANTS
  s1 = s1
  NoSession = NoSession
  Sessions = {s1}
  QueueCapacity = 2
  PageReasons = {"button", "model_request", "transport_failure", "native_cancel"}
  Origins = {"socket", "http"}
  Faults = {"close_browser", "release_profile_lock", "persist_trace"}
CHECK_DEADLOCK FALSE
INVARIANTS
  OneOutcome
  NoForgottenClient
  EndedSessionHasNoBrowser
  StopFrameIsLast
PROPERTIES
  SessionsMoveOn
  ClientAnswered
  PageToldClosed
