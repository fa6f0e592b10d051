SPECIFICATION Spec
CONSTANTS
  s1 = s1
  s2 = s2
  NoSession = NoSession
  Sessions = {s1, s2}
  QueueCapacity = 1
  PageReasons = {"transport_failure"}
  Origins = {"http"}
  Faults = {"close_browser"}
SYMMETRY SessionSymmetry
CHECK_DEADLOCK FALSE
INVARIANTS
  TokenOnlyForActive
PROPERTIES
  DecisionsAreFinal
  ImplementsLifecycle
