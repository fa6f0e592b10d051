SPECIFICATION Spec
CONSTANTS
  p1 = p1
  p2 = p2
  None = None
  Processes = {p1, p2}
  MaxStarts = 3
CHECK_DEADLOCK FALSE
INVARIANTS
  ReadyIsReachable
  NeverRefusedAlone
