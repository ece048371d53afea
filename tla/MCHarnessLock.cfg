SPECIFICATION Spec
CONSTANTS
  p1 = p1
  p2 = p2
  p3 = p3
  None = None
  Proc = {p1, p2, p3}
INVARIANTS TypeOK ExclusionUnlessRobbed
PROPERTY LoneStarterAcquires
CHECK_DEADLOCK FALSE
