CONSTANTS
  p1 = p1
  p2 = p2
  m1 = m1
  m2 = m2
  m3 = m3
  None = None
  Proc <- Procs2
  Session <- Sessions3
  Limit = 1
  MaxCrash = 1
  MaxAgain = 1
  MaxMeet = 2
SPECIFICATION Spec
SYMMETRY Sym
INVARIANT LimitHolds
CHECK_DEADLOCK FALSE
