CONSTANTS
  p1 = p1
  p2 = p2
  p3 = p3
  BsnProc <- Procs3
  Steps = {1, 2}
  Base = 1
  BsnEjfnoMax = 3
  Cycles = {TRUE, FALSE}
  MaxLap = 1
  MaxCall = 1
  BsnMaxDeath = 1
SPECIFICATION BsnSpec
SYMMETRY Sym
INVARIANTS BsnTypeOK NumbersUnique NoneSkipped RangesApart
CHECK_DEADLOCK FALSE
