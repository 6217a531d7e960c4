CONSTANTS
  w1 = w1
  w2 = w2
  Worker = {w1, w2}
  MAX_RESTART_CNT = 1
  SysMax = 4
  MaxPid = 4
  MaxCmd = 2
  MaxCrash = 0
SPECIFICATION Spec
INVARIANT StopHolds
CHECK_DEADLOCK FALSE
