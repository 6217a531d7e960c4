CONSTANTS
  w1 = w1
  w2 = w2
  Worker = {w1}
  MAX_RESTART_CNT = 2
  SysMax = 2
  MaxPid = 3
  MaxCmd = 2
  MaxCrash = 3
SPECIFICATION FairSpec
INVARIANTS TypeOK OneChild Reachable
PROPERTIES Recovers StopEnds
CHECK_DEADLOCK FALSE
