CONSTANTS
  p1 = p1
  p2 = p2
  None = None
  Proc <- Procs2
  MtypeMax = 3
  MaxCrash = 1
SPECIFICATION FairSpec
INVARIANTS TypeOK CountDrift SessionOwned VarsOwned
PROPERTIES FailsWhenFull LeakReclaimed
