CONSTANTS
  p1 = p1
  p2 = p2
  p3 = p3
  Proc <- Procs3
  SemNum = 4
  SEM_VALUE = 2
SPECIFICATION FairSpec
INVARIANTS TypeOK RWExclusion Conservation UniqueIds
PROPERTIES MutexServed ImplementsRWLock
