CONSTANTS
  s1 = s1
  s2 = s2
  r1 = r1
  r2 = r2
  m1 = m1
  m2 = m2
  Sender <- Sender2
  Receiver <- Receiver2
  Mtypes <- Sessions
  Calls <- CallOnly
  LinkCnt = 2
  MaxSave = 2
SPECIFICATION FairSpec
INVARIANTS TypeOK AnsweredOnce NoneLost OnlyOld
PROPERTIES Ends FullWhenFails
CHECK_DEADLOCK FALSE
