CONSTANTS
  s1 = s1
  s2 = s2
  r1 = r1
  r2 = r2
  m1 = m1
  m2 = m2
  Sender <- Sender2
  Receiver <- Receiver1
  Mtypes <- Sessions
  Calls <- CallOnly
  LinkCnt = 2
  MaxSave = 4
SPECIFICATION Spec
INVARIANT TimeoutOnce
CHECK_DEADLOCK FALSE
