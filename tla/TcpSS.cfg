CONSTANTS
  l1 = l1
  l2 = l2
  s1 = s1
  s2 = s2
  Lsn = {l1, l2}
  FastLsn = {l2}
  Svc = {s1, s2}
  ConMax = 1
  MtypeMax = 1
  SW_MAX_CMD = 2
  MaxReq = 2
SPECIFICATION FairSpec
INVARIANTS TypeOK Intact AnswerOwn NoLeak
PROPERTY Closes
