CONSTANTS
  s1 = s1
  s2 = s2
  m1 = m1
  m2 = m2
  None = None
  Sender <- Senders
  Mtypes <- Types
  QueueMax = 2
  FifoMax = 2
  MaxSend = 4
  MaxCrash = 1
SPECIFICATION FairSpec
INVARIANTS TypeOK TokenCover OnePerMtype
PROPERTY Delivered
