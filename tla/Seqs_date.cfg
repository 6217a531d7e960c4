CONSTANTS
  p1 = p1
  p2 = p2
  Pol = Pol
  Adm = Adm
  None = None
  Proc <- Procs1
  EjfnoMax = 4
  TRACE_INC = 1
  FarInc = 3
  MaxDay = 2
  MaxDraw = 0
  MaxDown = 1
  MaxAdm = 1
SPECIFICATION FairSpec
PROPERTY DateFollows
CHECK_DEADLOCK FALSE
