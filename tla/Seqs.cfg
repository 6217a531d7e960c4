CONSTANTS
  p1 = p1
  p2 = p2
  Pol = Pol
  Adm = Adm
  None = None
  Proc <- Procs2
  EjfnoMax = 4
  TRACE_INC = 1
  FarInc = 3
  MaxDay = 2
  MaxDraw = 2
  MaxDown = 2
  MaxAdm = 1
SPECIFICATION Spec
SYMMETRY Sym
INVARIANTS TypeOK TraceUnique
CHECK_DEADLOCK FALSE
