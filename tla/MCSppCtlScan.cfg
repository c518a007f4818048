SPECIFICATION Spec
CONSTANTS
  Secs = {sec1, sec2}
  Pri = pri
  Reqs = {req1}
  AccPri = accpri
  AccSec = accsec
  None = None
  MaxConns = 2
  MaxReqs = 1
PROPERTIES
  RemovesOnlyGone
CHECK_DEADLOCK FALSE
