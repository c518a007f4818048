SPECIFICATION FairSpec
CONSTANTS
  Secs = {sec1}
  Pri = pri
  Reqs = {req1, req2}
  AccPri = accpri
  AccSec = accsec
  None = None
  MaxConns = 2
  MaxReqs = 2
INVARIANTS
  OwnReply
  SteadyStaysListed
PROPERTIES
  RequestsEnd
  ConnectedGetsListed
CHECK_DEADLOCK FALSE
