SPECIFICATION Spec
CONSTANTS
  Names <- MCNames
  MaxEthPorts = 4
  MaxQueues = 2
  MaxLcore = 3
  Queues <- MCQueues
  Procs = {1}
  Text = Text
  NDevs = 4
  Ports <- MCPorts
  Dev <- MCDev
  Hosted <- MCHosted
  CapMax = 2
  Master = 0
  Slaves = {1}
  Requests <- MCRequests
  MaxRequests = 5
  MayFail = {"device", "table"}
CHECK_DEADLOCK FALSE
INVARIANTS
  AnsweredTrue
  StoredInForce
  AttrsInForce
  ShareOnlyByTag
  SilentOnlyAfterFailure
