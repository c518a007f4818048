CONSTANTS
  Ports <- MCPorts
  Attached <- MCAttached
  Tagging = {}
  NMbufs = 2
  MaxBurst = 2
SPECIFICATION FairSpec
INVARIANT UntaggedMbufsConserved
PROPERTIES ImplementsCell UpdateReturns
