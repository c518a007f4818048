CONSTANTS
  Ports <- MCPorts
  Attached <- MCAttached
  Tagging <- MCTagging
  NMbufs = 2
  MaxBurst = 2
SPECIFICATION Spec
INVARIANT MbufsConserved
