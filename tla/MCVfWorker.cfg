CONSTANTS
  comp1 = comp1
  comp2 = comp2
  port1 = port1
  Master = 0
  Slaves <- MCSlaves
  Targets <- MCSlaves
  Names <- MCNames
  Types = {"fwd"}
  Ids = {0, 1}
  Ports = {port1}
  Hot = {port1}
  MayFail = {}
  MayTag = FALSE
  MaySignal = TRUE
SYMMETRY Symm
SPECIFICATION Spec
INVARIANTS
  OneLcorePerComponent
  EditedListComplete
  FlushedInForce
  SettledQueuesDisjoint
PROPERTIES
  ListStable
CHECK_DEADLOCK FALSE
