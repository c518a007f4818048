CONSTANTS
  comp1 = comp1
  comp2 = comp2
  port1 = port1
  Master = 0
  Slaves <- MCSlaves
  Targets <- MCSlaves
  Names = {comp1}
  Types = {"cls"}
  Ids = {0}
  Ports = {port1}
  Hot = {port1}
  MayFail = {"attach", "table"}
  MayTag = TRUE
  MaySignal = TRUE
SPECIFICATION FairSpec
PROPERTIES
  CommandReturns
  StopEndsOrHangs
CHECK_DEADLOCK FALSE
