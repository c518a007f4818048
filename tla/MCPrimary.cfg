CONSTANTS
  NSlots = 4
  NPhy = 1
  NRings = 1
  Uids <- MCUids
  Pipes <- MCPipes
  Texts <- MCTexts
  FlowPorts <- MCFlowPorts
  Number <- MCNumber
  Mac <- MCMac
  Handles = {h1, h2}
  MaxRuleId = 1
  MayFail = {"add", "create", "destroy", "flush", "exec", "send"}
  MaxCommands = 4
  MaxCrashes = 1
SPECIFICATION FairSpec
INVARIANTS  PatchesAsAccepted  FlowListed
PROPERTIES ImplementsFlow Reconnects
CHECK_DEADLOCK FALSE
