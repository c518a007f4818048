CONSTANTS
  phy0 = phy0
  ring0 = ring0
  vhost0 = vhost0
  None = None
  NSlots = 3
  NTxq = 2
  Phy <- MCPhy
  Rings = {ring0}
  Others = {vhost0}
SPECIFICATION Spec
INVARIANTS PatchedAsAccepted CrashOnlyIfRaced FollowsPatch
CHECK_DEADLOCK FALSE
