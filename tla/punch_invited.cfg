SPECIFICATION Spec
CONSTANTS
  a = a
  b = b
  c = c
  lanB = lanB
  wanA = wanA
  wanB = wanB
  wanC = wanC
  Hub = {a, b, c}
  Endpoint = {lanB, wanA, wanB, wanC}
  Lan <- MCLan
  Wan <- MCWan
  Reach <- MCReach
  Calls <- OneCall
  LanTries = 1
  WanTries = 1
  Listed = {b}
  Unlinked = {}
  None = None
INVARIANT InvitedHubProbesInviter
CHECK_DEADLOCK FALSE
