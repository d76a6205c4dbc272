SPECIFICATION FairSpec
CONSTANTS
  a = a
  b = b
  c = c
  lanB = lanB
  wanA = wanA
  wanB = wanB
  wanC = wanC
  Hub = {a, b, c}
  Endpoint = {lanB, wanA, wanB, wanC}
  Lan <- MCLan
  Wan <- MCWan
  Reach <- MCReach
  Calls <- CrossCalls
  LanTries = 2
  WanTries = 1
  Listed = {a}
  Unlinked = {a}
  None = None
INVARIANTS
  TypeOK
  StartedPeerAnswered
PROPERTY ProbesEnd
CHECK_DEADLOCK FALSE
