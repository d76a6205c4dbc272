SPECIFICATION Spec
CONSTANTS
  a = a
  b = b
  Hub = {a, b}
  MaxConnects = 1
  Broadcasters <- NoOne
  Invitations <- NoInvitations
  Reachable = {a, b}
  Leavers = {a}
  Stops = FALSE
  UDP = UDP
  MAIN = MAIN
  None = None
INVARIANTS
  TypeOK
  ServedHubIsListed
  OneOfTwoIsTold
PROPERTY
  OnlyOwnWorkerUnlists
CHECK_DEADLOCK FALSE
