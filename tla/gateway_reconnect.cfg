SPECIFICATION Spec
CONSTANTS
  a = a
  b = b
  Hub = {a}
  MaxConnects = 2
  Broadcasters <- NoOne
  Invitations <- NoInvitations
  Reachable = {a}
  Leavers = {a}
  Stops = FALSE
  UDP = UDP
  MAIN = MAIN
  None = None
INVARIANTS
  ClosedClientUnlisted
  
CHECK_DEADLOCK FALSE
