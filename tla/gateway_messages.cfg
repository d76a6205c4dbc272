SPECIFICATION FairSpec
CONSTANTS
  a = a
  b = b
  Hub = {a, b}
  MaxConnects = 1
  Broadcasters <- OneBroadcaster
  Invitations <- AInvitesB
  Reachable = {}
  Leavers = {b}
  Stops = TRUE
  UDP = UDP
  MAIN = MAIN
  None = None
INVARIANTS
  
  ToldOnlyOfOnline
PROPERTY
  DepartedIsUnlisted
CHECK_DEADLOCK FALSE
