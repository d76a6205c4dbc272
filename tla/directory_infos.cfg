SPECIFICATION Spec
CONSTANTS
  Peer = {p}
  Self = self
  MaxWords = 4
  MaxDatagrams = 3
  TCP = TCP
  UDP = UDP
  None = None
INVARIANTS
  TypeOK
  OneRecordPerHub
  AnnouncedHubIsListed
  OneLateRecordAtMost
  
CHECK_DEADLOCK FALSE
