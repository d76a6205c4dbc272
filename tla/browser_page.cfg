SPECIFICATION BrowserSpec
CONSTANTS
  Peer = {p}
  Self = self
  MaxWords = 4
  MaxDatagrams = 1
  MaxLoads = 2
  TCP = TCP
  UDP = UDP
  None = None
INVARIANTS
  ShownHubIsListed
CHECK_DEADLOCK FALSE
