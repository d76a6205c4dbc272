SPECIFICATION FairSpec
CONSTANTS
  Transport = {1, 2, 3}
  Offers <- MCOffers
  MaxRedirects = 2
  Call = {"c1"}
  Message <- MCMessage
  Delays = 2
  MaxPings = 1
  HandshakeData <- MCHandshakeData
  Data <- MCData
INVARIANTS
  TypeOK
  
  NoCallIsForgotten
  TimeoutWatchesConnection
PROPERTIES
  ConnectionContract
  AttemptsEnd
  
CHECK_DEADLOCK FALSE
