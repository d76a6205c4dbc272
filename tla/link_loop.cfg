SPECIFICATION FairSpec
CONSTANTS
  MaxOutages = 1
  MaxToggles = 1
  LOOP = LOOP
  USER = USER
INVARIANTS
  InfoIsSentOnce
  OneReaderPerStream
PROPERTIES
  RetriesUntilConnected
  
CHECK_DEADLOCK FALSE
