SPECIFICATION FairSpec
CONSTANT Traffic <- MCTraffic
INVARIANTS
  NoGapAfterInfo
PROPERTIES
  EveryMessageIsProcessed
  EveryByteIsTaken
CHECK_DEADLOCK FALSE
