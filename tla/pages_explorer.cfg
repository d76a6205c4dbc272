SPECIFICATION FairSpec
CONSTANTS
  Chain = {c1, c2}
  Blockcore = c1
  Item = {x, y}
  Parts = 3
  MaxPages = 2
  TaskId = {1, 2}
  MaxMoves = 4
  MaxFailures = 1
  Nothing = Nothing
  c1 = c1
INVARIANTS
  TypeOK
  
  
  LeftPageStops
PROPERTY ExplorerCatchesUp
CHECK_DEADLOCK FALSE
