SPECIFICATION Spec
CONSTANTS
  Thread = {t, u}
  MaxSaves = 3
  MaxCrashes = 3
SYMMETRY Interchangeable
INVARIANTS
  
  KeptIsLoaded
  
CHECK_DEADLOCK FALSE
