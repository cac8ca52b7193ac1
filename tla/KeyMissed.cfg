CONSTANTS
  MaxEdges = 4
INIT KeyInit
NEXT KeyNext
INVARIANTS
  KeyLevelTrue
CHECK_DEADLOCK FALSE
