CONSTANTS
  RX_BUFFER_SIZE = 2
  RX_BUFFER_NUM = 3
  LoadsMasked = TRUE
  LoadSizes = {1, 2}
  MaxLoaded = 6
  MaxHeard = 8
  MaxHostWrites = 1
SPECIFICATION SdioSpec
INVARIANTS
  WaitingIsOffered
CHECK_DEADLOCK FALSE
