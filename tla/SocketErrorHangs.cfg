CONSTANTS
  Faults = {"socket"}
  PERIPH_ENABLE_DEBUG = FALSE
  SYS_DEEP_SLEEP_TIMES = 3
  PowerUpCounts = {0, 2, 4}
  MaxOpmodeEvents = 3
SPECIFICATION FairSpec
PROPERTIES
  MeasurementEnds
CHECK_DEADLOCK FALSE
