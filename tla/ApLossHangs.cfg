CONSTANTS
  Faults = {"ap_loss"}
  PERIPH_ENABLE_DEBUG = FALSE
  SYS_DEEP_SLEEP_TIMES = 3
  PowerUpCounts = {0, 2, 4}
  MaxOpmodeEvents = 3
SPECIFICATION FairSpec
PROPERTIES
  ApLossShown
CHECK_DEADLOCK FALSE
