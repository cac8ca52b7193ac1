CONSTANTS
  Faults = {"flash_write", "hash", "join", "ap_loss", "dns", "connect_call", "socket", "send", "peer_close", "no_answer", "reject", "chunked", "station_call"}
  PERIPH_ENABLE_DEBUG = FALSE
  SYS_DEEP_SLEEP_TIMES = 12
  PowerUpCounts = {0, 5, 11, 12, 13}
  MaxOpmodeEvents = 3
SPECIFICATION FairSpec
PROPERTIES
  DailyMeasurement
CHECK_DEADLOCK FALSE
