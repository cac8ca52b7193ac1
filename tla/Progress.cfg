CONSTANTS
  Faults = {"button", "init", "alloc", "flash_read", "flash_write", "rtc", "join", "dns", "connect_call", "send", "no_answer", "reject", "chunked", "station_call", "reset", "power", "hash"}
  PERIPH_ENABLE_DEBUG = TRUE
  SYS_DEEP_SLEEP_TIMES = 3
  PowerUpCounts = {0, 2, 4}
  MaxOpmodeEvents = 3
SPECIFICATION FairSpec
PROPERTIES
  MeasurementEnds
  SignalKept
  InitFailureShown
  SaveRestarts
CHECK_DEADLOCK TRUE
