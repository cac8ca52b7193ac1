CONSTANTS
  Faults = {"button", "init", "alloc", "flash_read", "flash_write", "rtc", "join", "ap_loss", "dns", "connect_call", "socket", "send", "peer_close", "no_answer", "reject", "chunked", "station_call", "reset", "power"}
  PERIPH_ENABLE_DEBUG = TRUE
  SYS_DEEP_SLEEP_TIMES = 12
  PowerUpCounts = {0, 5, 11, 12, 13}
  MaxOpmodeEvents = 3
SPECIFICATION Spec
INVARIANTS
  FirmwareInv
  StationReady
  ServerHasBuffers
  SleepsSoundly
  ErrorStopsWifi
  SleepsOnlyIfAccepted
PROPERTIES
  ErrorLedStays
  ImplementsSleepCycle
CHECK_DEADLOCK TRUE
