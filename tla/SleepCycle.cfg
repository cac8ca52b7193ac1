CONSTANTS
  SYS_DEEP_SLEEP_TIMES = 12
  PowerUpCounts = {0, 5, 11, 12, 13}
SPECIFICATION Spec
INVARIANTS
  RadioForMeasurement
  MeasuresInTime
  NoEarlyRepeat
  IInv
CHECK_DEADLOCK TRUE
