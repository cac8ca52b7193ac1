CONSTANTS
  Word = 262144
  Readings = {0, 1, 3, 4, 5, 6, 45, 46, 49, 50, 51, 54, 55, 92, 93, 96, 104, 105, 108, 109, 110, 1014, 1018, 1019, 1020, 1023, 1024}
  RegisteredValues = {0, 1, 5, 50, 100, 101, 1018, 1024}
  Percents = {1, 8, 50, 99, 100}
SPECIFICATION Spec
INVARIANTS
  NoFalseAlarm
CHECK_DEADLOCK TRUE
