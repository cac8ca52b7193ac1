CONSTANTS
  TextBytes = {58, 97, 98}
  MaxText = 3
  OutSizes = {3}
INIT CodecInit
NEXT CodecNext
INVARIANTS
  UserpassTerminated
CHECK_DEADLOCK FALSE
