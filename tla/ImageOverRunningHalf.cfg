CONSTANTS
  c1 = c1
  c2 = c2
  PAGELEN = 2
  SECTOR = 4
  POST_BLOCK = 9
  OTA_HEADER = 2
  FW_SIZE = 8
  ImageSizes = {7, 9}
  FileSizes = {8, 9}
  Surplus = {2}
  FileKinds = {"bin"}
  Uploaders = {c1, c2}
  MaxUploads = 2
  MaxFlashFaults = 1
INIT UploadInit
NEXT UploadNext
INVARIANTS RunningHalfSpared
CHECK_DEADLOCK FALSE
