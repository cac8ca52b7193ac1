CONSTANTS
  TOKEN_MAX = 2
  DECODER_INPUT = 5
  BUFFER_SIZE = 32
  OUT_SIZE = 3
  Chars = {0, 37}
  RunLengths = {2, 9}
  MaxRuns = 3
  Levels = {0, 1, 8}
  Reads = {4, 20}
  ToolWindow = 4
  ToolInput = 2
  ReadPieces = {3, 32}
  c1 = c1
  c2 = c2
  PAGELEN = 2
  SECTOR = 4
  POST_BLOCK = 9
  OTA_HEADER = 2
  FW_SIZE = 8
  ImageSizes = {7, 9}
  FileSizes = {8, 9}
  Surplus = {2}
  FileKinds = {"ota","bin","espfs","other"}
  Uploaders = {c1, c2}
  MaxUploads = 2
  MaxFlashFaults = 1
  Sockets = {1, 2, 3}
  Talkers = {1}
  MaxFrames = 2
  SegmentSizes = {3, 8}
  MaxBroadcasts = 1
  RtosSlots = {1, 2}
  MaxSockets = 3
  OtherTasksSend = TRUE
  Browsers = {1, 2}
  ApsFound = {0, 2, 3}
  MaxScans = 3
  MaxAsked = 3
  Networks = {1, 2}
  MaxAttempts = 3
  MaxRestarts = 2
  Labels = {1, 3}
  MaxLabels = 2
  MaxQuestions = 2
  TextBytes = {32, 43, 58, 97, 98, 255}
  MaxText = 3
  OutSizes = {0, 2, 4, 5, 9}
  FIFO_LEN = 2
  TX_LIMIT = 2
  RX_FULL = 2
  TX_EMPTY = 1
  RX_SIZE = 4
  TX_SIZE = 3
  EVENTS = 2
  MaxBytes = 5
  MaxEdges = 8
  WriteBytes = {0, 165, 255}
  ReadBytes = {1, 254}
  MaxCalls = 4
  RX_BUFFER_SIZE = 2
  RX_BUFFER_NUM = 3
  LoadsMasked = TRUE
  LoadSizes = {0, 1, 2, 3}
  MaxLoaded = 6
  MaxHeard = 8
  MaxHostWrites = 1
INIT LibraryInit
NEXT LibraryNext
INVARIANTS
  FilesServed
  Lossless
  UploadAnswerTrue
  FramesKept
  SocketsServed
  ScansAnswered
  AttemptsResolved
  AnswersNameTheQuestions
  CodecsExact
  UartLossless
  KeyHeard
  BusKept
  BuffersOnOneList
  HostServed
PROPERTIES
  RunningHalfKept
SYMMETRY Symmetry
CHECK_DEADLOCK FALSE
