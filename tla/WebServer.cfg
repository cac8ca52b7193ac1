CONSTANTS
  HttpFaults = {"refuse", "nomem", "post_alloc"}
  MaxUnsent = 1
  FormParts = 3
  FileBytes = {1500}
  ApCounts = {0}
  Clients = {anna, ben}
  HTTPD_MAX_CONNECTIONS = 2
  MaxForm = 3
  Urls = {"index", "file", "start_scan", "save"}
SPECIFICATION Spec
INVARIANTS
  ServerIInv
  PoolKept
  SomethingUnsent
  AnswersIntact
  ScanFlagTrue
  SavedAsSentAlone
SYMMETRY Symmetry
CHECK_DEADLOCK TRUE
