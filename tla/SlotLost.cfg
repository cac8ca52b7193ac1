CONSTANTS
  HttpFaults = {"post_alloc"}
  MaxUnsent = 1
  FormParts = 3
  FileBytes = {1500}
  ApCounts = {0}
  Clients = {anna, ben}
  HTTPD_MAX_CONNECTIONS = 2
  MaxForm = 3
  Urls = {"start_scan"}
SPECIFICATION Spec
INVARIANTS
  SlotsReturn
SYMMETRY Symmetry
CHECK_DEADLOCK TRUE
