CONSTANTS
  HttpFaults = {}
  MaxUnsent = 1
  FormParts = 3
  FileBytes = {1500}
  ApCounts = {0}
  Clients = {anna, ben}
  HTTPD_MAX_CONNECTIONS = 2
  MaxForm = 3
  Urls = {"save"}
SPECIFICATION Spec
INVARIANTS
  FormInBuffer
SYMMETRY Symmetry
CHECK_DEADLOCK TRUE
