\* Helpers that work: the sync alone fails to import.
SPECIFICATION Spec
CONSTANTS
  Orders = {o1}
  NoOrder = none
  Assets = {}
  MaxBal = 1
  MaxClock = 2
  Window = 1
  Placers = {}
  Cancellers = {}
  Syncers = {s1}
  MaxRetries = 0
  Linkers = {}
  Normalized <- BothPayloads
  AuditOutcomes <- AuditWorks
PROPERTIES
  FetchedIsRecorded
CHECK_DEADLOCK FALSE
