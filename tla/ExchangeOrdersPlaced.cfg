\* The helpers as they are at this commit.
SPECIFICATION Spec
CONSTANTS
  Orders = {o1}
  NoOrder = none
  Assets = {}
  MaxBal = 1
  MaxClock = 2
  Window = 1
  Placers = {p1}
  Cancellers = {}
  Syncers = {}
  MaxRetries = 0
  Linkers = {}
  Normalized <- NoPayload
  AuditOutcomes <- AuditRaises
PROPERTIES
  AnswerIsRecorded
CHECK_DEADLOCK FALSE
