\* One placement, one cancellation, one sync with a retry.
SPECIFICATION FairSpec
CONSTANTS
  Orders = {o1}
  NoOrder = none
  Assets = {btc}
  MaxBal = 1
  MaxClock = 1
  Window = 1
  Placers = {p1}
  Cancellers = {c1}
  Syncers = {s1}
  MaxRetries = 1
  Linkers = {}
  Normalized <- BothPayloads
  AuditOutcomes <- AnyAudit
INVARIANTS
  TypeOK
  PlacedIsRecorded
PROPERTIES
  SyncAllOrNothing
  EveryTaskEnds
  MirrorSpec
CHECK_DEADLOCK FALSE
