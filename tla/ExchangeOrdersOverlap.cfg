\* Two overlapping syncs, a placement, a cancellation and a linking view.
SPECIFICATION Spec
CONSTANTS
  Orders = {o1}
  NoOrder = none
  Assets = {}
  MaxBal = 1
  MaxClock = 2
  Window = 0
  Placers = {p1}
  Cancellers = {c1}
  Syncers = {s1, s2}
  MaxRetries = 0
  Linkers = {l1}
  Normalized <- BothPayloads
  AuditOutcomes <- AuditWorks
PROPERTIES
  RowsComeFromPlacement
INVARIANT
  LagIsExplained
SYMMETRY SyncerSymmetry
CHECK_DEADLOCK FALSE
