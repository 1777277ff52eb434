\* Two overlapping runs, one retry each.
SPECIFICATION Spec
CONSTANTS
  Runs = {r1, r2}
  MaxRetries = 1
  MaxClock = 2
  Day = 1
  Keep = 0
  Limit = 2
  PendingLogs <- EitherLog
INVARIANTS
  TypeOK
  CacheWasStored
  OncePerAttempt
PROPERTIES
  CursorAccounts
SYMMETRY RunSymmetry
CHECK_DEADLOCK FALSE
