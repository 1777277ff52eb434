\* One run whose write of the cache fails.
SPECIFICATION Spec
CONSTANTS
  Runs = {r1}
  MaxRetries = 0
  MaxClock = 3
  Day = 1
  Keep = 3
  Limit = 3
  PendingLogs <- TakesPending
INVARIANTS
  CacheIsOptional
CHECK_DEADLOCK FALSE
