SPECIFICATION Spec
CONSTANTS
  garbage = garbage
  Garbage = garbage
  MaxRetries = 3
  LimitedMaxRetries = 1
  LimitedClasses <- MCLimited
  FlatClasses <- MCLimited
  BaseDelay = 1
  Cap = 60
  RetryAfterCap = 300
  Jitter = 1
  Budget = 450
  ClientTimeout = 300
  AgentTimeouts = {9999}
  CallTimes <- MCShippedTimes
  Waits <- MCShippedWaits
  Headers <- MCShippedHeaders
INVARIANTS
  DocumentedBound
CHECK_DEADLOCK FALSE
