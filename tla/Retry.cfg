SPECIFICATION Spec
CONSTANTS
  garbage = garbage
  Garbage = garbage
  MaxRetries = 3
  LimitedMaxRetries = 1
  LimitedClasses <- MCLimited
  FlatClasses <- MCLimited
  BaseDelay = 1
  Cap = 2
  RetryAfterCap = 3
  Jitter = 1
  Budget = 5
  ClientTimeout = 3
  AgentTimeouts = {7, 40}
  CallTimes <- MCTimes
  Waits <- MCWaits
  Headers <- MCHeaders
INVARIANTS
  RetriesAreEarned
  NeverTooEarly
  ScopeIsKept
CHECK_DEADLOCK FALSE
