SPECIFICATION FairSpec
CONSTANTS
  t1 = t1
  t2 = t2
  t3 = t3
  NoTask = NoTask
  Task <- MCTask
  Model = {"m", "n"}
  ModelOf <- MCModelOf
  Permits = 2
  Budgets = {0, 1}
  Latest = 50
INVARIANTS LastProbeWins
PROPERTIES PreflightReturns
CHECK_DEADLOCK FALSE
