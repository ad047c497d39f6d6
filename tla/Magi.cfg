SPECIFICATION MCSpec
CONSTANTS
  mel = mel
  bal = bal
  p1 = p1
  p2 = p2
  Agent <- MCAgent
  Mode <- MCMode
  Provider = {p1, p2}
  Default = Default
  Lineage = {"a", "b"}
  Blank = Blank
  Prompt = {"sound", "other", "stale"}
  Contract = {"sound", "other"}
  Embedded = Embedded
  Directories <- MCDirectories
  Unreadable = Unreadable
  Pools <- MCPools
  MaxCalls = 3
  Calls = {c1, c2}
  MaxWord = 11
  Divisor = 4
  Lengths = {7, 8}
  Seats <- MCAgent
INVARIANTS
  ProbesMeasureTheirModel
  RunsOnlyGuardedPrompts
  AnnouncementIsExact
PROPERTIES
  ToldExactlyOnce
CHECK_DEADLOCK FALSE
