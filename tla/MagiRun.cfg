SPECIFICATION FairRunSpec
CONSTANTS
  mel = mel
  bal = bal
  cas = cas
  NoSeat = NoSeat
  NoDigest = NoDigest
  Digest = {}
  Seat <- MCSeat
  JoinOrder <- MCJoinOrder
  MinAgents = 2
  Lineage <- MCLineage
  Model <- MCModel
  Primary <- MCPrimary
  Pool <- MCPool
  MaxRotations = 1
  Strict = FALSE
  Capabilities <- Unprobed
INVARIANTS
  ReportIsComplete
  InsufficientIsLastResort
  DefectBlamesItsMage
PROPERTIES
  ImplementsEnsemble
  NothingOutlivesRun
CHECK_DEADLOCK FALSE
