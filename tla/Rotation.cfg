SPECIFICATION EligibilitySpec
CONSTANTS
  mel = mel
  bal = bal
  NoSeat = NoSeat
  NoDigest = NoDigest
  Lineage <- MCLineage
  Model <- MCModel
  Digest <- MCDigest
  Seat <- MCSeat
  Primary <- MCPrimary
  Pool <- MCPool
  MaxRotations = 2
  Strict = TRUE
  Capabilities <- MCCapabilities
INVARIANTS
  RotationKeepsDiversity
  NoProvenCollapse
  SlotFollowsMage
  SnapshotIsTheFilter
PROPERTIES
  NobodyArrivesOnCondemned
  SlotsSettle
  LossIsExplained
CHECK_DEADLOCK FALSE
