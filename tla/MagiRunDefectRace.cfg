SPECIFICATION RunSpec
CONSTANTS
  mel = mel
  bal = bal
  cas = cas
  NoSeat = NoSeat
  NoDigest = NoDigest
  Digest = {}
  Seat <- MCSeat
  JoinOrder <- MCJoinOrder
  MinAgents = 2
  Lineage <- MCLineage
  Model <- MCModel
  Primary <- MCPrimary
  Pool <- MCNoPool
  MaxRotations = 0
  Strict = FALSE
  Capabilities <- Unprobed
PROPERTIES
  DefectOutranksOutage
CHECK_DEADLOCK FALSE
