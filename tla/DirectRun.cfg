SPECIFICATION MCSpec
CONSTANTS
  mel = mel
  bal = bal
  cas = cas
  nowhere = nowhere
  Seat = {mel, bal, cas}
  JoinOrder <- MCJoinOrder
  MinAgents = 2
  Agent = {mel, bal, cas}
  Place = {"db.rs:7"}
  Nowhere = nowhere
  Title <- MCTitle
  Folded <- MCFolded
  Confidences = {0, 50, 85, 100}
  MinOutputs = 2
  Epsilon = 1
  Calls <- MCCalls
INVARIANTS
  NothingIsLost
  ReportIsHonest
  OnlyTieOverrulesCount
PROPERTIES
  ImplementsEnsemble
CHECK_DEADLOCK FALSE
