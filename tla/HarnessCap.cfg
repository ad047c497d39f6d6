CONSTANTS
  mel = mel
  cas = cas
  first = first
  second = second
  fallback = fallback
  happy = happy
  rotation = rotation
  blip = blip
  Seat = {mel, cas}
  Model = {first, second, fallback}
  Run = {happy, rotation, blip}
  NoRun = NoRun
  Always = Always
  MaxAcceptFailures = 1
  Backend = {200}
  MaxFaults = 0
  MaxOrphans = 1
  Quorum = 1
  BlipSeats = 1
  ChainOf <- MCChainOf
  RuleOf <- MCRuleOf
  Plans <- MCPlans
SPECIFICATION HarnessSpec
INVARIANT
  CapIsNoVerdict
CHECK_DEADLOCK FALSE
