CONSTANTS
  mel = mel
  cas = cas
  first = first
  second = second
  fallback = fallback
  happy = happy
  rotation = rotation
  blip = blip
  Seat = {mel, cas}
  Model = {first, second, fallback}
  Run = {happy, rotation, blip}
  NoRun = NoRun
  Always = Always
  MaxAcceptFailures = 1
  Backend = {200, 500}
  MaxFaults = 1
  MaxOrphans = 1
  Quorum = 2
  BlipSeats = 1
  ChainOf <- MCChainOf
  RuleOf <- MCRuleOf
  Plans <- MCPlans
SPECIFICATION HarnessSpec
INVARIANTS
  CleanWindowIsComplete
  RedIsTheCrates
  OnlyTheNamedModelFails
PROPERTIES
  EveryRunIsResolved
CHECK_DEADLOCK FALSE
