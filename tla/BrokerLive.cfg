SPECIFICATION FairSpec
CONSTANTS
  r1 = r1
  r2 = r2
  Runner = {r1}
  NoRunner = NoRunner
  Launcher = {}
  MaxConcurrency = 1
  MaxOffers = 2
  MaxRequests = 2
  TypeOfRequest <- MCRequestType
  TypeOfRunner <- MCRunnerType
  InternalMode = TRUE
PROPERTIES
  RequestSettles
  SlotFreed
  DrainCompletes
CHECK_DEADLOCK FALSE
