SPECIFICATION FairSpec
CONSTANTS
  e1 = e1 e2 = e2 e3 = e3
  Run = {r1, r2}
  Exec = {e1, e2}
  NoRun = NoRun
  NoExec = NoExec
  ModeOf <- MCProduction
  ProductionLimit = 1
  EvaluationLimit = 1
  LicensedEvaluation = 1
  Waits = FALSE
  DbFaults = FALSE
  MaxRestarts = 0
INVARIANTS NoLostReservation
PROPERTIES QueuedIsServed CapacityReturns ShutdownDrains
CHECK_DEADLOCK FALSE
