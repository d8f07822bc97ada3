SPECIFICATION Spec
CONSTANTS
  e1 = e1 e2 = e2 e3 = e3
  Run = {r1, r2, r3}
  Exec = {e1, e2}
  NoRun = NoRun
  NoExec = NoExec
  ModeOf <- MCProduction
  ProductionLimit = 1
  EvaluationLimit = 1
  LicensedEvaluation = 1
  Waits = TRUE
  DbFaults = TRUE
  MaxRestarts = 1
SYMMETRY MCSymmetry
INVARIANTS TypeOK CapacityAccounting WorkConserving SingleOwner OverrunBounded
PROPERTIES NoOvertaking ShutdownHoldsBack ImplementsThrottleService
CHECK_DEADLOCK FALSE
