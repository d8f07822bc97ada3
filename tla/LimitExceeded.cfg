SPECIFICATION Spec
CONSTANTS
  e1 = e1 e2 = e2 e3 = e3
  Run = {r1, r2, r3}
  Exec = {e1, e2, e3}
  NoRun = NoRun
  NoExec = NoExec
  ModeOf <- MCProduction
  ProductionLimit = 1
  EvaluationLimit = 1
  LicensedEvaluation = 1
  Waits = FALSE
  DbFaults = FALSE
  MaxRestarts = 0
SYMMETRY MCSymmetry
INVARIANT RunningWithinLimit
CHECK_DEADLOCK FALSE
