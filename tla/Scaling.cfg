SPECIFICATION Spec
CONSTANTS
  MaxCalls = 2
  Exec = {1}
  Elsewhere = {}
  Main = {m1}
  NoMain = NoMain
  Worker = {w1}
  NoWorker = NoWorker
  Concurrency = 2
  BatchSize = 2
  NullsFirst = TRUE
  SaveSuccess = FALSE
  SaveError = TRUE
  MinimizeFetching = TRUE
  MaxEvents = 1
INVARIANTS
  TypeOK
  SingleRunner
  RecoverySparesQueued
CHECK_DEADLOCK FALSE
