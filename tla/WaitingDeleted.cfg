SPECIFICATION Spec
CONSTANTS
  MaxCalls = 1
  Exec = {1}
  Elsewhere = {}
  Main = {m1}
  NoMain = NoMain
  Worker = {w1}
  NoWorker = NoWorker
  Concurrency = 2
  BatchSize = 2
  NullsFirst = TRUE
  SaveSuccess = FALSE
  SaveError = TRUE
  MinimizeFetching = TRUE
  MaxEvents = 0
PROPERTY WaitingIsKept
CHECK_DEADLOCK FALSE
