SPECIFICATION FairSpec
CONSTANTS
  MaxCalls = 1
  Exec = {1, 2}
  Elsewhere = {2}
  Main = {m1}
  NoMain = NoMain
  Worker = {w1}
  NoWorker = NoWorker
  Concurrency = 2
  BatchSize = 1
  NullsFirst = TRUE
  SaveSuccess = FALSE
  SaveError = TRUE
  MinimizeFetching = TRUE
  MaxEvents = 1
PROPERTIES
  DanglingIsSettled
  CrashIsNoticed
CHECK_DEADLOCK FALSE
