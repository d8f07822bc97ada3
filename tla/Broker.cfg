SPECIFICATION HistorySpec
CONSTANTS
  r1 = r1
  r2 = r2
  Runner = {r1, r2}
  NoRunner = NoRunner
  Launcher = {r2}
  MaxConcurrency = 1
  MaxOffers = 2
  MaxRequests = 2
  TypeOfRequest <- MCRequestType
  TypeOfRunner <- MCRunnerType
  InternalMode = FALSE
INVARIANTS
  TypeOK
  NotOvercommitted
  RequesterNotAbandoned
  OneAttempt
  SettingsWhenWaiting
  NoZombie
PROPERTY ImplementsTaskService
CHECK_DEADLOCK FALSE
