SPECIFICATION FairSpec
CONSTANTS
  Main = {m1}
  NoMain = NoMain
  Exec = {e1}
  MaxChildren = 1
  MaxStarts = 2
  MaxFaults = 1
  MaxLapses = 1
INVARIANTS
  TypeOK
  OnlyChildrenLoseTimeouts
PROPERTY
  WaitingIsResumed
CHECK_DEADLOCK FALSE
