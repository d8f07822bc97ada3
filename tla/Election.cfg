SPECIFICATION ElectionSpec
CONSTANTS
  Main = {m1, m2}
  NoMain = NoMain
  MaxStarts = 3
  MaxFaults = 1
  MaxLapses = 1
INVARIANT OneLeader
PROPERTIES
  SplitBrainEnds
  LeaderEmerges
CHECK_DEADLOCK FALSE
