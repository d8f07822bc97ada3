SPECIFICATION Spec
CONSTANTS
  Node = {1, 2, 3, 4, 5}
  Triggers = {1}
  LoopNodes = {}
  Inputs <- MCInputs
  Fans <- LoopFans
  Marks <- NoMarks
INVARIANT
  CyclesFromTheirStart
CHECK_DEADLOCK FALSE
