SPECIFICATION Spec
CONSTANTS
  Node = {1, 2, 3, 4}
  Triggers = {1}
  LoopNodes = {3}
  Inputs <- MCInputs
  Fans <- MCFans
  Marks <- MCMarks
INVARIANTS
  BypassKeepsWays
  NoDisabledNodes
  SubgraphComplete
  StartNodesAreEarliest
  ComponentsAreConnected
  SourcesAreFresh
  GroupsAreGreedy
CHECK_DEADLOCK FALSE
