SPECIFICATION Spec
CONSTANTS
  Region <- MCRegion
  Outer <- MCOuter
  FirstNodes <- MCFirst
  Graphs <- MCGraphs
  NodeWeight <- MCNodeWeight
  Sizes <- MCSizes
  Capacities <- MCCapacities
  StopRounds <- MCStopRounds
  DiffusionRounds = 3
INVARIANTS GainTableExact OutcomePromised LoadIsKept
