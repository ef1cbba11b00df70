SPECIFICATION Spec
CONSTANTS
  PEs <- MCPEs
  Inputs <- MCInputs
  MinSamplingNodes = 1
  BalanceIterations = 2
  MaxIterations = 4
  EpsPercent = 3
  Threshold = 0
  One = 4
  Huge = 100000
INVARIANTS ClosestAssigned BoundsHold EndsComplete SameSums
