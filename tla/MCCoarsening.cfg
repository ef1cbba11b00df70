SPECIFICATION Spec
CONSTANTS
  P = 3
  N = 7
  Iterations = 3
  Instances <- Graphs
INVARIANTS
  MatchingMaximal
  CoarseGraphIsContraction
