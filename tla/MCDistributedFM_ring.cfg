SPECIFICATION Spec
CONSTANTS
  P = 4
  Node <- RingNode
  EdgeWeight <- RingEdge
  NodeWeight <- RingWeight
  Scheme <- RingScheme
  EpsilonPercent = 100
  MinBorderNodes <- RingBorder
  StartOwners <- RingStart
INVARIANTS
  OneOwner
  CutAccounting
PROPERTIES
  RefinesPairwise
