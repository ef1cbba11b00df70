SPECIFICATION Spec
CONSTANTS
  P = 2
  Node <- MixedNode
  EdgeWeight <- MixedEdge
  NodeWeight <- MixedWeight
  Scheme <- MixedScheme
  EpsilonPercent = 50
  MinBorderNodes <- MixedBorder
  StartOwners <- MixedStart
INVARIANT CutAccounting
