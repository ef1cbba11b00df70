SPECIFICATION FairSpec
CONSTANTS
  P = 3
  Node <- TriNode
  EdgeWeight <- TriEdge
  NodeWeight <- TriWeight
  Scheme <- TriScheme
  EpsilonPercent = 60
  MinBorderNodes <- TriBorder
  StartOwners <- TriStart
INVARIANTS
  BorderExact
  OriginTravels
  OverloadNeverGrows
PROPERTY SweepEnds
