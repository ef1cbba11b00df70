SPECIFICATION SetupSpec
CONSTANTS
  P = 3
  MaxPoints = 3
  BlockSizes <- AllSizes
  N = 4
  MaxWeight = 2
INVARIANTS
  RoundsArePairings
  HeavierBordersFirst
  OneBlockEach
PROPERTIES
  SchemeDelivered
  EveryRoundMaps
