SPECIFICATION Spec
CONSTANTS
  P = 3
  Inputs <- MCInputs
INVARIANTS SectionsOptimal CurveOrder OnlyTiesStarve PixelBlocksCompact PixelGraphCounts
