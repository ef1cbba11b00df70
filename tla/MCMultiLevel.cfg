SPECIFICATION FairSpec
CONSTANTS
  P = 3
  Instances <- MCInstances
  RoundCap = 3
  GainShare = 1
  Capacity = 3
INVARIANTS
  HaloFits
  OriginsLeadHome
  LeaveTogether
  DetailsFit
PROPERTIES
  OnlySweepsCut
  VCycleEnds
CHECK_DEADLOCK FALSE
