SPECIFICATION Spec
CONSTANTS
  P = 4
  K = 4
  Far = 99
  Nodes <- MCBlocks
  Cases <- MCCases
INVARIANTS MeasuresAgree OneProcessEach WalksLeadBack DiameterExact CongestionIsDilation
CHECK_DEADLOCK FALSE
