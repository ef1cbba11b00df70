SPECIFICATION Spec
CONSTANTS
  P = 3
  Jobs <- CutGraphs
INVARIANT PastEndNoticed
