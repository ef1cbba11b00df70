SPECIFICATION Spec
CONSTANTS
  P = 3
  Jobs <- MCJobs
INVARIANTS AcceptedIsMeant RefusedForCause TreeSums
