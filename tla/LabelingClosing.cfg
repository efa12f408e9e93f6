CONSTANTS
  N = 4
  T = 11
  Never = 1000
  ProcessLimit = 1
  Raw <- BusyRaw
  Problem <- BusyProblem
SPECIFICATION Spec
INVARIANT FinishedIsProof
