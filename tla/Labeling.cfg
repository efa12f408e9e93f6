CONSTANTS
  N = 3
  T = 6
  Never = 1000
  ProcessLimit = 2
  Raw <- MCRaw
  Problem <- MCProblem
SPECIFICATION FairSpec
INVARIANTS TypeOK PoolSound Cheapest
PROPERTY Terminates
