SPECIFICATION Spec
CONSTANTS
  NumClients = 4
  PollEvery = 2
  Route <- MCRoute
  Timely <- MCTimely
  Penalised <- MCPenalised
  Objective <- MCObjective
  Near <- MCNear
  Calls <- MCCalls
INVARIANTS
  NothingLost
  Outcome
  ExploreOptimal
PROPERTY Returns
CHECK_DEADLOCK FALSE
