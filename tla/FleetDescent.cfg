SPECIFICATION FleetSpec
CONSTANTS
  Client = {1, 2, 3, 4, 5}
  Route <- MCRoute
  Ranked <- MCRanked
  Near <- MCNear
  Entered <- MCStart
  Rescued <- MCRescued
  KMax = 2
  EpBudget = 4
  FdAttempts = 2
  MaxPhases = 2
  Configs <- MCConfigs
INVARIANTS
  TypeOK
  NothingLost
PROPERTIES
  DropContract
  PhaseEnds
CHECK_DEADLOCK FALSE
