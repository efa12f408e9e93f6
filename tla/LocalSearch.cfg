SPECIFICATION Spec
CONSTANTS
  Client = {1, 2, 3, 4}
  Depot = 0
  Seats = 3
  Fleet = 3
  Usable <- MCUsable
  Slot <- MCSlot
  Route <- MCRoute
  Cost <- MCCost
  Near <- MCNear
  Solution <- MCSolution
  Start <- MCStart
  MaxRemovals = 1
  MaxCalls = 2
INVARIANTS
  TypeOK
  ServedOnce
  LocalOptimum
PROPERTY DescentEnds
CHECK_DEADLOCK FALSE
