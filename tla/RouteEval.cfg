SPECIFICATION Spec
CONSTANTS
  Client = {1, 2, 3, 4}
  Slots = {1, 2}
  Penalties = {1, 3}
  Instances <- MCInstances
INVARIANTS
  RankIsPrice
  WarpIsPlain
  UpdateIsRebuild
CHECK_DEADLOCK FALSE
