SPECIFICATION Spec
CONSTANTS
  MaxK = 3
  MaxCost = 3
  Sol <- MCSol
  K <- MCK
  Cost <- MCCost
  NoSol = NoSol
  NoStamps = NoStamps
  Empty = Empty
  Configs <- MainConfigs
INVARIANTS
  TypeOK
  CurrPricesState
  CappedForever
  CapMonotone
  StampsCertifyLive
  DriftBounded
PROPERTIES
  PolishedBest
  AnytimeContract
  Terminates
CHECK_DEADLOCK FALSE
