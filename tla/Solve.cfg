SPECIFICATION FairSSpec
CONSTANTS
  Sol <- MCSol
  K <- MCK
  Cost <- MCCost
  NoSol = NoSol
  NoStamps = NoStamps
  Empty = Empty
  Configs <- MCConfigs
  Ants = 2
  Colonies <- MCColonies
  Horizon = 2
  Options <- MCOptions
INVARIANTS
  OneStream
  SecondPhaseTimed
PROPERTIES
  MergedContract
  Concludes
CHECK_DEADLOCK FALSE
