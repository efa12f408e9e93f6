SPECIFICATION FairPSpec
CONSTANTS
  STRONG_BRANCH_SIZE = 10
  Routes <- Three
  Customer <- MCCustomer
  O = 0
  D <- MCDepot
  Column <- MCColumn
  Seed <- MCSeed
  Visits <- MCVisits
  ArcsOf <- MCArcsOf
  Point <- MCPoint
  Support <- MCSupport
  Partition <- MCPartition
  Price <- MCPrice
  Infty = 1000
  Row <- MCRow
  CutOff <- MCCutOff
  Violated <- MCCutOff
  NoPoint = NoPoint
  Configs <- PassConfigs
  Phantom <- MCPhantom
  Vague <- MCVague
  Crew <- MCCrew
  Dust <- MCDust
  SolutionLimit = 2
INVARIANTS
  Certificate
PROPERTIES
  Spec
  Terminates
CHECK_DEADLOCK FALSE
