SPECIFICATION Spec
CONSTANTS
  STRONG_BRANCH_SIZE = 10
  Routes <- Four
  Customer <- MCCustomer
  O = 0
  D <- MCDepot
  Column <- MCColumn
  Seed <- MCSeed
  Visits <- MCVisits
  ArcsOf <- MCArcsOf
  Point <- MCPoint
  Support <- MCSupport
  Partition <- MCPartition
  Price <- MCPrice
  Infty = 1000
  Row <- MCRow
  CutOff <- MCCutOff
  Violated <- MCCutOff
  NoPoint = NoPoint
  Configs <- OptimumConfigs
INVARIANT OptimumIsOptimal
CHECK_DEADLOCK FALSE
