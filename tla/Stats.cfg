CONSTANTS
  NaN = NaN
  Bad = Bad
  NoCell = NoCell
  MaxTrips = 3
  TopN = 1
  MaxFaults = 1
  Headers <- MCHeaders
  Lines <- MCLines
SPECIFICATION Spec
INVARIANTS
  TypeOK
  RuleIsFirstBroken
  NarrowHeaderNeverPanics
  AggregatesAgree
  TopCellsAreLargest
  LatitudesAreNearCentre
  ExportReported
  InsightsAreIndependent
