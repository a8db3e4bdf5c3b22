CONSTANTS
  NaN = NaN
  Bad = Bad
  NoCell = NoCell
  MaxTrips = 1
  TopN = 1
  MaxFaults = 0
  Headers <- MCHeaders
  Lines <- MCLines
SPECIFICATION Spec
INVARIANT
  LongitudesAreNearCentre
