CONSTANTS
  NumTrains = 2
  NumPredicts = 0
  Inputs = {x}
  NaN = NaN
  TrainData <- GoodOnly
  Capacity = 1
  MaxFaults = 0
SPECIFICATION Spec
INVARIANTS
  LatestIsActive
