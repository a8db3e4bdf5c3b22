CONSTANTS
  NumTrains = 1
  NumPredicts = 0
  Inputs = {x}
  NaN = NaN
  TrainData <- Degenerate
  Capacity = 1
  MaxFaults = 0
SPECIFICATION Spec
INVARIANTS
  TrainedModelIsSaved
