CONSTANTS
  NumTrains = 2
  NumPredicts = 2
  Inputs = {x}
  NaN = NaN
  TrainData <- MCTrainData
  Capacity = 1
  MaxFaults = 1
SPECIFICATION Spec
INVARIANTS
  TypeOK
  LatenciesAreCapped
  VersionNamesOneModel
  PredictionsNameTheirModel
  NoReturnToAnOlderModel
  LastTrainIsActive
