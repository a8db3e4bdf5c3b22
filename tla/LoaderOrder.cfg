CONSTANTS
  W = 2
  BatchSize = 1
  Limit = 0
  OutPerWorker = 1
  Files <- MCFiles
SPECIFICATION Spec
INVARIANTS
  TripsInFileOrder
