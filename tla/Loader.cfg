CONSTANTS
  W = 2
  BatchSize = 2
  Limit = 15
  OutPerWorker = 1
  Files <- MCFiles
SPECIFICATION FairSpec
INVARIANTS
  TypeOK
  NoSendAfterClose
  EveryLineAccounted
  LinesConserved
PROPERTIES
  ImplementsLoadReport
  LoadEnds
