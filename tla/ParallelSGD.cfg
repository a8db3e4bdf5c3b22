CONSTANTS
  N = 10
  W = 3
  BatchSize = 2
  Epochs = 3
  GradPerWorker = 1
  Zero = 0
  Theta <- MCTheta
  Update <- MCUpdate
SPECIFICATION FairSpec
INVARIANTS
  TypeOK
  NoThetaRace
  EpochBarrier
  FullGradientApplied
  DoneIsLast
  BroadcastNeverBlocks
PROPERTIES
  ImplementsGradientDescent
  EveryGoroutineExits
