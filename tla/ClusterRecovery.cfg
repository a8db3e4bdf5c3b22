CONSTANTS
  NumJobs = 2
  K = 2
  N = 1
  Epochs = 1
  MaxFaults = 2
  NodesHang = FALSE
  Zero = 0
  Theta <- MCTheta
  Update <- MCUpdate
SPECIFICATION FairSpec
PROPERTIES
  JobsImplementGradientDescent
  EveryJobEnds
  NodesAreFreed
