CONSTANTS
  NumJobs = 1
  K = 2
  N = 2
  Epochs = 1
  MaxFaults = 2
  NodesHang = TRUE
  Zero = 0
  Theta <- MCTheta
  Update <- MCUpdate
SPECIFICATION FairSpec
PROPERTIES
  EpochDeadlineHolds
CHECK_DEADLOCK FALSE
