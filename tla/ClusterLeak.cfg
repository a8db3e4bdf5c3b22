CONSTANTS
  NumJobs = 1
  K = 2
  N = 2
  Epochs = 1
  MaxFaults = 1
  NodesHang = FALSE
  Zero = 0
  Theta <- MCTheta
  Update <- MCUpdate
SPECIFICATION Spec
INVARIANTS
  EndedJobsHoldNoNode

