CONSTANTS
  NumJobs = 2
  K = 2
  N = 3
  Epochs = 2
  MaxFaults = 2
  NodesHang = TRUE
  Zero = 0
  Theta <- MCTheta
  Update <- MCUpdate
SPECIFICATION Spec
INVARIANTS
  TypeOK
  AnswersAreCurrent
PROPERTIES
  JobsImplementGradientDescent
CHECK_DEADLOCK FALSE
