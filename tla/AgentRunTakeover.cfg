SPECIFICATION Spec
CONSTANTS
  w1 = w1
  Worker = {w1}
  Canceller = {}
  Approver = {}
  Policy <- Policies
  MaxTestIterations = 2
  MaxTurns = 10
  MaxJobs = 1
  MaxSaves = 13
INVARIANT ResumesWithOutputs
CHECK_DEADLOCK FALSE
