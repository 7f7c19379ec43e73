SPECIFICATION Spec
CONSTANTS
  w1 = w1
  u1 = u1
  Worker = {w1}
  Canceller = {u1}
  Approver = {}
  Policy <- OnlyEngineering
  MaxTestIterations = 0
  MaxTurns = 3
  MaxJobs = 1
  MaxSaves = 3
INVARIANT RunningHasJob
CHECK_DEADLOCK FALSE
