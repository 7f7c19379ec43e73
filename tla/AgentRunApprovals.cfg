SPECIFICATION Spec
CONSTANTS
  w1 = w1
  u1 = u1
  Worker = {w1}
  Canceller = {}
  Approver = {u1}
  Policy <- Policies
  MaxTestIterations = 0
  MaxTurns = 6
  MaxJobs = 2
  MaxSaves = 6
INVARIANTS TypeOK CompletedWasVerified
CHECK_DEADLOCK FALSE
