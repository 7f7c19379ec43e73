SPECIFICATION FairSpec
CONSTANTS
  r1 = r1
  r2 = r2
  w1 = w1
  p1 = p1
  NoRun = NoRun
  Run = {r1, r2}
  Worker = {w1}
  Reaper = {p1}
  MaxConcurrent = 1
  MaxIdle = 2
  MaxDeliveries <- Once
  MaxFaults = 3
INVARIANTS  ContainerIsRecorded ReaperSeesRunning
PROPERTY AbandonedIsReaped
