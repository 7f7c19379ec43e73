SPECIFICATION Spec
CONSTANTS
  r1 = r1
  r2 = r2
  r3 = r3
  w1 = w1
  w2 = w2
  p1 = p1
  NoRun = NoRun
  Run = {r1, r2, r3}
  Worker = {w1, w2}
  Reaper = {p1}
  MaxConcurrent = 1
  MaxIdle = 1
  MaxDeliveries <- Once
  MaxFaults = 0
SYMMETRY Symmetry
INVARIANTS TypeOK QuotaOvershoot LiveWorkspaceIntact
