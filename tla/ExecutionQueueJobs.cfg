SPECIFICATION Spec
CONSTANTS
  j1 = j1
  c1 = c1
  c2 = c2
  o1 = o1
  NoJob = NoJob
  NoConsumer = NoConsumer
  Job = {j1}
  Consumer = {c1, c2}
  Operator = {o1}
  Priority = {"high"}
  MaxRetries = 1
  BatchSize = 1
  ClaimCount = 10
  MaxStreamLength = 1
  MaxEntries = 3
  MaxFaults = 1
INVARIANT NoJobLost
SYMMETRY Symmetry
