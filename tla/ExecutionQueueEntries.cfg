SPECIFICATION Spec
CONSTANTS
  j1 = j1
  j2 = j2
  c1 = c1
  c2 = c2
  NoJob = NoJob
  NoConsumer = NoConsumer
  Job = {j1, j2}
  Consumer = {c1, c2}
  Operator = {}
  Priority = {"high", "normal"}
  MaxRetries = 1
  BatchSize = 1
  ClaimCount = 10
  MaxStreamLength = 1
  MaxEntries = 2
  MaxFaults = 1
INVARIANT TypeOK
PROPERTIES ExclusiveUnlessIdle AtLeastOnce
SYMMETRY Symmetry
