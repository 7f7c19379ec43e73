SPECIFICATION FairSpec
CONSTANTS
  j1 = j1
  c1 = c1
  c2 = c2
  NoJob = NoJob
  NoConsumer = NoConsumer
  Job = {j1}
  Consumer = {c1, c2}
  Operator = {}
  Priority = {"high", "normal"}
  MaxRetries = 1
  BatchSize = 1
  ClaimCount = 10
  MaxStreamLength = 1
  MaxEntries = 3
  MaxFaults = 0
PROPERTIES EventuallySettled IdleIsRecovered
