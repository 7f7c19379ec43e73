SPECIFICATION Spec
CONSTANTS
  r1 = r1
  d1 = d1
  d2 = d2
  NoRun = NoRun
  Run = {r1}
  Daemon = {d1, d2}
  MaxCalls = 1
  MaxTries = 2
  MaxFaults = 1
  MaxWire = 2
INVARIANTS TypeOK NoRepeat InOrderUnlessStored ResultIsOfAttempt
SYMMETRY Symmetry
CHECK_DEADLOCK FALSE
