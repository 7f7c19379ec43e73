SPECIFICATION Spec
CONSTANTS
  c1 = c1
  c2 = c2
  Caller = {c1}
  MaxTestIterations = 2
  Target <- OneAbort
  MaxDocs = 2
  MaxEdges = 11
  MaxFixes = 3
INVARIANT TypeOK
PROPERTY Serial
