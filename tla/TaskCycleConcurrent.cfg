SPECIFICATION Spec
CONSTANTS
  c1 = c1
  c2 = c2
  Caller = {c1, c2}
  MaxTestIterations = 1
  Target <- OneAbort
  MaxDocs = 0
  MaxEdges = 7
  MaxFixes = 1
INVARIANTS AuditExplainsPhase GatesWereOpened
SYMMETRY Symmetry
