SPECIFICATION Spec
CONSTANTS
  s1 = s1
  r1 = r1
  r2 = r2
  h1 = h1
  h2 = h2
  None = None
  Source <- MCSource
  Scheduled <- MCScheduled
  Manual <- MCManual
  Digest <- MCDigest
  LastDay = 1
  MaxRows = 2
SYMMETRY Symmetry
INVARIANTS
  RunTwiceSameRows
CHECK_DEADLOCK FALSE
