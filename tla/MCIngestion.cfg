SPECIFICATION Spec
CONSTANTS
  k1 = k1
  k2 = k2
  k3 = k3
  b1 = b1
  b2 = b2
  r1 = r1
  r2 = r2
  r3 = r3
  None = None
  Key <- MCKey
  Body <- MCBody
  Request <- MCRequest
  MaxVersions = 2
SYMMETRY UploadSymmetry
INVARIANTS
  SameFileSameInvoice
  AnswerIsOwnFile
  SourceIsPreserved
PROPERTY AnswersFinal
CHECK_DEADLOCK FALSE
