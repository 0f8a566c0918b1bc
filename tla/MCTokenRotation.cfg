SPECIFICATION Spec
CONSTANTS
  m1 = m1
  p1 = p1
  k1 = k1
  None = None
  Memory <- MCMemory
  Public <- MCPublic
  Canary <- MCCanary
  MaxBundles = 3
INVARIANTS
  SpentNeverPresented
  ChainAlive
  RotationHasCause
CHECK_DEADLOCK FALSE
