SPECIFICATION Spec
CONSTANTS
  None = None
  Row <- MCRow
  Clause <- MCClause
  Billed <- MCBilled
  Rates <- MCRates
INVARIANTS
  SnapshotIsLocal
CHECK_DEADLOCK FALSE
