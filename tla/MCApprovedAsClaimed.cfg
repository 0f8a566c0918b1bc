SPECIFICATION Spec
CONSTANTS
  None = None
  Row <- MCRow
  Clause <- MCClause
  Billed <- MCBilled
  Rates <- MCRates
INVARIANTS
  ApprovedAsClaimed
CHECK_DEADLOCK FALSE
