SPECIFICATION Spec
CONSTANTS
  a1 = a1
  a2 = a2
  k1 = k1
  k2 = k2
  NoDraft = NoDraft
  ApprovalKey <- MCApprovalKey
  SendKey <- MCSendKey
  MaxRevisions = 3
  MaxRollbacks = 2
SYMMETRY KeySymmetry
INVARIANTS
  SealsMatchApprovals
  DeliveryIsAuthorized
PROPERTIES
  RecordsFinal
  SentOnCompleteMemory
CHECK_DEADLOCK FALSE
