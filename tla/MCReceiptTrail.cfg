SPECIFICATION TrailSpec
CONSTANTS
  Null = Null
  invoice = invoice
  bare = bare
  c1 = c1
  c2 = c2
  c3 = c3
  t1 = t1
  t2 = t2
  low = low
  mid = mid
  high = high
  r1 = r1
  r2 = r2
  a1 = a1
  a2 = a2
  k1 = k1
  Invoice = {invoice}
  Bare = {bare}
  Capture = {c1, c2, c3}
  CapturedAt <- MCCapturedAt
  ReceivedAt <- MCReceivedAt
  Text = {t1, t2}
  Printed <- MCPrinted
  Reading = {low, mid, high}
  Stated <- MCStated
  Rate <- MCRate
  Covered <- MCCovered
  Claimed <- MCClaimed
  Runner = {r1, r2}
  Approver = {a1, a2}
  Contest = {k1}
  Claim = {"first", "second"}
SYMMETRY Symmetry
INVARIANTS
  AnswersAreBound
  SealsVerify
PROPERTY SealedOnce
