SPECIFICATION Spec
CONSTANTS
  i1 = i1
  i2 = i2
  c1 = c1
  c2 = c2
  w1 = w1
  w2 = w2
  NoWorker = NoWorker
  NoLease = NoLease
  NoView = NoView
  Invoice <- OneInvoice
  Container <- Containers
  InvoiceContainer <- Bills
  Billed <- BothDays
  Snapshot <- OneShipment
  ContainerOf <- OneContainer
  DayOf <- OneShipmentDays
  Retained <- RetainedOne
  Worker <- TwoWorkers
  MaxAutomaticAttempts = 2
  AttemptBound <- Interrupted
  ExtractVersions = 2
INVARIANTS
  OneClaimSet
  ReviewIsBacked
  IdleIsSettled
  DecisionIsQuiet
CHECK_DEADLOCK FALSE
CONSTRAINT OneSecondAttempt
