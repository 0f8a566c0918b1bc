SPECIFICATION Spec
CONSTANTS
  i1 = i1
  i2 = i2
  c1 = c1
  c2 = c2
  w1 = w1
  w2 = w2
  NoWorker = NoWorker
  NoLease = NoLease
  NoView = NoView
  Invoice <- TwoInvoices
  Container <- Containers
  InvoiceContainer <- Bills
  Billed <- TwoStays
  Snapshot <- TwoShipments
  ContainerOf <- TwoContainers
  DayOf <- TwoShipmentDays
  Retained <- RetainedTwo
  Worker <- OneWorker
  MaxAutomaticAttempts = 1
  AttemptBound <- Uninterrupted
  ExtractVersions = 1
INVARIANTS
  HeldSnapshotIsOwn
CHECK_DEADLOCK FALSE
CONSTRAINT NothingSealed
