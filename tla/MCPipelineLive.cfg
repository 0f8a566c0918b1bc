SPECIFICATION FairSpec
CONSTANTS
  i1 = i1
  i2 = i2
  c1 = c1
  c2 = c2
  w1 = w1
  w2 = w2
  NoWorker = NoWorker
  NoLease = NoLease
  NoView = NoView
  Invoice <- OneInvoice
  Container <- Containers
  InvoiceContainer <- Bills
  Billed <- LongStay
  Snapshot <- MixedShipment
  ContainerOf <- MixedContainer
  DayOf <- MixedDays
  Retained <- RetainedOne
  Worker <- OneWorker
  MaxAutomaticAttempts = 1
  AttemptBound <- BindingInterrupted
  ExtractVersions = 1
INVARIANTS
  OneBindingAtATime
PROPERTIES
  EveryInvoiceConcludes
  QueueSpec
CHECK_DEADLOCK FALSE
