SPECIFICATION FairSpec
CONSTANTS
  w1 = w1
  w2 = w2
  r1 = r1
  r2 = r2
  b1 = b1
  None = None
  Invoice <- MCInvoice
  Writer <- MCWriter
  Relay <- MCRelay
  Stream <- MCStream
  RelayBatch = 2
  PageLimit = 1
  MaxSequence <- MCMaxSequence
  MaxClock = 1
  MaxFaults = 1
  MaxResets = 1
INVARIANTS
  NothingElseSkipped
  NeverTwice
PROPERTIES
  EveryEventArrives
CHECK_DEADLOCK FALSE
