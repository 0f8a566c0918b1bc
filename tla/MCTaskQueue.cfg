SPECIFICATION FairSpec
CONSTANTS
  extract = extract
  rule = rule
  bind = bind
  w1 = w1
  w2 = w2
  NoWorker = NoWorker
  NoLease = NoLease
  ExtractTask <- MCExtractTask
  BindTask <- MCBindTask
  Worker <- MCWorker
  Task <- MCTask
  MaxAutomaticAttempts = 2
  AttemptBound <- MCAttemptBound
INVARIANTS
  CurrentLeaseIsNewest
  RowsTellHistory
PROPERTIES
  OnceSpec
  AttemptRowsFinal
  EveryTaskSettles
CHECK_DEADLOCK FALSE
