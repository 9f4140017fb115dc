SPECIFICATION Spec
CONSTANTS
  w1 = w1
  w2 = w2
  j1 = j1
  d1 = d1
  d2 = d2
  Threads <- MCThreads
  Jobs <- MCJobs
  Docs <- MCDocs
  Batches <- MCBatches
  MaxBatch = 2
  MaxBatches = 2
  MaxFaults = 1
  MaxOthers = 1
  MaxCrashes = 1
INVARIANTS
  TypeOK
  StaleHasCause
  SplitNeedsRace
PROPERTIES
  JobsOnBoard
  JobsEnd
CHECK_DEADLOCK FALSE
