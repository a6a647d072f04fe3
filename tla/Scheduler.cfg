SPECIFICATION FairSpec
CONSTANTS
  NumStages = 4
  NumPartitions <- QueryParts
  Reads <- QueryReads
  Emits <- QueryEmits
  MaxRetries = 1
  NumWorkers = 2
  MaxFaults = 1
  MaxLosses = 3
  WorkersMayDie = TRUE
INVARIANTS TypeOK ReadsOneRun WritersUseFreshPaths AtMostOneRecompute MetricsTellTheRuns RetriesPayForFaults CanGoOn
PROPERTIES QueryEnds EveryStepCounts KeepsPromise
CHECK_DEADLOCK FALSE
