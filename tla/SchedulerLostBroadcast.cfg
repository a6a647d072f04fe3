SPECIFICATION Spec
CONSTANTS
  NumStages = 2
  NumPartitions <- BroadcastParts
  Reads <- BroadcastReads
  Emits <- BroadcastEmits
  MaxRetries = 3
  NumWorkers = 1
  MaxFaults = 0
  MaxLosses = 1
  WorkersMayDie = FALSE
INVARIANT LossIsRecovered
CHECK_DEADLOCK FALSE
