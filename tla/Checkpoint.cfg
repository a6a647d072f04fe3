SPECIFICATION Spec
CONSTANTS
  Datasets <- MCDatasets
  NumPartitions <- MCPartitions
  NumRows = 2
  MaxAttempts = 4
  MaxOpens = 2
INVARIANTS TypeOK ReadsWholeDataset
CHECK_DEADLOCK FALSE
