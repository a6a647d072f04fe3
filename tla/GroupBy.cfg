SPECIFICATION Spec
CONSTANTS
  Aggs <- MCAggs
  Keys <- MCKeys
  Class <- MCClass
  Values <- MCValues
  Hash <- MCHash
  NumSources = 2
  ShufflePartitions <- MCShufflePartitions
  MaxRows = 2
INVARIANTS CollectsTheGroups
CHECK_DEADLOCK FALSE
