SPECIFICATION Spec
CONSTANTS
  Directions <- MCDirections
  Values <- MCValues
  NumSources = 2
  ShufflePartitions <- MCShufflePartitions
  MaxRows = 2
INVARIANTS CollectsTheStableSort RangesFollowTheOrder
CHECK_DEADLOCK FALSE
