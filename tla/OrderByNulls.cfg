SPECIFICATION Spec
CONSTANTS
  Directions <- MCDirections
  Values <- MCValues
  NumSources = 2
  ShufflePartitions <- MCShufflePartitions
  MaxRows = 2
INVARIANT NullsAreSorted
CHECK_DEADLOCK FALSE
