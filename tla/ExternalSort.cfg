SPECIFICATION Spec
CONSTANTS
  Ascending <- MCAscending
  Values <- MCValues
  NullBytes = 1
  ValueBytes = 2
  Thresholds <- MCThresholds
  MaxRows = 4
INVARIANTS StreamsTheStableSort SpillDirRemoved
CHECK_DEADLOCK FALSE
