SPECIFICATION Spec
CONSTANTS
  Aggs <- MCAggs
  Keys <- MCKeys
  Class <- MCClass
  Bucket <- MCBucket
  NumBuckets = 2
  KeyBytes <- MCKeyBytes
  Values <- MCValues
  NullBytes = 1
  ValueBytes = 2
  Thresholds <- MCThresholds
  MaxRows = 3
  MaxFolded = 2
INVARIANTS GroupsAsReference BytesMatchTable
CHECK_DEADLOCK FALSE
