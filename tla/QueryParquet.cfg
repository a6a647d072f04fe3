SPECIFICATION Spec
CONSTANTS
  Tables <- MCTables
  SampleRows = 1
  Hash <- MCHash
  MaxIterations = 10
  Readable = {"p"}
  Joinable = {"t"}
  Conditions <- Negated
  Projections <- MCProjections
  Groupings <- MCGroupings
  Orders <- MCOrders
  Statements <- MCStatements
  Configs <- MCConfigs
  View = "v"
  MaxOperations = 1
  MayRedefine = FALSE
  MayMisread = TRUE
INVARIANT PushesASuperset
CHECK_DEADLOCK FALSE
