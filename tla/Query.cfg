SPECIFICATION Spec
CONSTANTS
  Tables <- MCTables
  SampleRows = 1
  Hash <- MCHash
  MaxIterations = 10
  Readable = {"m", "s", "p"}
  Joinable = {"t"}
  Conditions <- MCConditions
  Projections <- MCProjections
  Groupings <- MCGroupings
  Orders <- MCOrders
  Statements <- MCStatements
  Configs <- MCConfigs
  View = "v"
  MaxOperations = 3
  MayRedefine = FALSE
  MayMisread = FALSE
INVARIANTS
  Settles
  CollectsTheRows
  FailsWhenTheRowsDo
  StagesFitTheScheduler
  PushesASuperset
  ParsesAsMeant
PROPERTY KeepsMeaning
CHECK_DEADLOCK FALSE
