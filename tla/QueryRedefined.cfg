SPECIFICATION Spec
CONSTANTS
  Tables <- MCTables
  SampleRows = 1
  Hash <- MCHash
  MaxIterations = 10
  Readable = {"m", "s", "p"}
  Joinable = {"t"}
  Conditions <- MCConditions
  Projections <- Renaming
  Groupings <- MCGroupings
  Orders <- MCOrders
  Statements <- MCStatements
  Configs <- MCConfigs
  View = "v"
  MaxOperations = 2
  MayRedefine = TRUE
  MayMisread = FALSE
PROPERTY KeepsMeaning
CHECK_DEADLOCK FALSE
