\* one transaction from an empty table, everything below the root packed or not
CONSTANTS
  a = a
  v1 = v1
  v2 = v2
  Names = {a}
  Values = {v1, v2}
  Nowhere = Nowhere
  Paths <- MCPaths
  Stored <- MCStored
  Batches <- MCBatches
  Schemas <- MCSchemas
  MaxKey = 3
  StoreShifts = FALSE
  StoreIntoPacked = TRUE
SPECIFICATION Spec
VIEW MCView
CHECK_DEADLOCK FALSE
PROPERTIES StoreReplaces
