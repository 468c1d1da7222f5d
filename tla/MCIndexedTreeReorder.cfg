\* as MCIndexedTree: an index on the first element of a list
CONSTANTS
  a = a
  c = c
  Names = {a, c}
  Values = {1, 2}
  Null = 0
  Uncovered = Uncovered
  Nowhere = Nowhere
  Paths <- MCPaths
  Stored <- MCStored
  Batches <- MCBatches
  Schemas = {{}}
  Defs <- MCHead
  MaxKey = 3
  StoreShifts = FALSE
  StoreIntoPacked = FALSE
SPECIFICATION IndexedSpec
VIEW MCView
CHECK_DEADLOCK FALSE
INVARIANTS NoEntryIsWrong
