\* one table, two indexes, up to two entities that may be packed or not
CONSTANTS
  a = a
  c = c
  Names = {a, c}
  Values = {1, 2}
  Null = 0
  Uncovered = Uncovered
  Nowhere = Nowhere
  Paths <- MCPaths
  Stored <- MCStored
  Batches <- MCBatches
  Schemas = {{}}
  Defs <- MCDefs
  MaxKey = 3
  StoreShifts = FALSE
  StoreIntoPacked = FALSE
SPECIFICATION IndexedSpec
VIEW MCView
CHECK_DEADLOCK FALSE
INVARIANTS IndexedTypeOK EntriesShowDocument NoWrongEntry UniqueIndexHolds QueryFindsMatches
PROPERTIES ImplementsIndexContract
