\* the gap between a DDL commit and its bump, open to other writers
CONSTANTS
  Threads = {a, b}
  Tables = {t1}
  Names = {n1, n2}
  Defs = {d1}
  Entities = {e1}
  Values = {v1}
  Nothing = Nothing
  NoThread = NoThread
  NoTable = NoTable
  NotCached = NotCached
  MaxId = 2
  MaxSchemaGen = 3
SPECIFICATION Spec
CHECK_DEADLOCK FALSE
INVARIANTS EveryIndexSetIsCommitted
