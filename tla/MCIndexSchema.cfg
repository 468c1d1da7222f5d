\* writers and DDL calls overlap freely
CONSTANTS
  Threads = {a, b}
  Tables = {t1, t2}
  Names = {n1, n2}
  Defs = {d1, d2}
  Entities = {e1}
  Values = {v1, v2}
  Nothing = Nothing
  NoThread = NoThread
  NoTable = NoTable
  NotCached = NotCached
  MaxId = 2
  MaxSchemaGen = 3
SPECIFICATION Spec
SYMMETRY MCSymmetry
CHECK_DEADLOCK FALSE
INVARIANTS Inv CachedSetIsCurrent IndexSetIsCommitted IndexesMatchData
PROPERTIES NewIdsAreUnused
