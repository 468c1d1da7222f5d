\* two read transactions against a writer, four versions; liveness, so no symmetry
CONSTANTS
  k1 = k1
  k2 = k2
  n1 = n1
  v1 = v1
  v2 = v2
  Keys = {k1, k2}
  ROOT = ROOT
  NoKey = NoKey
  Names = {n1}
  Values = {v1, v2}
  Readers = {r1, r2}
  Writers = {w1}
  Closed = Closed
  NoAnswer = NoAnswer
  NoTxn = NoTxn
  NoEntry = NoEntry
  MaxGeneration = 1
  Stores <- MCStores
SPECIFICATION FairSpec
INVARIANTS TypeOK Inv GenerationNamesOneStore CachesServeTheSnapshot
PROPERTIES ImplementsSnapshotStore GuardIsReleased
CHECK_DEADLOCK FALSE
