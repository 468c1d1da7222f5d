--------------------------- MODULE MCIndexSchema ---------------------------
(***************************************************************************)
(* Small instances of IndexSchema for TLC: nothing tells threads, tables,  *)
(* index names, definitions or values apart.                               *)
(***************************************************************************)
EXTENDS IndexSchema, TLC

MCSymmetry == Permutations(Threads) \cup Permutations(Tables)
                \cup Permutations(Names) \cup Permutations(Defs)
                \cup Permutations(Values)
=============================================================================
