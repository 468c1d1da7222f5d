--------------------------- MODULE IndexContract ---------------------------
(***************************************************************************)
(* What index maintenance promises.  Every index gives a tuple of column   *)
(* values to the entities it covers; a mutation changes the tuples of some *)
(* entities, and the index entries must follow: those of the entities it   *)
(* may affect are dropped before the change, those the new state implies   *)
(* are added after it, and a unique index refuses a tuple that another     *)
(* entity has.  A mutation may fail at any of these steps and keep what it *)
(* has done.                                                               *)
(*                                                                         *)
(* The index key of a unique index is the tuple alone: the entries of one  *)
(* key share a place, and dropping an entity's entry drops whatever is     *)
(* there.                                                                  *)
(***************************************************************************)
CONSTANTS
  Entities,   \* what may be indexed
  Indexes,    \* the names of indexes
  Tuples,     \* what their columns may hold
  Uncovered,  \* in place of a tuple: the index does not cover the entity
  Unique      \* the names of unique ones

VARIABLES
  tuple,      \* tuple[i][e]: what the columns of index i hold for entity e
  posted,     \* the index entries: <<index, entity, tuple>>
  failed      \* a mutation has failed

vars == <<tuple, posted, failed>>

Entry == Indexes \X Entities \X Tuples

Assignments == [Indexes -> [Entities -> Tuples \cup {Uncovered}]]

Init ==
  /\ tuple = [i \in Indexes |-> [e \in Entities |-> Uncovered]]
  /\ posted = {}
  /\ failed = FALSE

(* The entries that the tuples t imply for the affected entities.          *)
Implied(t, affected) ==
  {x \in {<<i, e, t[i][e]>> : i \in Indexes, e \in affected} : x[3] # Uncovered}

(* The entries that have the same place in the engine.                     *)
SamePlace(x, y) ==
  /\ x[1] = y[1] /\ x[3] = y[3]
  /\ x[1] \in Unique \/ x[2] = y[2]

(* What is left of the entries when those that old implies are dropped.    *)
Dropped(old) == {x \in posted : \A y \in old : ~SamePlace(x, y)}

(* maintenance::guard_unique.                                              *)
Refused(x, entries) == \E y \in entries : SamePlace(x, y) /\ x[2] # y[2]

(* The entities that a change of the tuples from t to u touches.           *)
Touched(t, u) == {e \in Entities : \E i \in Indexes : u[i][e] # t[i][e]}

(* A mutation that succeeds: kept are the entries of other entities, new   *)
(* those of the affected ones.                                             *)
Mutate(kept, new) ==
  /\ \A x \in new : ~Refused(x, kept \cup new)
  /\ posted' = kept \cup new
  /\ UNCHANGED failed

(* One that fails: old entries are gone, some of the new ones are there.   *)
Fail(kept, new) ==
  /\ kept \subseteq posted'
  /\ posted' \subseteq kept \cup new
  /\ failed' = TRUE

(* Maintenance covers the entities whose tuples change, and maybe others.  *)
Next ==
  \E t \in {tuple}, u \in {tuple'} :
    /\ u \in Assignments
    /\ \E others \in SUBSET (Entities \ Touched(t, u)) :
         LET affected == Touched(t, u) \cup others
         IN  \E kept \in {Dropped(Implied(t, affected))},
                new \in {Implied(u, affected)} :
               Mutate(kept, new) \/ Fail(kept, new)

Spec == Init /\ [][Next]_vars

------------------------------------------------------------------------------
(* Properties                                                              *)

TypeOK ==
  /\ tuple \in Assignments
  /\ posted \subseteq Entry
  /\ failed \in BOOLEAN

(* No entry is wrong, whatever has failed: an entry of an index says what  *)
(* its entity holds now.                                                   *)
NoStaleEntry == posted \subseteq Implied(tuple, Entities)

(* As long as nothing has failed, no entry is missing either.              *)
NothingMissing == ~failed => Implied(tuple, Entities) \subseteq posted

(* And a unique index holds for the entities themselves.                   *)
UniqueHolds ==
  ~failed => \A i \in Indexes \cap Unique : \A e, f \in Entities :
               tuple[i][e] # Uncovered /\ tuple[i][e] = tuple[i][f] => e = f
=============================================================================
