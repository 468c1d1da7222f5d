------------------------ MODULE IndexContract_proofs ------------------------
(***************************************************************************)
(* Index maintenance keeps the entries right, for every set of entities,   *)
(* indexes and column values.                                              *)
(*                                                                         *)
(* The argument.  Dropping the entries that the affected entities have     *)
(* leaves entries of entities that do not change, so nothing is stale,     *)
(* even when a mutation fails halfway.  It may drop an entry of another    *)
(* entity only where the two share a place, which unique tuples exclude;   *)
(* so nothing is missing, and the refusals keep the tuples unique.  The    *)
(* four facts need each other.                                             *)
(***************************************************************************)
EXTENDS IndexContract, TLAPS

IInv == TypeOK /\ NoStaleEntry /\ NothingMissing /\ UniqueHolds

(* An entry that the tuples imply names its index, its entity and what the *)
(* entity holds.                                                           *)
LEMMA ImpliedEntry ==
  ASSUME NEW t, NEW affected, NEW x \in Implied(t, affected)
  PROVE  /\ x[1] \in Indexes /\ x[2] \in affected
         /\ x = <<x[1], x[2], t[x[1]][x[2]]>>
         /\ x[3] = t[x[1]][x[2]] /\ x[3] # Uncovered
<1>1. PICK i \in Indexes, e \in affected : x = <<i, e, t[i][e]>>
  BY DEF Implied
<1>2. x[3] # Uncovered
  BY DEF Implied
<1> QED
  BY <1>1, <1>2

LEMMA EntryImplied ==
  ASSUME NEW t, NEW affected, NEW i \in Indexes, NEW e \in affected,
         t[i][e] # Uncovered
  PROVE  <<i, e, t[i][e]>> \in Implied(t, affected)
BY DEF Implied

(* What the lemmas on a step assume: a change of the tuples to u, and the  *)
(* entities maintenance covers.                                            *)
Change(u, affected) ==
  /\ u \in Assignments
  /\ affected \subseteq Entities
  /\ Touched(tuple, u) \subseteq affected

LEMMA Unaffected ==
  ASSUME NEW u, NEW affected, Change(u, affected),
         NEW i \in Indexes, NEW e \in Entities, e \notin affected
  PROVE  u[i][e] = tuple[i][e]
BY DEF Change, Touched

(* The entries that are kept belong to entities that do not change, and    *)
(* the new ones to what the tuples have become.                            *)
LEMMA NothingGoesStale ==
  ASSUME NoStaleEntry, NEW u, NEW affected, Change(u, affected)
  PROVE  Dropped(Implied(tuple, affected)) \cup Implied(u, affected)
           \subseteq Implied(u, Entities)
<1>1. ASSUME NEW x \in Dropped(Implied(tuple, affected))
      PROVE  x \in Implied(u, Entities)
  <2>1. x \in Implied(tuple, Entities)
    BY <1>1 DEF Dropped, NoStaleEntry
  <2>2. /\ x[1] \in Indexes /\ x[2] \in Entities
        /\ x = <<x[1], x[2], tuple[x[1]][x[2]]>>
        /\ x[3] = tuple[x[1]][x[2]] /\ x[3] # Uncovered
    BY <2>1, ImpliedEntry
  <2>3. x[2] \notin affected
    <3>1. SUFFICES ASSUME x[2] \in affected PROVE FALSE
      OBVIOUS
    <3>2. x \in Implied(tuple, affected)
      BY <2>2, <3>1, EntryImplied
    <3>3. SamePlace(x, x)
      BY DEF SamePlace
    <3> QED
      BY <1>1, <3>2, <3>3 DEF Dropped
  <2>4. u[x[1]][x[2]] = tuple[x[1]][x[2]]
    BY <2>2, <2>3, Unaffected
  <2>5. <<x[1], x[2], u[x[1]][x[2]]>> \in Implied(u, Entities)
    BY <2>2, <2>4, EntryImplied
  <2> QED
    BY <2>2, <2>4, <2>5
<1>2. ASSUME NEW x \in Implied(u, affected)
      PROVE  x \in Implied(u, Entities)
  BY <1>2 DEF Implied, Change
<1> QED
  BY <1>1, <1>2

(* An entry that the new tuples imply is new, or it was there and is kept: *)
(* no affected entity has shared its place.                                *)
LEMMA NothingGoesMissing ==
  ASSUME NothingMissing, UniqueHolds, ~failed,
         NEW u, NEW affected, Change(u, affected)
  PROVE  Implied(u, Entities)
           \subseteq Dropped(Implied(tuple, affected)) \cup Implied(u, affected)
<1>1. SUFFICES ASSUME NEW x \in Implied(u, Entities), x \notin Implied(u, affected)
               PROVE  x \in Dropped(Implied(tuple, affected))
  OBVIOUS
<1>2. /\ x[1] \in Indexes /\ x[2] \in Entities
      /\ x = <<x[1], x[2], u[x[1]][x[2]]>>
      /\ x[3] = u[x[1]][x[2]] /\ x[3] # Uncovered
  BY ImpliedEntry
<1>3. x[2] \notin affected
  BY <1>1, <1>2, EntryImplied
<1>4. u[x[1]][x[2]] = tuple[x[1]][x[2]]
  BY <1>2, <1>3, Unaffected
<1>5. x \in posted
  <2>1. <<x[1], x[2], tuple[x[1]][x[2]]>> \in Implied(tuple, Entities)
    BY <1>2, <1>4, EntryImplied
  <2> QED
    BY <1>2, <1>4, <2>1 DEF NothingMissing
<1>6. ASSUME NEW y \in Implied(tuple, affected), SamePlace(x, y) PROVE FALSE
  <2>1. /\ y[1] \in Indexes /\ y[2] \in affected
        /\ y[3] = tuple[y[1]][y[2]] /\ y[3] # Uncovered
    BY ImpliedEntry
  <2>2. x[1] = y[1] /\ x[3] = y[3] /\ x[1] \in Unique
    BY <1>3, <1>6, <2>1 DEF SamePlace
  <2>3. y[2] \in Entities
    BY <2>1 DEF Change
  <2>4. tuple[x[1]][x[2]] = tuple[x[1]][y[2]] /\ tuple[x[1]][x[2]] # Uncovered
    BY <1>2, <1>4, <2>1, <2>2
  <2>5. x[2] = y[2]
    BY <1>2, <2>2, <2>3, <2>4 DEF UniqueHolds
  <2> QED
    BY <1>3, <2>1, <2>5
<1> QED
  BY <1>5, <1>6 DEF Dropped

LEMMA EntriesAreTyped ==
  ASSUME NEW u \in Assignments
  PROVE  Implied(u, Entities) \subseteq Entry
<1>1. SUFFICES ASSUME NEW x \in Implied(u, Entities) PROVE x \in Entry
  OBVIOUS
<1>2. /\ x[1] \in Indexes /\ x[2] \in Entities
      /\ x = <<x[1], x[2], u[x[1]][x[2]]>>
      /\ x[3] = u[x[1]][x[2]] /\ x[3] # Uncovered
  BY ImpliedEntry
<1>3. u[x[1]][x[2]] \in Tuples
  BY <1>2 DEF Assignments
<1> QED
  BY <1>2, <1>3 DEF Entry

(* The tuples stay unique: of two equal ones one would be refused, or both *)
(* were there before.                                                      *)
LEMMA RefusalsKeepUnique ==
  ASSUME NoStaleEntry, UniqueHolds, ~failed,
         NEW u, NEW affected, Change(u, affected),
         NEW kept, kept = Dropped(Implied(tuple, affected)),
         NEW new, new = Implied(u, affected),
         Implied(u, Entities) \subseteq kept \cup new,
         \A x \in new : ~Refused(x, kept \cup new),
         NEW i \in Indexes \cap Unique, NEW e \in Entities, NEW f \in Entities,
         u[i][e] # Uncovered, u[i][e] = u[i][f]
  PROVE  e = f
<1> DEFINE x == <<i, e, u[i][e]>>
           y == <<i, f, u[i][f]>>
<1>1. x \in kept \cup new /\ y \in kept \cup new
  <2>1. x \in Implied(u, Entities) /\ y \in Implied(u, Entities)
    BY EntryImplied
  <2> QED
    BY <2>1
<1>2. SamePlace(x, y) /\ SamePlace(y, x)
  BY DEF SamePlace
<1>3. CASE x \in new \/ y \in new
  <2>1. x[2] = y[2]
    BY <1>1, <1>2, <1>3 DEF Refused
  <2> QED
    BY <2>1
<1>4. CASE x \in kept /\ y \in kept
  <2>1. x \in Implied(tuple, Entities) /\ y \in Implied(tuple, Entities)
    BY <1>4 DEF Dropped, NoStaleEntry
  <2>2. x[3] = tuple[x[1]][x[2]] /\ y[3] = tuple[y[1]][y[2]]
    BY <2>1, ImpliedEntry
  <2>3. tuple[i][e] = u[i][e] /\ tuple[i][f] = u[i][f]
    BY <2>2
  <2> QED
    BY <2>3 DEF UniqueHolds
<1> QED
  BY <1>1, <1>3, <1>4

LEMMA InvInit == Init => IInv
<1>1. SUFFICES ASSUME Init PROVE IInv
  OBVIOUS
<1>2. \A i \in Indexes, e \in Entities : tuple[i][e] = Uncovered
  BY <1>1 DEF Init
<1>3. TypeOK
  BY <1>1 DEF Init, TypeOK, Assignments, Entry
<1>4. Implied(tuple, Entities) = {}
  <2>1. SUFFICES ASSUME NEW x \in Implied(tuple, Entities) PROVE FALSE
    OBVIOUS
  <2> QED
    BY <1>2, ImpliedEntry
<1> QED
  BY <1>1, <1>2, <1>3, <1>4 DEF Init, IInv, NoStaleEntry, NothingMissing, UniqueHolds

LEMMA InvStep == IInv /\ [Next]_vars => IInv'
<1>1. SUFFICES ASSUME IInv, [Next]_vars PROVE IInv'
  OBVIOUS
<1> USE DEF IInv
<1>2. CASE UNCHANGED vars
  BY <1>1, <1>2 DEF vars, TypeOK, NoStaleEntry, NothingMissing, UniqueHolds,
                    Implied
<1>3. CASE Next
  <2> DEFINE u == tuple'
  <2>1. PICK others \in SUBSET (Entities \ Touched(tuple, u)) :
          LET affected == Touched(tuple, u) \cup others
          IN  \E kept \in {Dropped(Implied(tuple, affected))},
                 new \in {Implied(u, affected)} :
                Mutate(kept, new) \/ Fail(kept, new)
    BY <1>3 DEF Next
  <2> DEFINE affected == Touched(tuple, u) \cup others
             kept == Dropped(Implied(tuple, affected))
             new == Implied(u, affected)
  <2>2. Mutate(kept, new) \/ Fail(kept, new)
    BY <2>1
  <2>3. u \in Assignments
    BY <1>3 DEF Next
  <2>4. Change(u, affected)
    BY <2>3 DEF Change, Touched
  <2> HIDE DEF affected, kept, new
  <2>5. kept \cup new \subseteq Implied(u, Entities)
    BY <1>1, <2>4, NothingGoesStale DEF kept, new
  <2>6. posted' \subseteq kept \cup new
    BY <2>2 DEF Mutate, Fail
  <2>7. NoStaleEntry'
    BY <2>5, <2>6 DEF NoStaleEntry, Implied
  <2>8. TypeOK'
    <3>1. posted' \subseteq Entry
      BY <2>3, <2>5, <2>6, EntriesAreTyped
    <3>2. failed' \in BOOLEAN
      BY <1>1, <2>2 DEF Mutate, Fail, TypeOK
    <3> QED
      BY <2>3, <3>1, <3>2 DEF TypeOK, Assignments, Entry
  <2>9. CASE Fail(kept, new)
    BY <2>7, <2>8, <2>9 DEF Fail, NothingMissing, UniqueHolds
  <2>10. CASE Mutate(kept, new) /\ failed
    BY <2>7, <2>8, <2>10 DEF Mutate, NothingMissing, UniqueHolds
  <2>11. CASE Mutate(kept, new) /\ ~failed
    <3>1. Implied(u, Entities) \subseteq kept \cup new
      BY <1>1, <2>4, <2>11, NothingGoesMissing DEF kept, new
    <3>2. NothingMissing'
      BY <2>11, <3>1 DEF Mutate, NothingMissing, Implied
    <3>3. ASSUME NEW i \in Indexes \cap Unique, NEW e \in Entities,
                 NEW f \in Entities, u[i][e] # Uncovered, u[i][e] = u[i][f]
          PROVE  e = f
      <4>1. \A x \in new : ~Refused(x, kept \cup new)
        BY <2>11 DEF Mutate
      <4>2. NoStaleEntry /\ UniqueHolds /\ ~failed
        BY <1>1, <2>11
      <4> QED
        BY <2>4, <3>1, <3>3, <4>1, <4>2, RefusalsKeepUnique DEF kept, new
    <3>4. UniqueHolds'
      BY <3>3 DEF UniqueHolds
    <3> QED
      BY <2>7, <2>8, <3>2, <3>4
  <2> QED
    BY <2>2, <2>9, <2>10, <2>11
<1> QED
  BY <1>1, <1>2, <1>3

(* The entries and the tuples are of their types (the engine's index       *)
(* entries, maintenance.rs).                                               *)
THEOREM TypesHold == Spec => []TypeOK
BY InvInit, InvStep, PTL DEF Spec, IInv

(* No entry is wrong, even after calls that failed (reindex_around).       *)
THEOREM NothingStale == Spec => []NoStaleEntry
BY InvInit, InvStep, PTL DEF Spec, IInv

(* As long as no call fails no entry is missing: deleting the entries of   *)
(* the affected entities and inserting the new ones covers every case.     *)
THEOREM NothingIsMissing == Spec => []NothingMissing
BY InvInit, InvStep, PTL DEF Spec, IInv

(* A unique index holds for the entities (guard_unique).                   *)
THEOREM UniqueIndexesHold == Spec => []UniqueHolds
BY InvInit, InvStep, PTL DEF Spec, IInv
=============================================================================
