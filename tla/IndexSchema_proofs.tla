------------------------- MODULE IndexSchema_proofs -------------------------
(***************************************************************************)
(* The invariants of IndexSchema, proved for any number of threads, tables *)
(* and indexes: what the shared index sets guarantee however DDL calls and *)
(* writers overlap, and what they guarantee when they do not.              *)
(***************************************************************************)
EXTENDS IndexSchema, TLAPS

(* Every action, one disjunct each.                                        *)
Step(w) ==
  \/ \E t \in Tables : BeginWrite(w, t) \/ BeginDdl(w, t)
  \/ LoadSchemaGen(w) \/ ConsultCache(w) \/ LoadRegistry(w) \/ FillCache(w)
  \/ \E e \in Entities, v \in Values \cup {Nothing} : Mutate(w, e, v)
  \/ Commit(w) \/ Abort(w)
  \/ pc[w] = "ddl" /\ \E n \in Names, d \in Defs :
                         Named(work, table[w], n) = {} /\ Register(w, n, d)
  \/ pc[w] = "ddl" /\ LeaveAsIs(w)
  \/ \E n \in Names : DeleteIndex(w, n)
  \/ CommitDdl(w) \/ BumpSchemaGen(w)

(* Every step of Next is one of these, a crash, or a stutter.              *)
LEMMA NextSteps ==
  ASSUME [Next]_vars
  PROVE  (\E w \in Threads : Step(w)) \/ CrashAndReopen \/ UNCHANGED vars
  BY DEF Next, Writing, Ddl, Step, CreateIndex, EnsureIndex

------------------------------------------------------------------------------
(* Postings                                                                *)

(* What is a posting of a set of index ids: one per id and stored entity.  *)
LEMMA PostingsElement ==
  ASSUME NEW ids, NEW content, NEW es, NEW x
  PROVE  x \in Postings(ids, content, es) <=>
           \E i \in ids, e \in es :
             content[e] # Nothing /\ x = [id |-> i, entity |-> e, val |-> content[e]]
  BY DEF Postings

(* Postings of known ids, entities and content are postings.               *)
LEMMA PostingsType ==
  ASSUME NEW ids \in SUBSET Nat, NEW es \in SUBSET Entities,
         NEW content \in [Entities -> Values \cup {Nothing}]
  PROVE  Postings(ids, content, es) \subseteq Posting
  <1> SUFFICES ASSUME NEW x \in Postings(ids, content, es)
               PROVE  x \in Posting
    OBVIOUS
  <1>1. PICK i \in ids, e \in es :
          content[e] # Nothing /\ x = [id |-> i, entity |-> e, val |-> content[e]]
    BY DEF Postings
  <1>2. i \in Nat /\ e \in Entities /\ content[e] \in Values
    BY <1>1
  <1> QED  BY <1>1, <1>2 DEF Posting

(* The ids of a set of indexes are numbers.                                *)
LEMMA IdsType ==
  ASSUME NEW is \in SUBSET Index
  PROVE  Ids(is) \in SUBSET Nat
  BY DEF Ids, Index

------------------------------------------------------------------------------
(* Types                                                                   *)

(* Every step keeps the types.                                             *)
LEMMA TypeStep ==
  ASSUME Inv, [Next]_vars
  PROVE  TypeOK'
  <1> USE DEF vars, End
  <1> TypeOK /\ HolderInv
    BY DEF Inv
  <1>0. work \in Db /\ committed \in Db
    BY DEF TypeOK
  <1>1. ASSUME NEW w \in Threads, NEW t \in Tables, BeginWrite(w, t) \/ BeginDdl(w, t)
        PROVE  TypeOK'
    BY <1>1 DEF BeginWrite, BeginDdl, Begin, TypeOK, Pc
  <1>2. ASSUME NEW w \in Threads, LoadSchemaGen(w)
        PROVE  TypeOK'
    BY <1>2 DEF LoadSchemaGen, TypeOK, Pc
  <1>3. ASSUME NEW w \in Threads, ConsultCache(w)
        PROVE  TypeOK'
    <2>1. table[w] \in Tables
      BY <1>3 DEF ConsultCache, HolderInv
    <2>2. indexSets[table[w]] # NotCached => Loaded(indexSets[table[w]].set) \in MySet
      BY <2>1 DEF TypeOK, Cached, MySet, Loaded
    <2>3. mine' \in [Threads -> MySet]
      BY <1>3, <2>2 DEF ConsultCache, TypeOK
    <2>4. pc' \in [Threads -> Pc]
      BY <1>3 DEF ConsultCache, TypeOK, Pc
    <2> QED  BY <1>3, <2>3, <2>4 DEF ConsultCache, TypeOK
  <1>4. ASSUME NEW w \in Threads, LoadRegistry(w)
        PROVE  TypeOK'
    BY <1>4 DEF LoadRegistry, TypeOK, Pc, IndexesOf, MySet, Loaded, Db
  <1>5. ASSUME NEW w \in Threads, FillCache(w)
        PROVE  TypeOK'
    BY <1>5 DEF FillCache, TypeOK, Pc, Cached, MySet
  <1>6. ASSUME NEW w \in Threads, NEW e \in Entities, NEW v \in Values \cup {Nothing}, Mutate(w, e, v)
        PROVE  TypeOK'
    <2> DEFINE t == table[w]
               content == [work.content[t] EXCEPT ![e] = v]
               ids == Ids(mine[w].set)
    <2>1. t \in Tables /\ ids \in SUBSET Nat
      BY <1>6, IdsType DEF Mutate, HolderInv, TypeOK, MySet
    <2>2. content \in [Entities -> Values \cup {Nothing}]
      BY <1>0, <2>1 DEF Db
    <2>3. Postings(ids, content, {e}) \subseteq Posting
      BY <2>1, <2>2, PostingsType
    <2> HIDE DEF t, content, ids
    <2>4. work' = [work EXCEPT
                     !.postings = (@ \ Postings(ids, work.content[t], {e}))
                                    \cup Postings(ids, content, {e}),
                     !.content[t] = content]
      BY <1>6 DEF Mutate, t, content, ids
    <2>5. work' \in Db
      BY <1>0, <2>1, <2>2, <2>3, <2>4 DEF Db
    <2> QED  BY <1>6, <2>5 DEF Mutate, TypeOK
  <1>7. ASSUME NEW w \in Threads, Commit(w)
        PROVE  TypeOK'
    BY <1>7 DEF Commit, TypeOK, Pc, NotLoaded, MySet
  <1>8. ASSUME NEW w \in Threads, Abort(w)
        PROVE  TypeOK'
    BY <1>8 DEF Abort, TypeOK, Pc, NotLoaded, MySet
  <1>9. ASSUME NEW w \in Threads, CommitDdl(w)
        PROVE  TypeOK'
    BY <1>9 DEF CommitDdl, TypeOK, Pc, NotLoaded, MySet
  <1>10. ASSUME NEW w \in Threads, pc[w] = "ddl", NEW n \in Names, NEW d \in Defs,
               Named(work, table[w], n) = {}, Register(w, n, d)
        PROVE  TypeOK'
    <2> DEFINE t == table[w]
               new == [table |-> t, name |-> n, def |-> d, id |-> work.next]
    <2>1. t \in Tables
      BY <1>10 DEF HolderInv
    <2>2. new \in Index /\ new.id = work.next /\ {work.next} \in SUBSET Nat
      BY <1>0, <2>1 DEF Db, Index
    <2>3. work.content[t] \in [Entities -> Values \cup {Nothing}]
      BY <1>0, <2>1 DEF Db
    <2>4. Postings({work.next}, work.content[t], Entities) \subseteq Posting
      BY <2>2, <2>3, PostingsType
    <2> HIDE DEF new, t
    <2>5. work' = [work EXCEPT
                     !.next = @ + 1,
                     !.registry = @ \cup {new},
                     !.postings = @ \cup Postings({work.next}, work.content[t], Entities)]
      BY <1>10 DEF Register, new, t
    <2>6. work' = [next |-> work.next + 1,
                   registry |-> work.registry \cup {new},
                   postings |-> work.postings
                                  \cup Postings({work.next}, work.content[t], Entities),
                   content |-> work.content]
      BY <1>0, <2>5 DEF Db
    <2>7. /\ work.next \in Nat /\ work.registry \in SUBSET Index
          /\ work.postings \in SUBSET Posting
          /\ work.content \in [Tables -> [Entities -> Values \cup {Nothing}]]
      BY <1>0 DEF Db
    <2>8. work' \in Db
      <3>1. work.next + 1 \in Nat /\ work.registry \cup {new} \in SUBSET Index
        BY <2>2, <2>7
      <3>2. work.postings \cup Postings({work.next}, work.content[t], Entities)
              \in SUBSET Posting
        BY <2>4, <2>7
      <3> QED  BY <2>6, <2>7, <3>1, <3>2 DEF Db
    <2> QED  BY <1>10, <2>8 DEF Register, TypeOK, Pc
  <1>11. ASSUME NEW w \in Threads, pc[w] = "ddl", LeaveAsIs(w)
        PROVE  TypeOK'
    BY <1>11 DEF LeaveAsIs, TypeOK, Pc
  <1>12. ASSUME NEW w \in Threads, NEW n \in Names, DeleteIndex(w, n)
        PROVE  TypeOK'
    <2>1. work' \in Db
      BY <1>0, <1>12 DEF DeleteIndex, Db
    <2> QED  BY <1>12, <2>1 DEF DeleteIndex, TypeOK, Pc
  <1>13. ASSUME NEW w \in Threads, BumpSchemaGen(w)
        PROVE  TypeOK'
    BY <1>13 DEF BumpSchemaGen, TypeOK, Pc
  <1>14. ASSUME CrashAndReopen  PROVE TypeOK'
    BY <1>14 DEF CrashAndReopen, TypeOK, Pc, NotLoaded, MySet
  <1>15. ASSUME UNCHANGED vars  PROVE TypeOK'
    BY <1>15 DEF TypeOK
  <1> QED
    BY NextSteps, <1>1, <1>2, <1>3, <1>4, <1>5, <1>6, <1>7, <1>8, <1>9,
       <1>10, <1>11, <1>12, <1>13, <1>14, <1>15 DEF Step

------------------------------------------------------------------------------
(* The schema cache                                                        *)

(* Every step keeps the program points and the engine's write transaction   *)
(* in agreement.                                                           *)
LEMMA HolderStep ==
  ASSUME Inv, [Next]_vars
  PROVE  HolderInv'
  <1> USE DEF vars, End
  <1> TypeOK /\ HolderInv
    BY DEF Inv
  <1>1. ASSUME NEW w \in Threads, NEW t \in Tables, BeginWrite(w, t) \/ BeginDdl(w, t)
        PROVE  HolderInv'
    BY <1>1, SchemaAssumption DEF BeginWrite, BeginDdl, Begin, TypeOK, HolderInv
  <1>2. ASSUME NEW w \in Threads, LoadSchemaGen(w)
        PROVE  HolderInv'
    BY <1>2 DEF LoadSchemaGen, TypeOK, HolderInv
  <1>3. ASSUME NEW w \in Threads, ConsultCache(w)
        PROVE  HolderInv'
    BY <1>3 DEF ConsultCache, TypeOK, HolderInv, Loaded
  <1>4. ASSUME NEW w \in Threads, LoadRegistry(w)
        PROVE  HolderInv'
    BY <1>4 DEF LoadRegistry, TypeOK, HolderInv, Loaded
  <1>5. ASSUME NEW w \in Threads, FillCache(w)
        PROVE  HolderInv'
    BY <1>5 DEF FillCache, TypeOK, HolderInv
  <1>6. ASSUME NEW w \in Threads, NEW e \in Entities, NEW v \in Values \cup {Nothing}, Mutate(w, e, v)
        PROVE  HolderInv'
    <2>1. work'.registry = work.registry /\ work'.next = work.next
      BY <1>6 DEF Mutate, TypeOK, Db
    <2> QED  BY <1>6, <2>1 DEF Mutate, HolderInv
  <1>7. ASSUME NEW w \in Threads, Commit(w)
        PROVE  HolderInv'
    BY <1>7, SchemaAssumption DEF Commit, TypeOK, HolderInv, NotLoaded
  <1>8. ASSUME NEW w \in Threads, Abort(w)
        PROVE  HolderInv'
    BY <1>8, SchemaAssumption DEF Abort, TypeOK, Pc, HolderInv, NotLoaded
  <1>9. ASSUME NEW w \in Threads, CommitDdl(w)
        PROVE  HolderInv'
    BY <1>9, SchemaAssumption DEF CommitDdl, TypeOK, HolderInv, NotLoaded
  <1>10. ASSUME NEW w \in Threads, pc[w] = "ddl", NEW n \in Names, NEW d \in Defs,
               Named(work, table[w], n) = {}, Register(w, n, d)
        PROVE  HolderInv'
    BY <1>10 DEF Register, TypeOK, HolderInv
  <1>11. ASSUME NEW w \in Threads, pc[w] = "ddl", LeaveAsIs(w)
        PROVE  HolderInv'
    BY <1>11 DEF LeaveAsIs, TypeOK, HolderInv
  <1>12. ASSUME NEW w \in Threads, NEW n \in Names, DeleteIndex(w, n)
        PROVE  HolderInv'
    BY <1>12 DEF DeleteIndex, TypeOK, HolderInv
  <1>13. ASSUME NEW w \in Threads, BumpSchemaGen(w)
        PROVE  HolderInv'
    BY <1>13 DEF BumpSchemaGen, TypeOK, HolderInv
  <1>14. ASSUME CrashAndReopen  PROVE HolderInv'
    BY <1>14, SchemaAssumption DEF CrashAndReopen, HolderInv, NotLoaded
  <1>15. ASSUME UNCHANGED vars  PROVE HolderInv'
    BY <1>15 DEF HolderInv
  <1> QED
    BY NextSteps, <1>1, <1>2, <1>3, <1>4, <1>5, <1>6, <1>7, <1>8, <1>9,
       <1>10, <1>11, <1>12, <1>13, <1>14, <1>15 DEF Step

(* Every set put in the cache is the committed one under a tag already seen. *)
LEMMA TagStep ==
  ASSUME Inv, [Next]_vars
  PROVE  TagInv'
  <1> USE DEF vars, End
  <1> TypeOK /\ HolderInv /\ TagInv
    BY DEF Inv
  <1>1. ASSUME NEW w \in Threads, NEW t \in Tables, BeginWrite(w, t) \/ BeginDdl(w, t)
        PROVE  TagInv'
    BY <1>1 DEF BeginWrite, BeginDdl, Begin, TypeOK, TagInv
  <1>2. ASSUME NEW w \in Threads, LoadSchemaGen(w)
        PROVE  TagInv'
    BY <1>2 DEF LoadSchemaGen, TypeOK, TagInv
  <1>3. ASSUME NEW w \in Threads, ConsultCache(w)
        PROVE  TagInv'
    BY <1>3 DEF ConsultCache, TypeOK, TagInv
  <1>4. ASSUME NEW w \in Threads, LoadRegistry(w)
        PROVE  TagInv'
    BY <1>4 DEF LoadRegistry, TypeOK, TagInv, HolderInv, IndexesOf
  <1>5. ASSUME NEW w \in Threads, FillCache(w)
        PROVE  TagInv'
    BY <1>5 DEF FillCache, TypeOK, TagInv, Cached
  <1>6. ASSUME NEW w \in Threads, NEW e \in Entities, NEW v \in Values \cup {Nothing}, Mutate(w, e, v)
        PROVE  TagInv'
    BY <1>6 DEF Mutate, TagInv, TypeOK
  <1>7. ASSUME NEW w \in Threads, Commit(w)
        PROVE  TagInv'
    <2>1. \A u \in Threads \ {w} : pc[u] # "loaded"
      BY <1>7 DEF Commit, HolderInv, TypeOK, Pc
    <2> QED  BY <1>7, <2>1 DEF Commit, TypeOK, TagInv
  <1>8. ASSUME NEW w \in Threads, Abort(w)
        PROVE  TagInv'
    <2>1. \A u \in Threads \ {w} : pc[u] # "loaded"
      BY <1>8 DEF Abort, HolderInv, TypeOK, Pc
    <2> QED  BY <1>8, <2>1 DEF Abort, TypeOK, TagInv
  <1>9. ASSUME NEW w \in Threads, CommitDdl(w)
        PROVE  TagInv'
    <2>1. \A u \in Threads \ {w} : pc[u] # "loaded"
      BY <1>9 DEF CommitDdl, HolderInv, TypeOK, Pc
    <2> QED  BY <1>9, <2>1 DEF CommitDdl, TypeOK, TagInv
  <1>10. ASSUME NEW w \in Threads, pc[w] = "ddl", NEW n \in Names, NEW d \in Defs,
               Named(work, table[w], n) = {}, Register(w, n, d)
        PROVE  TagInv'
    BY <1>10 DEF Register, TypeOK, TagInv
  <1>11. ASSUME NEW w \in Threads, pc[w] = "ddl", LeaveAsIs(w)
        PROVE  TagInv'
    BY <1>11 DEF LeaveAsIs, TypeOK, TagInv
  <1>12. ASSUME NEW w \in Threads, NEW n \in Names, DeleteIndex(w, n)
        PROVE  TagInv'
    BY <1>12 DEF DeleteIndex, TypeOK, TagInv
  <1>13. ASSUME NEW w \in Threads, BumpSchemaGen(w)
        PROVE  TagInv'
    BY <1>13 DEF BumpSchemaGen, TypeOK, TagInv, Cached
  <1>14. ASSUME CrashAndReopen  PROVE TagInv'
    BY <1>14 DEF CrashAndReopen, TagInv
  <1>15. ASSUME UNCHANGED vars  PROVE TagInv'
    BY <1>15 DEF TagInv
  <1> QED
    BY NextSteps, <1>1, <1>2, <1>3, <1>4, <1>5, <1>6, <1>7, <1>8, <1>9,
       <1>10, <1>11, <1>12, <1>13, <1>14, <1>15 DEF Step

(* A set under the current tag stays the committed one: a DDL commit opens  *)
(* a gap, and the bump that closes it leaves no set under the new tag.     *)
LEMMA CachedStep ==
  ASSUME Inv, [Next]_vars
  PROVE  CachedSetIsCurrent'
  <1> USE DEF vars, End
  <1> TypeOK /\ HolderInv /\ TagInv /\ CachedSetIsCurrent
    BY DEF Inv
  <1>1. ASSUME NEW w \in Threads, NEW t \in Tables, BeginWrite(w, t) \/ BeginDdl(w, t)
        PROVE  CachedSetIsCurrent'
    BY <1>1 DEF BeginWrite, BeginDdl, Begin, TypeOK, CachedSetIsCurrent, Unbumped
  <1>2. ASSUME NEW w \in Threads, LoadSchemaGen(w)
        PROVE  CachedSetIsCurrent'
    BY <1>2 DEF LoadSchemaGen, TypeOK, CachedSetIsCurrent, Unbumped
  <1>3. ASSUME NEW w \in Threads, ConsultCache(w)
        PROVE  CachedSetIsCurrent'
    BY <1>3 DEF ConsultCache, TypeOK, CachedSetIsCurrent, Unbumped
  <1>4. ASSUME NEW w \in Threads, LoadRegistry(w)
        PROVE  CachedSetIsCurrent'
    BY <1>4 DEF LoadRegistry, TypeOK, CachedSetIsCurrent, Unbumped
  <1>5. ASSUME NEW w \in Threads, FillCache(w)
        PROVE  CachedSetIsCurrent'
    <2>1. mine[w].set = IndexesOf(committed, table[w])
      <3>1. mine[w] = [loaded |-> TRUE, set |-> IndexesOf(committed, table[w])]
        BY <1>5 DEF FillCache, TagInv, Loaded
      <3> QED  BY <3>1
    <2>2. UNCHANGED <<committed, schemaGen>> /\ Unbumped' = Unbumped
      BY <1>5 DEF FillCache, TypeOK, Unbumped
    <2> QED  BY <1>5, <2>1, <2>2 DEF FillCache, TypeOK, CachedSetIsCurrent
  <1>6. ASSUME NEW w \in Threads, NEW e \in Entities, NEW v \in Values \cup {Nothing}, Mutate(w, e, v)
        PROVE  CachedSetIsCurrent'
    BY <1>6 DEF Mutate, CachedSetIsCurrent, Unbumped
  <1>7. ASSUME NEW w \in Threads, Commit(w)
        PROVE  CachedSetIsCurrent'
    <2>1. committed'.registry = committed.registry
      BY <1>7 DEF Commit, HolderInv
    <2>2. Unbumped' = Unbumped
      BY <1>7 DEF Commit, TypeOK, Unbumped
    <2> QED  BY <1>7, <2>1, <2>2 DEF Commit, CachedSetIsCurrent, IndexesOf
  <1>8. ASSUME NEW w \in Threads, Abort(w)
        PROVE  CachedSetIsCurrent'
    BY <1>8 DEF Abort, TypeOK, CachedSetIsCurrent, Unbumped
  <1>9. ASSUME NEW w \in Threads, pc[w] = "ddl", NEW n \in Names, NEW d \in Defs,
               Named(work, table[w], n) = {}, Register(w, n, d)
        PROVE  CachedSetIsCurrent'
    BY <1>9 DEF Register, TypeOK, CachedSetIsCurrent, Unbumped
  <1>10. ASSUME NEW w \in Threads, pc[w] = "ddl", LeaveAsIs(w)
        PROVE  CachedSetIsCurrent'
    BY <1>10 DEF LeaveAsIs, TypeOK, CachedSetIsCurrent, Unbumped
  <1>11. ASSUME NEW w \in Threads, NEW n \in Names, DeleteIndex(w, n)
        PROVE  CachedSetIsCurrent'
    BY <1>11 DEF DeleteIndex, TypeOK, CachedSetIsCurrent, Unbumped
  <1>12. ASSUME NEW w \in Threads, CommitDdl(w)
        PROVE  CachedSetIsCurrent'
    <2>1. w \in Unbumped'
      BY <1>12 DEF CommitDdl, TypeOK, Unbumped
    <2> QED  BY <2>1 DEF CachedSetIsCurrent
  <1>13. ASSUME NEW w \in Threads, BumpSchemaGen(w)
        PROVE  CachedSetIsCurrent'
    <2>1. \A t \in Tables : indexSets[t] # NotCached =>
             indexSets[t].gen \in Nat /\ indexSets[t].gen <= schemaGen
      BY DEF TypeOK, Cached, TagInv
    <2>2. \A t \in Tables : indexSets'[t] # NotCached => indexSets'[t].gen # schemaGen'
      BY <1>13, <2>1 DEF BumpSchemaGen, TypeOK
    <2> QED  BY <2>2 DEF CachedSetIsCurrent
  <1>14. ASSUME CrashAndReopen  PROVE CachedSetIsCurrent'
    BY <1>14 DEF CrashAndReopen, CachedSetIsCurrent
  <1>15. ASSUME UNCHANGED vars  PROVE CachedSetIsCurrent'
    BY <1>15 DEF CachedSetIsCurrent, Unbumped
  <1> QED
    BY NextSteps, <1>1, <1>2, <1>3, <1>4, <1>5, <1>6, <1>7, <1>8, <1>9,
       <1>10, <1>11, <1>12, <1>13, <1>14, <1>15 DEF Step

------------------------------------------------------------------------------
(* Ids                                                                     *)

(* Ids stay below the allocator, which never goes back.                    *)
LEMMA IdsStep ==
  ASSUME Inv, [Next]_vars
  PROVE  (IdsInv(committed) /\ IdsInv(work) /\ NewIdsInv)'
  <1> USE DEF vars, End
  <1> TypeOK /\ HolderInv /\ IdsInv(committed) /\ IdsInv(work) /\ NewIdsInv
    BY DEF Inv
  <1>0. work \in Db /\ committed \in Db
    BY DEF TypeOK
  <1>1. ASSUME NEW w \in Threads, NEW t \in Tables, BeginWrite(w, t) \/ BeginDdl(w, t)
        PROVE  (IdsInv(committed) /\ IdsInv(work) /\ NewIdsInv)'
    BY <1>1, <1>0 DEF BeginWrite, BeginDdl, Begin, IdsInv, NewIdsInv, Db
  <1>2. ASSUME NEW w \in Threads, LoadSchemaGen(w)
        PROVE  (IdsInv(committed) /\ IdsInv(work) /\ NewIdsInv)'
    BY <1>2 DEF LoadSchemaGen, IdsInv, NewIdsInv
  <1>3. ASSUME NEW w \in Threads, ConsultCache(w)
        PROVE  (IdsInv(committed) /\ IdsInv(work) /\ NewIdsInv)'
    <2>1. table[w] \in Tables
      BY <1>3 DEF ConsultCache, HolderInv
    <2> QED  BY <1>3, <2>1 DEF ConsultCache, TypeOK, Loaded, IdsInv, NewIdsInv
  <1>4. ASSUME NEW w \in Threads, LoadRegistry(w)
        PROVE  (IdsInv(committed) /\ IdsInv(work) /\ NewIdsInv)'
    <2>1. \A i \in IndexesOf(work, table[w]) : i.id < committed.next
      BY <1>4 DEF LoadRegistry, HolderInv, IndexesOf, IdsInv
    <2> QED  BY <1>4, <2>1 DEF LoadRegistry, TypeOK, Loaded, IdsInv, NewIdsInv
  <1>5. ASSUME NEW w \in Threads, FillCache(w)
        PROVE  (IdsInv(committed) /\ IdsInv(work) /\ NewIdsInv)'
    BY <1>5 DEF FillCache, TypeOK, IdsInv, NewIdsInv
  <1>6. ASSUME NEW w \in Threads, NEW e \in Entities, NEW v \in Values \cup {Nothing}, Mutate(w, e, v)
        PROVE  (IdsInv(committed) /\ IdsInv(work) /\ NewIdsInv)'
    <2> DEFINE content == [work.content[table[w]] EXCEPT ![e] = v]
               is == Ids(mine[w].set)
    <2>1. UNCHANGED committed /\ work'.registry = work.registry /\ work'.next = work.next
          /\ \A x \in work'.postings :
               x \in work.postings \/ x \in Postings(is, content, {e})
      BY <1>6 DEF Mutate, TypeOK, Db
    <2>2. \A i \in is : i < work.next
      <3>1. /\ mine[w].set \in SUBSET Index
            /\ \A i \in mine[w].set : i.id < committed.next
        BY DEF TypeOK, MySet, NewIdsInv
      <3> QED  BY <1>6 , <1>0, <3>1 DEF Mutate, Ids, NewIdsInv, Db, Index
    <2>3. \A x \in Postings(is, content, {e}) : x.id \in is
      BY DEF Postings
    <2>4. UNCHANGED <<mine, indexSets>>
      BY <1>6 DEF Mutate
    <2> HIDE DEF is, content
    <2> QED  BY <2>1, <2>2, <2>3, <2>4 DEF IdsInv, NewIdsInv
  <1>7. ASSUME NEW w \in Threads, Commit(w)
        PROVE  (IdsInv(committed) /\ IdsInv(work) /\ NewIdsInv)'
    <2>1. \A u \in Threads : mine'[u].set \subseteq mine[u].set
      BY <1>7 DEF Commit, TypeOK, NotLoaded
    <2>2. UNCHANGED indexSets /\ work' \in {work, committed} /\ committed' \in {work, committed}
      BY <1>7 DEF Commit
    <2>4. IdsInv(committed)' /\ IdsInv(work)'
      BY <1>7, <2>2 DEF Commit, IdsInv
    <2>5. NewIdsInv'
      BY <1>0, <1>7, <2>1, <2>2 DEF Commit, NewIdsInv, Db, TypeOK, MySet, Cached, Index
    <2> QED  BY <2>4, <2>5
  <1>8. ASSUME NEW w \in Threads, Abort(w)
        PROVE  (IdsInv(committed) /\ IdsInv(work) /\ NewIdsInv)'
    <2>1. \A u \in Threads : mine'[u].set \subseteq mine[u].set
      BY <1>8 DEF Abort, TypeOK, NotLoaded
    <2>2. UNCHANGED indexSets /\ work' \in {work, committed} /\ committed' \in {work, committed}
      BY <1>8 DEF Abort
    <2>4. IdsInv(committed)' /\ IdsInv(work)'
      BY <1>8, <2>2 DEF Abort, IdsInv
    <2>5. NewIdsInv'
      BY <1>0, <1>8, <2>1, <2>2 DEF Abort, NewIdsInv, Db, TypeOK, MySet, Cached, Index
    <2> QED  BY <2>4, <2>5
  <1>9. ASSUME NEW w \in Threads, CommitDdl(w)
        PROVE  (IdsInv(committed) /\ IdsInv(work) /\ NewIdsInv)'
    <2>1. \A u \in Threads : mine'[u].set \subseteq mine[u].set
      BY <1>9 DEF CommitDdl, TypeOK, NotLoaded
    <2>2. UNCHANGED indexSets /\ work' \in {work, committed} /\ committed' \in {work, committed}
      BY <1>9 DEF CommitDdl
    <2>4. IdsInv(committed)' /\ IdsInv(work)'
      BY <1>9, <2>2 DEF CommitDdl, IdsInv
    <2>5. NewIdsInv'
      BY <1>0, <1>9, <2>1, <2>2 DEF CommitDdl, NewIdsInv, Db, TypeOK, MySet, Cached, Index
    <2> QED  BY <2>4, <2>5
  <1>10. ASSUME NEW w \in Threads, pc[w] = "ddl", NEW n \in Names, NEW d \in Defs,
               Named(work, table[w], n) = {}, Register(w, n, d)
        PROVE  (IdsInv(committed) /\ IdsInv(work) /\ NewIdsInv)'
    <2> DEFINE t == table[w]
               new == [table |-> t, name |-> n, def |-> d, id |-> work.next]
    <2>1. /\ work'.next = work.next + 1
          /\ work'.registry = work.registry \cup {new}
          /\ work'.postings = work.postings
                                 \cup Postings({work.next}, work.content[t], Entities)
      BY <1>10, <1>0 DEF Register, Db
    <2>2. \A x \in Postings({work.next}, work.content[t], Entities) : x.id = work.next
      BY DEF Postings
    <2>3. /\ new.id = work.next /\ work.next \in Nat /\ committed.next \in Nat
          /\ \A i \in work.registry : i.id \in Nat
          /\ \A x \in work.postings : x.id \in Nat
      BY <1>0 DEF Db, Index, Posting
    <2> HIDE DEF new, t
    <2>4. IdsInv(work)'
      <3>1. \A i \in work'.registry : i.id < work'.next
        BY <2>1, <2>3 DEF IdsInv
      <3>2. ASSUME NEW x \in work'.postings  PROVE x.id < work'.next
        <4>1. CASE x \in work.postings
          <5>1. x.id < work.next /\ x.id \in Nat
            BY <2>3, <4>1 DEF IdsInv
          <5> QED  BY <2>1, <2>3, <5>1
        <4>2. CASE x \in Postings({work.next}, work.content[t], Entities)
          <5>1. x.id = work.next
            BY <2>2, <4>2
          <5> QED  BY <2>1, <2>3, <5>1
        <4> QED  BY <2>1, <4>1, <4>2
      <3>3. \A i, j \in work'.registry : i.id = j.id => i = j
        BY <2>1, <2>3 DEF IdsInv
      <3> QED  BY <3>1, <3>2, <3>3 DEF IdsInv
    <2>5. NewIdsInv'
      BY <1>10, <2>1, <2>3 DEF Register, NewIdsInv
    <2> QED  BY <1>10, <2>4, <2>5 DEF Register, IdsInv
  <1>11. ASSUME NEW w \in Threads, pc[w] = "ddl", LeaveAsIs(w)
        PROVE  (IdsInv(committed) /\ IdsInv(work) /\ NewIdsInv)'
    BY <1>11 DEF LeaveAsIs, IdsInv, NewIdsInv
  <1>12. ASSUME NEW w \in Threads, NEW n \in Names, DeleteIndex(w, n)
        PROVE  (IdsInv(committed) /\ IdsInv(work) /\ NewIdsInv)'
    BY <1>12, <1>0 DEF DeleteIndex, IdsInv, NewIdsInv, Db
  <1>13. ASSUME NEW w \in Threads, BumpSchemaGen(w)
        PROVE  (IdsInv(committed) /\ IdsInv(work) /\ NewIdsInv)'
    BY <1>13 DEF BumpSchemaGen, IdsInv, NewIdsInv
  <1>14. ASSUME CrashAndReopen  PROVE (IdsInv(committed) /\ IdsInv(work) /\ NewIdsInv)'
    BY <1>14, <1>0 DEF CrashAndReopen, IdsInv, NewIdsInv, Db, NotLoaded
  <1>15. ASSUME UNCHANGED vars  PROVE (IdsInv(committed) /\ IdsInv(work) /\ NewIdsInv)'
    BY <1>15 DEF IdsInv, NewIdsInv
  <1> QED
    BY NextSteps, <1>1, <1>2, <1>3, <1>4, <1>5, <1>6, <1>7, <1>8, <1>9,
       <1>10, <1>11, <1>12, <1>13, <1>14, <1>15 DEF Step

------------------------------------------------------------------------------
(* The indexes and the data                                                *)

(* PostingsMatch, one posting at a time.                                   *)
Due(db, x) ==
  \E i \in db.registry : x.id = i.id /\ db.content[i.table][x.entity] = x.val

(* Postings that match the data are exactly those that are due.            *)
LEMMA MatchElement ==
  ASSUME NEW db \in Db
  PROVE  PostingsMatch(db) <=> \A x \in Posting : x \in db.postings <=> Due(db, x)
  <1> DEFINE U == UNION {Postings({i.id}, db.content[i.table], Entities) :
                           i \in db.registry}
  <1>1. \A i \in db.registry :
          i \in Index /\ db.content[i.table] \in [Entities -> Values \cup {Nothing}]
    BY DEF Db, Index
  <1>2. \A x : x \in U <=>
          \E i \in db.registry, e \in Entities :
            /\ db.content[i.table][e] # Nothing
            /\ x = [id |-> i.id, entity |-> e, val |-> db.content[i.table][e]]
    BY DEF Postings
  <1>3. ASSUME NEW x \in U  PROVE x \in Posting
    <2>1. PICK i \in db.registry, e \in Entities :
            /\ db.content[i.table][e] # Nothing
            /\ x = [id |-> i.id, entity |-> e, val |-> db.content[i.table][e]]
      BY <1>2
    <2>2. i.id \in Nat /\ db.content[i.table][e] \in Values
      BY <1>1, <2>1 DEF Index
    <2> QED  BY <2>1, <2>2 DEF Posting
  <1>4. ASSUME NEW x \in Posting  PROVE x \in U <=> Due(db, x)
    <2>1. x = [id |-> x.id, entity |-> x.entity, val |-> x.val]
          /\ x.entity \in Entities /\ x.val # Nothing
      BY SchemaAssumption DEF Posting
    <2>2. ASSUME x \in U  PROVE Due(db, x)
      <3>1. PICK i \in db.registry, e \in Entities :
              x = [id |-> i.id, entity |-> e, val |-> db.content[i.table][e]]
        BY <1>2, <2>2
      <3>2. x.id = i.id /\ x.entity = e /\ x.val = db.content[i.table][e]
        BY <3>1
      <3> QED  BY <3>2 DEF Due
    <2>3. ASSUME Due(db, x)  PROVE x \in U
      BY <1>2, <2>1, <2>3 DEF Due
    <2> QED  BY <2>2, <2>3
  <1>5. db.postings \subseteq Posting
    BY DEF Db
  <1> HIDE DEF U
  <1>6. db.postings = U <=> \A x \in Posting : x \in db.postings <=> Due(db, x)
    BY <1>3, <1>4, <1>5
  <1> QED  BY <1>6 DEF PostingsMatch, U

(* What a set of postings holds, for an id at a time.                      *)
LEMMA PostingIn ==
  ASSUME NEW ids, NEW content, NEW es \in SUBSET Entities, NEW x \in Posting
  PROVE  x \in Postings(ids, content, es) <=>
           x.id \in ids /\ x.entity \in es /\ content[x.entity] = x.val
  <1>1. x = [id |-> x.id, entity |-> x.entity, val |-> x.val] /\ x.val # Nothing
    BY SchemaAssumption DEF Posting
  <1>2. ASSUME x \in Postings(ids, content, es)
        PROVE  x.id \in ids /\ x.entity \in es /\ content[x.entity] = x.val
    BY <1>2 DEF Postings
  <1>3. ASSUME x.id \in ids, x.entity \in es, content[x.entity] = x.val
        PROVE  x \in Postings(ids, content, es)
    BY <1>1, <1>3 DEF Postings
  <1> QED  BY <1>2, <1>3

(* Reindexing around a mutation keeps the indexes on the data, when the    *)
(* index set in use is the registered one.                                 *)
LEMMA MutateMatches ==
  ASSUME NEW db \in Db, NEW db2 \in Db, NEW t \in Tables, NEW e \in Entities,
         NEW content, IdsInv(db), PostingsMatch(db),
         \A x \in Entities \ {e} : content[x] = db.content[t][x],
         db2.registry = db.registry,
         db2.content = [db.content EXCEPT ![t] = content],
         db2.postings = (db.postings \ Postings(Ids(IndexesOf(db, t)), db.content[t], {e}))
                          \cup Postings(Ids(IndexesOf(db, t)), content, {e})
  PROVE  PostingsMatch(db2)
  <1> DEFINE ids == Ids(IndexesOf(db, t))
  <1>1. ASSUME NEW x \in Posting
        PROVE  x \in db2.postings <=> Due(db2, x)
    <2>1. x \in db.postings <=> Due(db, x)
      BY MatchElement
    <2>2. x \in db2.postings <=>
            \/ x \in db.postings /\ ~(x.id \in ids /\ x.entity = e
                                        /\ db.content[t][x.entity] = x.val)
            \/ x.id \in ids /\ x.entity = e /\ content[x.entity] = x.val
      BY PostingIn
    <2>3. x.id \in ids <=> \E i \in db.registry : i.table = t /\ x.id = i.id
      BY DEF Ids, IndexesOf
    <2>4. \A i \in db.registry : i.table \in Tables
      BY DEF Db, Index
    <2>5. db.content \in [Tables -> [Entities -> Values \cup {Nothing}]]
          /\ x.entity \in Entities
      BY DEF Db, Posting
    <2> HIDE DEF ids
    <2>6. CASE \E i \in db.registry : x.id = i.id
      <3>1. PICK i \in db.registry : x.id = i.id
        BY <2>6
      <3>2. \A j \in db.registry : x.id = j.id => j = i
        BY <3>1 DEF IdsInv
      <3>3. Due(db, x) <=> db.content[i.table][x.entity] = x.val
        BY <3>1, <3>2 DEF Due
      <3>4. Due(db2, x) <=> db2.content[i.table][x.entity] = x.val
        BY <3>1, <3>2 DEF Due
      <3>5. x.id \in ids <=> i.table = t
        BY <2>3, <3>1, <3>2
      <3>6. CASE i.table = t
        <4>1. db2.content[i.table] = content
          BY <2>5, <3>6
        <4> QED  BY <2>1, <2>2, <2>5, <3>3, <3>4, <3>5, <3>6, <4>1
      <3>7. CASE i.table # t
        <4>1. db2.content[i.table] = db.content[i.table]
          BY <2>4, <2>5, <3>7
        <4> QED  BY <2>1, <2>2, <3>3, <3>4, <3>5, <3>7, <4>1
      <3> QED  BY <3>6, <3>7
    <2>7. CASE ~\E i \in db.registry : x.id = i.id
      BY <2>1, <2>2, <2>3, <2>7 DEF Due
    <2> QED  BY <2>6, <2>7
  <1> QED  BY <1>1, MatchElement

(* The back-fill gives a new index, under an id of its own, what it is due. *)
LEMMA RegisterMatches ==
  ASSUME NEW db \in Db, NEW db2 \in Db, NEW new \in Index, IdsInv(db), PostingsMatch(db),
         new.id = db.next,
         db2.registry = db.registry \cup {new},
         db2.content = db.content,
         db2.postings = db.postings
                          \cup Postings({new.id}, db.content[new.table], Entities)
  PROVE  PostingsMatch(db2)
  <1>1. ASSUME NEW x \in Posting
        PROVE  x \in db2.postings <=> Due(db2, x)
    <2>1. x \in db.postings <=> Due(db, x)
      BY MatchElement
    <2>2. x \in db2.postings <=>
            x \in db.postings \/ (x.id = new.id /\ db.content[new.table][x.entity] = x.val)
      BY PostingIn DEF Posting
    <2> QED  BY <2>1, <2>2 DEF Due
  <1> QED  BY <1>1, MatchElement

(* Purging the ids of dropped indexes leaves the others what they are due. *)
LEMMA DeleteMatches ==
  ASSUME NEW db \in Db, NEW db2 \in Db, NEW there \in SUBSET db.registry,
         IdsInv(db), PostingsMatch(db),
         db2.registry = db.registry \ there,
         db2.content = db.content,
         db2.postings = {x \in db.postings : x.id \notin Ids(there)}
  PROVE  PostingsMatch(db2)
  <1>1. ASSUME NEW x \in Posting
        PROVE  x \in db2.postings <=> Due(db2, x)
    <2>1. x \in db.postings <=> Due(db, x)
      BY MatchElement
    <2>2. x.id \in Ids(there) <=> \E i \in there : x.id = i.id
      BY DEF Ids
    <2>3. \A i \in there, j \in db.registry : i.id = j.id => i = j
      BY DEF IdsInv
    <2> QED  BY <2>1, <2>2, <2>3 DEF Due
  <1> QED  BY <1>1, MatchElement

(* A write transaction that has begun in the gap is never forgotten.       *)
LEMMA ApartStays ==
  ASSUME [Next]_vars, apart'
  PROVE  apart
  <1> USE DEF vars, End
  <1>1. ASSUME NEW w \in Threads, NEW t \in Tables, BeginWrite(w, t) \/ BeginDdl(w, t)
        PROVE  apart
    BY <1>1 DEF BeginWrite, BeginDdl
  <1>2. ASSUME NEW w \in Threads,
               LoadSchemaGen(w) \/ ConsultCache(w) \/ LoadRegistry(w) \/ FillCache(w)
        PROVE  apart
    BY <1>2 DEF LoadSchemaGen, ConsultCache, LoadRegistry, FillCache
  <1>3. ASSUME NEW w \in Threads, NEW e \in Entities, NEW v \in Values \cup {Nothing},
               Mutate(w, e, v)
        PROVE  apart
    BY <1>3 DEF Mutate
  <1>4. ASSUME NEW w \in Threads, Commit(w) \/ Abort(w)
        PROVE  apart
    BY <1>4 DEF Commit, Abort
  <1>5. ASSUME NEW w \in Threads, NEW n \in Names,
               DeleteIndex(w, n) \/ \E d \in Defs : Register(w, n, d)
        PROVE  apart
    BY <1>5 DEF Register, DeleteIndex
  <1>6. ASSUME NEW w \in Threads, LeaveAsIs(w) \/ CommitDdl(w) \/ BumpSchemaGen(w)
        PROVE  apart
    BY <1>6 DEF LeaveAsIs, CommitDdl, BumpSchemaGen
  <1>7. ASSUME CrashAndReopen \/ UNCHANGED vars  PROVE apart
    BY <1>7 DEF CrashAndReopen
  <1>8. ASSUME NEW w \in Threads, Step(w)  PROVE apart
    BY <1>8, <1>1, <1>2, <1>3, <1>4, <1>5, <1>6 DEF Step
  <1> QED  BY NextSteps, <1>7, <1>8

(* Every step keeps the indexes on the data as long as no writer begins in *)
(* the gap between a DDL commit and its bump.                              *)
LEMMA ApartStep ==
  ASSUME Inv, [Next]_vars
  PROVE  ApartInv'
  <1> USE DEF vars, End
  <1> SUFFICES ASSUME apart'  PROVE ApartInv'
    BY DEF ApartInv
  <1> apart
    BY ApartStays
  <1> USE DEF ApartInv, EveryIndexSetIsCommitted
  <1> /\ TypeOK /\ HolderInv /\ TagInv /\ CachedSetIsCurrent /\ ApartInv
      /\ IdsInv(committed) /\ IdsInv(work)
    BY DEF Inv
  <1>0. work \in Db /\ committed \in Db /\ work' \in Db
    BY TypeStep DEF TypeOK
  <1>1. ASSUME NEW w \in Threads, NEW t \in Tables, BeginWrite(w, t)
        PROVE  ApartInv'
    <2>0. Unbumped = {}
      BY <1>1 DEF BeginWrite
    <2>1. Unbumped' = {}
      BY <1>1, <2>0 DEF BeginWrite, Begin, TypeOK, Unbumped
    <2>2. \A u \in Threads : pc[u] # "seen" /\ ~mine[u].loaded
      BY <1>1, SchemaAssumption DEF BeginWrite, Begin, HolderInv
    <2> QED  BY <1>1, <2>1, <2>2 DEF BeginWrite, Begin, TypeOK
  <1>2. ASSUME NEW w \in Threads, NEW t \in Tables, BeginDdl(w, t)
        PROVE  ApartInv'
    <2>1. \A u \in Threads : pc[u] \notin {"active", "seen", "missed", "loaded"}
                               /\ ~mine[u].loaded
      BY <1>2, SchemaAssumption DEF BeginDdl, Begin, HolderInv
    <2> QED  BY <1>2, <2>1 DEF BeginDdl, Begin, TypeOK
  <1>3. ASSUME NEW w \in Threads, LoadSchemaGen(w)
        PROVE  ApartInv'
    <2>1. UNCHANGED <<committed, work, schemaGen>>
      BY <1>3 DEF LoadSchemaGen
    <2>2. Unbumped' = Unbumped
      BY <1>3 DEF LoadSchemaGen, TypeOK, Unbumped
    <2> QED  BY <1>3, <2>1, <2>2 DEF LoadSchemaGen, TypeOK
  <1>4. ASSUME NEW w \in Threads, ConsultCache(w)
        PROVE  ApartInv'
    <2>1. UNCHANGED <<committed, work, schemaGen>>
      BY <1>4 DEF ConsultCache
    <2>2. Unbumped' = Unbumped /\ Unbumped = {} /\ table[w] \in Tables
          /\ seen[w] = schemaGen
      BY <1>4 DEF ConsultCache, TypeOK, Unbumped, HolderInv
    <2>3. indexSets[table[w]] # NotCached /\ indexSets[table[w]].gen = seen[w] =>
            indexSets[table[w]].set = IndexesOf(committed, table[w])
      BY <2>2 DEF CachedSetIsCurrent
    <2>4. mine'[w].loaded => mine'[w].set = IndexesOf(committed, table[w])
      BY <1>4, <2>3 DEF ConsultCache, TypeOK, Loaded
    <2>5. \A u \in Threads \ {w} : mine'[u] = mine[u] /\ pc'[u] = pc[u]
      BY <1>4 DEF ConsultCache, TypeOK
    <2>6. pc'[w] # "seen" /\ UNCHANGED <<table, seen>>
      BY <1>4 DEF ConsultCache, TypeOK
    <2> QED  BY <1>4, <2>1, <2>2, <2>4, <2>5, <2>6
  <1>5. ASSUME NEW w \in Threads, LoadRegistry(w)
        PROVE  ApartInv'
    <2>1. UNCHANGED <<committed, work, schemaGen>>
      BY <1>5 DEF LoadRegistry
    <2>2. Unbumped' = Unbumped
      BY <1>5 DEF LoadRegistry, TypeOK, Unbumped
    <2>3. IndexesOf(work, table[w]) = IndexesOf(committed, table[w])
      BY <1>5 DEF LoadRegistry, HolderInv, IndexesOf
    <2> QED  BY <1>5, <2>1, <2>2, <2>3 DEF LoadRegistry, TypeOK, Loaded
  <1>6. ASSUME NEW w \in Threads, FillCache(w)
        PROVE  ApartInv'
    <2>1. UNCHANGED <<committed, work, schemaGen>>
      BY <1>6 DEF FillCache
    <2>2. Unbumped' = Unbumped
      BY <1>6 DEF FillCache, TypeOK, Unbumped
    <2> QED  BY <1>6, <2>1, <2>2 DEF FillCache, TypeOK
  <1>7. ASSUME NEW w \in Threads, NEW e \in Entities, NEW v \in Values \cup {Nothing}, Mutate(w, e, v)
        PROVE  ApartInv'
    <2> DEFINE t == table[w]
               content == [work.content[t] EXCEPT ![e] = v]
    <2>1. /\ t \in Tables
          /\ mine[w].set = IndexesOf(work, t)
      BY <1>7 DEF Mutate, HolderInv, IndexesOf
    <2>2. /\ work'.registry = work.registry
          /\ work'.content = [work.content EXCEPT ![t] = content]
          /\ work'.postings
               = (work.postings \ Postings(Ids(IndexesOf(work, t)), work.content[t], {e}))
                   \cup Postings(Ids(IndexesOf(work, t)), content, {e})
      BY <1>7, <1>0, <2>1 DEF Mutate, Db
    <2>3. \A x \in Entities \ {e} : content[x] = work.content[t][x]
      BY <1>0, <2>1 DEF Db
    <2> HIDE DEF t, content
    <2>4. PostingsMatch(work')
      BY <1>0, <2>1, <2>2, <2>3, MutateMatches
    <2>5. UNCHANGED <<committed, schemaGen, pc, table, seen, mine>>
      BY <1>7 DEF Mutate
    <2> QED  BY <2>4, <2>5 DEF Unbumped, PostingsMatch
  <1>8. ASSUME NEW w \in Threads, Commit(w)
        PROVE  ApartInv'
    <2>1. \A u \in Threads : pc'[u] \notin {"active", "seen", "missed", "loaded"}
                               /\ ~mine'[u].loaded
      BY <1>8 DEF Commit, HolderInv, TypeOK, Pc, NotLoaded
    <2>2. committed' = work /\ work' = work
      BY <1>8 DEF Commit
    <2> QED  BY <2>1, <2>2 DEF PostingsMatch
  <1>9. ASSUME NEW w \in Threads, Abort(w)
        PROVE  ApartInv'
    <2>1. \A u \in Threads : pc'[u] \notin {"active", "seen", "missed", "loaded"}
                               /\ ~mine'[u].loaded
      BY <1>9 DEF Abort, HolderInv, TypeOK, Pc, NotLoaded
    <2>2. committed' = committed /\ work' = committed
      BY <1>9 DEF Abort
    <2> QED  BY <2>1, <2>2 DEF PostingsMatch
  <1>10. ASSUME NEW w \in Threads, pc[w] = "ddl", NEW n \in Names, NEW d \in Defs,
               Named(work, table[w], n) = {}, Register(w, n, d)
        PROVE  ApartInv'
    <2> DEFINE t == table[w]
               new == [table |-> t, name |-> n, def |-> d, id |-> work.next]
    <2>1. t \in Tables
      BY <1>10 DEF HolderInv
    <2>2. new \in Index /\ new.id = work.next /\ new.table = t
      BY <1>0, <2>1 DEF Db, Index
    <2>3. /\ work'.registry = work.registry \cup {new}
          /\ work'.content = work.content
          /\ work'.postings = work.postings
                                 \cup Postings({new.id}, work.content[new.table], Entities)
      BY <1>10, <1>0 DEF Register, Db
    <2> HIDE DEF t, new
    <2>4. PostingsMatch(work')
      BY <1>0, <2>2, <2>3, RegisterMatches
    <2>5. \A u \in Threads : pc'[u] \notin {"active", "seen", "missed", "loaded"}
                               /\ ~mine'[u].loaded
      BY <1>10 DEF Register, HolderInv, TypeOK
    <2>6. UNCHANGED committed
      BY <1>10 DEF Register
    <2> QED  BY <2>4, <2>5, <2>6 DEF PostingsMatch
  <1>11. ASSUME NEW w \in Threads, pc[w] = "ddl", LeaveAsIs(w)
        PROVE  ApartInv'
    <2>1. UNCHANGED <<committed, work, schemaGen>>
      BY <1>11 DEF LeaveAsIs
    <2>2. \A u \in Threads : pc'[u] \notin {"active", "seen", "missed", "loaded"}
                               /\ ~mine'[u].loaded
      BY <1>11 DEF LeaveAsIs, HolderInv, TypeOK
    <2> QED  BY <2>1, <2>2
  <1>12. ASSUME NEW w \in Threads, NEW n \in Names, DeleteIndex(w, n)
        PROVE  ApartInv'
    <2> DEFINE there == Named(work, table[w], n)
    <2>1. there \in SUBSET work.registry
      BY DEF Named, IndexesOf
    <2>2. /\ work'.registry = work.registry \ there
          /\ work'.content = work.content
          /\ work'.postings = {x \in work.postings : x.id \notin Ids(there)}
      BY <1>12, <1>0 DEF DeleteIndex, Db
    <2> HIDE DEF there
    <2>3. PostingsMatch(work')
      BY <1>0, <2>1, <2>2, DeleteMatches
    <2>4. \A u \in Threads : pc'[u] \notin {"active", "seen", "missed", "loaded"}
                               /\ ~mine'[u].loaded
      BY <1>12 DEF DeleteIndex, HolderInv, TypeOK
    <2>5. UNCHANGED committed
      BY <1>12 DEF DeleteIndex
    <2> QED  BY <2>3, <2>4, <2>5 DEF PostingsMatch
  <1>13. ASSUME NEW w \in Threads, CommitDdl(w)
        PROVE  ApartInv'
    <2>1. \A u \in Threads : pc'[u] \notin {"active", "seen", "missed", "loaded"}
                               /\ ~mine'[u].loaded
      BY <1>13 DEF CommitDdl, HolderInv, TypeOK, Pc, NotLoaded
    <2>2. committed' = work /\ work' = work
      BY <1>13 DEF CommitDdl
    <2> QED  BY <2>1, <2>2 DEF PostingsMatch
  <1>14. ASSUME NEW w \in Threads, BumpSchemaGen(w)
        PROVE  ApartInv'
    <2>1. w \in Unbumped
      BY <1>14 DEF BumpSchemaGen, Unbumped
    <2>2. \A u \in Threads : pc[u] \notin {"active", "seen", "missed", "loaded"}
      BY <2>1
    <2>3. \A u \in Threads : pc'[u] \notin {"active", "seen", "missed", "loaded"}
      BY <1>14, <2>2 DEF BumpSchemaGen, TypeOK
    <2> QED  BY <1>14, <2>3 DEF BumpSchemaGen
  <1>15. ASSUME CrashAndReopen  PROVE ApartInv'
    <2>1. \A u \in Threads : pc'[u] = "idle" /\ ~mine'[u].loaded
      BY <1>15 DEF CrashAndReopen, NotLoaded
    <2>2. committed' = committed /\ work' = committed
      BY <1>15 DEF CrashAndReopen
    <2> QED  BY <2>1, <2>2 DEF PostingsMatch
  <1>16. ASSUME UNCHANGED vars  PROVE ApartInv'
    BY <1>16 DEF Unbumped, PostingsMatch
  <1> QED
    BY NextSteps, <1>1, <1>2, <1>3, <1>4, <1>5, <1>6, <1>7, <1>8, <1>9,
       <1>10, <1>11, <1>12, <1>13, <1>14, <1>15, <1>16 DEF Step

------------------------------------------------------------------------------
(* The invariants                                                          *)

(* A fresh database satisfies the inductive invariant.                     *)
LEMMA InitInv ==
  ASSUME Init
  PROVE  Inv
  <1> USE DEF Init
  <1>1. TypeOK
    BY SchemaAssumption DEF TypeOK, Db, Pc, NotLoaded, MySet
  <1>2. HolderInv /\ TagInv
    BY SchemaAssumption DEF HolderInv, TagInv, NotLoaded
  <1>3. CachedSetIsCurrent
    BY DEF CachedSetIsCurrent
  <1>4. IdsInv(committed) /\ IdsInv(work) /\ NewIdsInv
    BY DEF IdsInv, NewIdsInv, NotLoaded
  <1>5. PostingsMatch(committed) /\ PostingsMatch(work)
    BY DEF PostingsMatch
  <1>6. ApartInv
    BY <1>5 DEF ApartInv, EveryIndexSetIsCommitted, NotLoaded
  <1> QED  BY <1>1, <1>2, <1>3, <1>4, <1>6 DEF Inv

(* The inductive invariant holds of every behaviour.                       *)
THEOREM Invariance == Spec => []Inv
  <1>1. Inv /\ [Next]_vars => Inv'
    BY TypeStep, HolderStep, TagStep, CachedStep, IdsStep, ApartStep DEF Inv
  <1> QED  BY InitInv, <1>1, PTL DEF Spec

(* However DDL calls and writers overlap, an index set cached under the    *)
(* current schema generation is the committed one as soon as no DDL call   *)
(* is between its commit and its bump: a stale set does not outlive the    *)
(* gap.                                                                    *)
THEOREM CachedSetIsCurrentAlways == Spec => []CachedSetIsCurrent
  <1>1. Inv => CachedSetIsCurrent
    BY DEF Inv
  <1> QED  BY Invariance, <1>1, PTL

(* As long as no write transaction has begun in the gap of a DDL call, one *)
(* maintains exactly the committed indexes of its table, whether its set   *)
(* came from the cache or from the registry.                               *)
THEOREM IndexSetIsCommittedApart == Spec => []IndexSetIsCommitted
  <1>1. Inv => IndexSetIsCommitted
    BY DEF Inv, ApartInv, IndexSetIsCommitted
  <1> QED  BY Invariance, <1>1, PTL

(* ... and what is committed has every index hold exactly the entities of  *)
(* its table, through creation, back-fill, mutation and drop.              *)
THEOREM IndexesMatchDataApart == Spec => []IndexesMatchData
  <1>1. Inv => IndexesMatchData
    BY DEF Inv, ApartInv, IndexesMatchData
  <1> QED  BY Invariance, <1>1, PTL

(* However they overlap, a new index gets an id that no other index has    *)
(* and under which nothing is left of a dropped one.                       *)
THEOREM NewIdsAreUnusedAlways == Spec => NewIdsAreUnused
  <1>1. Inv /\ [Next]_vars => [NewIdIsUnused]_vars
    <2> SUFFICES ASSUME Inv, [Next]_vars,
                        NEW i \in committed'.registry \ committed.registry
                 PROVE  /\ i.id \notin Ids(committed.registry \cup (committed'.registry \ {i}))
                        /\ \A x \in committed.postings : x.id # i.id
      BY DEF NewIdIsUnused
    <2>1. committed \in Db /\ work \in Db /\ committed' \in {committed, work}
      <3>1. committed' \in {committed, work}
        BY NextSteps DEF Step, BeginWrite, BeginDdl, Begin, LoadSchemaGen, ConsultCache,
           LoadRegistry, FillCache, Mutate, Commit, Abort, Register, LeaveAsIs,
           DeleteIndex, CommitDdl, BumpSchemaGen, CrashAndReopen, vars
      <3> QED  BY <3>1 DEF Inv, TypeOK
    <2>2. committed' = work /\ i \in work.registry /\ i.id >= committed.next
      BY <2>1 DEF Inv, NewIdsInv
    <2>3. /\ i.id \in Nat /\ committed.next \in Nat
          /\ \A j \in committed.registry : j.id \in Nat /\ j.id < committed.next
          /\ \A x \in committed.postings : x.id \in Nat /\ x.id < committed.next
          /\ \A j \in work.registry : i.id = j.id => i = j
      BY <2>1, <2>2 DEF Inv, IdsInv, Db, Index, Posting
    <2> QED  BY <2>2, <2>3 DEF Ids
  <1> QED  BY Invariance, <1>1, PTL DEF Spec, NewIdsAreUnused

=============================================================================
