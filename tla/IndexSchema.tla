---------------------------- MODULE IndexSchema ----------------------------
(***************************************************************************)
(* Index definitions and the writers that maintain indexes: the registry   *)
(* in $metadata, the index DDL of a table handle (create, ensure, delete), *)
(* and the index sets that write transactions share across transactions,   *)
(* each tagged with the schema generation it was read under                *)
(* (DbInner::schema_gen, DbInner::cached_indexes).                         *)
(*                                                                         *)
(* A thread runs a write transaction or a DDL call at a time; the engine   *)
(* lets one of them in at a time, from begin_write to commit.  The bump of *)
(* the schema generation comes after the commit, when the engine may have  *)
(* let the next one in.  The history variable apart remembers whether a    *)
(* write transaction has ever begun in that gap; no action reads it.       *)
(*                                                                         *)
(* Data is what indexing needs of it: each entity of a table has one value *)
(* or is not there, an index matches every entity of its table, is not     *)
(* unique and holds one entry per entity, with its value.                  *)
(***************************************************************************)
EXTENDS Naturals, FiniteSets

CONSTANTS
  Threads, Tables, Names, Defs, Entities, Values,
  Nothing,      \* an entity that is not stored
  NoThread,     \* nobody is inside a write transaction of the engine
  NoTable,      \* a thread with no transaction open
  NotCached,    \* no cached index set for a table
  MaxId,        \* bound on the ids handed out
  MaxSchemaGen  \* bound on the DDL calls that reach their commit

ASSUME SchemaAssumption ==
  /\ MaxId \in Nat /\ MaxSchemaGen \in Nat
  /\ Nothing \notin Values
  /\ NoThread \notin Threads
  /\ NoTable \notin Tables

Index   == [table : Tables, name : Names, def : Defs, id : Nat]
Posting == [id : Nat, entity : Entities, val : Values]
Db      == [next : Nat, registry : SUBSET Index, postings : SUBSET Posting,
            content : [Tables -> [Entities -> Values \cup {Nothing}]]]
Cached  == [gen : Nat, set : SUBSET Index]

(* WriteTxn::indexes, a cell that is empty until the first mutation.       *)
MySet     == [loaded : BOOLEAN, set : SUBSET Index]
NotLoaded == [loaded |-> FALSE, set |-> {}]
Loaded(set) == [loaded |-> TRUE, set |-> set]

ASSUME NotCachedAssumption == NotCached \notin Cached

VARIABLES
  committed,   \* what the engine has committed
  work,        \* what the open write transaction sees
  holder,      \* the thread inside a write transaction of the engine
  schemaGen,   \* DbInner::schema_gen
  indexSets,   \* DbInner::index_sets
  pc,          \* where each thread is
  table,       \* the table each thread works on
  seen,        \* the schema generation read by cached_indexes
  mine,        \* the index set of a write transaction (WriteTxn::indexes)
  apart        \* no write transaction has begun between a DDL commit and its bump

vars == <<committed, work, holder, schemaGen, indexSets, pc, table, seen, mine, apart>>

Pc == {"idle", "active", "seen", "missed", "loaded", "ddl", "done", "unbumped"}

Init ==
  /\ committed = [next |-> 0, registry |-> {}, postings |-> {},
                  content |-> [t \in Tables |-> [e \in Entities |-> Nothing]]]
  /\ work = committed
  /\ holder = NoThread
  /\ schemaGen = 0
  /\ indexSets = [t \in Tables |-> NotCached]
  /\ pc = [w \in Threads |-> "idle"]
  /\ table = [w \in Threads |-> NoTable]
  /\ seen = [w \in Threads |-> 0]
  /\ mine = [w \in Threads |-> NotLoaded]
  /\ apart = TRUE

Unbumped == {w \in Threads : pc[w] = "unbumped"}

(* registry::for_table, registry::lookup.                                  *)
IndexesOf(db, t) == {i \in db.registry : i.table = t}
Named(db, t, n)  == {i \in IndexesOf(db, t) : i.name = n}

(* The postings an index set implies for the entities es of a table.       *)
Postings(ids, content, es) ==
  {[id |-> i, entity |-> e, val |-> content[e]] :
     i \in ids, e \in {x \in es : content[x] # Nothing}}

Ids(indexes) == {i.id : i \in indexes}

------------------------------------------------------------------------------
(* Write transactions                                                      *)

(* begin_write, for a write transaction or a DDL call.                     *)
Begin(w, t, to) ==
  /\ pc[w] = "idle"
  /\ holder = NoThread
  /\ holder' = w
  /\ work' = committed
  /\ table' = [table EXCEPT ![w] = t]
  /\ pc' = [pc EXCEPT ![w] = to]
  /\ UNCHANGED <<committed, schemaGen, indexSets, seen, mine>>

(* Table::write.                                                           *)
BeginWrite(w, t) ==
  /\ Begin(w, t, "active")
  /\ apart' = (apart /\ Unbumped = {})

(* The first mutation asks for the index set (WriteTxn::indexes, which     *)
(* cached_indexes serves): the schema generation first ...                 *)
LoadSchemaGen(w) ==
  /\ pc[w] = "active"
  /\ ~mine[w].loaded
  /\ seen' = [seen EXCEPT ![w] = schemaGen]
  /\ pc' = [pc EXCEPT ![w] = "seen"]
  /\ UNCHANGED <<committed, work, holder, schemaGen, indexSets, table, mine, apart>>

\* mutant: a cached set is served whatever generation it was read under
ConsultCache_AnyGeneration(w) ==
  LET cached == indexSets[table[w]]
  IN  /\ pc[w] = "seen"
      /\ \/ /\ cached # NotCached
            /\ mine' = [mine EXCEPT ![w] = Loaded(cached.set)]
            /\ pc' = [pc EXCEPT ![w] = "active"]
         \/ /\ cached = NotCached
            /\ pc' = [pc EXCEPT ![w] = "missed"]
            /\ UNCHANGED mine
      /\ UNCHANGED <<committed, work, holder, schemaGen, indexSets, table, seen, apart>>

(* ... then the cache, where a set counts under that generation only ...   *)
ConsultCache(w) ==
  LET cached == indexSets[table[w]]
      hit    == cached # NotCached /\ cached.gen = seen[w]
  IN  /\ pc[w] = "seen"
      /\ \/ /\ hit
            /\ mine' = [mine EXCEPT ![w] = Loaded(cached.set)]
            /\ pc' = [pc EXCEPT ![w] = "active"]
         \/ /\ ~hit
            /\ pc' = [pc EXCEPT ![w] = "missed"]
            /\ UNCHANGED mine
      /\ UNCHANGED <<committed, work, holder, schemaGen, indexSets, table, seen, apart>>

(* ... on a miss the registry, as this transaction sees it ...             *)
LoadRegistry(w) ==
  /\ pc[w] = "missed"
  /\ mine' = [mine EXCEPT ![w] = Loaded(IndexesOf(work, table[w]))]
  /\ pc' = [pc EXCEPT ![w] = "loaded"]
  /\ UNCHANGED <<committed, work, holder, schemaGen, indexSets, table, seen, apart>>

(* ... which fills the cache for the transactions to come.                 *)
FillCache(w) ==
  /\ pc[w] = "loaded"
  /\ indexSets' = [indexSets EXCEPT ![table[w]] = [gen |-> seen[w],
                                                   set |-> mine[w].set]]
  /\ pc' = [pc EXCEPT ![w] = "active"]
  /\ UNCHANGED <<committed, work, holder, schemaGen, table, seen, mine, apart>>

(* Any mutation, inside reindex_around: the entity is taken out of every   *)
(* index of the set under its old value and put back under the new one.    *)
Mutate(w, e, v) ==
  LET old      == work.content[table[w]]
      content  == [old EXCEPT ![e] = v]
      ids      == Ids(mine[w].set)
  IN  /\ pc[w] = "active"
      /\ mine[w].loaded
      /\ work' = [work EXCEPT
                    !.postings = (@ \ Postings(ids, old, {e}))
                                   \cup Postings(ids, content, {e}),
                    !.content[table[w]] = content]
      /\ UNCHANGED <<committed, holder, schemaGen, indexSets, pc, table, seen, mine, apart>>

(* The transaction of w is over.                                           *)
End(w, to) ==
  /\ holder' = NoThread
  /\ pc' = [pc EXCEPT ![w] = to]
  /\ table' = [table EXCEPT ![w] = NoTable]
  /\ seen' = [seen EXCEPT ![w] = 0]
  /\ mine' = [mine EXCEPT ![w] = NotLoaded]
  /\ UNCHANGED <<schemaGen, indexSets, apart>>

(* WriteTxn::commit, as far as indexes go (VersionedReads has the rest).   *)
Commit(w) ==
  /\ pc[w] = "active"
  /\ committed' = work
  /\ UNCHANGED work
  /\ End(w, "idle")

(* WriteTxn::abort, or dropping the transaction, in any state; or a DDL    *)
(* call that fails: SchemaMismatch, UniqueViolation in the back-fill, an   *)
(* engine error.  The schema generation does not move.                     *)
Abort(w) ==
  /\ pc[w] \notin {"idle", "unbumped"}
  /\ work' = committed
  /\ UNCHANGED committed
  /\ End(w, "idle")

------------------------------------------------------------------------------
(* Index DDL                                                               *)

BeginDdl(w, t) ==
  /\ schemaGen + Cardinality(Unbumped) < MaxSchemaGen
  /\ Begin(w, t, "ddl")
  /\ UNCHANGED apart

(* The call has nothing to change and goes on to its commit.               *)
LeaveAsIs(w) ==
  /\ pc' = [pc EXCEPT ![w] = "done"]
  /\ UNCHANGED <<committed, work, holder, schemaGen, indexSets, table, seen, mine, apart>>

\* mutant: an id is the number of indexes, and comes back after a drop
Register_ReusesId(w, n, d) ==
  LET t   == table[w]
      new == [table |-> t, name |-> n, def |-> d, id |-> Cardinality(work.registry)]
  IN  /\ work.next < MaxId
      /\ work' = [work EXCEPT
                    !.next = @ + 1,
                    !.registry = @ \cup {new},
                    !.postings = @ \cup Postings({new.id}, work.content[t], Entities)]
      /\ pc' = [pc EXCEPT ![w] = "done"]
      /\ UNCHANGED <<committed, holder, schemaGen, indexSets, table, seen, mine, apart>>

(* registry::create of a new index, under the next id, and its back-fill.  *)
Register(w, n, d) ==
  LET t   == table[w]
      new == [table |-> t, name |-> n, def |-> d, id |-> work.next]
  IN  /\ work.next < MaxId
      /\ work' = [work EXCEPT
                    !.next = @ + 1,
                    !.registry = @ \cup {new},
                    !.postings = @ \cup Postings({new.id}, work.content[t], Entities)]
      /\ pc' = [pc EXCEPT ![w] = "done"]
      /\ UNCHANGED <<committed, holder, schemaGen, indexSets, table, seen, mine, apart>>

(* Table::create_index: a name in use is fine for the same definition; for *)
(* another one the call fails (Abort).                                     *)
CreateIndex(w, n, d) ==
  LET there == Named(work, table[w], n)
  IN  /\ pc[w] = "ddl"
      /\ \/ there = {} /\ Register(w, n, d)
         \/ (\E i \in there : i.def = d) /\ LeaveAsIs(w)

(* Table::ensure_index: a name in use is left alone.                       *)
EnsureIndex(w, n, d) ==
  LET there == Named(work, table[w], n)
  IN  /\ pc[w] = "ddl"
      /\ \/ there = {} /\ Register(w, n, d)
         \/ there # {} /\ LeaveAsIs(w)

\* mutant: the entries of a dropped index stay behind
DeleteIndex_NoPurge(w, n) ==
  LET there == Named(work, table[w], n)
  IN  /\ pc[w] = "ddl"
      /\ work' = [work EXCEPT !.registry = @ \ there]
      /\ pc' = [pc EXCEPT ![w] = "done"]
      /\ UNCHANGED <<committed, holder, schemaGen, indexSets, table, seen, mine, apart>>

(* Table::delete_index: the record, then every entry under its id; the id  *)
(* allocator stays where it is.                                            *)
DeleteIndex(w, n) ==
  LET there == Named(work, table[w], n)
  IN  /\ pc[w] = "ddl"
      /\ work' = [work EXCEPT
                    !.registry = @ \ there,
                    !.postings = {x \in @ : x.id \notin Ids(there)}]
      /\ pc' = [pc EXCEPT ![w] = "done"]
      /\ UNCHANGED <<committed, holder, schemaGen, indexSets, table, seen, mine, apart>>

(* The DDL call commits, which lets the next writer in ...                 *)
CommitDdl(w) ==
  /\ pc[w] = "done"
  /\ committed' = work
  /\ UNCHANGED work
  /\ End(w, "unbumped")

\* mutant: the call does not bump the schema generation
BumpSchemaGen_Missing(w) ==
  /\ pc[w] = "unbumped"
  /\ pc' = [pc EXCEPT ![w] = "idle"]
  /\ UNCHANGED <<committed, work, holder, schemaGen, indexSets, table, seen, mine, apart>>

(* ... and then bumps the schema generation, changed or not.               *)
BumpSchemaGen(w) ==
  /\ pc[w] = "unbumped"
  /\ schemaGen' = schemaGen + 1
  /\ pc' = [pc EXCEPT ![w] = "idle"]
  /\ UNCHANGED <<committed, work, holder, indexSets, table, seen, mine, apart>>

------------------------------------------------------------------------------

(* The process dies and the file is opened again (DbInner::new).           *)
CrashAndReopen ==
  /\ UNCHANGED <<committed, apart>>
  /\ work' = committed
  /\ holder' = NoThread
  /\ schemaGen' = 0
  /\ indexSets' = [t \in Tables |-> NotCached]
  /\ pc' = [w \in Threads |-> "idle"]
  /\ table' = [w \in Threads |-> NoTable]
  /\ seen' = [w \in Threads |-> 0]
  /\ mine' = [w \in Threads |-> NotLoaded]

Writing(w) ==
  \/ \E t \in Tables : BeginWrite(w, t)
  \/ LoadSchemaGen(w) \/ ConsultCache(w) \/ LoadRegistry(w) \/ FillCache(w)
  \/ \E e \in Entities, v \in Values \cup {Nothing} : Mutate(w, e, v)
  \/ Commit(w) \/ Abort(w)

Ddl(w) ==
  \/ \E t \in Tables : BeginDdl(w, t)
  \/ \E n \in Names, d \in Defs : CreateIndex(w, n, d) \/ EnsureIndex(w, n, d)
  \/ \E n \in Names : DeleteIndex(w, n)
  \/ CommitDdl(w) \/ BumpSchemaGen(w)

Next == (\E w \in Threads : Writing(w) \/ Ddl(w)) \/ CrashAndReopen

Spec == Init /\ [][Next]_vars

------------------------------------------------------------------------------
(* Properties                                                              *)

TypeOK ==
  /\ committed \in Db /\ work \in Db
  /\ holder \in Threads \cup {NoThread}
  /\ schemaGen \in Nat
  /\ indexSets \in [Tables -> Cached \cup {NotCached}]
  /\ pc \in [Threads -> Pc]
  /\ table \in [Threads -> Tables \cup {NoTable}]
  /\ seen \in [Threads -> Nat]
  /\ mine \in [Threads -> MySet]
  /\ apart \in BOOLEAN

(* A set cached under the current schema generation is the committed one,  *)
(* whenever no DDL call is between its commit and its bump, however the    *)
(* calls before overlapped ("an index set is valid as long as the schema   *)
(* generation has not moved").                                             *)
CachedSetIsCurrent ==
  Unbumped = {} =>
    \A t \in Tables :
      indexSets[t] # NotCached /\ indexSets[t].gen = schemaGen =>
        indexSets[t].set = IndexesOf(committed, t)

(* "The committed registry - and thus the cached set - is stable for the   *)
(* life of the caller's transaction": a write transaction maintains        *)
(* exactly the committed indexes of its table.                             *)
EveryIndexSetIsCommitted ==
  \A w \in Threads : mine[w].loaded =>
                       mine[w].set = IndexesOf(committed, table[w])

(* So it does as long as no write transaction has begun between a DDL      *)
(* call's commit and its bump, whatever else has overlapped.               *)
IndexSetIsCommitted == apart => EveryIndexSetIsCommitted

(* Every registered index holds exactly the entities of its table, each    *)
(* under its value, and nothing is left of an index that was dropped, as   *)
(* long as no write transaction has begun in the gap of a DDL call.        *)
PostingsMatch(db) ==
  db.postings = UNION {Postings({i.id}, db.content[i.table], Entities) :
                         i \in db.registry}

IndexesMatchData == apart => PostingsMatch(committed)

(* "Ids are never reused, so a stale physical entry can never collide with *)
(* a future index": a new index has an id under which the tables hold      *)
(* nothing and which no other index has.                                   *)
NewIdIsUnused ==
  \A i \in committed'.registry \ committed.registry :
    /\ i.id \notin Ids(committed.registry \cup (committed'.registry \ {i}))
    /\ \A x \in committed.postings : x.id # i.id

NewIdsAreUnused == [][NewIdIsUnused]_vars

(* The inductive invariant.  The program points tell who is inside the     *)
(* engine's write transaction, and a write transaction leaves the registry *)
(* alone.                                                                  *)
HolderInv ==
  \A w \in Threads :
    /\ pc[w] \in {"active", "seen", "missed", "loaded", "ddl", "done"} <=> holder = w
    /\ holder = w => table[w] \in Tables
    /\ mine[w].loaded => pc[w] \in {"active", "loaded"}
    /\ pc[w] \in {"active", "seen", "missed", "loaded"} =>
         work.registry = committed.registry /\ work.next = committed.next

(* A set on its way into the cache is the committed one, and no tag is     *)
(* ahead of the schema generation.                                         *)
TagInv ==
  /\ \A w \in Threads :
       /\ seen[w] <= schemaGen
       /\ pc[w] = "loaded" => mine[w] = Loaded(IndexesOf(committed, table[w]))
  /\ \A t \in Tables : indexSets[t] # NotCached => indexSets[t].gen <= schemaGen

(* Every id in use is below the allocator, and no two indexes share one.   *)
IdsInv(db) ==
  /\ \A i \in db.registry : i.id < db.next
  /\ \A x \in db.postings : x.id < db.next
  /\ \A i, j \in db.registry : i.id = j.id => i = j

(* An open transaction's indexes are old ones or have new ids, and the     *)
(* sets that are shared, stale ones included, hold no id still to come.    *)
NewIdsInv ==
  /\ committed.next <= work.next
  /\ \A i \in work.registry : i \in committed.registry \/ i.id >= committed.next
  /\ \A w \in Threads : \A i \in mine[w].set : i.id < committed.next
  /\ \A t \in Tables : indexSets[t] # NotCached =>
       \A i \in indexSets[t].set : i.id < committed.next

(* With no writer in the gap so far, the set a write transaction takes     *)
(* from the cache is the committed one, and the indexes follow the data.   *)
ApartInv ==
  apart =>
    /\ \A w \in Threads :
         /\ pc[w] \in {"active", "seen", "missed", "loaded"} => Unbumped = {}
         /\ pc[w] = "seen" => seen[w] = schemaGen
    /\ EveryIndexSetIsCommitted
    /\ PostingsMatch(committed) /\ PostingsMatch(work)

Inv ==
  /\ TypeOK /\ HolderInv /\ TagInv /\ CachedSetIsCurrent
  /\ IdsInv(committed) /\ IdsInv(work) /\ NewIdsInv /\ ApartInv
=============================================================================
