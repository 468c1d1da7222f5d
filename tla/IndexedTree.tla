---------------------------- MODULE IndexedTree ----------------------------
(***************************************************************************)
(* A table with secondary indexes: NodeTree's calls, each bracketed by     *)
(* index maintenance (reindex_around).  The entries of the entities that   *)
(* lie on the line of the call's path are removed before the change, those *)
(* the changed table implies are inserted after it.  An accessor's call    *)
(* that writes several paths has a bracket for each of them.               *)
(*                                                                         *)
(* An index entry is a key and a value of the engine: the key holds the    *)
(* index, the columns and, unless the index is unique, the entity; a       *)
(* unique index has the entity as the value.                               *)
(*                                                                         *)
(* Indexes are created, back-filled and dropped between transactions, when *)
(* the calls made so far have been committed.                              *)
(*                                                                         *)
(* Maintenance walks the links of the table: an entity, or a column of it, *)
(* inside a packed node that lies above is out of its sight, and a list    *)
(* position does not stay with an element.  The history variable tracked   *)
(* has the indexes that neither has befallen since they were created.      *)
(***************************************************************************)
EXTENDS NodeTree

CONSTANTS
  Defs,              \* the index definitions: name, pattern, columns, unique
  Null,              \* the scalar of a column that is not there
  Uncovered          \* in place of the columns of what an index does not cover

VARIABLES
  indexes,    \* the registered definitions
  posting,    \* index entries: key -> entity
  tracked     \* history: the indexes that maintenance has had in sight

allVars == <<vars, indexes, posting, tracked>>

Star       == [star |-> TRUE]
Lit(seg)   == seg
IsStar(pat) == "star" \in DOMAIN pat

(* A pattern, and the path of a column, may name list positions.           *)
ASSUME DefsAssumption ==
  \A def \in Defs : /\ def.pattern \in Seq({Star} \cup Segment)
                    /\ def.columns \in Seq([path : Seq(Segment), desc : BOOLEAN])

ColumnTuples == UNION {[DOMAIN def.columns -> Values \cup {Null}] : def \in Defs}

ASSUME UncoveredAssumption == Uncovered \notin ColumnTuples

------------------------------------------------------------------------------
(* Patterns                                                                *)

MatchesSegment(pat, seg) == IsStar(pat) \/ pat = seg

\* mutant: what lies directly above the entities may be packed
CoversStrictlyBelow_Deeper(pattern, base) ==
  /\ Len(pattern) > Len(base) + 1
  /\ \A i \in DOMAIN base : MatchesSegment(pattern[i], base[i])

(* Pattern::covers_strictly_below.                                         *)
CoversStrictlyBelow(pattern, base) ==
  /\ Len(pattern) > Len(base)
  /\ \A i \in DOMAIN base : MatchesSegment(pattern[i], base[i])

(* WriteTxn::should_pack, for all paths.                                   *)
ShreddedBy(defs) ==
  {p \in Paths : \E def \in defs : CoversStrictlyBelow(def.pattern, p)}

(* tree::children: a packed entity has none here.                          *)
Children(s, k) ==
  IF HasKind(s, k, "list") THEN s.node[k].items
  ELSE IF HasKind(s, k, "object")
  THEN SetToSeq({s.link[l] : l \in {x \in DOMAIN s.link : x[1] = k}})
  ELSE <<>>

\* mutant: a wildcard takes every child, on the scope's line or not
NextOnLine_AllChildren(s, pattern, scope, i, k) ==
  LET kid(seg) == LET child == ChildKey(s, k, seg)
                  IN  IF child = NoKey THEN <<>> ELSE <<child>>
  IN  IF IsStar(pattern[i]) THEN Children(s, k)
      ELSE IF i <= Len(scope) /\ scope[i] # pattern[i] THEN <<>>
      ELSE kid(pattern[i])

(* Where segment i of the pattern leads from k, on the line of scope.      *)
NextOnLine(s, pattern, scope, i, k) ==
  LET kid(seg) == LET child == ChildKey(s, k, seg)
                  IN  IF child = NoKey THEN <<>> ELSE <<child>>
  IN  IF i > Len(scope)
      THEN IF IsStar(pattern[i]) THEN Children(s, k) ELSE kid(pattern[i])
      ELSE IF MatchesSegment(pattern[i], scope[i]) THEN kid(scope[i])
      ELSE <<>>

\* mutant: an entity above the scope is not affected
AffectedEntities_NotAbove(s, pattern, scope) ==
  LET A[i \in 0..Len(pattern)] ==
        IF i = 0 THEN <<ROOT>>
        ELSE FlattenSeq([x \in DOMAIN A[i - 1] |->
                           NextOnLine(s, pattern, scope, i, A[i - 1][x])])
  IN  IF Len(pattern) < Len(scope) THEN <<>> ELSE A[Len(pattern)]

(* Pattern::affected_entities: the matching entities on the root-to-node   *)
(* line of scope.                                                          *)
AffectedEntities(s, pattern, scope) ==
  LET A[i \in 0..Len(pattern)] ==
        IF i = 0 THEN <<ROOT>>
        ELSE FlattenSeq([x \in DOMAIN A[i - 1] |->
                           NextOnLine(s, pattern, scope, i, A[i - 1][x])])
  IN  A[Len(pattern)]

------------------------------------------------------------------------------
(* Index entries                                                           *)

ScalarOr(d) == IF Is(d, "leaf") THEN d.val ELSE Null

(* tree::entity_leaf: into the blob of a packed entity, but not into a     *)
(* packed node on the way down from an entity that is not packed.          *)
ColumnScalar(s, entity, column) ==
  LET k == ResolveFrom(s, entity, column)
  IN  IF HasKind(s, entity, "packed")
      THEN ScalarOr(At(s.node[entity].doc, column))
      ELSE IF HasKind(s, k, "leaf") THEN s.node[k].val ELSE Null

Columns(s, def, entity) ==
  [c \in DOMAIN def.columns |-> ColumnScalar(s, entity, def.columns[c].path)]

(* maintenance::index_key.                                                 *)
IndexKey(s, def, entity) ==
  [index |-> def.name, cols |-> Columns(s, def, entity),
   entity |-> IF def.unique THEN NoKey ELSE entity]

EntriesOf(s, def, entities) ==
  [x \in DOMAIN entities |-> <<IndexKey(s, def, entities[x]), entities[x]>>]

(* maintenance::entries_for, for every index: <<key, entity>>.             *)
EntriesFor(s, defs, scope) ==
  FlattenSeq([d \in DOMAIN defs |->
    EntriesOf(s, defs[d], AffectedEntities(s, defs[d].pattern, scope))])

(* maintenance::delete.                                                    *)
Deindexed(post, s, defs, scope) ==
  [key \in DOMAIN post \ {x[1] : x \in ToSet(EntriesFor(s, defs, scope))} |->
     post[key]]

\* mutant: an entry that is there is overwritten
GuardUnique_Never(post, key, entity) == TRUE

(* maintenance::guard_unique.                                              *)
GuardUnique(post, key, entity) ==
  key.entity = NoKey /\ key \in DOMAIN post => post[key] = entity

Inserted(t, key, entity) ==
  IF t.ok /\ GuardUnique(t.post, key, entity)
  THEN [t EXCEPT !.post = [x \in DOMAIN @ \cup {key} |->
                             IF x = key THEN entity ELSE @[x]]]
  ELSE [t EXCEPT !.ok = FALSE]

(* maintenance::insert: stops at the first entry a unique index refuses.   *)
(* t is a table with its entries: t.s, t.post and t.ok.                    *)
Reindexed(t, defs, scope) ==
  LET new == EntriesFor(t.s, defs, scope)
      R[i \in 0..Len(new)] ==
        IF i = 0 THEN t ELSE Inserted(R[i - 1], new[i][1], new[i][2])
  IN  R[Len(new)]

------------------------------------------------------------------------------
(* Calls.  A call works on the table and the entries together: t.s, t.post *)
(* and t.ok.                                                               *)

Now == [ok |-> TRUE, s |-> Table, post |-> posting]

(* The registered indexes, in the order of the registry.                   *)
Registered == SetToSeq(indexes)

\* mutant: the entries are taken down after the change
ReindexAround_Late(t, scope, r) ==
  IF t.ok
  THEN Reindexed([ok |-> r.ok, s |-> r.s,
                  post |-> Deindexed(t.post, r.s, Registered, scope)],
                 Registered, scope)
  ELSE t

(* WriteTxn::reindex_around a change that makes r of the table of t: an    *)
(* error of the change leaves its entities without entries.                *)
ReindexAround(t, scope, r) ==
  LET defs == Registered
  IN  IF t.ok
      THEN Reindexed([ok |-> r.ok, s |-> r.s,
                      post |-> Deindexed(t.post, t.s, defs, scope)], defs, scope)
      ELSE t

(* A change that does not touch the index entries.                         *)
Unbracketed(t, r) ==
  IF t.ok THEN [ok |-> r.ok, s |-> r.s, post |-> t.post] ELSE t

(* Writer::ensure_container and Writer::put_scalar of a transaction, each  *)
(* in its own bracket: what an accessor's stores are made of.              *)
PutThrough(t, p, v) == ReindexAround(t, p, PutScalar(t.s, ROOT, p, v))

PartsThrough(container, p, d, segs) ==
  LET W[i \in 0..Len(segs)] ==
        IF i = 0 THEN container
        ELSE PutThrough(W[i - 1], Append(p, segs[i]), Kid(d, segs[i]).val)
  IN  W

WriteThrough(t, p, d) ==
  IF Is(d, "leaf") THEN PutThrough(t, p, d.val)
  ELSE PartsThrough(ReindexAround(t, p, EnsureContainer(t.s, ROOT, p, Is(d, "list"))),
                    p, d, Segments(d))[Len(Segments(d))]

Write(c, t) ==
  /\ Finish(c, t)
  /\ posting' = t.post
  /\ UNCHANGED indexes

Commit(c, t) == Write(c, t) /\ UNCHANGED tracked

(* Whether a packed node lies between an entity and one of its columns.    *)
ColumnPacked(s, defs) ==
  \E def \in defs : \E k \in ToSet(AffectedEntities(s, def.pattern, <<>>)) :
    /\ ~HasKind(s, k, "packed")
    /\ \E c \in DOMAIN def.columns :
         LET w == Walk(s, k, def.columns[c].path)
         IN  \E i \in DOMAIN w : HasKind(s, w[i], "packed")

(* A call that packs may put columns out of sight.                         *)
CommitStore(c, t) ==
  /\ Write(c, t)
  /\ tracked' = {def \in tracked : ~ColumnPacked(t.s, {def})}

IndexedPut(p, v) ==
  Commit(Call("put", p, Leaf(v)),
         ReindexAround(Now, p, PutStep(p, v)))

IndexedRemove(p) ==
  Commit(Call("remove", p, Nowhere),
         ReindexAround(Now, p, RemoveStep(p)))

IndexedStore(p, d) ==
  /\ p # <<>>
  /\ MayStore(Table, p)
  /\ \E r \in {StoreStep(p, d), Replace(p, d)} :
       CommitStore(Call("store", p, d), ReindexAround(Now, p, r))

(* Opening an accessor unpacks, which changes no entry.                    *)
Holding(s) == [Now EXCEPT !.s = s]

IndexedFetchMut(p) ==
  /\ Locate(Table, p).at = "packed"
  /\ Commit(Call("open", p, Nowhere), Holding(Opened(p)))

IndexedClear(p) ==
  \E s \in {Opened(p)} : \E k \in Accessor(s, p, {"object", "list"}) :
    Commit(Call("clear", p, Nowhere),
           ReindexAround(Holding(s), p, ClearChildren(s, k)))

(* "These skip index maintenance."                                         *)
IndexedSwap(p) ==
  \E s \in {Opened(p)} : \E k \in Accessor(s, p, {"list"}) :
    \E i, j \in 0..Len(s.node[k].items) - 1 :
      Commit(Call("swap", p, <<i, j>>),
             Unbracketed(Holding(s), ListSwap(s, k, i, j)))

IndexedInsertElement(p, d) ==
  \E s \in {Opened(p)} : \E k \in Accessor(s, p, {"list"}) :
    LET end == Len(s.node[k].items)
    IN  \E new \in {WriteThrough(Holding(s), Append(p, Index(end)), d)}, i \in 0..end :
          Commit(Call("insert", p, <<i, d>>),
                 Unbracketed(new, ListMove(new.s, k, end, i)))

IndexedInsertEntry(p, n, d) ==
  \E s \in {Opened(p)} : \E k \in Accessor(s, p, {"object"}) :
    LET q == Append(p, Name(n))
    IN  Commit(Call("store", q, d),
               WriteThrough(ReindexAround(Holding(s), q, RemovePath(s, q)), q, d))

(* SeqMut::swap_remove: only the removal is bracketed.                     *)
IndexedSwapRemove(p) ==
  \E s \in {Opened(p)} : \E k \in Accessor(s, p, {"list"}) :
    LET last == Len(s.node[k].items) - 1
        end  == Append(p, Index(last))
    IN  \E i \in 0..last :
          \E swapped \in {Unbracketed(Holding(s), ListSwap(s, k, i, last))} :
            Commit(Call("swap_remove", p, i),
                   ReindexAround(swapped, end, RemovePath(swapped.s, end)))

(* WriteTxn::store_many: each pair in its own bracket.                     *)
BatchThrough(t, item, stored) ==
  [t |-> ReindexAround(t, item[1], stored.r), parents |-> stored.parents]

PackThrough(items) ==
  LET B[i \in 0..Len(items)] ==
        IF i = 0 THEN [t |-> Now, parents |-> <<>>]
        ELSE LET b == B[i - 1]
             IN  IF Packs(items[i])
                 THEN BatchThrough(b.t, items[i],
                        StoreBatched(BatchParent(b.t.s, b.parents, items[i][1]),
                                     b.parents, items[i][1], items[i][2]))
                 ELSE b
  IN  B

StoreThrough(packed, items) ==
  LET B[i \in 0..Len(items)] ==
        IF i = 0 THEN packed
        ELSE LET t == B[i - 1]
             IN  IF Packs(items[i]) THEN t
                 ELSE ReindexAround(t, items[i][1],
                                    ReplaceIn(t.s, items[i][1], items[i][2]))
  IN  B

IndexedStoreMany(items) ==
  LET packed == PackThrough(items)
      plain  == StoreThrough(packed[Len(items)].t, items)
  IN  /\ MayBatch(items, [x \in DOMAIN items |->
                            IF Packs(items[x]) THEN packed[x - 1].t.s
                            ELSE plain[x - 1].s])
      /\ CommitStore(Call("batch", <<>>, items), plain[Len(items)])

------------------------------------------------------------------------------
(* Index DDL, between transactions                                         *)

(* Whether a packed node is where entities of the pattern are below.       *)
PackedAbove(pattern) ==
  \E i \in 0..Len(pattern) - 1 :
    \E k \in ToSet(AffectedEntities(Table, Prefix(pattern, i), <<>>)) :
      HasKind(Table, k, "packed")

(* Whether the definition names a list position.                           *)
Positioned(def) ==
  \/ \E i \in DOMAIN def.pattern :
       ~IsStar(def.pattern[i]) /\ ~IsName(def.pattern[i])
  \/ \E c \in DOMAIN def.columns :
       \E i \in DOMAIN def.columns[c].path : ~IsName(def.columns[c].path[i])

InSight(def) ==
  ~Positioned(def) /\ ~PackedAbove(def.pattern) /\ ~ColumnPacked(Table, {def})

(* Table::create_index: registered, and back-filled from the root; nothing *)
(* happens when the unique index refuses an entity.                        *)
CreateIndex(def) ==
  \E filled \in {Reindexed(Now, <<def>>, <<>>)} :
    /\ \A other \in indexes : other.name # def.name
    /\ filled.ok
    /\ posting' = filled.post
    /\ indexes' = indexes \cup {def}
    /\ tracked' = tracked \cup {x \in {def} : InSight(x)}
    /\ shredded' = ShreddedBy(indexes')
    /\ UNCHANGED <<node, link, failed, call>>

\* mutant: the entries stay
DropIndex_KeepsEntries(def) ==
  /\ def \in indexes
  /\ indexes' = indexes \ {def}
  /\ tracked' = tracked \ {def}
  /\ shredded' = ShreddedBy(indexes')
  /\ UNCHANGED <<node, link, posting, failed, call>>

(* Table::delete_index, maintenance::delete_all.                           *)
DropIndex(def) ==
  /\ def \in indexes
  /\ posting' = [key \in {x \in DOMAIN posting : x.index # def.name} |-> posting[key]]
  /\ indexes' = indexes \ {def}
  /\ tracked' = tracked \ {def}
  /\ shredded' = ShreddedBy(indexes')
  /\ UNCHANGED <<node, link, failed, call>>

IndexedInit ==
  /\ Init
  /\ shredded = {}
  /\ indexes = {}
  /\ posting = <<>>
  /\ tracked = {}

IndexedNext ==
  \/ \E p \in Paths :
       \/ \E v \in Values : IndexedPut(p, v)
       \/ IndexedRemove(p)
       \/ \E d \in Stored : IndexedStore(p, d)
       \/ IndexedFetchMut(p) \/ IndexedClear(p)
       \/ IndexedSwap(p) \/ IndexedSwapRemove(p)
       \/ p \in Inner /\ \E d \in Stored : IndexedInsertElement(p, d)
       \/ p \in Inner /\ \E d \in Stored, n \in Names : IndexedInsertEntry(p, n, d)
  \/ \E items \in Batches : IndexedStoreMany(items)
  \/ \E def \in Defs : CreateIndex(def) \/ DropIndex(def)

IndexedSpec == IndexedInit /\ [][IndexedNext]_allVars

------------------------------------------------------------------------------
(* Queries                                                                 *)

(* The order of two column values: a scalar stands for its rank.           *)
ValueBefore(column, v, w) == IF column.desc THEN w < v ELSE v < w

ColsBefore(def, x, y) ==
  \E n \in 0..Len(x) :
    /\ n <= Len(y) /\ Prefix(x, n) = Prefix(y, n)
    /\ n < Len(y) /\ (n < Len(x) => ValueBefore(def.columns[n + 1], x[n + 1], y[n + 1]))

(* TableKey::compare, within one index.                                    *)
KeyBefore(def, x, y) ==
  ColsBefore(def, x.cols, y.cols) \/ (x.cols = y.cols /\ x.entity < y.entity)

(* scan_prefix: from the first key that is not before the prefix to the    *)
(* first one that does not begin with it.                                  *)
ScanPrefix(def, prefix) ==
  LET reach == {key \in DOMAIN posting :
                  key.index = def.name /\ ~ColsBefore(def, key.cols, prefix)}
      stop  == {key \in reach : ~IsPrefix(prefix, key.cols)}
  IN  {key \in reach : \A x \in stop : KeyBefore(def, key, x)}

(* The keys of an index in their order: before the one at place i are      *)
(* i - 1 others.                                                           *)
InOrder(def, keys) ==
  [i \in 1..Cardinality(keys) |->
     CHOOSE key \in keys :
       Cardinality({x \in keys : KeyBefore(def, x, key)}) = i - 1]

(* ReadTxn::execute_query on a registered index, with at most as many      *)
(* values as it has columns: the entities found, in order.                 *)
ExecuteQuery(def, prefix, root) ==
  LET under == ToSet(AffectedEntities(Table, def.pattern, root))
      found == IF root = <<>> THEN ScanPrefix(def, prefix)
               ELSE IF Len(def.pattern) < Len(root) THEN {}
               ELSE {key \in ScanPrefix(def, prefix) : posting[key] \in under}
      keys  == InOrder(def, found)
  IN  [x \in DOMAIN keys |-> posting[keys[x]]]

------------------------------------------------------------------------------
(* Properties                                                              *)

(* The paths in document d of the entities of a pattern.                   *)
EntityPaths(d, pattern) ==
  LET P[i \in 0..Len(pattern)] ==
        IF i = 0 THEN {<<>>}
        ELSE UNION {{Append(p, seg) : seg \in
                       {x \in ToSet(Segments(At(d, p))) :
                          MatchesSegment(pattern[i], x)}} : p \in P[i - 1]}
  IN  P[Len(pattern)]

(* What a column holds in a document.                                      *)
DocColumns(def, d) ==
  [c \in DOMAIN def.columns |-> ScalarOr(At(d, def.columns[c].path))]

(* What the document says should be in the index of def: at which path,    *)
(* under which key and with which columns.                                 *)
Entity(p, d) == [path |-> p, key |-> ResolveFrom(Table, ROOT, p), doc |-> d]

DocEntities(def) ==
  {Entity(p, At(doc, p)) : p \in EntityPaths(doc, def.pattern)}

DocPosting(def, e) ==
  <<[index |-> def.name, cols |-> DocColumns(def, e.doc),
     entity |-> IF def.unique THEN NoKey ELSE e.key], e.key>>

DocPostings(defs) ==
  UNION {{DocPosting(def, e) : e \in DocEntities(def)} : def \in defs}

Postings(defs) ==
  {<<key, posting[key]>> : key \in {x \in DOMAIN posting :
                                      \E def \in defs : x.index = def.name}}

(* Every entry is of a registered index, with its columns and its way of   *)
(* naming the entity.                                                      *)
IndexedTypeOK ==
  /\ indexes \subseteq Defs /\ tracked \subseteq indexes
  /\ \A key \in DOMAIN posting :
       /\ posting[key] \in Nat
       /\ \E def \in indexes :
            /\ key.index = def.name
            /\ key.cols \in [DOMAIN def.columns -> Values \cup {Null}]
            /\ key.entity = IF def.unique THEN NoKey ELSE posting[key]

(* "This delete-then-insert cleanly covers every case": unless a call has  *)
(* failed, the entries of the indexes that maintenance has had in sight    *)
(* are those that the document implies, for entities created, replaced,    *)
(* edited, moved within a list, unpacked and removed, and for indexes      *)
(* created before and after them.                                          *)
EntriesShowDocument == ~failed => Postings(tracked) = DocPostings(tracked)

(* A call that fails may lose entries of these indexes, but leaves no      *)
(* wrong one, and nor do the calls after it.                               *)
NoWrongEntry == Postings(tracked) \subseteq DocPostings(tracked)

(* "A unique index rejects a second entity that produces the same column   *)
(* tuple."                                                                 *)
UniqueIndexHolds ==
  ~failed => \A def \in tracked : def.unique =>
    \A e, f \in DocEntities(def) :
      DocColumns(def, e.doc) = DocColumns(def, f.doc) => e = f

(* A query finds the entities at or under its root whose leading columns   *)
(* are the given ones, each once, in the order of the columns.             *)
QueryFindsMatches ==
  ~failed => \A def \in tracked :
    LET entities == DocEntities(def)
        cols == [k \in {e.key : e \in entities} |->
                   DocColumns(def, (CHOOSE e \in entities : e.key = k).doc)]
    IN  \A prefix \in UNION {[1..n -> Values \cup {Null}] : n \in 0..Len(def.columns)},
           root \in Paths \cup {<<>>} :
          LET found == ExecuteQuery(def, prefix, root)
              hits  == {e \in entities : IsPrefix(root, e.path) /\
                                         IsPrefix(prefix, cols[e.key])}
          IN  /\ ToSet(found) = {e.key : e \in hits}
              /\ Len(found) = Cardinality(hits)
              /\ \A x, y \in DOMAIN found :
                   x < y => ~ColsBefore(def, cols[found[y]], cols[found[x]])

(* What the comments say of every index.  "Existing data is back-filled":  *)
(* "every pre-existing entity the index matches is indexed too, so the     *)
(* index is correct whether data was written before or after"; and what a  *)
(* call packs at or below an entity does not take its columns away.        *)
EveryEntryShowsDocument == ~failed => Postings(indexes) = DocPostings(indexes)

(* "List reordering preserves every element's key and column values, so no *)
(* index entry can change": no entry is wrong after it.                    *)
NoEntryIsWrong == Postings(indexes) \subseteq DocPostings(indexes)

(* The entries follow the columns of the entities as IndexContract says,   *)
(* calls that fail included.                                               *)
Covered(def) ==
  IF def \in tracked THEN ToSet(AffectedEntities(Table, def.pattern, <<>>)) ELSE {}

TuplesIn(s, def, covered) ==
  [e \in Keys \cup {ROOT} |-> IF e \in covered THEN Columns(s, def, e) ELSE Uncovered]

\* bound variables, so that TLC evaluates the table and the entities once
EntityTuples(def) ==
  CHOOSE tuples \in {TuplesIn(s, def, covered) : s \in {Table}, covered \in {Covered(def)}} : TRUE

TrackedEntries ==
  {x \in tracked \X DOMAIN posting : x[2].index = x[1].name}

Contract == INSTANCE IndexContract WITH
  Entities <- Keys \cup {ROOT},
  Indexes <- Defs,
  Tuples <- ColumnTuples,
  Unique <- {def \in Defs : def.unique},
  tuple <- [def \in Defs |-> EntityTuples(def)],
  posted <- {<<x[1], posting[x[2]], x[2].cols>> : x \in TrackedEntries}

ImplementsIndexContract == Contract!Spec
=============================================================================
