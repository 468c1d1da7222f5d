# StratoDB, specified and proved in TLA+

StratoDB is an embedded document store on top of the redb key-value engine. A
table holds one document (objects, lists, leaves). The document is *shredded*:
every node is an engine entry under a 128-bit key of its own, every
object-to-child link is another entry, and paths (`users/alice/t[2]`) are walked,
never stored. A subtree that no index reaches into is *packed* into one entry.
On top of the tree come secondary indexes, caches shared by all transactions, and
typed accessors.

This directory holds the TLA+ model of that program: modules, the TLC
configurations that check them on small instances, and TLAPS proofs for all
instances. Paths below are relative to `src/crates/stratodb/src/`.

## 1. Inventory

| component | state | operations | modelled in |
|---|---|---|---|
| version lock and generation (`db/inner.rs`, `table.rs`, `txn/write.rs`) | `version_lock`, `generation`, the engine's committed version | `Table::read`, `Table::write`, `commit` (may fail), `abort`, drop, reopen | VersionedReads |
| path cache, blob cache (`cache.rs`) | path -> (generation, key); (generation, key) -> decoded blob; both LRU-bounded | `get`, `put`, `get_blob`, `put_blob`, eviction | VersionedReads |
| read transaction (`txn/read.rs`) | its snapshot and its generation | `get`, `load`, `fetch`, child navigation; queries | VersionedReads; queries in IndexedTree |
| shredded tree (`tree.rs`) | `Data(key)` entries, `Child{parent,name}` links, element keys in list nodes | `locate`, put, remove, ensure, attach, detach, clear, move, swap, cascade delete | NodeTree, NodeBackends |
| packed entities (`engine/backend.rs`, `engine/archived.rs`) | one entry that holds a whole subtree | pack, unpack, read within, edit within, overwrite in place | NodeTree, NodeBackends |
| write transaction (`txn/write.rs`, `txn/value.rs`) | the engine transaction, its index set | `put`, `remove`, `store`, `store_value`, `fetch_mut`, `store_many`, commit, abort | NodeTree, IndexedTree, IndexSchema, VersionedReads |
| write accessors (`data/seq.rs`, `data/map.rs`, ...) | a path and a key each | push, insert, insert_at, remove, swap, clear; retain, drain, remove_range, swap_remove; set of an option | NodeTree, IndexedTree |
| index registry (`index/registry/`) | entries and `next_id`, one record in `$metadata` | create, lookup, has, delete; encode, decode | IndexSchema, RegistryBytes |
| index-set cache (`db/inner.rs`) | `schema_gen`, table -> (generation, set) | `cached_indexes`, `bump_schema_gen` | IndexSchema |
| index DDL (`table.rs`) | none of its own | `create_index`, `ensure_index`, `delete_index` | IndexSchema, IndexedTree |
| index maintenance (`index/maintenance.rs`, `index/pattern.rs`) | index entries in the data table | delete, apply, insert around each mutation; pattern walk; unique guard | IndexedTree, IndexContract |
| queries, rooted views (`txn/query.rs`, `txn/rooted/`) | none | prefix scans, path prefixing | IndexedTree, NodeBackends, PathText |
| ordered encoding, table keys and values (`index/ordered.rs`, `engine/table_key.rs`, `engine/table_value.rs`, `codec/`) | none | encode, decode, compare | OrderedKeys, TableBytes |
| paths and patterns (`path/`, `index/pattern.rs`) | a sequence of segments | parse, display, join, push a name | PathText |
| in-memory documents (`value.rs`) | a `Value` | set, get, remove, merge | ValueDocument |
| typed data (`data/`, the derive macros) | none | store a Rust value, load it again | TypedData |
| export (`export/`) | none | JSON and YAML text | DocumentText |
| redb (external) | committed version, one writer, snapshots | begin, commit, fail, abort | as used |

How they interact. Every handle on a database shares one `DbInner`. A reader
takes the version lock shared, begins an engine snapshot and reads the
generation; a committer takes it exclusively around the engine's commit and the
bump. Readers then fill the shared caches whenever they like, tagging what they
put with their generation. Every mutation of a write transaction runs inside
`reindex_around`, which needs the table's index set; that set is shared across
transactions, tagged with a second counter, `schema_gen`, which index DDL bumps
*after* its commit. Whether a store packs depends on the index patterns, so what
lies in the tree depends on the history of the index schema, and every tree
operation has to cope with both forms. The tree functions themselves run over two
stores through the traits `ReadNodes` and `WriteNodes`: the engine table, whose entries are ordered by
the bytes of their keys, and the nodes of one packed entity in memory.

What is hard here: the pairs of steps that are meant to be atomic (snapshot and
generation, commit and bump, DDL commit and schema bump); cached results used
versions later; commits that fail while a lock is held; calls that fail halfway
and are followed by a commit; the same path leading through plain nodes, at a
packed node or into one; list positions that shift under a multi-step operation.
`PROJECT.json` lists these hazards line by line with the properties that watch
them, and those that no property watches yet.

What makes each part correct:

* *versions and caches*: a read transaction answers from its own snapshot, always;
* *version lock*: it is always given back;
* *tree*: entries form a tree, nothing leaks, a call changes the document at its path only;
* *packed entities*: being packed is never observable;
* *index schema*: a writer maintains the committed indexes, ids never come back;
* *index maintenance*: index entries are those that the data implies, and queries find them;
* *backends*: both stores show the same tree after the same calls;
* *encoding*: byte order is column order, and what is written reads back;
* *typed data*: a value loads as it was stored, also by a later version of its type;
* *in-memory documents*: a `Value` changes as the table would;
* *export*: the text tells documents apart whose values differ.

## 2. Modules

```
StoredTree ---------> SnapshotStore                 Documents --> DocumentStore
     \                  ^ implements                     \           ^ implements
      `-----> VersionedReads                               `---> NodeTree --> MCNodeTree
                 |        \                                     |    |
   VersionedReads_proofs   MCVersionedReads                      |  IndexedTree --> MCIndexedTree
                                                                 |    | implements
IndexSchema --> IndexSchema_proofs, MCIndexSchema                |    v
                                                                 |  IndexContract --> IndexContract_proofs
                                                                 v
   NodeTree_proofs --> NodeTree_documents --> NodeTree_refinement
                                                    |
                                   IndexedTree_frames --> IndexedTree_proofs   (with IndexedTree)

OrderedKeys --> TableBytes --> NodeBackends ---------------------.
                    |  \                                          \
Documents --> PathText --> RegistryBytes, TypedData, DocumentText --> StorageBytes --> MCStorageBytes
         \                                                        /
          `--> ValueDocument -------------------------------------'
```

**StoredTree** (no variables). What a read finds in one version of a table:
nodes, links, `Resolve` (`tree::resolve`), `Locate` (`tree::locate`), `View`
(`tree::get_scalar`). Names only; paths have one or two segments.

**VersionedReads**. The begin and the end of every transaction, one action per
lock operation, engine call and counter access, and every cache lookup and
fill of `get`, `load`, `fetch` and child navigation. A writer may replace its
working version with any store of `Stores`: what writers do to the tree is
NodeTree's matter.

| variable | code |
|---|---|
| `engine`, `work`, `holder` | redb: committed version, open write transaction, who has it |
| `generation`, `guardReaders`, `guardWriter` | `DbInner::generation`, `version_lock` |
| `snap[r]`, `gen[r]` | `ReadTxn::txn`, `ReadTxn::generation` |
| `paths`, `blobs` | `PathCache::entries`, `PathCache::blobs` |
| `todo[r]` | the local variables of a read between two of its cache calls |
| `answer[r]` | history: what the last read returned |

Index DDL commits do not take the version lock and do not bump `generation`.
They change index entries and `$metadata` only, so the part of the store that
readers cache is the same before and after: they are stutters here.

**SnapshotStore**. What VersionedReads promises: no caches, no lock, no
generation; a reader sees the version committed when it began.
`ImplementsSnapshotStore` is the refinement with `committed <- engine` and
`view <- snap`.

**IndexSchema**. Threads that run write transactions and DDL calls; the
registry and its id allocator, the index-set cache with its tags, the set a
transaction keeps (`WriteTxn::indexes`), data and index entries (`postings`).
The history variable `apart` remembers whether every write transaction so far has
begun outside the gap between a DDL commit and its bump; no guard reads it.
`cached_indexes` is four actions (`LoadSchemaGen`, `ConsultCache`,
`LoadRegistry`, `FillCache`), because another thread's bump may come between
them; DDL commit and bump are two. An entity has one value and an index matches all
entities of its table: patterns, columns and uniqueness are IndexedTree's
matter.

**Documents** (no variables). The document of a table and what reading,
writing, removing and reordering at a path mean, as functions over the positions
of the path.

**NodeTree**. The engine entries of one table and every call of one write
transaction on them. A call is one action (a write transaction belongs to one
thread and nobody else sees its work) but is built from the code's own steps in
their order, each handing a table to the next: `EnsureContainer`,
`AddChild`, `AttachChild`, `DetachChild`, `CascadeDelete`, `StorePacked`,
`Unpack`... A step that fails stops the call and *keeps what was done before*,
as the code does. `shredded` is the set of paths for which `should_pack` is
false, constant during the transaction as the index set is.
The blob of a packed node is the document it stands for: the code
runs the same `tree::*` functions over the decoded blob (`MemNodes`), and what
those functions do to the document is what the refinement below checks, and that
they do the same over both stores is what NodeBackends checks. Composed accessor calls
(`remove_range`, `retain`, `drain`, `swap_remove`) are the sequences of element
calls that the code makes, and `store_many` keeps the parents' keys for the batch.

**DocumentStore**. What NodeTree promises: each call does to the document what
its path says, or fails and changes nothing except for an empty container it may
have created on the way. The history variable `call` labels each step with its
call, so that a remove cannot pass for a put. `ImplementsDocumentStore` is the
refinement, with the document read off the entries (`doc`).

**IndexedTree**. NodeTree with the registered indexes and their entries. Every call is
wrapped in `ReindexAround`, which is `reindex_around` in its order: entries of
the affected entities out, the change, entries in, with an early return at each of
the three. An accessor's call that writes several paths has a bracket for each, and
reordering has none, as in the code. `AffectedEntities` is the walk along the line of a path,
`CoversStrictlyBelow` decides what is packed (so `shredded` changes with DDL),
`ColumnScalar` (`tree::entity_leaf`) looks a column up, in the blob of a packed entity too. Index DDL happens between
transactions here; IndexSchema has it in parallel to them. Every definition may be created at any time, over
any table, also where the code then misses entities: patterns and columns may name list positions, and entities and columns may lie in
packed nodes. Maintenance walks links, so what is packed above an entity or a column is out of its sight, and positions do not stay with
elements. The history variable `tracked` has the registered indexes that neither has befallen: no position in the definition,
nothing packed above an entity when the index was created, no packed node between an entity and a column since. No guard reads it; it
separates the indexes that the code keeps right for ever from those of the findings 5, 6 and 7 below. `ExecuteQuery` is what a
read transaction finds in the entries: `ScanPrefix` has the keys that the range scan reaches before it stops, `InOrder` the order in which it yields them.

**IndexContract**. What maintenance promises, without trees: indexes give tuples to entities,
and a mutation drops, changes and posts, or stops after any of these.
`ImplementsIndexContract` is the refinement, with the tuples read off the tree.

**OrderedKeys**, **TableBytes** (no variables). Scalars as index columns, ordered by their bytes;
scalars exactly; nodes, values and keys of the engine table. A byte string
is a sequence of numbers, and an encoding is what the code appends to it, field by field.

**NodeBackends**. The engine table (bytes to bytes), `MemNodes`, and the blob of a packed
entity with its readers: decoded (`FromBlob`), in place with binary search (`Arch...`), and patched
in place (`PutIntoBlob`). Each action is one writing function of `tree.rs`, done to both stores
from what it reads *in that store*; the others post, drop and purge index entries.
rkyv's archive is its list of nodes, sorted as the code sorts it.

**PathText**, **RegistryBytes** (no variables). `SPath` and `Pattern` from and to text, over all
short texts of the characters that mean something; the registry's record.

**ValueDocument** (no variables). `Value`'s own calls, on the documents of Documents.

**TypedData** (no variables). A Rust type is a record (`shape` and what belongs to it), a value one of
another kind; `Store` and `Load` are what `SData::store` and `load` do for the library's types and what the
derive macros generate for structs and enums, including where they fail.

**DocumentText** (no variables). Documents as compact and indented JSON and as YAML.

**StorageBytes** puts NodeBackends and the codecs into one specification: a step either
writes to the stores or gives one input to the codecs, whose properties speak of it.

## 3. Runs

| run | instance | shows |
|---|---|---|
| `caches` | 2 readers, 1 writer, 4 stores | types, the inductive invariant, `GenerationNamesOneStore`, `CachesServeTheSnapshot`, refinement of SnapshotStore; `GuardIsReleased` under fairness |
| `index_schema` | 2 threads, 2 tables, 2 names, 2 definitions, calls overlap freely | the inductive invariant, `CachedSetIsCurrent`, `NewIdsAreUnused`, `IndexSetIsCommitted`, `IndexesMatchData` |
| `schema_race` | 1 table, the same calls | **violation** of `EveryIndexSetIsCommitted` |
| `node_tree` | 6 paths, 4 documents, 2 schemas | types, `EntriesFormATree`, `NothingLeaks`, `ReadsSeeTheDocument`, `NodesKeepIdentity`, refinement of DocumentStore |
| `store_shifts` | the same, stores over any list element | **violation** of `StoreReplaces` |
| `store_into_packed` | the same, stores below packed entities | **violation** of `StoreReplaces` |
| `indexed_tree` | 3 paths, 4 documents, 2 batches, 2 indexes | types, `EntriesShowDocument`, `NoWrongEntry`, `UniqueIndexHolds`, `QueryFindsMatches`, refinement of IndexContract |
| `index_packed_column` | the same, the index on `a` alone | **violation** of `EveryEntryShowsDocument`: a column in a packed part of its entity |
| `index_back_fill` | the same, the index on the children of `a` alone | **violation** of `EveryEntryShowsDocument`: entities packed before the index was created |
| `index_reorder` | the same, an index on `a[0]` | **violation** of `NoEntryIsWrong`: elements moved |
| `storage_bytes` | 4 keys, 2 names, 3 leaves, 3 indexes; 141 scalars, 2,943 texts, 3,892 types | the sixteen properties of backends and codecs |
| `map_keys` | the same, any text as a map's key | **violation** of `MapEntriesAreBelow` |

Run one with `tlc -workers 2 -config MCNodeTree.cfg MCNodeTree`.

### The properties

* `GenerationNamesOneStore`: equal generations mean equal snapshots. This is what
  the version lock is for; dropping the lock in `Table::read` breaks it.
* `CachesServeTheSnapshot`: what the caches would serve to a reader now is what its own
  snapshot holds, whoever filled them and whenever.
* `GuardIsReleased`: the lock is released after a failing engine commit as well.
* `CachedSetIsCurrent`, `EveryIndexSetIsCommitted`: the two halves of the comment in
  `db/inner.rs:42-44`. The first is about the cache and always holds once
  no bump is outstanding. The second is about transactions and is false: a write transaction
  may begin in the gap between a DDL commit and its bump. `IndexSetIsCommitted` says that
  this is the only way: the sets are the committed ones as long as none has (`apart`).
* `IndexesMatchData`: under the same condition the committed entries are exactly those that the committed
  registry and data imply: none missing, none stale, none left of a dropped index.
* `NewIdsAreUnused`: a new index's id occurs in no entry, not even a stale one.
* `EntriesFormATree`, `NothingLeaks`: no dangling link, no node in two places, no
  unreachable entry (unless a call has failed: `attach_child` beyond the end leaves
  the node it was to link).
* `ReadsSeeTheDocument`: `locate` followed by a read inside a blob agrees with the
  walk over all nodes.
* `NodesKeepIdentity`: a call leaves every node that it does not write under its key, also when
  elements move and when an entity is unpacked. Accessors hold keys, so this is what makes them last.
* `EntriesShowDocument`: unless a call has failed, the entries of the indexes in `tracked` are exactly those that the
  document, its patterns and its columns imply. The right-hand side never looks at nodes, only at the document.
* `NoWrongEntry`: after a failed call entries of these indexes may be missing, but none is wrong, and none becomes wrong later.
* `EveryEntryShowsDocument`, `NoEntryIsWrong`: the same of every registered index, as the comments in
  `table.rs:78-81`, `index/maintenance.rs:161-162` and `txn/write.rs:584-585` have it. The code does not keep them (findings 4 to 6).
* `UniqueIndexHolds`, `QueryFindsMatches`: what users of an index rely on. A query finds each match
  under its root once, in the order of the columns, descending ones included.
* `EncodingKeepsOrder`, `ColumnsCompareInTurn`, `KeysCompareAsBytes`: the order of bytes is the order of scalars, of
  columns one after the other, and of keys field by field. The reference order is that of the values.
* `ValuesReadBack`, `RegistriesReadBack`, `TextsPrintBack`: round trips, with what follows the value left over, and
  with every truncation refused.
* `ViewsStayInside`: a path that parses in a rooted view is the root followed by that path: no `..` rises above the root.
* `StoresAgree`: after the same calls the engine table and `MemNodes` hold the same nodes, links and children in
  the same order, and the in-place reader finds in the blob what the decoded one does.
* `PatchedBlobIsReencoded`: a leaf patched in place gives the bytes of a full re-encoding, or the patch is refused.
* `ScanFindsThePrefix`, `TableHoldsTheEntries`: the bounds of a scan and of a purge, over key bytes, with the neighbours
  they could run into.
* `SetValueIsAPut`, `MergeIsPartByPart`: `Value`'s calls against the document operators; one that does not apply changes nothing.
* `TypedValuesLoadBack`, `OldValuesLoad`: stored over any older document a value loads back, and does so after its
  type has gained fields, names or variants with the attributes meant for that.
* `ExportsTellApart`: two documents have the same text exactly if they have the same content, for every layout. What the text
  does not tell is written out in `Says`: the types of numbers (an integer, a float and a duration of the same value print alike),
  floats that are no number (null), and what quoted scalars have their text in common.

### Bounds, and why they are enough

* `MaxGeneration` stops new write transactions once that many commits are
  counted. With 1 and one writer, each life of the database has two versions, which is what a stale cache entry needs: the
  one it was filled from and one to confuse it with, under two generations that two readers use side by side. A reopen sets the counter
  back, so a third version meets the tags of the first. A second writer that begins before the first one's bump changes
  nothing that readers see before it commits, and waits for the version lock until the bump is made; the proofs cover any number of both.
* The four stores (nothing; an entity packed; the same key with
  another blob; the same key unpacked with a leaf below) are pairwise confusions of a cache:
  absent/present, same key with other content, same path with another way in.
* `MaxId`, `MaxSchemaGen` bound the DDL calls between reopens: two or three
  indexes ever, three bumps; enough for create, drop and create again while a
  stale set is cached.
* `MaxKey = 3`: three nodes beside the root between two calls, paths of at most two segments, the
  positions 0 and 1: a list of two elements in an entry, which is where shifting, moving and
  appending differ. Calls that would leave a fourth node are left out of the run; the steps inside a call draw
  any key not in use. Stored documents are leaves and containers of leaves; nesting comes from
  storing below a path. Flat documents and paths of at most two segments are `TreeAssumption`: the blob of
  an entity below the root then stays flat. The proofs about NodeTree make that assumption too, and no other bound.
* `VIEW MCView` leaves the history variable `call` out of the fingerprint. No
  guard reads it, and each step is checked with its own `call'`.
* IndexedTree: one table, an object or list `a` whose children are the entities of a unique index
  with a descending column (the entity itself) and an ascending one, and `a` as the entity of a second one; both may be created and
  dropped at any time, over packed and shredded data. With both of them most calls keep `a` shredded and the first index in `tracked`; an index
  created over a packed `a` is not, until it is dropped and created again. Two entities and two values are what a refused
  duplicate, a swap and a wrong order need; a batch of two pairs, once for two entities and once for the same one twice.
* StorageBytes: `MaxNodes = 6` and `MaxEntries = 3` entries in the table, so an object with two fields and what they lead to, or three
  index entries; `SkeyLen = 1` and `NanosPerSecond = 1000` keep encodings short. Keys are 0, two neighbours and 255, which
  are the ends of a scan. Every scalar type has values on both sides of each place where its encoding changes
  (sign, length byte, exponent, terminator). TLC's integers have 32 bits: wider types hold values of 32 bits, in encodings of their full width.
* Types in TypedData: every container, attribute, representation and form of variant over five basic types, and over each of
  the types that gives: two levels, 3,892 types with all their values, of which 2,381 meet `Sound` and always leave a node.
* The stores and the codecs do not interact: an input is given only while the table is empty.
* Symmetry is used in `index_schema` only, over sets whose members nothing tells apart, and that run checks no liveness.

### Fairness

`FairSpec` asks weak fairness of the steps of a thread that *holds* the version lock,
and of nothing else. Between taking the lock and dropping it, `Table::read` and
`WriteTxn::commit` call the engine and an atomic, and wait for nobody; a commit
that fails is one of the ways to go on. No fairness is assumed of threads that
wait, so nothing is said about a reader eventually getting the lock (that
depends on `std::sync::RwLock`).

### Assumptions on use

* `StoreShifts = FALSE`, `StoreIntoPacked = FALSE` (NodeTree): no `store` or `store_value` over a
  list element that is not the last, and none below a packed entity. The
  code accepts both; the two violation runs show what it does with them. `put`, `remove` and the
  accessors are unrestricted. `EntriesFormATree` needs both as well: a list whose packed last element shifts
  into the place stored to ends up with nodes linked under a packed key, and so does a store below a packed entity. `MayStore` decides this
  by the path, and so leaves out one harmless call as well: a packed element overwritten in place by another value to be packed (`txn/write.rs:135-139`)
  that is not the last of its list.
* `MayBatch` (NodeTree): in a batch, no path is an ancestor of another, pairs of one parent name all fields or all positions of it,
  pairs that are not packed, at the root or where an index reaches below, come last (`store_many` does them after the others), and no pair does, on the table
  that it meets, what the two constants above leave out.
* None on the use of indexes: `apart` (IndexSchema) and `tracked` (IndexedTree) are history variables that no guard reads, and the
  runs have the calls that end what they say.
* `Sound` (TypedData): types whose values can be told apart in a document. Left out are an option of something that may store null or
  nothing, lists, maps and payloads of a struct without a node, a flattened enum, two fields whose names or
  aliases meet, `skip_store_if` without the matching default, and untagged variants of the same form.
* `StoresAssumption` (VersionedReads): the stores have no link below a packed node. That is what
  NodeTree's `EntriesFormATree` establishes, and only without stores below packed entities.

## 4. Findings

1. **The gap after index DDL** (`table.rs:102-103`, `160-161`, `225-226`). The
   DDL transaction commits, which lets the next writer into the engine, and only then bumps
   `schema_gen`. A writer in between takes the old index set from the cache and
   maintains it: after `create_index` it leaves the new index without its changes, after
   `delete_index` it writes entries for an index that is gone. `db/inner.rs:42-44` and
   `92-94` state the contrary. (Ids are never reused, so such left-over entries
   never show up in another index: `NewIdsAreUnused` holds with the gap open.)
2. **Storing over a list element** (`txn/write.rs:142-145`, `txn/value.rs:83-86`). The old element is removed, the list
   shifts, and the new value is then linked over the element that moved into its place. The next
   element is lost.
3. **Storing below a packed entity** (same lines). The value is linked as a child of the
   packed key, where no read looks for it. `put_scalar_path` handles the same case by editing the blob.
4. **Columns in a packed part of an entity** (`tree.rs:784-804`). For an entity that is packed as a
   whole `entity_leaf` looks into the blob; for one that is not, it walks links, and finds nothing
   below a part that is packed. The column is indexed as `Null`, and a query for its value misses the entity, although
   `index/maintenance.rs:161-162` says that packed data is looked into.
5. **Back-fill over packed entities** (`table.rs:97-100`, `155-158`). An index created over entities that lie in an entity packed above them
   gets no entries of theirs, because the back-fill walks links. Queries miss them until they are stored again, and a unique index is created over duplicates
   among them. `table.rs:78-81` promises both: "every pre-existing entity the index matches is indexed too, so the index is correct whether data was
   written before or after - and creating a unique index over duplicate data fails". The run `index_back_fill` is the shortest case: a value stored at `a`, then an index on `a/*`.
6. **Positions in patterns** (`txn/write.rs:584-596`, `data/seq.rs:219-221`). A pattern may name a list position (`table.rs:113-114`, `index/pattern.rs:5`).
   Moving and swapping elements skips maintenance, "List reordering preserves every element's key and column values, so no index entry can
   change", but such an index is on whichever element is at the position: after an insertion at the front, which appends and then moves,
   it still has the entry of the element that was there (run `index_reorder`). Removing an element has the same effect on those that shift.
7. **Map keys that mean a step** (`path/spath.rs:57-66`, `data/map.rs:31`). The key `..` stores its value at the path above the map,
   the key `.` over the map itself. Other keys, with slashes or brackets too, are stored as they are.

## 5. Proofs

`VersionedReads_proofs`, `IndexSchema_proofs`, `IndexContract_proofs`, the three modules `NodeTree_*` and the two `IndexedTree_*` are checked by TLAPS
(`tlapm VersionedReads_proofs.tla`). They hold for any sets of readers, writers, keys,
names, tables, values, any set of stores that meets its assumption, and without bounds on the counters' values.

*VersionedReads.* The inductive invariant `Inv` is the properties and four more parts:

* `LockInv`: the program points tell who holds the version lock and the engine's
  writer, and a writer never shares the lock;
* `SnapInv`: a reader between `begin_read` and the generation load has the committed version;
* `TagInv`: no tag is ahead of the counter, and, unless a commit is between the
  engine and its bump, entries tagged with the current counter are right for the
  committed version. Without it the properties are not inductive: they speak of
  readers that exist, and a reader about to begin would inherit whatever is in the cache;
* `ReadInv`: a read in progress holds a key of *its* snapshot that leads to the right answer.

`BumpGeneration` is the interesting step: the new counter value tags nothing yet,
so everything holds vacuously at it. `CommitToEngine` breaks the second half of `TagInv` for the time
until the bump (`InFlight`), during which `LockInv` keeps every reader out. From `Inv` follow `TypeCorrectness`,
`GenerationNamesOneStoreAlways`, `CachesServeTheSnapshotAlways`, and `Refinement`: every step is
a step of SnapshotStore or a stutter.

*IndexSchema.* `Inv` adds `HolderInv` (who is inside the engine), `TagInv` (a set on its
way into the cache is the committed one: the writer that carries it keeps DDL out), `IdsInv`
and `NewIdsInv` (ids below the allocator, also in stale sets) and `ApartInv` (while
`apart` holds, nobody consults the cache while a bump is due). No theorem has an assumption on use: DDL calls and writers overlap freely in
`CachedSetIsCurrentAlways` and `NewIdsAreUnusedAlways`, and `IndexSetIsCommittedApart` and `IndexesMatchDataApart` speak of the
behaviours up to the first writer that begins in the gap.

*IndexContract.* Four facts are proved together, for any entities, indexes and tuples: entries and tuples have their types,
no entry is stale (`NothingStale`), and until a mutation fails none is missing (`NothingIsMissing`) and unique indexes
hold (`UniqueIndexesHold`). They need each other: dropping an entry drops whatever has its key, which in a unique index is an
entry of another entity unless the index holds; and a duplicate is refused by looking at the entries, which is enough only
if none is missing. That IndexedTree implements IndexContract is proved, too (below).

*NodeTree.* The inductive invariant is `TreeInv`. It says of the table between two calls:

* `Shape`: finitely many nodes, each an object, a leaf with a value, a list of keys or a packed flat document; the root is
  never packed and never a child;
* `Sound`: what has a child named by a field is an object, what has one at a position is a list, and no key is the child of
  two nodes or at two places of one. "Child" is `ChildKey`, which is all that the code's walks see;
* `Tree`: every child is a live node;
* `Full`, unless a call has failed: every live node is reached from the root.

`EntriesFormATree` and `NothingLeaks` follow from it but are not inductive. The first counts places and does not say that
only objects have links: after `put` replaces an object by a leaf it needs that the cascading delete has taken *all* the
object's links, which holds because the delete visits exactly what the links and elements lead to. The second needs
that a delete takes nothing that hangs elsewhere, which is uniqueness of children along whole walks.

The proof goes layer by layer. `NodeTree_proofs` begins with single tables: walks, the waves of a cascading delete (they reach a fixed point within as many
waves as there are nodes, by counting), no cycle among reached nodes, and what each write of an entry does to the children of
every node. Then the steps of calls: what `ensure_container`, `put_scalar`, `remove_path`, `store_packed`, `write_value` and `locate` do to
a tree, failing steps included, each by induction along the path or the parts. A step in the middle of a call may leave a
child that is no longer live (`TreeBut`), which the next step of the same call unlinks or overwrites. Last, every call, batches of any length (with what
`store_many` remembers of parents it has met: a remembered key stays that of its path), and the theorems
`TreeStays`, `TreeTypeOK`, `TreeEntriesFormATree`, `TreeNothingLeaks`. `NodeTree_documents`: the document of a tree is at each
node made from the documents of its children (`DocUnfold`: nodes are settled after as many levels as there are nodes below them), and a walk keeps to the
document until it meets a packed entity, so `TreeReadsSeeTheDocument`: `locate`, then the blob, shows the document at *every* path.

*NodeTree implements DocumentStore.* `NodeTree_documents` goes on with what a change of nodes does to the document, and `NodeTree_refinement` makes
a step of DocumentStore of it, call by call (`CallImplements`), for batches (`BatchImplements`), and for steps that change no entry. The argument has four parts:

* the algebra of documents, without tables: containers are determined by their parts (`SameKids`), a write at a path is a write at the rest of the path in what its
  beginning leads to (`WithAlong`), written twice the second one counts (`WithWith`), and what `Fits` requires of the containers on the way;
* locality: a change confined to what is visited from one node (`Confined`) leaves every other node its document (`FrameDocs`), and the document of the root is written
  at the path of that node with the node's new document (`Lift`). This is where the tree invariant is used: what is below one child is below no other;
* the steps of a call, each with what it does to the document: containers made on the way are the empty ones that `With` puts there, replacing a child replaces the part, a part
  taken from a list moves up those after it, an edit inside a packed entity is the same edit at the rest of the path. `Writes` states for a whole write what it
  leaves in both cases: `With` if the path fits, and otherwise the empty container the call may have created before it stopped;
* composed calls and batches, by induction on the number of calls made: `Retained` (the parts that are left are the old ones in their order) for `retain`,
  `drain` and `remove_range`; `Ran` for `store_many`: packed pairs first, each stored over what those before it left, up to the first that fails. The
  remembered parents of a batch are still where their paths lead.

`TreeImplementsDocumentStore` is the result, and `TreeStoreReplaces`, the property that the runs `store_shifts` and `store_into_packed` violate, follows from it
when the two calls those runs add are left out.

All of it holds for any names, values, schemas, stored flat documents, batches and any `MaxKey`, from `TreeAssumption` and from
`StoreShifts` and `StoreIntoPacked` being FALSE; without either, TLC finds `EntriesFormATree` violated. What speaks of documents also uses
`NowhereApart`: the mark for "no document" is no document.

*IndexedTree.* Entries, entities and documents are related through paths: `EntityAt(s, pattern, r, k)` says that the path `r` matches the
pattern and leads to `k`, and `AffectedOnLine` that the code's walk along the line of a path (`AffectedEntities`) finds exactly the entities at
paths that lead to it or that it leads to. `Pair(s, def, k)` is the entry of an entity in table `s`. The inductive invariant `IndexInv` says that

* `shredded` is what the registered indexes ask for, and no two of them have one name (`Registry`);
* every entry, of any registered index, was right when it was made (`Once`): it is the `Pair` of an entity in some tree, and a key that names an entity holds it;
* of the indexes in `tracked` no entry is wrong now, whatever has failed (`NoneWrong`), and unless a call has failed none is missing (`NoneMissing`);
* no packed node is above an entity of these, or between an entity that is not packed and a column (`ClearOf` with `AboveW` and `ColumnW`: patterns made from those of the
  indexes, which the path of a packed node may not match);
* the table is a tree (`Tree`, from the proofs of NodeTree).

The properties follow from it and are not inductive. "The entries are those the document implies" does not say that packed nodes keep off the
paths of patterns: with one above an entity the walk stops there while the document goes on, and the next unpacking brings entities to light
that have no entries. `Once` is there because the other indexes go on being maintained: their entries, right or not, must not get in the way of
those of the tracked ones, and must have the types of their own.

`IndexedTree_frames` shows what a change at a path `p` leaves alone. `Loc`: a path off the line of `p` leads to the same node as before; `Way`: the
paths above `p` lead where they led; `Brings`: at which paths packed nodes may be new. Each step of NodeTree has these three (`PutStepFrame`, `StoreStepFrame`, ...). Removal from a list is the exception:
what follows the element moves up, so paths off the line change. There the argument is by keys: every child that is left was a child
of the same node, at a position that patterns and columns do not tell apart (`Similar`, `ComesFrom`), so each entity stays one under the same index key (`CutSteady`).
`BracketKeeps` is the maintenance rule: if only entities on the line of `p` change, then taking the entries of the line down before the change and posting them after it leaves
all entries as they should be, or stops at a refused duplicate with some missing and none wrong. Last come the changes outside of brackets:
reordering a list (`ReorderKeeps`) and unpacking (`UnpackBrings`).

`IndexedTree_proofs` begins with where nothing may be packed (`ClearSteady`) and with opening an accessor, which unpacks and keeps every index key because the blob holds the same document
(`UnpackKeeps`). It has then each call, by induction over the parts of a document that is written piece by piece and the pairs of a batch, then
`create_index` and `delete_index`, and `IndexesFit`: `IndexInv` always holds. The rest relates the table to the document: `EntityPathsAre` (the entities of the document are at the
paths of those of the table), `ColumnsAreDoc`, `PostingsAre`. The theorems are `IndexedTypes`, `IndexesShowDocument`,
`FailedCallsLeaveNoWrongEntry`, `UniqueIndexesAreUnique`, `QueriesFindMatches` and `TreeImplementsIndexContract`.

`QueriesFindMatches` needs the order of an index. `KeyBefore` is a strict linear order on the keys of an index (`KeysInLine`), whatever columns are descending, so in a finite set
each key has a place, the number of keys before it, and `InOrder` yields each key once and in order (`PlacesAre`). The scan starts at the first key that is not before the prefix and stops
at the first that does not begin with it: no key behind that one begins with it, because keys that share their leading columns are neighbours in the order (`ScanIs`). That the entries
so found are those of the document's entities, in the order of the document's columns, is `IndexInv` again.

The theorems hold for any set of index definitions, with any number of columns, with or without list positions, created and dropped at any time over any
table, any names, values, paths, documents and batches within `TreeAssumption`, and any `MaxKey`, from `Guarded`: `StoreShifts` and `StoreIntoPacked` are FALSE
(section 3 says what the code does otherwise: the table is no tree any more) and `NowhereApart`. What they say of the entries, they say of the indexes in `tracked`; of the others, the three runs
`index_packed_column`, `index_back_fill` and `index_reorder` show that it does not hold. `ColumnPacked`, `PackedAbove` and `Positioned` are thus a complete list of what can put an index out of step with its
table: nothing else does. `DefsAssumption` and `UncoveredAssumption` give definitions their types and a mark for "not covered" that is no tuple.
`QueriesFindMatches` also takes scalars to be numbers, which the model compares by value as the code compares their bytes (`Ranked`; `OrderedKeys` has the bytes).

Only model-checked:

* `GuardIsReleased`: liveness is outside the prover's reach;
* `NodesKeepIdentity`: the refinement speaks of documents and says nothing of keys;
* everything in StorageBytes: round trips and byte orders are inductions over data. (Induction over a number, such as the length of a path, is
  within reach: `SetInduction` does it for a set of numbers.)

## 6. Not modelled, and why

* Accessors kept while the list under them changes, and iterators. `NodesKeepIdentity` says that the node stays; what the
  accessor then does with its outdated path depends on the call.
* rkyv's archive layout and its validation, the text of dates, times, identifiers and big floats (any text of its own for each value),
  and the conversions of `bignum.rs` and `datetime.rs`: their libraries'. The text of an F32 or F64 is that of its value, for values with at most the
  places that `NanosPerSecond` has.
* Panics: `Value::remove_at` past the end of a list (`value.rs:181` documents it) is left out of the calls of ValueDocument.
* The syntax of the derive macros' attributes, the accessors they generate (calls of what is modelled) and the index definitions.
* The rooted views' calls other than the join of their path: each passes the joined path on.
* redb's own files and recovery: external. A reopen finds the last committed version.
* Lock poisoning: it needs a panic while a lock is held, and turns every later
  call into an error.

## 7. Plan

1. Kept accessors: an accessor's path and key under removal and reordering by another one.
2. Patterns with positions: for which calls their entries stay right nevertheless, as a second history variable beside `tracked`.
3. Composition of IndexedTree with IndexSchema: DDL in parallel to a transaction that reindexes a tree.
4. Proofs: `NodesKeepIdentity`.
