--------------------------- MODULE VersionedReads ---------------------------
(***************************************************************************)
(* Read and write transactions of one table over the shared state of a     *)
(* database handle (DbInner): the generation counter, the version lock     *)
(* that pairs it with the engine's commits, and the table's two caches,    *)
(* path -> key and (generation, key) -> decoded blob, which every read     *)
(* transaction of the process fills and consults.                          *)
(*                                                                         *)
(* The engine (redb) is what the code relies on: one write transaction at  *)
(* a time, a read transaction that keeps the version committed when it     *)
(* began, an atomic commit.  What a writer puts in the table is abstract:  *)
(* any member of Stores.                                                   *)
(*                                                                         *)
(* Every lock acquisition, engine call and cache access is a step of its   *)
(* own.  A mutex held for a single map access is that one step.            *)
(***************************************************************************)
EXTENDS StoredTree

CONSTANTS
  Readers, Writers,   \* read and write transactions (slots, used again)
  Stores,             \* the versions a writer may leave in the table
  Closed, NoAnswer,   \* see SnapshotStore
  NoTxn,              \* no transaction holds the lock
  NoEntry,            \* nothing cached for a path
  MaxGeneration       \* bound: no write transaction begins at this generation

ASSUME StoresAssumption ==
  /\ Stores \subseteq Store
  /\ \A s \in Stores : PackedIsTerminal(s)
  /\ Closed \notin Stores

ASSUME SlotsAssumption == NoTxn \notin Readers \cup Writers

ASSUME EntryAssumption == /\ NoEntry \notin [gen : Nat, key : Keys]
                          /\ MaxGeneration \in Nat

ASSUME AnswerAssumption ==
  NoAnswer \notin [path : Paths, got : {View(s, p) : s \in Stores, p \in Paths}]

VARIABLES
  engine,        \* the committed version
  holder,        \* the write transaction the engine lets in, or NoTxn
  work,          \* that transaction's private version, else the committed one
  generation,    \* DbInner::generation
  guardReaders,  \* who holds version_lock shared
  guardWriter,   \* who holds version_lock exclusively, or NoTxn
  wpc,           \* where each write transaction is
  rpc,           \* where each read transaction is
  snap,          \* the engine snapshot of a read transaction
  gen,           \* the generation a read transaction took down
  todo,          \* a read in progress: its path, the key found, the rest of
                 \* the path below that key and what comes after a cache fill
  answer,        \* the last finished read of a read transaction
  paths,         \* PathCache::entries
  blobs          \* PathCache::blobs

writerVars == <<engine, holder, work, wpc>>
lockVars   == <<generation, guardReaders, guardWriter>>
readerVars == <<rpc, snap, gen, todo, answer>>
cacheVars  == <<paths, blobs>>
vars == <<writerVars, lockVars, readerVars, cacheVars>>

WriterPc == {"idle", "active", "guarded", "committed", "bumped"}
ReaderPc == {"idle", "guarded", "begun", "versioned", "open",
             "resolved", "entity", "decoded", "accessor", "leaf"}

Rels    == {<<>>} \cup TopPaths
Todo    == [path : Paths \cup {<<>>}, key : Keys \cup {NoKey}, rel : Rels,
            next : {"entity", "accessor", "leaf"}]
Results == {View(s, p) : s \in Stores, p \in Paths}
Answer  == [path : Paths, got : Results]
Entry   == [gen : Nat, key : Keys]
Blob    == [gen : Nat, key : Keys, val : Values]

NothingToDo == [path |-> <<>>, key |-> NoKey, rel |-> <<>>, next |-> "entity"]

Init ==
  /\ engine \in Stores
  /\ work = engine
  /\ generation = 0
  /\ guardReaders = {}
  /\ guardWriter = NoTxn
  /\ holder = NoTxn
  /\ wpc = [w \in Writers |-> "idle"]
  /\ rpc = [r \in Readers |-> "idle"]
  /\ snap = [r \in Readers |-> Closed]
  /\ gen = [r \in Readers |-> 0]
  /\ todo = [r \in Readers |-> NothingToDo]
  /\ answer = [r \in Readers |-> NoAnswer]
  /\ paths = [p \in Paths |-> NoEntry]
  /\ blobs = {}

------------------------------------------------------------------------------
(* Write transactions                                                      *)

(* Table::write: begin_write waits until no other write transaction lives. *)
BeginWrite(w) ==
  /\ wpc[w] = "idle"
  /\ holder = NoTxn
  /\ generation < MaxGeneration
  /\ holder' = w
  /\ work' = engine
  /\ wpc' = [wpc EXCEPT ![w] = "active"]
  /\ UNCHANGED <<engine, lockVars, readerVars, cacheVars>>

(* Any mutation of the table inside the transaction.                       *)
Edit(w) ==
  /\ wpc[w] = "active"
  /\ work' \in Stores
  /\ UNCHANGED <<engine, holder, wpc, lockVars, readerVars, cacheVars>>

(* WriteTxn::abort, or dropping the transaction.                           *)
Abort(w) ==
  /\ wpc[w] = "active"
  /\ holder' = NoTxn
  /\ work' = engine
  /\ wpc' = [wpc EXCEPT ![w] = "idle"]
  /\ UNCHANGED <<engine, lockVars, readerVars, cacheVars>>

(* WriteTxn::commit takes the version lock for itself alone ...            *)
LockForCommit(w) ==
  /\ wpc[w] = "active"
  /\ guardReaders = {}
  /\ guardWriter = NoTxn
  /\ guardWriter' = w
  /\ wpc' = [wpc EXCEPT ![w] = "guarded"]
  /\ UNCHANGED <<engine, holder, work, generation, guardReaders, readerVars,
                 cacheVars>>

(* ... commits to the engine, which lets the next write transaction in ... *)
CommitToEngine(w) ==
  /\ wpc[w] = "guarded"
  /\ engine' = work
  /\ holder' = NoTxn
  /\ wpc' = [wpc EXCEPT ![w] = "committed"]
  /\ UNCHANGED <<work, lockVars, readerVars, cacheVars>>

\* mutant: a failed commit leaves the guard behind
CommitFails_KeepsGuard(w) ==
  /\ wpc[w] = "guarded"
  /\ holder' = NoTxn
  /\ work' = engine
  /\ wpc' = [wpc EXCEPT ![w] = "idle"]
  /\ UNCHANGED <<engine, lockVars, readerVars, cacheVars>>

(* ... or fails there, and the early return drops the guard ...            *)
CommitFails(w) ==
  /\ wpc[w] = "guarded"
  /\ holder' = NoTxn
  /\ guardWriter' = NoTxn
  /\ work' = engine
  /\ wpc' = [wpc EXCEPT ![w] = "idle"]
  /\ UNCHANGED <<engine, generation, guardReaders, readerVars, cacheVars>>

(* ... bumps the generation ...                                            *)
BumpGeneration(w) ==
  /\ wpc[w] = "committed"
  /\ generation' = generation + 1
  /\ wpc' = [wpc EXCEPT ![w] = "bumped"]
  /\ UNCHANGED <<engine, holder, work, guardReaders, guardWriter, readerVars,
                 cacheVars>>

(* ... and drops the guard.                                                *)
UnlockAfterCommit(w) ==
  /\ wpc[w] = "bumped"
  /\ guardWriter' = NoTxn
  /\ wpc' = [wpc EXCEPT ![w] = "idle"]
  /\ UNCHANGED <<engine, holder, work, generation, guardReaders, readerVars,
                 cacheVars>>

------------------------------------------------------------------------------
(* Beginning and ending a read transaction (Table::read)                   *)

\* mutant: Table::read does not wait for a commit in progress
LockForRead_NoLock(r) ==
  /\ rpc[r] = "idle"
  /\ guardReaders' = guardReaders \cup {r}
  /\ rpc' = [rpc EXCEPT ![r] = "guarded"]
  /\ UNCHANGED <<writerVars, generation, guardWriter, snap, gen, todo, answer,
                 cacheVars>>

LockForRead(r) ==
  /\ rpc[r] = "idle"
  /\ guardWriter = NoTxn
  /\ guardReaders' = guardReaders \cup {r}
  /\ rpc' = [rpc EXCEPT ![r] = "guarded"]
  /\ UNCHANGED <<writerVars, generation, guardWriter, snap, gen, todo, answer,
                 cacheVars>>

BeginRead(r) ==
  /\ rpc[r] = "guarded"
  /\ snap' = [snap EXCEPT ![r] = engine]
  /\ rpc' = [rpc EXCEPT ![r] = "begun"]
  /\ UNCHANGED <<writerVars, lockVars, gen, todo, answer, cacheVars>>

(* The engine refuses: the guard is dropped and there is no transaction.   *)
BeginReadFails(r) ==
  /\ rpc[r] = "guarded"
  /\ guardReaders' = guardReaders \ {r}
  /\ rpc' = [rpc EXCEPT ![r] = "idle"]
  /\ UNCHANGED <<writerVars, generation, guardWriter, snap, gen, todo, answer,
                 cacheVars>>

ReadGeneration(r) ==
  /\ rpc[r] = "begun"
  /\ gen' = [gen EXCEPT ![r] = generation]
  /\ rpc' = [rpc EXCEPT ![r] = "versioned"]
  /\ UNCHANGED <<writerVars, lockVars, snap, todo, answer, cacheVars>>

UnlockAfterRead(r) ==
  /\ rpc[r] = "versioned"
  /\ guardReaders' = guardReaders \ {r}
  /\ rpc' = [rpc EXCEPT ![r] = "open"]
  /\ UNCHANGED <<writerVars, generation, guardWriter, snap, gen, todo, answer,
                 cacheVars>>

(* Dropping the read transaction.                                          *)
EndRead(r) ==
  /\ rpc[r] = "open"
  /\ snap' = [snap EXCEPT ![r] = Closed]
  /\ gen' = [gen EXCEPT ![r] = 0]
  /\ todo' = [todo EXCEPT ![r] = NothingToDo]
  /\ answer' = [answer EXCEPT ![r] = NoAnswer]
  /\ rpc' = [rpc EXCEPT ![r] = "idle"]
  /\ UNCHANGED <<writerVars, lockVars, cacheVars>>

------------------------------------------------------------------------------
(* The caches                                                              *)

(* PathCache::get: an entry counts only under the generation it is tagged  *)
(* with.                                                                   *)
CachedKey(r, p) ==
  IF paths[p] # NoEntry /\ paths[p].gen = gen[r] THEN paths[p].key ELSE NoKey

\* mutant: the blob cache is keyed by the entity alone
CachedBlobs_AnyGeneration(r, k) == {b \in blobs : b.key = k}

(* PathCache::get_blob.                                                    *)
CachedBlobs(r, k) == {b \in blobs : b.gen = gen[r] /\ b.key = k}

(* Finishes r's read of p with what it found and drops what was in hand.   *)
Return(r, p, got) ==
  /\ answer' = [answer EXCEPT ![r] = [path |-> p, got |-> got]]
  /\ todo' = [todo EXCEPT ![r] = NothingToDo]
  /\ rpc' = [rpc EXCEPT ![r] = "open"]

(* Goes on with r's read of p at key k; an earlier answer is forgotten.    *)
Continue(r, to, p, k, rel, next) ==
  /\ todo' = [todo EXCEPT ![r] = [path |-> p, key |-> k, rel |-> rel,
                                  next |-> next]]
  /\ answer' = [answer EXCEPT ![r] = NoAnswer]
  /\ rpc' = [rpc EXCEPT ![r] = to]

------------------------------------------------------------------------------
(* Reads                                                                   *)

\* mutant: a path that resolves to nothing is cached too
LookupPath_CachesNone(r, p, next) ==
  LET hit   == CachedKey(r, p)
      found == Resolve(snap[r], p)
  IN  \/ hit # NoKey /\ Continue(r, next, p, hit, <<>>, next)
      \/ hit = NoKey /\ Continue(r, "resolved", p, found, <<>>, next)

(* ReadTxn::lookup_path, on its way to "next": the cached key, or a walk   *)
(* of the snapshot whose outcome is cached next.                           *)
LookupPath(r, p, next) ==
  LET hit   == CachedKey(r, p)
      found == Resolve(snap[r], p)
  IN  \/ hit # NoKey /\ Continue(r, next, p, hit, <<>>, next)
      \/ hit = NoKey /\ found # NoKey
           /\ Continue(r, "resolved", p, found, <<>>, next)

(* ReadTxn::load: through the path cache to the node, or, when the path    *)
(* does not resolve to a node, from inside the packed entity it leads to.  *)
Load(r, p) ==
  LET at == Locate(snap[r], p)
      resolves == CachedKey(r, p) # NoKey \/ Resolve(snap[r], p) # NoKey
  IN  /\ rpc[r] = "open"
      /\ \/ LookupPath(r, p, "entity")
         \/ ~resolves /\ at.key = NoKey /\ Return(r, p, Absent)
         \/ ~resolves /\ at.key # NoKey
              /\ Continue(r, "entity", p, at.key, at.rel, "entity")
      /\ UNCHANGED <<writerVars, lockVars, snap, gen, cacheVars>>

(* ReadTxn::get: locates the path in the snapshot; only the blob of a      *)
(* packed entity comes from a cache.                                       *)
Get(r, p) ==
  LET at == Locate(snap[r], p)
  IN  /\ rpc[r] = "open"
      /\ \/ at.key = NoKey /\ Return(r, p, Absent)
         \/ at.key # NoKey /\ ~IsPacked(snap[r], at.key)
              /\ Return(r, p, Found(snap[r].node[at.key].val, at.rel))
         \/ at.key # NoKey /\ IsPacked(snap[r], at.key)
              /\ Continue(r, "entity", p, at.key, at.rel, "entity")
      /\ UNCHANGED <<writerVars, lockVars, snap, gen, cacheVars>>

(* ReadTxn::fetch of a plain container opens an accessor on its key.       *)
Fetch(r, p) ==
  LET at == Locate(snap[r], p)
  IN  /\ rpc[r] = "open"
      /\ p \in TopPaths
      /\ at.key # NoKey
      /\ ~IsPacked(snap[r], at.key)
      /\ LookupPath(r, p, "accessor")
      /\ UNCHANGED <<writerVars, lockVars, snap, gen, cacheVars>>

(* An accessor's step to child n (lookup_child_cached): one hop from the   *)
(* accessor's key, cached under the child's full path.                     *)
Child(r, n) ==
  LET p     == <<todo[r].path[1], n>>
      hit   == CachedKey(r, p)
      found == ChildKey(snap[r], todo[r].key, n)
  IN  /\ rpc[r] = "accessor"
      /\ \/ hit # NoKey /\ Continue(r, "leaf", p, hit, <<>>, "leaf")
         \/ hit = NoKey /\ found # NoKey
              /\ Continue(r, "resolved", p, found, <<>>, "leaf")
         \/ hit = NoKey /\ found = NoKey /\ Return(r, p, Absent)
      /\ UNCHANGED <<writerVars, lockVars, snap, gen, cacheVars>>

\* mutant: the entry is tagged with the generation of the moment
PutPath_CurrentGeneration(r) ==
  /\ rpc[r] = "resolved"
  /\ paths' = [paths EXCEPT ![todo[r].path] = [gen |-> generation,
                                               key |-> todo[r].key]]
  /\ rpc' = [rpc EXCEPT ![r] = todo[r].next]
  /\ UNCHANGED <<writerVars, lockVars, snap, gen, todo, answer, blobs>>

(* PathCache::put of the key just found, whoever filled the entry before.  *)
PutPath(r) ==
  /\ rpc[r] = "resolved"
  /\ paths' = [paths EXCEPT ![todo[r].path] = [gen |-> gen[r],
                                               key |-> todo[r].key]]
  /\ rpc' = [rpc EXCEPT ![r] = todo[r].next]
  /\ UNCHANGED <<writerVars, lockVars, snap, gen, todo, answer, blobs>>

(* ReadTxn::packed_mem, and the load of a plain node: the cached blob, or  *)
(* the snapshot's node, decoded and cached next when it is packed.         *)
OpenEntity(r) ==
  LET k    == todo[r].key
      node == snap[r].node[k]
  IN  /\ rpc[r] = "entity"
      /\ \/ \E b \in CachedBlobs(r, k) :
              Return(r, todo[r].path, Found(b.val, todo[r].rel))
         \/ CachedBlobs(r, k) = {} /\ node.kind = "plain"
              /\ Return(r, todo[r].path, Found(node.val, todo[r].rel))
         \/ CachedBlobs(r, k) = {} /\ node.kind = "packed"
              /\ rpc' = [rpc EXCEPT ![r] = "decoded"]
              /\ UNCHANGED <<todo, answer>>
      /\ UNCHANGED <<writerVars, lockVars, snap, gen, cacheVars>>

(* PathCache::put_blob of the decoded blob, then the read itself.          *)
PutBlob(r) ==
  LET k == todo[r].key
      v == snap[r].node[k].val
  IN  /\ rpc[r] = "decoded"
      /\ blobs' = (blobs \ CachedBlobs(r, k))
                    \cup {[gen |-> gen[r], key |-> k, val |-> v]}
      /\ Return(r, todo[r].path, Found(v, todo[r].rel))
      /\ UNCHANGED <<writerVars, lockVars, snap, gen, paths>>

(* The leaf an accessor stepped to, read from the snapshot by key.         *)
ReadLeaf(r) ==
  /\ rpc[r] = "leaf"
  /\ Return(r, todo[r].path, Found(snap[r].node[todo[r].key].val, <<>>))
  /\ UNCHANGED <<writerVars, lockVars, snap, gen, cacheVars>>

------------------------------------------------------------------------------
(* The caches are bounded and drop their least recently used entry: any    *)
(* entry may go at any time.                                               *)
EvictPath ==
  /\ \E p \in Paths : paths[p] # NoEntry
                        /\ paths' = [paths EXCEPT ![p] = NoEntry]
  /\ UNCHANGED <<writerVars, lockVars, readerVars, blobs>>

EvictBlob ==
  /\ \E b \in blobs : blobs' = blobs \ {b}
  /\ UNCHANGED <<writerVars, lockVars, readerVars, paths>>

(* The process dies and the file is opened again: DbInner::new starts from *)
(* generation 0 with no cache; the engine kept what was committed.         *)
CrashAndReopen ==
  /\ UNCHANGED engine
  /\ work' = engine
  /\ generation' = 0
  /\ guardReaders' = {}
  /\ guardWriter' = NoTxn
  /\ holder' = NoTxn
  /\ wpc' = [w \in Writers |-> "idle"]
  /\ rpc' = [r \in Readers |-> "idle"]
  /\ snap' = [r \in Readers |-> Closed]
  /\ gen' = [r \in Readers |-> 0]
  /\ todo' = [r \in Readers |-> NothingToDo]
  /\ answer' = [r \in Readers |-> NoAnswer]
  /\ paths' = [p \in Paths |-> NoEntry]
  /\ blobs' = {}

ReaderStep(r) ==
  \/ LockForRead(r) \/ BeginRead(r) \/ BeginReadFails(r)
  \/ ReadGeneration(r) \/ UnlockAfterRead(r) \/ EndRead(r)
  \/ \E p \in Paths : Load(r, p) \/ Get(r, p) \/ Fetch(r, p)
  \/ \E n \in Names : Child(r, n)
  \/ PutPath(r) \/ OpenEntity(r) \/ PutBlob(r) \/ ReadLeaf(r)

WriterStep(w) ==
  \/ BeginWrite(w) \/ Edit(w) \/ Abort(w)
  \/ LockForCommit(w) \/ CommitToEngine(w) \/ CommitFails(w)
  \/ BumpGeneration(w) \/ UnlockAfterCommit(w)

Next ==
  \/ \E r \in Readers : ReaderStep(r)
  \/ \E w \in Writers : WriterStep(w)
  \/ EvictPath \/ EvictBlob \/ CrashAndReopen

Spec == Init /\ [][Next]_vars

(* A thread that holds the version lock is inside Table::read or commit    *)
(* and does not wait for anything there: it goes on.                       *)
LockHolderStep(w) ==
  CommitToEngine(w) \/ CommitFails(w) \/ BumpGeneration(w) \/ UnlockAfterCommit(w)

ReadBeginStep(r) ==
  BeginRead(r) \/ BeginReadFails(r) \/ ReadGeneration(r) \/ UnlockAfterRead(r)

FairSpec ==
  /\ Spec
  /\ \A w \in Writers : WF_vars(LockHolderStep(w))
  /\ \A r \in Readers : WF_vars(ReadBeginStep(r))

------------------------------------------------------------------------------
(* Properties                                                              *)

TypeOK ==
  /\ engine \in Stores /\ work \in Stores
  /\ holder \in Writers \cup {NoTxn}
  /\ generation \in Nat
  /\ guardReaders \subseteq Readers
  /\ guardWriter \in Writers \cup {NoTxn}
  /\ wpc \in [Writers -> WriterPc]
  /\ rpc \in [Readers -> ReaderPc]
  /\ snap \in [Readers -> Stores \cup {Closed}]
  /\ gen \in [Readers -> Nat]
  /\ todo \in [Readers -> Todo]
  /\ answer \in [Readers -> Answer \cup {NoAnswer}]
  /\ paths \in [Paths -> Entry \cup {NoEntry}]
  /\ blobs \subseteq Blob

(* A read transaction that has taken its snapshot and its generation.      *)
Versioned(r) == rpc[r] \notin {"idle", "guarded", "begun"}

(* A commit has reached the engine and the generation does not show it yet. *)
InFlight == \E w \in Writers : wpc[w] = "committed"

(* "The snapshot and its generation are captured atomically": two read     *)
(* transactions with the same generation read the same version, and one    *)
(* with the current generation reads the committed version, unless a       *)
(* commit is just now between the engine and the bump.                     *)
GenerationNamesOneStore ==
  \A r \in Readers : Versioned(r) =>
    /\ gen[r] <= generation
    /\ gen[r] = generation /\ ~InFlight => snap[r] = engine
    /\ \A q \in Readers : Versioned(q) /\ gen[q] = gen[r] => snap[q] = snap[r]

(* What the two caches would serve to store s at generation g is what s    *)
(* itself holds: entries "are never served for the wrong snapshot".        *)
PathsAgree(s, g) ==
  \A p \in Paths : paths[p] # NoEntry /\ paths[p].gen = g =>
                      paths[p].key = Resolve(s, p)

BlobsAgree(s, g) ==
  \A b \in blobs : b.gen = g => s.node[b.key] = [kind |-> "packed", val |-> b.val]

(* Whatever the shared caches hold and whoever filled them, what they      *)
(* serve to a read transaction is what its own snapshot holds.             *)
CachesServeTheSnapshot ==
  \A r \in Readers : Versioned(r) =>
    PathsAgree(snap[r], gen[r]) /\ BlobsAgree(snap[r], gen[r])

(* The inductive invariant.  Who holds which lock is told by the program   *)
(* points, and a writer shares the version lock with nobody.               *)
LockInv ==
  /\ \A w \in Writers :
       /\ wpc[w] \in {"guarded", "committed", "bumped"} <=> guardWriter = w
       /\ wpc[w] \in {"active", "guarded"} <=> holder = w
  /\ \A r \in Readers :
       rpc[r] \in {"guarded", "begun", "versioned"} <=> r \in guardReaders
  /\ guardWriter # NoTxn => guardReaders = {}

(* A reader has a snapshot exactly while its transaction is open, and      *)
(* between the two calls under the guard it is the committed version.      *)
SnapInv ==
  \A r \in Readers :
    /\ rpc[r] \in {"idle", "guarded"} <=> snap[r] = Closed
    /\ rpc[r] = "begun" => snap[r] = engine

(* No cache entry is tagged ahead of the counter, and those tagged with    *)
(* its value are right for the committed version.                          *)
TagInv ==
  /\ \A p \in Paths : paths[p] # NoEntry => paths[p].gen <= generation
  /\ \A b \in blobs : b.gen <= generation
  /\ ~InFlight => PathsAgree(engine, generation) /\ BlobsAgree(engine, generation)

(* A read in progress has in hand a key of its snapshot that leads to the  *)
(* right result.                                                           *)
InHand(s, pc, t) ==
  /\ pc \in {"resolved", "entity", "decoded", "accessor", "leaf"} =>
       /\ t.path \in Paths /\ t.key \in Keys
       /\ View(s, t.path) = Found(s.node[t.key].val, t.rel)
  /\ pc = "resolved" => t.key = Resolve(s, t.path) /\ t.rel = <<>>
  /\ pc = "accessor" \/ (pc = "resolved" /\ t.next = "accessor") =>
       /\ t.path \in TopPaths
       /\ t.key = Resolve(s, t.path)
       /\ ~IsPacked(s, t.key)
  /\ pc = "leaf" => t.rel = <<>>
  /\ pc = "decoded" => IsPacked(s, t.key)

(* So it is for every read transaction, and a finished read has returned   *)
(* what its snapshot holds.                                                *)
ReadInv ==
  \A r \in Readers :
    /\ InHand(snap[r], rpc[r], todo[r])
    /\ answer[r] # NoAnswer =>
         /\ snap[r] # Closed
         /\ answer[r].got = View(snap[r], answer[r].path)

Inv ==
  /\ TypeOK /\ LockInv /\ SnapInv /\ TagInv /\ ReadInv
  /\ GenerationNamesOneStore /\ CachesServeTheSnapshot

(* Reads through the caches are reads of the snapshot taken at the start:  *)
(* the whole module implements the abstract store.                         *)
Abstract == INSTANCE SnapshotStore WITH committed <- engine, view <- snap

ImplementsSnapshotStore == Abstract!Spec

(* The version lock is never left held, whichever way Table::read and      *)
(* commit end: nobody waits for it for ever on account of its holder.      *)
GuardIsReleased ==
  /\ \A w \in Writers : guardWriter = w ~> guardWriter # w
  /\ \A r \in Readers : r \in guardReaders ~> r \notin guardReaders
=============================================================================
