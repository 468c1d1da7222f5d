----------------------- MODULE VersionedReads_proofs -----------------------
(***************************************************************************)
(* The invariants of VersionedReads, proved for any number of transactions *)
(* and any versions, and that it implements SnapshotStore.                 *)
(***************************************************************************)
EXTENDS VersionedReads, TLAPS

------------------------------------------------------------------------------
(* What a path leads to in one version                                     *)

(* A walk of the links ends at a key of the table or nowhere.              *)
LEMMA ResolveType ==
  ASSUME NEW s \in Store, NEW p \in Paths
  PROVE  Resolve(s, p) \in Keys \cup {NoKey}
  BY DEF Store, Link, Paths, TopPaths, SubPaths, Resolve, ChildKey

(* A located key comes with a rest that is one name long at most.          *)
LEMMA LocateType ==
  ASSUME NEW s \in Store, NEW p \in Paths
  PROVE  /\ Locate(s, p).key \in Keys \cup {NoKey}
         /\ Locate(s, p).rel \in Rels
  BY DEF Store, Link, Paths, TopPaths, SubPaths, Locate, ChildKey, Missing, Rels

(* A key reached by links alone is where the read itself ends up: nothing  *)
(* on the way is packed, for a packed entity has no links.                 *)
LEMMA ResolvedView ==
  ASSUME NEW s \in Store, PackedIsTerminal(s), NEW p \in Paths,
         Resolve(s, p) # NoKey
  PROVE  View(s, p) = Found(s.node[Resolve(s, p)].val, <<>>)
  <1>1. CASE p \in TopPaths
    BY <1>1 DEF TopPaths, Resolve, View, Locate, ChildKey, Missing
  <1>2. CASE p \in SubPaths
    <2> DEFINE top == ChildKey(s, ROOT, p[1])
    <2>1. /\ Len(p) = 2 /\ p[1] \in Names /\ p[2] \in Names
      BY <1>2 DEF SubPaths
    <2>2. /\ top \in Keys
          /\ Resolve(s, p) = ChildKey(s, top, p[2])
      BY <2>1 DEF Resolve, Store, Link, ChildKey
    <2>3. ~IsPacked(s, top)
      BY <2>1, <2>2 DEF PackedIsTerminal, ChildKey
    <2>4. Locate(s, p) = [key |-> Resolve(s, p), rel |-> <<>>]
      BY <2>1, <2>2, <2>3, KeysAreDistinct DEF Locate
    <2> QED  BY <2>4 DEF View
  <1> QED  BY <1>1, <1>2 DEF Paths

(* The child an accessor steps to is where the longer path resolves.       *)
LEMMA ChildResolves ==
  ASSUME NEW s \in Store, NEW p \in TopPaths, NEW n \in Names,
         Resolve(s, p) # NoKey
  PROVE  /\ <<p[1], n>> \in Paths
         /\ Resolve(s, <<p[1], n>>) = ChildKey(s, Resolve(s, p), n)
  BY DEF TopPaths, SubPaths, Paths, Resolve, Store, Link, ChildKey

(* An accessor opens on a plain container, so a child it does not have is  *)
(* not anywhere else either.                                               *)
LEMMA MissingChild ==
  ASSUME NEW s \in Store, NEW p \in TopPaths, NEW n \in Names,
         Resolve(s, p) # NoKey, ~IsPacked(s, Resolve(s, p)),
         ChildKey(s, Resolve(s, p), n) = NoKey
  PROVE  View(s, <<p[1], n>>) = Absent
  BY DEF TopPaths, Resolve, View, Locate, Missing, ChildKey

(* A version a writer may leave is a store in which packed is terminal.    *)
LEMMA StoresFacts ==
  ASSUME NEW s \in Stores
  PROVE  s \in Store /\ PackedIsTerminal(s) /\ s # Closed
  BY StoresAssumption

(* The key a path lookup finds in the cache is the one the snapshot of the *)
(* asking transaction holds ...                                            *)
LEMMA HitIsResolved ==
  ASSUME Inv, NEW r \in Readers, Versioned(r), NEW p \in Paths,
         CachedKey(r, p) # NoKey
  PROVE  CachedKey(r, p) = Resolve(snap[r], p)
  BY DEF Inv, CachedKey, CachesServeTheSnapshot, PathsAgree

(* ... and so is a blob found in the cache.                                *)
LEMMA BlobHitIsNode ==
  ASSUME Inv, NEW r \in Readers, Versioned(r), NEW k \in Keys,
         NEW b \in CachedBlobs(r, k)
  PROVE  snap[r].node[k] = [kind |-> "packed", val |-> b.val]
  BY DEF Inv, CachedBlobs, CachesServeTheSnapshot, BlobsAgree

(* A transaction that has its generation has its snapshot.                 *)
LEMMA VersionedSnap ==
  ASSUME Inv, NEW r \in Readers, rpc[r] \notin {"idle", "guarded"}
  PROVE  snap[r] \in Stores
  BY DEF Inv, TypeOK, SnapInv

------------------------------------------------------------------------------
(* What the steps of a read do                                             *)

(* A read is over and returns what the snapshot holds.                     *)
Returns(r) == \E p \in Paths : Return(r, p, View(snap[r], p))

(* A read goes on, at a key that leads to what the snapshot holds.         *)
Continues(r) ==
  \E to \in ReaderPc, p \in Paths, k \in Keys, rel \in Rels,
     next \in {"entity", "accessor", "leaf"} :
    /\ Continue(r, to, p, k, rel, next)
    /\ to \in {"resolved", "entity", "accessor", "leaf"}
    /\ InHand(snap[r], to, [path |-> p, key |-> k, rel |-> rel, next |-> next])

(* A path lookup that finds a key goes on with it.                         *)
LEMMA LookupContinues ==
  ASSUME Inv, NEW r \in Readers, rpc[r] = "open", NEW p \in Paths,
         NEW next \in {"entity", "accessor"}, LookupPath(r, p, next),
         next = "accessor" =>
            p \in TopPaths /\ ~IsPacked(snap[r], Locate(snap[r], p).key)
  PROVE  Continues(r)
  <1> DEFINE k == Resolve(snap[r], p)
             to == IF CachedKey(r, p) # NoKey THEN next ELSE "resolved"
             t  == [path |-> p, key |-> k, rel |-> <<>>, next |-> next]
  <1>1. Versioned(r) /\ snap[r] \in Stores /\ snap[r] \in Store
        /\ PackedIsTerminal(snap[r])
    BY VersionedSnap, StoresFacts DEF Versioned
  <1>2. Continue(r, to, p, k, <<>>, next) /\ k # NoKey
    BY <1>1, HitIsResolved DEF LookupPath
  <1>3. k \in Keys /\ View(snap[r], p) = Found(snap[r].node[k].val, <<>>)
    BY <1>1, <1>2, ResolveType, ResolvedView
  <1>4. next = "accessor" => Locate(snap[r], p).key = k
    BY <1>2 DEF TopPaths, Locate, Resolve
  <1>5. InHand(snap[r], to, t)
    BY <1>3, <1>4 DEF InHand
  <1>6. to \in ReaderPc /\ <<>> \in Rels /\ to \in {"resolved", "entity", "accessor", "leaf"}
    BY DEF ReaderPc, Rels
  <1> HIDE DEF k, to
  <1> QED  BY <1>2, <1>3, <1>5, <1>6 DEF Continues

(* What a step of a read does, whichever function it is in.                *)
ReadStepOf(r) ==
  \/ \E p \in Paths : Load(r, p) \/ Get(r, p) \/ Fetch(r, p)
  \/ \E n \in Names : Child(r, n)
  \/ OpenEntity(r) \/ PutBlob(r) \/ ReadLeaf(r)

(* The blob of a packed entity was not cached and has been decoded.        *)
Decodes(r) ==
  /\ rpc[r] = "entity"
  /\ IsPacked(snap[r], todo[r].key)
  /\ rpc' = [rpc EXCEPT ![r] = "decoded"]
  /\ UNCHANGED <<todo, answer>>

(* A step of a read in progress returns, goes on at a key, or decodes; it  *)
(* touches nothing but the reader's own state and the blob cache.          *)
LEMMA ReadStepEffect ==
  ASSUME Inv, NEW r \in Readers, ReadStepOf(r)
  PROVE  /\ UNCHANGED <<writerVars, lockVars, snap, gen, paths>>
         /\ Versioned(r) /\ rpc[r] \notin {"resolved", "versioned"}
         /\ Returns(r) \/ Continues(r) \/ Decodes(r)
  <1> DEFINE s == snap[r]
  <1>1. /\ UNCHANGED <<writerVars, lockVars, snap, gen, paths>>
        /\ Versioned(r) /\ rpc[r] \notin {"resolved", "versioned"}
    BY DEF ReadStepOf, Load, Get, Fetch, Child, OpenEntity, PutBlob, ReadLeaf,
           cacheVars, Versioned
  <1>2. s \in Stores /\ s \in Store /\ PackedIsTerminal(s)
    BY <1>1, VersionedSnap, StoresFacts DEF Versioned
  <1>3. ASSUME NEW p \in Paths, Locate(s, p).key = NoKey
        PROVE  View(s, p) = Absent
    BY <1>3 DEF View
  <1>4. ASSUME NEW p \in Paths, Locate(s, p).key # NoKey
        PROVE  /\ Locate(s, p).key \in Keys /\ Locate(s, p).rel \in Rels
               /\ View(s, p) = Found(s.node[Locate(s, p).key].val, Locate(s, p).rel)
    BY <1>2, <1>4, LocateType DEF View
  <1>5. ASSUME NEW p \in Paths, rpc[r] = "open", Locate(s, p).key # NoKey,
               Continue(r, "entity", p, Locate(s, p).key, Locate(s, p).rel, "entity")
        PROVE  Continues(r)
    <2>1. "entity" \in ReaderPc
      BY DEF ReaderPc
    <2>2. InHand(s, "entity", [path |-> p, key |-> Locate(s, p).key,
                               rel |-> Locate(s, p).rel, next |-> "entity"])
      BY <1>4, <1>5 DEF InHand
    <2> QED  BY <1>4, <1>5, <2>1, <2>2 DEF Continues
  <1>6. ASSUME NEW p \in Paths, Load(r, p)  PROVE Returns(r) \/ Continues(r)
    <2>1. CASE LookupPath(r, p, "entity")
      BY <1>6, <2>1, LookupContinues DEF Load
    <2>2. CASE Locate(s, p).key = NoKey /\ Return(r, p, Absent)
      BY <1>3, <2>2 DEF Returns
    <2>3. CASE /\ Locate(s, p).key # NoKey
               /\ Continue(r, "entity", p, Locate(s, p).key, Locate(s, p).rel, "entity")
      BY <1>5, <1>6, <2>3 DEF Load
    <2> QED  BY <1>6, <2>1, <2>2, <2>3 DEF Load
  <1>7. ASSUME NEW p \in Paths, Get(r, p)  PROVE Returns(r) \/ Continues(r)
    <2>1. CASE Locate(s, p).key = NoKey
      BY <1>3, <1>7, <2>1 DEF Get, Returns
    <2>2. CASE Locate(s, p).key # NoKey /\ ~IsPacked(s, Locate(s, p).key)
      BY <1>4, <1>7, <2>2 DEF Get, Returns
    <2>3. CASE Locate(s, p).key # NoKey /\ IsPacked(s, Locate(s, p).key)
      BY <1>5, <1>7, <2>3 DEF Get
    <2> QED  BY <2>1, <2>2, <2>3
  <1>8. ASSUME NEW p \in Paths, Fetch(r, p)  PROVE Returns(r) \/ Continues(r)
    BY <1>8, LookupContinues DEF Fetch
  <1>9. ASSUME NEW n \in Names, Child(r, n)  PROVE Returns(r) \/ Continues(r)
    <2> DEFINE t == todo[r]
               p == <<t.path[1], n>>
               k == Resolve(s, p)
    <2>1. /\ t.path \in TopPaths /\ t.key \in Keys
          /\ t.key = Resolve(s, t.path) /\ ~IsPacked(s, t.key)
      BY <1>9 DEF Child, Inv, ReadInv, InHand
    <2>2. p \in Paths /\ k = ChildKey(s, t.key, n) /\ t.key # NoKey
      BY <1>2, <2>1, ChildResolves, KeysAreDistinct
    <2>3. CASE CachedKey(r, p) # NoKey \/ k # NoKey
      <3> DEFINE to == IF CachedKey(r, p) # NoKey THEN "leaf" ELSE "resolved"
      <3>1. k # NoKey /\ Continue(r, to, p, k, <<>>, "leaf")
        BY <1>1, <1>9, <2>2, <2>3, HitIsResolved DEF Child
      <3>2. k \in Keys /\ View(s, p) = Found(s.node[k].val, <<>>)
        BY <1>2, <2>2, <3>1, ResolveType, ResolvedView
      <3>3. InHand(s, to, [path |-> p, key |-> k, rel |-> <<>>, next |-> "leaf"])
        BY <2>2, <3>2 DEF InHand
      <3>4. to \in ReaderPc /\ to \in {"resolved", "entity", "accessor", "leaf"}
            /\ <<>> \in Rels
        BY DEF ReaderPc, Rels
      <3> HIDE DEF to, k, p
      <3> QED  BY <2>2, <3>1, <3>2, <3>3, <3>4 DEF Continues
    <2>4. CASE CachedKey(r, p) = NoKey /\ k = NoKey
      <3>1. View(s, p) = Absent
        BY <1>2, <2>1, <2>2, <2>4, MissingChild
      <3>2. Return(r, p, Absent)
        BY <1>9, <2>2, <2>4 DEF Child
      <3> QED  BY <2>2, <3>1, <3>2 DEF Returns
    <2> QED  BY <2>3, <2>4
  <1>10. ASSUME OpenEntity(r)  PROVE Returns(r) \/ Decodes(r)
    <2> DEFINE t == todo[r]
    <2>1. /\ t.path \in Paths /\ t.key \in Keys
          /\ View(s, t.path) = Found(s.node[t.key].val, t.rel)
      BY <1>10 DEF OpenEntity, Inv, ReadInv, InHand
    <2>2. ASSUME NEW b \in CachedBlobs(r, t.key),
                 Return(r, t.path, Found(b.val, t.rel))
          PROVE  Returns(r)
      <3>1. s.node[t.key] = [kind |-> "packed", val |-> b.val]
        BY <1>1, <2>1, <2>2, BlobHitIsNode
      <3>2. View(s, t.path) = Found(b.val, t.rel)
        BY <2>1, <3>1
      <3> QED  BY <2>1, <2>2, <3>2 DEF Returns
    <2>3. ASSUME Return(r, t.path, Found(s.node[t.key].val, t.rel))
          PROVE  Returns(r)
      BY <2>1, <2>3 DEF Returns
    <2>4. CASE \E b \in CachedBlobs(r, t.key) : Return(r, t.path, Found(b.val, t.rel))
      BY <2>2, <2>4
    <2>5. CASE /\ IsPacked(s, t.key)
               /\ rpc' = [rpc EXCEPT ![r] = "decoded"]
               /\ UNCHANGED <<todo, answer>>
      BY <1>10, <2>5 DEF OpenEntity, Decodes
    <2> QED  BY <1>10, <2>3, <2>4, <2>5 DEF OpenEntity, IsPacked
  <1>11. ASSUME PutBlob(r) \/ ReadLeaf(r)  PROVE Returns(r)
    BY <1>11 DEF PutBlob, ReadLeaf, Inv, ReadInv, InHand, Returns
  <1> QED
    BY <1>1, <1>6, <1>7, <1>8, <1>9, <1>10, <1>11 DEF ReadStepOf

(* Such a step leaves a reader inside its transaction, with something      *)
(* right in hand or something right returned.                              *)
LEMMA ReadStepKeeps ==
  ASSUME Inv, NEW r \in Readers, ReadStepOf(r)
  PROVE  /\ rpc' \in [Readers -> ReaderPc]
         /\ todo' \in [Readers -> Todo]
         /\ answer' \in [Readers -> Answer \cup {NoAnswer}]
         /\ rpc'[r] \notin {"idle", "guarded", "begun", "versioned"}
         /\ \A q \in Readers \ {r} : rpc'[q] = rpc[q]
         /\ ReadInv'
  <1>1. /\ UNCHANGED snap
        /\ Versioned(r)
        /\ snap[r] \in Stores /\ snap[r] # Closed
    BY ReadStepEffect, VersionedSnap, StoresFacts DEF Versioned
  <1>2. ReadInv /\ TypeOK
    BY DEF Inv
  <1>3. CASE Returns(r)
    <2>1. PICK p \in Paths : Return(r, p, View(snap[r], p))
      BY <1>3 DEF Returns
    <2> DEFINE a == [path |-> p, got |-> View(snap[r], p)]
    <2>2. NothingToDo \in Todo /\ "open" \in ReaderPc
      BY DEF NothingToDo, Todo, Rels, ReaderPc
    <2>3. a \in Answer
      BY <1>1 DEF Answer, Results
    <2>4. /\ rpc' = [rpc EXCEPT ![r] = "open"]
          /\ todo' = [todo EXCEPT ![r] = NothingToDo]
          /\ answer' = [answer EXCEPT ![r] = a]
      BY <2>1 DEF Return
    <2>5. ASSUME NEW q \in Readers  PROVE InHand(snap[q], rpc'[q], todo'[q])
      BY <1>2, <2>4 DEF ReadInv, InHand, TypeOK
    <2>6. ASSUME NEW q \in Readers, answer'[q] # NoAnswer
          PROVE  snap[q] # Closed /\ answer'[q].got = View(snap[q], answer'[q].path)
      BY <1>1, <1>2, <2>4, <2>6 DEF ReadInv, TypeOK
    <2>7. ReadInv'
      BY <1>1, <2>5, <2>6 DEF ReadInv
    <2> QED  BY <1>2, <2>2, <2>3, <2>4, <2>7 DEF TypeOK
  <1>4. CASE Continues(r)
    <2>1. PICK to \in ReaderPc, p \in Paths, k \in Keys, rel \in Rels,
               next \in {"entity", "accessor", "leaf"} :
            /\ Continue(r, to, p, k, rel, next)
            /\ to \in {"resolved", "entity", "accessor", "leaf"}
            /\ InHand(snap[r], to, [path |-> p, key |-> k, rel |-> rel, next |-> next])
      BY <1>4 DEF Continues
    <2> DEFINE t == [path |-> p, key |-> k, rel |-> rel, next |-> next]
    <2>2. t \in Todo
      BY DEF Todo
    <2>3. /\ rpc' = [rpc EXCEPT ![r] = to]
          /\ todo' = [todo EXCEPT ![r] = t]
          /\ answer' = [answer EXCEPT ![r] = NoAnswer]
      BY <2>1 DEF Continue
    <2>4. ASSUME NEW q \in Readers  PROVE InHand(snap[q], rpc'[q], todo'[q])
      <3> HIDE DEF t
      <3>1. CASE q = r
        BY <1>2, <2>1, <2>3, <3>1 DEF TypeOK, t
      <3>2. CASE q # r
        BY <1>2, <2>3, <3>2 DEF TypeOK, ReadInv
      <3> QED  BY <3>1, <3>2
    <2>5. ReadInv'
      BY <1>1, <1>2, <2>3, <2>4 DEF ReadInv, TypeOK
    <2> HIDE DEF t
    <2> QED  BY <1>2, <2>1, <2>2, <2>3, <2>5 DEF TypeOK
  <1>5. CASE Decodes(r)
    <2>1. "decoded" \in ReaderPc
      BY DEF ReaderPc
    <2>2. ASSUME NEW q \in Readers  PROVE InHand(snap[q], rpc'[q], todo[q])
      BY <1>2, <1>5 DEF Decodes, ReadInv, InHand, TypeOK
    <2> QED  BY <1>1, <1>2, <1>5, <2>1, <2>2 DEF Decodes, ReadInv, TypeOK
  <1> QED  BY <1>3, <1>4, <1>5, ReadStepEffect

------------------------------------------------------------------------------
(* The lock, and the types                                                 *)

(* Every step keeps the lock, the write slot and the program points in     *)
(* agreement.                                                              *)
LEMMA LockStep ==
  ASSUME Inv, [Next]_vars
  PROVE  LockInv'
  <1> USE DEF LockInv, vars, writerVars, lockVars, readerVars, cacheVars
  <1> TypeOK /\ LockInv
    BY DEF Inv
  <1>1. ASSUME NEW r \in Readers, LockForRead(r)  PROVE LockInv'
    BY <1>1 DEF LockForRead, TypeOK
  <1>2. ASSUME NEW r \in Readers, BeginRead(r)  PROVE LockInv'
    BY <1>2 DEF BeginRead, TypeOK
  <1>3. ASSUME NEW r \in Readers, ReadGeneration(r)  PROVE LockInv'
    BY <1>3 DEF ReadGeneration, TypeOK
  <1>4. ASSUME NEW r \in Readers, UnlockAfterRead(r) \/ BeginReadFails(r)  PROVE LockInv'
    BY <1>4 DEF UnlockAfterRead, BeginReadFails, TypeOK
  <1>5. ASSUME NEW r \in Readers, EndRead(r)  PROVE LockInv'
    BY <1>5 DEF EndRead, TypeOK
  <1>6. ASSUME NEW r \in Readers, PutPath(r)  PROVE LockInv'
    <2>1. todo[r].next \in {"entity", "accessor", "leaf"}
      BY DEF TypeOK, Todo
    <2> QED  BY <1>6, <2>1 DEF PutPath, TypeOK
  <1>7. ASSUME NEW r \in Readers, ReadStepOf(r)  PROVE LockInv'
    BY <1>7, ReadStepEffect, ReadStepKeeps DEF TypeOK, Versioned
  <1>8. ASSUME NEW w \in Writers, BeginWrite(w) \/ Edit(w) \/ Abort(w)  PROVE LockInv'
    BY <1>8, SlotsAssumption DEF BeginWrite, Edit, Abort, TypeOK
  <1>9. ASSUME NEW w \in Writers, LockForCommit(w)  PROVE LockInv'
    BY <1>9, SlotsAssumption DEF LockForCommit, TypeOK
  <1>10. ASSUME NEW w \in Writers, CommitToEngine(w)  PROVE LockInv'
    BY <1>10, SlotsAssumption DEF CommitToEngine, TypeOK
  <1>11. ASSUME NEW w \in Writers, CommitFails(w)  PROVE LockInv'
    BY <1>11, SlotsAssumption DEF CommitFails, TypeOK
  <1>12. ASSUME NEW w \in Writers, BumpGeneration(w)  PROVE LockInv'
    BY <1>12, SlotsAssumption DEF BumpGeneration, TypeOK
  <1>13. ASSUME NEW w \in Writers, UnlockAfterCommit(w)  PROVE LockInv'
    BY <1>13, SlotsAssumption DEF UnlockAfterCommit, TypeOK
  <1>14. ASSUME EvictPath \/ EvictBlob  PROVE LockInv'
    BY <1>14 DEF EvictPath, EvictBlob
  <1>15. ASSUME CrashAndReopen  PROVE LockInv'
    BY <1>15, SlotsAssumption DEF CrashAndReopen
  <1>16. ASSUME UNCHANGED vars  PROVE LockInv'
    BY <1>16
  <1> QED
    BY <1>1, <1>2, <1>3, <1>4, <1>5, <1>6, <1>7, <1>8, <1>9, <1>10, <1>11, <1>12, <1>13, <1>14, <1>15, <1>16
    DEF Next, ReaderStep, WriterStep, ReadStepOf

(* Every step keeps the types.                                             *)
LEMMA TypeStep ==
  ASSUME Inv, [Next]_vars
  PROVE  TypeOK'
  <1> USE DEF TypeOK, vars, writerVars, lockVars, readerVars, cacheVars
  <1> Inv /\ TypeOK
    BY DEF Inv
  <1>1. ASSUME NEW r \in Readers, LockForRead(r) \/ BeginRead(r) \/ ReadGeneration(r) \/ UnlockAfterRead(r) \/ BeginReadFails(r)  PROVE TypeOK'
    BY <1>1 DEF LockForRead, BeginRead, ReadGeneration, UnlockAfterRead, BeginReadFails, ReaderPc
  <1>2. ASSUME NEW r \in Readers, EndRead(r)  PROVE TypeOK'
    BY <1>2 DEF EndRead, ReaderPc, NothingToDo, Todo, Rels
  <1>3. ASSUME NEW r \in Readers, PutPath(r)  PROVE TypeOK'
    <2> DEFINE t == todo[r]
    <2>1. t.path \in Paths /\ t.key \in Keys
      BY <1>3 DEF PutPath, Inv, ReadInv, InHand
    <2>2. [gen |-> gen[r], key |-> t.key] \in Entry
      BY <2>1 DEF Entry
    <2>3. paths' \in [Paths -> Entry \cup {NoEntry}]
      BY <1>3, <2>1, <2>2 DEF PutPath
    <2>4. t.next \in ReaderPc
      BY DEF Todo, ReaderPc
    <2> HIDE DEF t
    <2>5. rpc' \in [Readers -> ReaderPc]
      BY <1>3, <2>4 DEF PutPath, t
    <2> QED  BY <1>3, <2>3, <2>5 DEF PutPath
  <1>4. ASSUME NEW r \in Readers, ReadStepOf(r)  PROVE TypeOK'
    <2>1. CASE PutBlob(r)
      <3>1. /\ todo[r].key \in Keys /\ snap[r] \in Store /\ gen[r] \in Nat
        BY <2>1, VersionedSnap, StoresFacts DEF PutBlob, Inv, ReadInv, InHand
      <3>2. [gen |-> gen[r], key |-> todo[r].key, val |-> snap[r].node[todo[r].key].val]
              \in Blob
        BY <3>1 DEF Blob, Store, Node
      <3>3. blobs' \subseteq Blob
        BY <2>1, <3>2 DEF PutBlob
      <3> QED  BY <1>4, <3>3, ReadStepEffect, ReadStepKeeps
    <2>2. CASE ~PutBlob(r)
      <3>1. UNCHANGED blobs
        BY <1>4, <2>2 DEF ReadStepOf, Load, Get, Fetch, Child, OpenEntity, ReadLeaf
      <3> QED  BY <1>4, <3>1, ReadStepEffect, ReadStepKeeps
    <2> QED  BY <2>1, <2>2
  <1>5. ASSUME NEW w \in Writers, BeginWrite(w) \/ Edit(w) \/ Abort(w) \/ LockForCommit(w) \/ CommitToEngine(w) \/ CommitFails(w) \/ BumpGeneration(w) \/ UnlockAfterCommit(w)  PROVE TypeOK'
    BY <1>5 DEF BeginWrite, Edit, Abort, LockForCommit, CommitToEngine, CommitFails,
              BumpGeneration, UnlockAfterCommit, WriterPc
  <1>6. ASSUME EvictPath \/ EvictBlob  PROVE TypeOK'
    BY <1>6 DEF EvictPath, EvictBlob
  <1>7. ASSUME CrashAndReopen  PROVE TypeOK'
    BY <1>7 DEF CrashAndReopen, WriterPc, ReaderPc, NothingToDo, Todo, Rels
  <1>8. ASSUME UNCHANGED vars  PROVE TypeOK'
    BY <1>8
  <1> QED
    BY <1>1, <1>2, <1>3, <1>4, <1>5, <1>6, <1>7, <1>8
    DEF Next, ReaderStep, WriterStep, ReadStepOf

(* A reader takes the committed version, which no commit replaces before   *)
(* the reader is done with the guard.                                      *)
LEMMA SnapStep ==
  ASSUME Inv, [Next]_vars
  PROVE  SnapInv'
  <1> USE DEF SnapInv, vars, writerVars, lockVars, readerVars, cacheVars
  <1> TypeOK /\ LockInv /\ SnapInv
    BY DEF Inv
  <1>1. ASSUME NEW r \in Readers, LockForRead(r)  PROVE SnapInv'
    BY <1>1 DEF LockForRead, TypeOK
  <1>2. ASSUME NEW r \in Readers, BeginRead(r)  PROVE SnapInv'
    BY <1>2, StoresFacts DEF BeginRead, TypeOK
  <1>3. ASSUME NEW r \in Readers, ReadGeneration(r)  PROVE SnapInv'
    BY <1>3 DEF ReadGeneration, TypeOK
  <1>4. ASSUME NEW r \in Readers, UnlockAfterRead(r) \/ BeginReadFails(r)  PROVE SnapInv'
    BY <1>4 DEF UnlockAfterRead, BeginReadFails, TypeOK
  <1>5. ASSUME NEW r \in Readers, EndRead(r)  PROVE SnapInv'
    BY <1>5 DEF EndRead, TypeOK
  <1>6. ASSUME NEW r \in Readers, PutPath(r)  PROVE SnapInv'
    <2>1. todo[r].next \in {"entity", "accessor", "leaf"}
      BY DEF TypeOK, Todo
    <2> QED  BY <1>6, <2>1 DEF PutPath, TypeOK
  <1>7. ASSUME NEW r \in Readers, ReadStepOf(r)  PROVE SnapInv'
    BY <1>7, ReadStepEffect, ReadStepKeeps DEF TypeOK, Versioned
  <1>8. ASSUME NEW w \in Writers, CommitToEngine(w)  PROVE SnapInv'
    BY <1>8, SlotsAssumption DEF CommitToEngine, LockInv
  <1>9. ASSUME NEW w \in Writers, 
               \/ BeginWrite(w) \/ Edit(w) \/ Abort(w) \/ LockForCommit(w)
               \/ CommitFails(w) \/ BumpGeneration(w) \/ UnlockAfterCommit(w)
         PROVE SnapInv'
    BY <1>9 DEF BeginWrite, Edit, Abort, LockForCommit, CommitFails, BumpGeneration,
              UnlockAfterCommit
  <1>10. ASSUME EvictPath \/ EvictBlob  PROVE SnapInv'
    BY <1>10 DEF EvictPath, EvictBlob
  <1>11. ASSUME CrashAndReopen  PROVE SnapInv'
    BY <1>11 DEF CrashAndReopen
  <1>12. ASSUME UNCHANGED vars  PROVE SnapInv'
    BY <1>12
  <1> QED
    BY <1>1, <1>2, <1>3, <1>4, <1>5, <1>6, <1>7, <1>8, <1>9, <1>10, <1>11,
       <1>12
    DEF Next, ReaderStep, WriterStep, ReadStepOf

(* What a reader has in hand and what it returned stay right.              *)
LEMMA ReadStep ==
  ASSUME Inv, [Next]_vars
  PROVE  ReadInv'
  <1> USE DEF ReadInv, vars, writerVars, lockVars, readerVars, cacheVars
  <1> TypeOK /\ SnapInv /\ ReadInv
    BY DEF Inv
  <1>1. ASSUME NEW r \in Readers, LockForRead(r)  PROVE ReadInv'
    BY <1>1 DEF LockForRead, InHand, TypeOK
  <1>2. ASSUME NEW r \in Readers, BeginRead(r)  PROVE ReadInv'
    <2>1. answer[r] = NoAnswer
      BY <1>2 DEF BeginRead, SnapInv
    <2> QED  BY <1>2, <2>1 DEF BeginRead, InHand, TypeOK
  <1>3. ASSUME NEW r \in Readers, ReadGeneration(r)  PROVE ReadInv'
    BY <1>3 DEF ReadGeneration, InHand, TypeOK
  <1>4. ASSUME NEW r \in Readers, UnlockAfterRead(r) \/ BeginReadFails(r)  PROVE ReadInv'
    BY <1>4 DEF UnlockAfterRead, BeginReadFails, InHand, TypeOK
  <1>5. ASSUME NEW r \in Readers, EndRead(r)  PROVE ReadInv'
    BY <1>5 DEF EndRead, InHand, TypeOK
  <1>6. ASSUME NEW r \in Readers, PutPath(r)  PROVE ReadInv'
    <2>1. todo[r].next \in {"entity", "accessor", "leaf"}
      BY DEF TypeOK, Todo
    <2> QED  BY <1>6, <2>1 DEF PutPath, InHand, TypeOK
  <1>7. ASSUME NEW r \in Readers, ReadStepOf(r)  PROVE ReadInv'
    BY <1>7, ReadStepKeeps
  <1>8. ASSUME NEW w \in Writers, 
               \/ BeginWrite(w) \/ Edit(w) \/ Abort(w) \/ LockForCommit(w)
               \/ CommitToEngine(w) \/ CommitFails(w) \/ BumpGeneration(w) \/ UnlockAfterCommit(w)
         PROVE ReadInv'
    BY <1>8 DEF BeginWrite, Edit, Abort, LockForCommit, CommitToEngine, CommitFails,
              BumpGeneration, UnlockAfterCommit
  <1>9. ASSUME EvictPath \/ EvictBlob  PROVE ReadInv'
    BY <1>9 DEF EvictPath, EvictBlob
  <1>10. ASSUME CrashAndReopen  PROVE ReadInv'
    BY <1>10 DEF CrashAndReopen, InHand
  <1>11. ASSUME UNCHANGED vars  PROVE ReadInv'
    BY <1>11
  <1> QED
    BY <1>1, <1>2, <1>3, <1>4, <1>5, <1>6, <1>7, <1>8, <1>9, <1>10, <1>11
    DEF Next, ReaderStep, WriterStep, ReadStepOf

(* A generation goes on naming one version.                                *)
LEMMA GenerationStep ==
  ASSUME Inv, [Next]_vars
  PROVE  GenerationNamesOneStore'
  <1> USE DEF GenerationNamesOneStore, vars, writerVars, lockVars, readerVars, cacheVars
  <1> TypeOK /\ LockInv /\ SnapInv /\ GenerationNamesOneStore
    BY DEF Inv
  <1>1. ASSUME NEW r \in Readers, LockForRead(r)  PROVE GenerationNamesOneStore'
    <2>1. /\ UNCHANGED <<gen, snap, engine, generation, wpc>>
          /\ \A q \in Readers : Versioned(q)' <=> Versioned(q)
      BY <1>1 DEF LockForRead, Versioned, TypeOK
    <2> QED  BY <1>1, <2>1 DEF InFlight
  <1>2. ASSUME NEW r \in Readers, UnlockAfterRead(r) \/ BeginReadFails(r)  PROVE GenerationNamesOneStore'
    <2>1. /\ UNCHANGED <<gen, snap, engine, generation, wpc>>
          /\ \A q \in Readers : Versioned(q)' <=> Versioned(q)
      BY <1>2 DEF UnlockAfterRead, BeginReadFails, Versioned, TypeOK
    <2> QED  BY <1>2, <2>1 DEF InFlight
  <1>3. ASSUME NEW r \in Readers, BeginRead(r)  PROVE GenerationNamesOneStore'
    <2>1. /\ \A q \in Readers : Versioned(q)' => Versioned(q) /\ q # r
          /\ \A q \in Readers \ {r} : snap'[q] = snap[q]
      BY <1>3 DEF BeginRead, Versioned, TypeOK
    <2> QED  BY <1>3, <2>1 DEF BeginRead, InFlight
  <1>4. ASSUME NEW r \in Readers, ReadGeneration(r)  PROVE GenerationNamesOneStore'
    <2>1. ~InFlight /\ snap[r] = engine
      BY <1>4, SlotsAssumption DEF ReadGeneration, InFlight, LockInv, SnapInv
    <2>2. /\ gen' = [gen EXCEPT ![r] = generation]
          /\ \A q \in Readers \ {r} : Versioned(q)' <=> Versioned(q)
      BY <1>4 DEF ReadGeneration, Versioned, TypeOK
    <2> QED  BY <1>4, <2>1, <2>2 DEF ReadGeneration, InFlight, TypeOK
  <1>5. ASSUME NEW r \in Readers, EndRead(r)  PROVE GenerationNamesOneStore'
    <2>1. \A q \in Readers : Versioned(q)' => Versioned(q) /\ q # r
      BY <1>5 DEF EndRead, Versioned, TypeOK
    <2> QED  BY <1>5, <2>1 DEF EndRead, InFlight, TypeOK
  <1>6. ASSUME NEW r \in Readers, PutPath(r)  PROVE GenerationNamesOneStore'
    <2>1. todo[r].next \in {"entity", "accessor", "leaf"}
      BY DEF TypeOK, Todo
    <2>2. /\ UNCHANGED <<gen, snap, engine, generation, wpc>>
          /\ \A q \in Readers : Versioned(q)' <=> Versioned(q)
      BY <1>6, <2>1 DEF PutPath, Versioned, TypeOK
    <2> QED  BY <1>6, <2>2 DEF InFlight
  <1>7. ASSUME NEW r \in Readers, ReadStepOf(r)  PROVE GenerationNamesOneStore'
    <2>1. /\ UNCHANGED <<gen, snap, engine, generation, wpc>>
          /\ \A q \in Readers : Versioned(q)' <=> Versioned(q)
      BY <1>7, ReadStepEffect, ReadStepKeeps DEF Versioned
    <2> QED  BY <1>7, <2>1 DEF InFlight
  <1>8. ASSUME NEW w \in Writers, 
               \/ BeginWrite(w) \/ Edit(w) \/ Abort(w) \/ LockForCommit(w)
               \/ CommitFails(w)
         PROVE GenerationNamesOneStore'
    <2>1. UNCHANGED <<gen, snap, engine, generation, rpc>> /\ (InFlight' <=> InFlight)
      BY <1>8 DEF BeginWrite, Edit, Abort, LockForCommit, CommitFails, InFlight, TypeOK
    <2> QED  BY <1>8, <2>1 DEF Versioned
  <1>9. ASSUME NEW w \in Writers, CommitToEngine(w)  PROVE GenerationNamesOneStore'
    <2>1. UNCHANGED <<gen, snap, generation, rpc>> /\ InFlight'
      BY <1>9 DEF CommitToEngine, InFlight, TypeOK
    <2> QED  BY <1>9, <2>1 DEF Versioned
  <1>10. ASSUME NEW w \in Writers, BumpGeneration(w)  PROVE GenerationNamesOneStore'
    <2>1. UNCHANGED <<gen, snap, rpc>> /\ generation' = generation + 1
      BY <1>10 DEF BumpGeneration
    <2> QED  BY <1>10, <2>1 DEF Versioned, TypeOK
  <1>11. ASSUME NEW w \in Writers, UnlockAfterCommit(w)  PROVE GenerationNamesOneStore'
    <2>1. ~InFlight
      BY <1>11 DEF UnlockAfterCommit, InFlight, LockInv
    <2> QED  BY <1>11, <2>1 DEF UnlockAfterCommit, Versioned
  <1>12. ASSUME EvictPath \/ EvictBlob  PROVE GenerationNamesOneStore'
    BY <1>12 DEF EvictPath, EvictBlob, Versioned, InFlight
  <1>13. ASSUME CrashAndReopen  PROVE GenerationNamesOneStore'
    BY <1>13 DEF CrashAndReopen, Versioned
  <1>14. ASSUME UNCHANGED vars  PROVE GenerationNamesOneStore'
    BY <1>14 DEF Versioned, InFlight, PathsAgree, BlobsAgree
  <1> QED
    BY <1>1, <1>2, <1>3, <1>4, <1>5, <1>6, <1>7, <1>8, <1>9, <1>10, <1>11,
       <1>12, <1>13, <1>14
    DEF Next, ReaderStep, WriterStep, ReadStepOf

(* What the caches hold under the current generation stays right for the   *)
(* committed version.                                                      *)
LEMMA TagStep ==
  ASSUME Inv, [Next]_vars
  PROVE  TagInv'
  <1> USE DEF TagInv, vars, writerVars, lockVars, readerVars, cacheVars
  <1> TypeOK /\ LockInv /\ ReadInv /\ TagInv /\ GenerationNamesOneStore
    BY DEF Inv
  <1>1. ASSUME NEW r \in Readers, 
               \/ LockForRead(r) \/ BeginRead(r) \/ ReadGeneration(r) \/ UnlockAfterRead(r) \/ BeginReadFails(r)
               \/ EndRead(r)
         PROVE TagInv'
    BY <1>1 DEF LockForRead, BeginRead, ReadGeneration, UnlockAfterRead, BeginReadFails, EndRead,
              PathsAgree, BlobsAgree, InFlight
  <1>2. ASSUME NEW r \in Readers, PutPath(r)  PROVE TagInv'
    <2>1. Versioned(r) /\ todo[r].path \in Paths /\ todo[r].key \in Keys
          /\ todo[r].key = Resolve(snap[r], todo[r].path)
      BY <1>2 DEF PutPath, Versioned, ReadInv, InHand
    <2>2. /\ UNCHANGED <<engine, generation, wpc, blobs>>
          /\ paths'[todo[r].path] = [gen |-> gen[r], key |-> todo[r].key]
          /\ \A p \in Paths \ {todo[r].path} : paths'[p] = paths[p]
      BY <1>2, <2>1 DEF PutPath, TypeOK
    <2>3. \A p \in Paths : paths'[p] # NoEntry => paths'[p].gen <= generation
      BY <2>1, <2>2 DEF GenerationNamesOneStore
    <2>4. ~InFlight => PathsAgree(engine, generation)'
      BY <2>1, <2>2 DEF GenerationNamesOneStore, PathsAgree
    <2> QED  BY <2>2, <2>3, <2>4 DEF BlobsAgree, InFlight
  <1>3. ASSUME NEW r \in Readers, ReadStepOf(r)  PROVE TagInv'
    <2>1. UNCHANGED <<engine, generation, wpc, paths>>
      BY <1>3, ReadStepEffect
    <2>2. CASE PutBlob(r)
      <3>1. \A b \in blobs' : b \in blobs \/
              /\ b.gen = gen[r] /\ b.key = todo[r].key
              /\ b.val = snap[r].node[todo[r].key].val
        BY <2>2, SMTT(30) DEF PutBlob
      <3>2. /\ Versioned(r) /\ snap[r] \in Store /\ todo[r].key \in Keys
            /\ snap[r].node[todo[r].key].kind = "packed"
        BY <2>2, VersionedSnap, StoresFacts
        DEF PutBlob, Versioned, InHand, ReadInv, IsPacked
      <3>3. snap[r].node[todo[r].key]
              = [kind |-> "packed", val |-> snap[r].node[todo[r].key].val]
        BY <3>2 DEF Store, Node
      <3>4. \A b \in blobs' : b.gen <= generation
        BY <3>1, <3>2 DEF GenerationNamesOneStore
      <3>5. ~InFlight => BlobsAgree(engine, generation)'
        BY <2>1, <3>1, <3>2, <3>3 DEF GenerationNamesOneStore, BlobsAgree
      <3> QED  BY <2>1, <3>4, <3>5 DEF PathsAgree, InFlight
    <2>3. CASE ~PutBlob(r)
      <3>1. UNCHANGED blobs
        BY <1>3, <2>3 DEF ReadStepOf, Load, Get, Fetch, Child, OpenEntity, ReadLeaf
      <3> QED  BY <2>1, <3>1 DEF PathsAgree, BlobsAgree, InFlight
    <2> QED  BY <2>2, <2>3
  <1>4. ASSUME NEW w \in Writers, 
               \/ BeginWrite(w) \/ Edit(w) \/ Abort(w) \/ LockForCommit(w)
               \/ CommitFails(w)
         PROVE TagInv'
    <2>1. UNCHANGED <<engine, generation, paths, blobs>> /\ (InFlight' <=> InFlight)
      BY <1>4 DEF BeginWrite, Edit, Abort, LockForCommit, CommitFails, InFlight, TypeOK
    <2> QED  BY <1>4, <2>1 DEF PathsAgree, BlobsAgree
  <1>5. ASSUME NEW w \in Writers, CommitToEngine(w)  PROVE TagInv'
    <2>1. UNCHANGED <<generation, paths, blobs>> /\ InFlight'
      BY <1>5 DEF CommitToEngine, InFlight, TypeOK
    <2> QED  BY <1>5, <2>1
  <1>6. ASSUME NEW w \in Writers, BumpGeneration(w)  PROVE TagInv'
    <2>1. UNCHANGED <<engine, paths, blobs>> /\ generation' = generation + 1
      BY <1>6 DEF BumpGeneration
    <2>2. /\ \A p \in Paths : paths[p] # NoEntry => paths[p].gen \in Nat
          /\ \A b \in blobs : b.gen \in Nat
      BY DEF TypeOK, Entry, Blob
    <2>3. /\ \A p \in Paths : paths[p] # NoEntry => paths[p].gen < generation'
          /\ \A b \in blobs : b.gen < generation'
      BY <2>1, <2>2 DEF TypeOK
    <2>4. /\ \A p \in Paths : paths[p] # NoEntry => paths[p].gen <= generation'
          /\ \A b \in blobs : b.gen <= generation'
      BY <2>1, <2>2, <2>3 DEF TypeOK
    <2>5. /\ \A p \in Paths : paths[p] # NoEntry => paths[p].gen # generation'
          /\ \A b \in blobs : b.gen # generation'
      BY <2>1, <2>2, <2>3 DEF TypeOK
    <2> QED  BY <2>1, <2>4, <2>5 DEF PathsAgree, BlobsAgree
  <1>7. ASSUME NEW w \in Writers, UnlockAfterCommit(w)  PROVE TagInv'
    <2>1. ~InFlight
      BY <1>7 DEF UnlockAfterCommit, InFlight, LockInv
    <2> QED  BY <1>7, <2>1 DEF UnlockAfterCommit, PathsAgree, BlobsAgree
  <1>8. ASSUME EvictPath  PROVE TagInv'
    BY <1>8 DEF EvictPath, PathsAgree, BlobsAgree, InFlight, TypeOK
  <1>9. ASSUME EvictBlob  PROVE TagInv'
    BY <1>9 DEF EvictBlob, PathsAgree, BlobsAgree, InFlight
  <1>10. ASSUME CrashAndReopen  PROVE TagInv'
    BY <1>10 DEF CrashAndReopen, PathsAgree, BlobsAgree
  <1>11. ASSUME UNCHANGED vars  PROVE TagInv'
    BY <1>11 DEF Versioned, InFlight, PathsAgree, BlobsAgree
  <1> QED
    BY <1>1, <1>2, <1>3, <1>4, <1>5, <1>6, <1>7, <1>8, <1>9, <1>10, <1>11
    DEF Next, ReaderStep, WriterStep, ReadStepOf

(* What the caches hold stays right for every snapshot in use.             *)
LEMMA CacheStep ==
  ASSUME Inv, [Next]_vars
  PROVE  CachesServeTheSnapshot'
  <1> USE DEF CachesServeTheSnapshot, vars, writerVars, lockVars, readerVars, cacheVars
  <1> TypeOK /\ LockInv /\ SnapInv /\ ReadInv /\ TagInv
      /\ GenerationNamesOneStore /\ CachesServeTheSnapshot
    BY DEF Inv
  <1>1. ASSUME NEW r \in Readers, \/ LockForRead(r) \/ UnlockAfterRead(r) \/ BeginReadFails(r)  PROVE CachesServeTheSnapshot'
    <2>1. /\ UNCHANGED <<gen, snap, paths, blobs>>
          /\ \A q \in Readers : Versioned(q)' <=> Versioned(q)
      BY <1>1 DEF LockForRead, UnlockAfterRead, BeginReadFails, Versioned, TypeOK
    <2> QED  BY <2>1 DEF PathsAgree, BlobsAgree
  <1>2. ASSUME NEW r \in Readers, \/ BeginRead(r) \/ EndRead(r)  PROVE CachesServeTheSnapshot'
    <2>1. /\ UNCHANGED <<paths, blobs>>
          /\ \A q \in Readers : Versioned(q)' =>
               Versioned(q) /\ snap'[q] = snap[q] /\ gen'[q] = gen[q]
      BY <1>2 DEF BeginRead, EndRead, Versioned, TypeOK
    <2> QED  BY <2>1 DEF PathsAgree, BlobsAgree
  <1>3. ASSUME NEW r \in Readers, ReadGeneration(r)  PROVE CachesServeTheSnapshot'
    <2>1. ~InFlight /\ snap[r] = engine
      BY <1>3, SlotsAssumption DEF ReadGeneration, InFlight, LockInv, SnapInv
    <2>2. PathsAgree(engine, generation) /\ BlobsAgree(engine, generation)
      BY <2>1 DEF TagInv
    <2>3. /\ UNCHANGED <<snap, paths, blobs>>
          /\ gen' = [gen EXCEPT ![r] = generation]
          /\ \A q \in Readers \ {r} : Versioned(q)' <=> Versioned(q)
      BY <1>3 DEF ReadGeneration, Versioned, TypeOK
    <2> QED  BY <2>1, <2>2, <2>3 DEF PathsAgree, BlobsAgree, TypeOK
  <1>4. ASSUME NEW r \in Readers, PutPath(r)  PROVE CachesServeTheSnapshot'
    <2>1. Versioned(r) /\ todo[r].path \in Paths /\ todo[r].key \in Keys
          /\ todo[r].key = Resolve(snap[r], todo[r].path)
      BY <1>4 DEF PutPath, Versioned, ReadInv, InHand
    <2>2. /\ UNCHANGED <<gen, snap, blobs>>
          /\ paths'[todo[r].path] = [gen |-> gen[r], key |-> todo[r].key]
          /\ \A p \in Paths \ {todo[r].path} : paths'[p] = paths[p]
      BY <1>4, <2>1 DEF PutPath, TypeOK
    <2>3. \A q \in Readers : Versioned(q)' <=> Versioned(q)
      <3>1. todo[r].next \in {"entity", "accessor", "leaf"}
        BY DEF TypeOK, Todo
      <3> QED  BY <1>4, <3>1 DEF PutPath, Versioned, TypeOK
    <2>4. ASSUME NEW q \in Readers, Versioned(q)
          PROVE  PathsAgree(snap[q], gen[q])'
      BY <2>1, <2>2, <2>4 DEF GenerationNamesOneStore, PathsAgree
    <2> QED  BY <2>2, <2>3, <2>4 DEF BlobsAgree
  <1>5. ASSUME NEW r \in Readers, ReadStepOf(r)  PROVE CachesServeTheSnapshot'
    <2>1. /\ UNCHANGED <<gen, snap, paths>>
          /\ \A q \in Readers : Versioned(q)' <=> Versioned(q)
      BY <1>5, ReadStepEffect, ReadStepKeeps DEF Versioned
    <2>2. CASE PutBlob(r)
      <3>1. \A b \in blobs' : b \in blobs \/
              /\ b.gen = gen[r] /\ b.key = todo[r].key
              /\ b.val = snap[r].node[todo[r].key].val
        BY <2>2, SMTT(30) DEF PutBlob
      <3>2. /\ Versioned(r) /\ snap[r] \in Store /\ todo[r].key \in Keys
            /\ snap[r].node[todo[r].key].kind = "packed"
        BY <2>2, VersionedSnap, StoresFacts
        DEF PutBlob, Versioned, InHand, ReadInv, IsPacked
      <3>3. snap[r].node[todo[r].key]
              = [kind |-> "packed", val |-> snap[r].node[todo[r].key].val]
        BY <3>2 DEF Store, Node
      <3>4. ASSUME NEW q \in Readers, Versioned(q)
            PROVE  BlobsAgree(snap[q], gen[q])'
        BY <2>1, <3>1, <3>2, <3>3, <3>4 DEF GenerationNamesOneStore, BlobsAgree
      <3> QED  BY <2>1, <3>4 DEF PathsAgree
    <2>3. CASE ~PutBlob(r)
      <3>1. UNCHANGED blobs
        BY <1>5, <2>3 DEF ReadStepOf, Load, Get, Fetch, Child, OpenEntity, ReadLeaf
      <3> QED  BY <2>1, <3>1 DEF PathsAgree, BlobsAgree
    <2> QED  BY <2>2, <2>3
  <1>6. ASSUME NEW w \in Writers, 
               \/ BeginWrite(w) \/ Edit(w) \/ Abort(w) \/ LockForCommit(w)
               \/ CommitToEngine(w) \/ CommitFails(w) \/ BumpGeneration(w) \/ UnlockAfterCommit(w)
         PROVE CachesServeTheSnapshot'
    <2>1. UNCHANGED <<gen, snap, rpc, paths, blobs>>
      BY <1>6 DEF BeginWrite, Edit, Abort, LockForCommit, CommitToEngine, CommitFails,
                 BumpGeneration, UnlockAfterCommit
    <2> QED  BY <2>1 DEF Versioned, PathsAgree, BlobsAgree
  <1>7. ASSUME EvictPath  PROVE CachesServeTheSnapshot'
    BY <1>7 DEF EvictPath, PathsAgree, BlobsAgree, Versioned, TypeOK
  <1>8. ASSUME EvictBlob  PROVE CachesServeTheSnapshot'
    BY <1>8 DEF EvictBlob, PathsAgree, BlobsAgree, Versioned
  <1>9. ASSUME CrashAndReopen  PROVE CachesServeTheSnapshot'
    BY <1>9 DEF CrashAndReopen, Versioned
  <1>10. ASSUME UNCHANGED vars  PROVE CachesServeTheSnapshot'
    BY <1>10 DEF Versioned, InFlight, PathsAgree, BlobsAgree
  <1> QED
    BY <1>1, <1>2, <1>3, <1>4, <1>5, <1>6, <1>7, <1>8, <1>9, <1>10
    DEF Next, ReaderStep, WriterStep, ReadStepOf

------------------------------------------------------------------------------
(* The invariants                                                          *)

(* A handle just opened satisfies the inductive invariant.                 *)
LEMMA InitInv ==
  ASSUME Init
  PROVE  Inv
  <1> USE DEF Init
  <1>1. TypeOK
    BY DEF TypeOK, WriterPc, ReaderPc, NothingToDo, Todo, Rels
  <1>2. LockInv
    BY SlotsAssumption DEF LockInv
  <1>3. SnapInv
    BY DEF SnapInv
  <1>4. TagInv
    BY DEF TagInv, PathsAgree, BlobsAgree
  <1>5. ReadInv
    BY DEF ReadInv, InHand
  <1>6. GenerationNamesOneStore /\ CachesServeTheSnapshot
    BY DEF GenerationNamesOneStore, CachesServeTheSnapshot, Versioned
  <1> QED  BY <1>1, <1>2, <1>3, <1>4, <1>5, <1>6 DEF Inv

(* The inductive invariant holds of every behaviour, with any number of    *)
(* read and write transactions, any versions and any bound on generations. *)
THEOREM Invariance == Spec => []Inv
  <1>1. Inv /\ [Next]_vars => Inv'
    BY LockStep, TypeStep, SnapStep, ReadStep, GenerationStep, TagStep, CacheStep
    DEF Inv
  <1> QED  BY InitInv, <1>1, PTL DEF Spec

(* Every variable keeps its type.                                          *)
THEOREM TypeCorrectness == Spec => []TypeOK
  <1>1. Inv => TypeOK
    BY DEF Inv
  <1> QED  BY Invariance, <1>1, PTL

(* Table::read pairs a snapshot with the generation that names it, however *)
(* many commits are going on.                                              *)
THEOREM GenerationNamesOneStoreAlways == Spec => []GenerationNamesOneStore
  <1>1. Inv => GenerationNamesOneStore
    BY DEF Inv
  <1> QED  BY Invariance, <1>1, PTL

(* No read transaction is ever served, from the path cache or from the     *)
(* blob cache, what belongs to another version than its own.               *)
THEOREM CachesServeTheSnapshotAlways == Spec => []CachesServeTheSnapshot
  <1>1. Inv => CachesServeTheSnapshot
    BY DEF Inv
  <1> QED  BY Invariance, <1>1, PTL

------------------------------------------------------------------------------
(* Refinement                                                              *)

(* What a path yields means the same in both modules.                      *)
LEMMA SameView ==
  ASSUME NEW s, NEW p
  PROVE  Abstract!View(s, p) = View(s, p)
  BY DEF Abstract!View, Abstract!Locate, Abstract!ChildKey, Abstract!IsPacked,
         Abstract!Missing, Abstract!Absent, Abstract!Found,
         View, Locate, ChildKey, IsPacked, Missing, Absent, Found

(* Both modules have the same paths.                                       *)
LEMMA SamePaths == Abstract!Paths = Paths
  BY DEF Abstract!Paths, Abstract!TopPaths, Abstract!SubPaths, Paths, TopPaths, SubPaths

(* Every step of the detailed store is a step of the abstract one or leaves *)
(* its variables alone.                                                    *)
LEMMA StepRefines ==
  ASSUME Inv, [Next]_vars
  PROVE  [Abstract!Next]_(Abstract!vars)
  <1> USE DEF Abstract!vars, vars, writerVars, lockVars, readerVars, cacheVars
  <1> DEFINE Same == UNCHANGED <<engine, snap, answer>>
  <1>1. ASSUME NEW r \in Readers,
               \/ LockForRead(r) \/ ReadGeneration(r)
               \/ UnlockAfterRead(r) \/ BeginReadFails(r) \/ PutPath(r)
        PROVE  Same
    BY <1>1 DEF LockForRead, ReadGeneration, UnlockAfterRead, BeginReadFails, PutPath
  <1>2. ASSUME NEW r \in Readers, BeginRead(r)  PROVE Abstract!Open(r)
    BY <1>2 DEF BeginRead, Abstract!Open, Inv, SnapInv
  <1>3. ASSUME NEW r \in Readers, EndRead(r)  PROVE Abstract!Close(r)
    BY <1>3 DEF EndRead, Abstract!Close, Inv, SnapInv
  <1>4. ASSUME NEW r \in Readers, ReadStepOf(r)
        PROVE  Abstract!Read(r) \/ Abstract!Ask(r) \/ Same
    <2>1. UNCHANGED <<engine, snap>> /\ snap[r] # Closed
      BY <1>4, ReadStepEffect, VersionedSnap, StoresFacts DEF Versioned
    <2>2. CASE Returns(r)
      BY <2>1, <2>2, SameView, SamePaths DEF Returns, Return, Abstract!Read
    <2>3. CASE Continues(r)
      BY <2>1, <2>3 DEF Continues, Continue, Abstract!Ask
    <2>4. CASE Decodes(r)
      BY <2>1, <2>4 DEF Decodes
    <2> QED  BY <1>4, <2>2, <2>3, <2>4, ReadStepEffect
  <1>5. ASSUME NEW w \in Writers, CommitToEngine(w)  PROVE Abstract!Commit
    BY <1>5 DEF CommitToEngine, Abstract!Commit, Inv, TypeOK
  <1>6. ASSUME NEW w \in Writers,
               \/ BeginWrite(w) \/ Edit(w) \/ Abort(w) \/ LockForCommit(w)
               \/ CommitFails(w) \/ BumpGeneration(w) \/ UnlockAfterCommit(w)
        PROVE  Same
    BY <1>6 DEF BeginWrite, Edit, Abort, LockForCommit, CommitFails,
                BumpGeneration, UnlockAfterCommit
  <1>7. ASSUME EvictPath \/ EvictBlob  PROVE Same
    BY <1>7 DEF EvictPath, EvictBlob
  <1>8. ASSUME CrashAndReopen  PROVE Abstract!Crash
    BY <1>8 DEF CrashAndReopen, Abstract!Crash
  <1>9. ASSUME UNCHANGED vars  PROVE Same
    BY <1>9
  <1> QED
    BY <1>1, <1>2, <1>3, <1>4, <1>5, <1>6, <1>7, <1>8, <1>9
    DEF Next, ReaderStep, WriterStep, ReadStepOf, Abstract!Next

(* Through the caches, the lock and the generations, every read of a read  *)
(* transaction is a read of the version committed when it began: the table *)
(* implements SnapshotStore.                                               *)
THEOREM Refinement == Spec => ImplementsSnapshotStore
  <1>1. Init => Abstract!Init
    BY DEF Init, Abstract!Init
  <1>2. Inv /\ [Next]_vars => [Abstract!Next]_(Abstract!vars)
    BY StepRefines
  <1> QED
    BY <1>1, <1>2, Invariance, PTL DEF Spec, ImplementsSnapshotStore, Abstract!Spec

=============================================================================
