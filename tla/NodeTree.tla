------------------------------ MODULE NodeTree ------------------------------
(***************************************************************************)
(* The shredded tree of one table, as a write transaction changes it: one  *)
(* entry per node under a key, one entry per link from an object to a      *)
(* child, lists that hold the keys of their elements, and packed entities  *)
(* that hold a whole subtree in one node.  The table's root is at a fixed  *)
(* key.  Each action is one call on the transaction, with every engine     *)
(* entry it writes and removes, in the order the code does it; a call that *)
(* fails keeps what it has done so far.                                    *)
(*                                                                         *)
(* The blob of a packed entity is the document it stands for: the code     *)
(* runs the same tree functions over it as over the table, and this module *)
(* shows what they do to the document.                                     *)
(*                                                                         *)
(* Skey::generate is external: it draws a key no node or link has.         *)
(***************************************************************************)
EXTENDS Documents, FiniteSetsExt, TLC

CONSTANTS
  Paths,            \* the paths calls are given
  Stored,           \* the documents calls store: leaves and containers of leaves
  Batches,          \* the batches store_many is given: <<path, document>> pairs
  Schemas,          \* the sets of paths below which indexes may reach
  MaxKey,           \* bound: how many nodes a table has between calls
  StoreShifts,      \* calls may replace a list element that is not the last
  StoreIntoPacked   \* calls may store below a packed entity

ROOT  == 0
NoKey == -1
Keys  == 1..MaxKey

(* Bound: documents are leaves and containers of leaves.                   *)
Leaves == {Leaf(v) : v \in Values}

Flat(d) ==
  \/ d \in Leaves
  \/ d.kind = "object" /\ d = Object(d.fields)
      /\ \E names \in SUBSET Names : d.fields \in [names -> Leaves]
  \/ d.kind = "list" /\ d = List(d.items) /\ d.items \in Seq(Leaves)

(* Bound: paths have at most two segments, so that the blob of an entity   *)
(* below the root stays flat.                                              *)
ASSUME TreeAssumption ==
  /\ MaxKey \in Nat
  /\ IsFiniteSet(Names)
  /\ \A p \in Paths : p \in Seq(Segment) /\ Len(p) <= 2
  /\ \A shredded \in Schemas : shredded \subseteq Paths
  /\ \A d \in Stored : Flat(d)
  /\ \A items \in Batches : /\ items \in Seq(ToSet(items))
                            /\ \A item \in ToSet(items) : item[1] \in Paths /\ Flat(item[2])
  /\ StoreShifts \in BOOLEAN /\ StoreIntoPacked \in BOOLEAN

VARIABLES
  node,      \* the node at every live key
  link,      \* (object key, name) -> child key
  shredded,  \* the paths below which an index reaches (~should_pack)
  failed,    \* a write of this transaction has failed
  call       \* history: the last call, for DocumentStore

vars == <<node, link, shredded, failed, call>>

Init ==
  /\ node = <<>>
  /\ link = <<>>
  /\ shredded \in Schemas
  /\ failed = FALSE
  /\ call = NoCall

(* The table, as a value that the steps of one call hand on: s.node and    *)
(* s.link.                                                                 *)
Table == [node |-> node, link |-> link]

PackedNode(d) == [kind |-> "packed", doc |-> d]
ObjectNode    == [kind |-> "object"]
ListNode(ks)  == [kind |-> "list", items |-> ks]
LeafNode(v)   == [kind |-> "leaf", val |-> v]

EmptyNode(isList) == IF isList THEN ListNode(<<>>) ELSE ObjectNode

Live(s, k)      == k \in DOMAIN s.node
HasKind(s, k, kind) == Live(s, k) /\ s.node[k].kind = kind

(* Node::kind: a packed entity is of the kind of its root.                 *)
Kind(s, k) == IF HasKind(s, k, "packed") THEN s.node[k].doc.kind
              ELSE s.node[k].kind

Refs(s, k) ==
  {s.link[l] : l \in {x \in DOMAIN s.link : x[1] = k}}
    \cup (IF HasKind(s, k, "list") THEN ToSet(s.node[k].items) ELSE {})

InUse(s) == DOMAIN s.node \cup {s.link[l] : l \in DOMAIN s.link}
              \cup UNION {Refs(s, k) : k \in DOMAIN s.node}

Generate(s) == CHOOSE k \in 1..Cardinality(InUse(s)) + 1 : k \notin InUse(s)

------------------------------------------------------------------------------
(* Entries                                                                 *)

WriteNode(s, k, n) ==
  [node |-> [x \in DOMAIN s.node \cup {k} |-> IF x = k THEN n ELSE s.node[x]],
   link |-> s.link]

SetItems(s, k, keys) == WriteNode(s, k, ListNode(keys))

PutLink(s, k, name, child) ==
  [node |-> s.node,
   link |-> [x \in DOMAIN s.link \cup {<<k, name>>} |->
               IF x = <<k, name>> THEN child ELSE s.link[x]]]

DropLink(s, k, name) ==
  [node |-> s.node,
   link |-> [x \in DOMAIN s.link \ {<<k, name>>} |-> s.link[x]]]

------------------------------------------------------------------------------
(* Walks                                                                   *)

ChildKey(s, k, seg) ==
  IF IsName(seg)
  THEN IF <<k, seg.name>> \in DOMAIN s.link THEN s.link[<<k, seg.name>>] ELSE NoKey
  ELSE IF HasKind(s, k, "list") /\ seg.index < Len(s.node[k].items)
       THEN s.node[k].items[seg.index + 1] ELSE NoKey

(* Walk(s, base, p)[i]: the key that the first i segments of p lead to.    *)
Walk(s, base, p) ==
  LET W[i \in 0..Len(p)] ==
        IF i = 0 THEN base
        ELSE LET k == W[i - 1]
             IN  IF k = NoKey THEN NoKey ELSE ChildKey(s, k, p[i])
  IN  W

ResolveFrom(s, base, p) == Walk(s, base, p)[Len(p)]

Missing == [at |-> "missing"]

\* mutant: the rest of the path starts with the segment that led to the entity
PlaceOn_KeepsSegment(s, p, w) ==
  LET packed == {i \in 0..Len(p) : HasKind(s, w[i], "packed")}
      lost == {i \in 0..Len(p) : ~Live(s, w[i])}
  IN  IF packed # {} /\ \A i \in lost : Min(packed) < i
      THEN [at |-> "packed", key |-> w[Min(packed)],
            rel |-> SubSeq(p, Min(packed), Len(p))]
      ELSE IF lost = {} THEN [at |-> "plain", key |-> w[Len(p)]]
      ELSE Missing

(* The place of p, given its walk w from the root.                         *)
PlaceOn(s, p, w) ==
  LET packed == {i \in 0..Len(p) : HasKind(s, w[i], "packed")}
      lost == {i \in 0..Len(p) : ~Live(s, w[i])}
  IN  IF packed # {} /\ \A i \in lost : Min(packed) < i
      THEN [at |-> "packed", key |-> w[Min(packed)],
            rel |-> SubSeq(p, Min(packed) + 1, Len(p))]
      ELSE IF lost = {} THEN [at |-> "plain", key |-> w[Len(p)]]
      ELSE Missing

(* tree::locate: the walk from the root stops at the first packed entity.  *)
Locate(s, p) == PlaceOn(s, p, Walk(s, ROOT, p))

------------------------------------------------------------------------------
(* The steps a call is made of.  Each yields the table it leaves, whether  *)
(* it succeeded and, where there is one, the key it is about.              *)

Done(s, k) == [ok |-> TRUE, s |-> s, key |-> k]
Error(s)   == [ok |-> FALSE, s |-> s, key |-> NoKey]

AttachChild(s, k, seg, child) ==
  LET items == s.node[k].items
      i == seg.index
  IN  IF IsName(seg) THEN Done(PutLink(s, k, seg.name, child), child)
      ELSE IF ~HasKind(s, k, "list") \/ i > Len(items) THEN Error(s)
      ELSE Done(SetItems(s, k, IF i < Len(items) THEN ReplaceAt(items, i + 1, child)
                               ELSE Append(items, child)), child)

\* mutant: the link of a removed child is emptied, not removed
DetachChild_EmptiesLink(s, k, seg) ==
  IF IsName(seg) THEN Done(PutLink(s, k, seg.name, NoKey), k)
  ELSE Done(SetItems(s, k, RemoveAt(s.node[k].items, seg.index + 1)), k)

DetachChild(s, k, seg) ==
  LET items == s.node[k].items
  IN  IF IsName(seg) THEN Done(DropLink(s, k, seg.name), k)
      ELSE IF ~HasKind(s, k, "list") THEN Error(s)
      ELSE Done(IF seg.index < Len(items)
                THEN SetItems(s, k, RemoveAt(items, seg.index + 1)) ELSE s, k)

(* The keys a cascading delete visits: from an object through its links,   *)
(* from a list through its elements, from anything else no further.        *)
Below(s, k) ==
  IF HasKind(s, k, "object") \/ HasKind(s, k, "list") THEN Refs(s, k) ELSE {}

(* Waves(s, from)[i]: what is visited within i steps.                      *)
Waves(s, from) ==
  LET V[i \in 0..Cardinality(DOMAIN s.node)] ==
        IF i = 0 THEN from
        ELSE LET above == V[i - 1]
             IN  above \cup UNION {Below(s, k) : k \in above}
  IN  V

Visited(s, from) == Waves(s, from)[Cardinality(DOMAIN s.node)]

WithoutKeys(s, gone) ==
  [node |-> [k \in DOMAIN s.node \ gone |-> s.node[k]],
   link |-> [l \in {x \in DOMAIN s.link :
                      ~(x[1] \in gone /\ HasKind(s, x[1], "object"))} |->
               s.link[l]]]

DeleteAll(s, from) == WithoutKeys(s, Visited(s, from))

CascadeDelete(s, k) == DeleteAll(s, {k})

\* mutant: the old subtree is not dropped
DropChild_Keeps(s, k, seg) == s

DropNode(s, old) == IF old = NoKey THEN s ELSE CascadeDelete(s, old)

(* Replace semantics: drops the old subtree of a child, if there is one.   *)
DropChild(s, k, seg) == DropNode(s, ChildKey(s, k, seg))

(* A node of its own under a new key, linked into k.  When the link fails  *)
(* the node stays behind.                                                  *)
AddUnder(s, k, seg, n, new) == AttachChild(WriteNode(s, new, n), k, seg, new)

AddChild(s, k, seg, n) == AddUnder(s, k, seg, n, Generate(s))

VerifyContainer(s, k, isList) ==
  IF Kind(s, k) = (IF isList THEN "list" ELSE "object") THEN Done(s, k)
  ELSE Error(s)

(* tree::ensure_container_rel, from the top of the path down.              *)
EnsureContainer(s, base, p, isList) ==
  LET w == Walk(s, base, p)
      list(i) == IF i = Len(p) THEN isList ELSE IsIndex(p[i + 1])
      E[i \in 0..Len(p)] ==
        IF i = 0
        THEN IF Live(s, base) THEN VerifyContainer(s, base, list(0))
             ELSE Done(WriteNode(s, base, EmptyNode(list(0))), base)
        ELSE IF w[i] # NoKey THEN VerifyContainer(s, w[i], list(i))
        ELSE LET up == E[i - 1]
             IN  IF ~up.ok THEN up
                 ELSE AddChild(up.s, up.key, p[i], EmptyNode(list(i)))
  IN  E[Len(p)]

(* The container that the last segment of p is in.                         *)
EnsureParent(s, base, p) == EnsureContainer(s, base, Front(p), IsIndex(Last(p)))

(* A new child in the place of the old one, under the parent just ensured. *)
ReplaceChild(parent, seg, n) ==
  IF parent.ok
  THEN AddChild(DropChild(parent.s, parent.key, seg), parent.key, seg, n)
  ELSE parent

(* tree::put_scalar_rel.                                                   *)
PutScalar(s, base, p, v) ==
  IF p = <<>>
  THEN Done(WriteNode(CascadeDelete(s, base), base, LeafNode(v)), base)
  ELSE ReplaceChild(EnsureParent(s, base, p), Last(p), LeafNode(v))

\* mutant: the child of a removed path stays linked
Unlinked_Not(s, p, parent) == Done(s, NoKey)

(* The child that p led to is taken out of its parent, if there is one.    *)
Unlinked(s, p, parent) ==
  IF p = <<>> \/ parent = NoKey THEN Done(s, NoKey)
  ELSE DetachChild(s, parent, Last(p))

CutAt(s, p) == Unlinked(s, p, ResolveFrom(s, ROOT, Front(p)))

(* tree::remove_path.                                                      *)
RemovePath(s, p) ==
  IF ResolveFrom(s, ROOT, p) = NoKey THEN Done(s, NoKey)
  ELSE CutAt(CascadeDelete(s, ResolveFrom(s, ROOT, p)), p)

(* write_value and the stores of lists and maps: the container first, then *)
(* its parts.                                                              *)
WritePart(r, base, p, part) ==
  IF r.ok THEN PutScalar(r.s, base, p, part.val) ELSE r

WriteParts(container, base, p, d, segs) ==
  LET W[i \in 0..Len(segs)] ==
        IF i = 0 THEN container
        ELSE WritePart(W[i - 1], base, Append(p, segs[i]), Kid(d, segs[i]))
  IN  W

WriteValue(s, base, p, d) ==
  IF Is(d, "leaf") THEN PutScalar(s, base, p, d.val)
  ELSE WriteParts(EnsureContainer(s, base, p, Is(d, "list")), base, p, d,
                  Segments(d))[Len(Segments(d))]

(* tree::store_packed_under, under the parent just ensured: a packed child *)
(* is overwritten in place.                                                *)
StorePackedUnder(parent, seg, d) ==
  LET old == ChildKey(parent.s, parent.key, seg)
  IN  IF parent.ok /\ HasKind(parent.s, old, "packed")
      THEN Done(WriteNode(parent.s, old, PackedNode(d)), old)
      ELSE ReplaceChild(parent, seg, PackedNode(d))

(* tree::store_packed.                                                     *)
StorePacked(s, p, d) == StorePackedUnder(EnsureParent(s, ROOT, p), Last(p), d)

(* Spill(t, k, d, segs)[i]: the first i parts of d are children of k.      *)
Spill(t, k, d, segs) ==
  LET U[i \in 0..Len(segs)] ==
        IF i = 0 THEN t
        ELSE AddChild(U[i - 1], k, segs[i], LeafNode(Kid(d, segs[i]).val)).s
  IN  U

SpillAll(t, k, d) == Spill(t, k, d, Segments(d))[Len(Segments(d))]

\* mutant: the entity gets a new key
Unpack_NewKey(s, k) ==
  LET new == Generate(s)
      d == s.node[k].doc
      moved(x) == IF x = k THEN new ELSE x
      t == [node |-> [x \in (DOMAIN s.node \ {k}) \cup {new} |->
                        IF x = new THEN EmptyNode(Is(d, "list"))
                        ELSE IF s.node[x].kind = "list"
                        THEN ListNode([i \in DOMAIN s.node[x].items |->
                                         moved(s.node[x].items[i])])
                        ELSE s.node[x]],
            link |-> [l \in DOMAIN s.link |-> moved(s.link[l])]]
  IN  IF Is(d, "leaf") THEN WriteNode(s, k, LeafNode(d.val))
      ELSE SpillAll(t, new, d)

(* tree::unpack_entity: the blob's nodes become nodes of the table, its    *)
(* root under the key the entity had.                                      *)
Unpack(s, k) ==
  LET d == s.node[k].doc
  IN  IF Is(d, "leaf") THEN WriteNode(s, k, LeafNode(d.val))
      ELSE SpillAll(WriteNode(s, k, EmptyNode(Is(d, "list"))), k, d)

------------------------------------------------------------------------------
(* Calls on the transaction                                                *)

(* A call ends: what it did stays, and an error is remembered.  Calls that *)
(* leave more nodes than the bound are left out.                           *)
Finish(c, r) ==
  /\ DOMAIN r.s.node \subseteq Keys \cup {ROOT}
  /\ node' = r.s.node
  /\ link' = r.s.link
  /\ failed' = (failed \/ ~r.ok)
  /\ call' = c
  /\ UNCHANGED shredded

(* An edit of the blob of the packed entity k: it is decoded, changed and  *)
(* written back, or left alone when the change fails.                      *)
EditBlob(k, possible, d) ==
  IF possible THEN Done(WriteNode(Table, k, PackedNode(d)), k) ELSE Error(Table)

(* WriteTxn::put_scalar, at any path.                                      *)
PutAt(at, p, v) ==
  IF at.at = "packed"
  THEN EditBlob(at.key, Fits(node[at.key].doc, at.rel),
                With(node[at.key].doc, at.rel, Leaf(v)))
  ELSE PutScalar(Table, ROOT, p, v)

PutStep(p, v) == PutAt(Locate(Table, p), p, v)

Put(p, v) == Finish(Call("put", p, Leaf(v)), PutStep(p, v))

(* WriteTxn::remove; also SeqMut::remove_at, MapMut::remove.               *)
RemoveIn(at, p) ==
  IF at.at = "packed" /\ at.rel # <<>>
  THEN EditBlob(at.key, TRUE, Without(node[at.key].doc, at.rel))
  ELSE RemovePath(Table, p)

RemoveStep(p) == RemoveIn(Locate(Table, p), p)

RemoveAtPath(p) == Finish(Call("remove", p, Nowhere), RemoveStep(p))

(* Whether p is a list element and not the last one.                       *)
Shifts(s, p) ==
  /\ p # <<>> /\ Locate(s, p) # Missing
  /\ \E parent \in {ResolveFrom(s, ROOT, Front(p))} :
       /\ HasKind(s, parent, "list")
       /\ Last(p).index + 1 < Len(s.node[parent].items)

(* Whether p leads into a packed entity.                                   *)
IntoPacked(s, p) ==
  \E at \in {Locate(s, p)} : at.at = "packed" /\ at.rel # <<>>

(* What the store calls may be made on.                                    *)
MayStore(s, p) ==
  (Shifts(s, p) => StoreShifts) /\ (IntoPacked(s, p) => StoreIntoPacked)

(* A document stored where nothing is: packed, or node by node where an    *)
(* index reaches below p and at the table root.                            *)
WriteBelow(parent, seg, d) ==
  IF parent.ok THEN WriteValue(parent.s, parent.key, <<seg>>, d) ELSE parent

StoreFresh(s, p, d) ==
  IF p = <<>> THEN WriteValue(s, ROOT, p, d)
  ELSE IF p \notin shredded THEN StorePacked(s, p, d)
  ELSE WriteBelow(EnsureParent(s, ROOT, p), Last(p), d)

(* The old subtree is removed and the new one stored in its place.         *)
ReplaceIn(s, p, d) == StoreFresh(RemovePath(s, p).s, p, d)

Replace(p, d) == ReplaceIn(Table, p, d)

(* WriteTxn::store: a packed entity is overwritten in place.               *)
StoreOver(at, p, d) ==
  IF p \notin shredded /\ at.at = "packed" /\ at.rel = <<>>
  THEN Done(WriteNode(Table, at.key, PackedNode(d)), at.key)
  ELSE Replace(p, d)

StoreStep(p, d) == StoreOver(Locate(Table, p), p, d)

Store(p, d) == MayStore(Table, p) /\ Finish(Call("store", p, d), StoreStep(p, d))

(* One packed entity of a batch: its parent is looked up once, then the    *)
(* batch remembers the parent's key.                                       *)
BatchParent(s, parents, p) ==
  IF Front(p) \in DOMAIN parents THEN Done(s, parents[Front(p)])
  ELSE EnsureParent(s, ROOT, p)

Remember(parents, p, k) ==
  [q \in DOMAIN parents \cup {p} |-> IF q = p THEN k ELSE parents[q]]

StoreBatched(parent, parents, p, d) ==
  [r |-> StorePackedUnder(parent, Last(p), d),
   parents |-> IF parent.ok THEN Remember(parents, Front(p), parent.key)
               ELSE parents]

Packs(item) == item[1] # <<>> /\ item[1] \notin shredded

(* WriteTxn::store_many, the batched one: first what it packs, then the    *)
(* rest as usual.  It stops at the first error.  What it has done after    *)
(* the first i pairs:                                                      *)
PackedSteps(items) ==
  LET B[i \in 0..Len(items)] ==
        IF i = 0 THEN [r |-> Done(Table, NoKey), parents |-> <<>>]
        ELSE LET b == B[i - 1]
             IN  IF b.r.ok /\ Packs(items[i])
                 THEN StoreBatched(BatchParent(b.r.s, b.parents, items[i][1]),
                                   b.parents, items[i][1], items[i][2])
                 ELSE b
  IN  B

PlainSteps(packed, items) ==
  LET B[i \in 0..Len(items)] ==
        IF i = 0 THEN packed
        ELSE LET r == B[i - 1]
             IN  IF r.ok /\ ~Packs(items[i])
                 THEN ReplaceIn(r.s, items[i][1], items[i][2])
                 ELSE r
  IN  B

(* What store_many may be given: no path is an ancestor of another, pairs  *)
(* of one parent name all fields or all positions of it, and those that it *)
(* does not pack come last; met[x] is the table that pair x meets.         *)
MayBatch(items, met) ==
  \A x, y \in DOMAIN items :
    LET p == items[x][1]
        q == items[y][1]
    IN  /\ ~(p # <<>> /\ IsStrictPrefix(p, q))
        /\ p # <<>> /\ q # <<>> /\ Front(p) = Front(q) =>
             IsIndex(Last(p)) = IsIndex(Last(q))
        /\ x < y /\ Packs(items[y]) => Packs(items[x])
        /\ IF Packs(items[x]) THEN IntoPacked(met[x], p) => StoreIntoPacked
           ELSE MayStore(met[x], p)

StoreMany(items) ==
  LET packed == PackedSteps(items)
      plain  == PlainSteps(packed[Len(items)].r, items)
  IN  /\ MayBatch(items, [x \in DOMAIN items |->
                            IF Packs(items[x]) THEN packed[x - 1].r.s
                            ELSE plain[x - 1].s])
      /\ Finish(Call("batch", <<>>, items), plain[Len(items)])

(* WriteTxn::store_value.                                                  *)
StoreValue(p, d) == MayStore(Table, p) /\ Finish(Call("store", p, d), Replace(p, d))

------------------------------------------------------------------------------
(* Calls through a write accessor.  Opening one (WriteTxn::fetch_mut)      *)
(* unpacks the entity its path leads to or into.                           *)

OpenedAt(at) == IF at.at = "packed" THEN Unpack(Table, at.key) ELSE Table
Opened(p)    == OpenedAt(Locate(Table, p))

FetchMut(p) ==
  /\ Locate(Table, p).at = "packed"
  /\ Finish(Call("open", p, Nowhere), Done(Opened(p), NoKey))

(* An accessor on the container at p of the opened table: the key it has.  *)
Accessor(s, p, kinds) ==
  {k \in {ResolveFrom(s, ROOT, p)} : \E kind \in kinds : HasKind(s, k, kind)}

(* SeqMut::clear, MapMut::clear.                                           *)
EmptyAt(s, k) ==
  IF HasKind(s, k, "list") THEN WriteNode(s, k, ListNode(<<>>))
  ELSE [node |-> s.node,
        link |-> [l \in {x \in DOMAIN s.link : x[1] # k} |-> s.link[l]]]

ClearChildren(s, k) == Done(EmptyAt(DeleteAll(s, Refs(s, k)), k), k)

Clear(p) ==
  \E s \in {Opened(p)} : \E k \in Accessor(s, p, {"object", "list"}) :
    Finish(Call("clear", p, Nowhere), ClearChildren(s, k))

\* mutant: the two elements change places
ListMove_Swaps(s, k, i, j) == Done(SetItems(s, k, SwapIn(s.node[k].items, i, j)), k)

(* tree::list_move, tree::list_swap.                                       *)
ListMove(s, k, i, j) == Done(SetItems(s, k, MoveIn(s.node[k].items, i, j)), k)
ListSwap(s, k, i, j) == Done(SetItems(s, k, SwapIn(s.node[k].items, i, j)), k)

(* SeqMut::swap.                                                           *)
Swap(p) ==
  \E s \in {Opened(p)} : \E k \in Accessor(s, p, {"list"}) :
    \E i, j \in 0..Len(s.node[k].items) - 1 :
      Finish(Call("swap", p, <<i, j>>), ListSwap(s, k, i, j))

(* SeqMut::insert_at, and push: the element is stored at the end and moved *)
(* to its place.                                                           *)
InsertElement(p, d) ==
  \E s \in {Opened(p)} : \E k \in Accessor(s, p, {"list"}) :
    LET end == Len(s.node[k].items)
    IN  \E new \in {WriteValue(s, ROOT, Append(p, Index(end)), d)}, i \in 0..end :
          Finish(Call("insert", p, <<i, d>>),
                 IF new.ok THEN ListMove(new.s, k, end, i) ELSE new)

(* MapMut::insert.                                                         *)
InsertEntry(p, n, d) ==
  \E s \in {Opened(p)} : \E k \in Accessor(s, p, {"object"}) :
    LET q == Append(p, Name(n))
    IN  Finish(Call("store", q, d), WriteValue(RemovePath(s, q).s, ROOT, q, d))

(* Removals of one call: of the children at segs those that go, one after  *)
(* the other, until one fails.                                             *)
RemoveEach(s, p, segs, gone) ==
  LET R[i \in 0..Len(segs)] ==
        IF i = 0 THEN Done(s, NoKey)
        ELSE LET r == R[i - 1]
             IN  IF r.ok /\ segs[i] \in gone THEN RemovePath(r.s, Append(p, segs[i]))
                 ELSE r
  IN  R[Len(segs)]

(* SeqMut::remove_range and drain: the element at the front of the range,  *)
(* again and again.                                                        *)
RemoveRange(p) ==
  \E s \in {Opened(p)} : \E k \in Accessor(s, p, {"list"}) :
    \E i, n \in 0..Len(s.node[k].items) :
      Finish(Call("retain", p, Nowhere),
             RemoveEach(s, p, [x \in 1..n |-> Index(i)], {Index(i)}))

(* SeqMut::retain, pop_first and pop_last: the elements that go, back to   *)
(* front.                                                                  *)
BackToFront(n) == [x \in 1..n |-> Index(n - x)]

RetainElements(p) ==
  \E s \in {Opened(p)} : \E k \in Accessor(s, p, {"list"}) :
    LET len == Len(s.node[k].items)
    IN  \E gone \in SUBSET {Index(i) : i \in 0..len - 1} :
          Finish(Call("retain", p, Nowhere),
                 RemoveEach(s, p, BackToFront(len), gone))

(* MapMut::retain, pop_first and pop_last.                                 *)
RetainEntries(p) ==
  \E s \in {Opened(p)} : \E k \in Accessor(s, p, {"object"}) :
    \E gone \in SUBSET {Name(n) : n \in Names} :
      Finish(Call("retain", p, Nowhere),
             RemoveEach(s, p, SetToSeq(gone), gone))

(* SeqMut::swap_remove.                                                    *)
SwapRemove(p) ==
  \E s \in {Opened(p)} : \E k \in Accessor(s, p, {"list"}) :
    LET last == Len(s.node[k].items) - 1
    IN  \E i \in 0..last :
          Finish(Call("swap_remove", p, i),
                 RemovePath(ListSwap(s, k, i, last).s, Append(p, Index(last))))

(* OptMut::set, on the value at p.                                         *)
SetOption(p, d) ==
  \E s \in {Opened(p)} : \E k \in Accessor(s, p, {"object", "list", "leaf"}) :
    /\ MayStore(s, p)
    /\ Finish(Call("store", p, d), WriteValue(RemovePath(s, p).s, ROOT, p, d))

(* The fields of p inside Paths, and the paths that have one (a bound on   *)
(* the depth of the tree).                                                 *)
FieldsOf(p) == {n \in Names : Append(p, Name(n)) \in Paths}
Inner == {p \in Paths : FieldsOf(p) # {}}

OneCall ==
  \E p \in Paths :
    \/ \E v \in Values : Put(p, v)
    \/ RemoveAtPath(p)
    \/ \E d \in Stored : Store(p, d) \/ StoreValue(p, d)
    \/ FetchMut(p) \/ Clear(p) \/ Swap(p) \/ SwapRemove(p)
    \/ RemoveRange(p) \/ RetainElements(p) \/ RetainEntries(p)
    \/ \E d \in Stored : SetOption(p, d)
    \/ p \in Inner /\ \E d \in Stored : InsertElement(p, d)
    \/ \E d \in Stored, n \in FieldsOf(p) : InsertEntry(p, n, d)

Next == OneCall \/ \E items \in Batches : StoreMany(items)

Spec == Init /\ [][Next]_vars

------------------------------------------------------------------------------
(* What the table stands for                                               *)

(* The document of the node at k, given those of the nodes below it: a     *)
(* packed entity is its blob's document.                                   *)
NodeDoc(s, k, below) ==
  LET n == s.node[k]
  IN  IF n.kind = "leaf" THEN Leaf(n.val)
      ELSE IF n.kind = "packed" THEN n.doc
      ELSE IF n.kind = "list" THEN List([x \in DOMAIN n.items |-> below[n.items[x]]])
      ELSE Object([m \in {x \in Names : <<k, x>> \in DOMAIN s.link} |->
                     below[s.link[<<k, m>>]]])

(* Levels(s)[i]: the documents of all nodes, i levels deep.                *)
Levels(s) ==
  LET D[i \in 0..Cardinality(DOMAIN s.node)] ==
        [k \in DOMAIN s.node |-> IF i = 0 THEN Nowhere ELSE NodeDoc(s, k, D[i - 1])]
  IN  D

(* The document under a key: no tree is deeper than it has nodes.          *)
DocUnder(s, from) ==
  IF Live(s, from) THEN Levels(s)[Cardinality(DOMAIN s.node)][from] ELSE Nowhere

doc == DocUnder(Table, ROOT)

(* tree::get_scalar, tree::kind, ReadTxn::read_value: what a read of p in  *)
(* the transaction finds.                                                  *)
ReadAt(p) ==
  LET at == Locate(Table, p)
  IN  IF at = Missing THEN Nowhere
      ELSE IF at.at = "plain" THEN DocUnder(Table, at.key)
      ELSE At(node[at.key].doc, at.rel)

------------------------------------------------------------------------------
(* Properties                                                              *)

Node == [kind : {"object"}] \cup [kind : {"leaf"}, val : Values]
          \cup [kind : {"list"}, items : Seq(Keys)]

TypeOK ==
  /\ DOMAIN node \subseteq Keys \cup {ROOT}
  /\ \A k \in DOMAIN node : node[k] \in Node \/ node[k].kind = "packed"
  /\ DOMAIN link \subseteq (Keys \cup {ROOT}) \X Names
  /\ \A l \in DOMAIN link : link[l] \in Keys
  /\ shredded \in Schemas
  /\ failed \in BOOLEAN

(* The entries form a tree: every link leads from a live object to a live  *)
(* node, every list element is live, no node has two places in the tree,   *)
(* and the root has none.  "A resolved child link always points at a live  *)
(* node"; a packed entity is terminal, it has no links of its own.         *)
Places(k) ==
  {l \in DOMAIN link : link[l] = k}
    \cup {e \in (DOMAIN node) \X (1..MaxKey) :
            HasKind(Table, e[1], "list") /\ e[2] \in DOMAIN node[e[1]].items
              /\ node[e[1]].items[e[2]] = k}

EntriesFormATree ==
  /\ \A l \in DOMAIN link : HasKind(Table, l[1], "object") /\ Live(Table, link[l])
  /\ \A k \in DOMAIN node : HasKind(Table, k, "list") =>
       \A i \in DOMAIN node[k].items : Live(Table, node[k].items[i])
  /\ \A k \in DOMAIN node : Cardinality(Places(k)) <= 1

(* Every node hangs under the root, unless a call has failed (which may    *)
(* leave the node it could not link): nothing removed or replaced leaves   *)
(* entries behind.                                                         *)
NothingLeaks == ~failed => DOMAIN node \subseteq Visited(Table, {ROOT})

(* A read that stops at packed entities and goes on in their blobs sees    *)
(* the same document as the walk of all nodes.                             *)
ReadsSeeTheDocument == \A p \in Paths : ReadAt(p) = At(doc, p)

(* Every call does to the document what its path says and nothing else,    *)
(* whether the parts it meets are packed or not; a call that fails changes *)
(* nothing but containers it has created on the way.                       *)
Abstract == INSTANCE DocumentStore

ImplementsDocumentStore == Abstract!Spec

(* "Stores value at path, replacing any existing subtree there": after a   *)
(* store that succeeds the document is the old one with the value at the   *)
(* path.                                                                   *)
StoreReplaced ==
  call'.op = "store" /\ ~failed' => doc' = With(doc, call'.path, call'.arg)

StoreReplaces == [][StoreReplaced]_vars

(* "A node keeps [its key] when the tree around it changes (e.g. a list    *)
(* element keeps its key when preceding siblings are removed)": what is    *)
(* not at or below the path of a call is still there under its key, and    *)
(* what is not above it either holds what it held; calls that only reorder *)
(* or open leave every key and everything below.                           *)
KeysStay ==
  LET p     == call'.path
      line  == {k \in ToSet(Walk(Table, ROOT, p)) : k # NoKey}
      below == Visited(Table, {ResolveFrom(Table, ROOT, p)})
      moves == call'.op \in {"open", "insert", "swap"}
      gone  == IF moves THEN {} ELSE below
      edited == IF call'.op = "open" THEN {} ELSE gone \cup line
      after == [node |-> node', link |-> link']
  IN  /\ DOMAIN node \ gone \subseteq DOMAIN node'
      /\ \A k \in DOMAIN node \ edited : DocUnder(after, k) = DocUnder(Table, k)

NodesKeepIdentity == [][call'.op # "batch" => KeysStay]_vars
=============================================================================
