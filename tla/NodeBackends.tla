---------------------------- MODULE NodeBackends ----------------------------
(***************************************************************************)
(* The two stores the tree functions run over (engine/backend): the engine *)
(* table, where a node, every link from an object to a child and every     *)
(* index entry are entries ordered by their key's bytes, and the in-memory *)
(* nodes of a packed entity, where an object holds its links.  A blob is   *)
(* the archive of such nodes, which is also read and patched in place      *)
(* (engine/archived).                                                      *)
(*                                                                         *)
(* Each action is a function of tree.rs that writes, done to both stores   *)
(* from what it reads in each; or a call on the index entries of the       *)
(* table.  The archive is modelled as what rkyv gives back: its layout is  *)
(* external, and so is the engine's ordered map.                           *)
(***************************************************************************)
EXTENDS TableBytes

CONSTANTS
  ROOT,            \* Skey::ROOT, all zeros
  Skeys,           \* the primary keys, ROOT among them
  FieldNames,
  LeafScalars,     \* what the leaves hold
  Indexes,         \* [id, unique, descs]: descs has the direction of each column
  Entities,        \* keys that index entries are of
  ColumnValues,    \* the scalars of indexed columns
  MaxNodes,        \* bounds: how many entries the table holds, without index
  MaxEntries       \* entries and with some

ASSUME BackendsAssumption ==
  /\ ROOT = [i \in 1..SkeyLen |-> 0] /\ ROOT \in Skeys
  /\ \A k \in Skeys \cup Entities : Len(k) = SkeyLen

VARIABLES
  table,   \* the engine table: the bytes of a key -> the bytes of a value
  mem,     \* MemNodes: key -> object with its links, list or leaf
  posted   \* history: the index entries that are in the table

stores == <<table, mem, posted>>

InitStores == table = <<>> /\ mem = <<>> /\ posted = {}

WithinBounds ==
  Cardinality(DOMAIN table') <= IF posted' = {} THEN MaxNodes ELSE MaxEntries

Absent == [is |-> "absent"]

\* f with x -> y, and without the keys in gone
Bind(f, x, y)    == [z \in DOMAIN f \cup {x} |-> IF z = x THEN y ELSE f[z]]
Unbind(f, gone) == [z \in DOMAIN f \ gone |-> f[z]]

------------------------------------------------------------------------------
(* The engine table                                                        *)

TablePut(t, key, value) == Bind(t, EncodeKey(key), EncodeValue(value))
TableDelete(t, key)     == Unbind(t, {EncodeKey(key)})

FetchBytes(t, b)   == IF b \in DOMAIN t THEN DecodeValue(t[b]).v ELSE Absent
TableFetch(t, key) == FetchBytes(t, EncodeKey(key))

EntriesAt(t, keys) ==
  [i \in DOMAIN keys |-> [key |-> DecodeKey(keys[i]).v, value |-> DecodeValue(t[keys[i]]).v]]

ScanFrom(t, from) ==
  EntriesAt(t, SetToSortSeq({b \in DOMAIN t : ~BytesBefore(b, from)}, BytesBefore))

\* the entries from a lower bound, in the order of their keys' bytes
TableScan(t, lower) == ScanFrom(t, EncodeKey(lower))

\* the entries up to the first that is not Wanted
TakeWhile(entries, Wanted(_)) ==
  LET stop == SelectInSeq(entries, LAMBDA e : ~Wanted(e))
  IN  IF stop = 0 THEN entries ELSE SubSeq(entries, 1, stop - 1)

\* mutant: the scan goes on to the links of the next object
ChildBlock_Runs(entries, parent) ==
  TakeWhile(entries, LAMBDA e : e.key.is = "child")

ChildBlock(entries, parent) ==
  TakeWhile(entries, LAMBDA e : e.key.is = "child" /\ e.key.parent = parent)

(* tree::object_children.                                                  *)
NamesAndKeys(block) ==
  [i \in DOMAIN block |-> <<block[i].key.name, block[i].value.key>>]

ObjectChildren(entries, parent) == NamesAndKeys(ChildBlock(entries, parent))

TableChildren(t, parent) == ObjectChildren(TableScan(t, ChildKey(parent, <<>>)), parent)

------------------------------------------------------------------------------
(* The nodes in memory                                                     *)

MemObject(links) == [kind |-> "object", links |-> links]

(* MemNode::engine_node.                                                   *)
EngineNode(n) == IF n.kind = "object" THEN ObjectNode ELSE n

\* an object, or a parent that is not there yet
LinksOf(m, parent) ==
  IF parent \in DOMAIN m THEN m[parent].links ELSE <<>>

(* MemNodes::apply.                                                        *)
MemPut(m, key, value) ==
  IF key.is = "child"
  THEN Bind(m, key.parent, MemObject(Bind(LinksOf(m, key.parent), key.name, value.key)))
  ELSE IF value.node.kind # "object" THEN Bind(m, key.key, value.node)
  ELSE IF key.key \in DOMAIN m /\ m[key.key].kind = "object" THEN m
  ELSE Bind(m, key.key, MemObject(<<>>))

(* MemNodes::delete.                                                       *)
MemDelete(m, key) ==
  IF key.is = "data" THEN Unbind(m, {key.key})
  ELSE IF key.parent \in DOMAIN m /\ m[key.parent].kind = "object"
  THEN Bind(m, key.parent, MemObject(Unbind(m[key.parent].links, {key.name})))
  ELSE m

(* MemNodes::fetch.                                                        *)
MemFetch(m, key) ==
  CASE key.is = "data" ->
         IF key.key \in DOMAIN m THEN NodeValue(EngineNode(m[key.key])) ELSE Absent
    [] key.is = "child" ->
         IF /\ key.parent \in DOMAIN m /\ m[key.parent].kind = "object"
            /\ key.name \in DOMAIN m[key.parent].links
         THEN SkeyValue(m[key.parent].links[key.name]) ELSE Absent
    [] key.is = "index" -> Absent

(* MemNodes::scan_from: of links only, over the object's sorted map.       *)
MemScan(m, lower) ==
  LET links == IF /\ lower.is = "child" /\ lower.parent \in DOMAIN m
                  /\ m[lower.parent].kind = "object"
               THEN m[lower.parent].links ELSE <<>>
      names == SetToSortSeq({n \in DOMAIN links : ~BytesBefore(n, lower.name)}, BytesBefore)
  IN  [i \in DOMAIN names |-> [key |-> ChildKey(lower.parent, names[i]),
                               value |-> SkeyValue(links[names[i]])]]

MemChildren(m, parent) == ObjectChildren(MemScan(m, ChildKey(parent, <<>>)), parent)

(* MemNodes::into_entries.                                                 *)
IntoEntries(m) ==
  {[key |-> DataKey(k), value |-> NodeValue(EngineNode(m[k]))] : k \in DOMAIN m}
    \cup UNION {{[key |-> ChildKey(k, n), value |-> SkeyValue(m[k].links[n])] :
                   n \in DOMAIN m[k].links} : k \in {x \in DOMAIN m : m[x].kind = "object"}}

------------------------------------------------------------------------------
(* Blobs: the (key, node) pairs sorted by key                              *)

\* a node in the archive: links sorted by name, a scalar as its bytes
ArchNode(n) ==
  CASE n.kind = "object" ->
         LET names == SetToSortSeq(DOMAIN n.links, BytesBefore)
         IN  [kind |-> "object", pairs |-> [i \in DOMAIN names |-> <<names[i], n.links[names[i]]>>]]
    [] n.kind = "list" -> n
    [] n.kind = "leaf" -> [kind |-> "leaf", bytes |-> EncodeScalar(n.scalar)]

(* MemNodes::into_blob.                                                    *)
IntoBlob(m) ==
  LET keys == SetToSortSeq(DOMAIN m, BytesBefore)
  IN  IF m = <<>> THEN << <<ROOT, [kind |-> "object", pairs |-> <<>>]>> >>
      ELSE [i \in DOMAIN keys |-> <<keys[i], ArchNode(m[keys[i]])>>]

(* view_of.                                                                *)
ViewOf(a) ==
  CASE a.kind = "object" ->
         MemObject([n \in {p[1] : p \in ToSet(a.pairs)} |->
                      (CHOOSE p \in ToSet(a.pairs) : p[1] = n)[2]])
    [] a.kind = "list" -> a
    [] a.kind = "leaf" -> LeafNode(DecodeScalar(a.bytes).v)

(* MemNodes::from_blob.                                                    *)
FromBlob(blob) ==
  [k \in {pair[1] : pair \in ToSet(blob)} |->
     ViewOf((CHOOSE pair \in ToSet(blob) : pair[1] = k)[2])]

\* binary_search_by: the position of the pair that starts with x, or 0
BinarySearch(pairs, x) ==
  LET Search[lo \in Nat, hi \in Nat] ==
        LET mid == (lo + hi) \div 2
        IN  IF lo >= hi THEN 0
            ELSE IF pairs[mid][1] = x THEN mid
            ELSE IF BytesBefore(pairs[mid][1], x) THEN Search[mid + 1, hi]
            ELSE Search[lo, mid]
  IN  Search[1, Len(pairs) + 1]

(* ArchivedNodes::child_link.                                              *)
ArchChildLink(blob, parent, name) ==
  LET at == BinarySearch(blob, parent)
      pairs == blob[at][2].pairs
      link == BinarySearch(pairs, name)
  IN  IF at = 0 \/ blob[at][2].kind # "object" \/ link = 0 THEN Absent
      ELSE SkeyValue(pairs[link][2])

(* ArchivedNodes::fetch.                                                   *)
ArchFetch(blob, key) ==
  LET at == BinarySearch(blob, key.key)
  IN  CASE key.is = "data" -> IF at = 0 THEN Absent ELSE NodeValue(EngineNode(ViewOf(blob[at][2])))
        [] key.is = "child" -> ArchChildLink(blob, key.parent, key.name)
        [] key.is = "index" -> Absent

(* ArchivedNodes::scan_from.                                               *)
ArchScan(blob, lower) ==
  LET at == BinarySearch(blob, lower.parent)
      pairs == IF at = 0 \/ blob[at][2].kind # "object" THEN <<>>
               ELSE SelectSeq(blob[at][2].pairs, LAMBDA p : ~BytesBefore(p[1], lower.name))
  IN  [i \in DOMAIN pairs |-> [key |-> ChildKey(lower.parent, pairs[i][1]),
                               value |-> SkeyValue(pairs[i][2])]]

\* mutant: the bytes are replaced whatever their length
PutIntoBlob_AnyLength(blob, key, scalar) ==
  LET at      == BinarySearch(blob, key)
      old     == blob[at][2].bytes
      encoded == EncodeScalar(scalar)
  IN  [blob EXCEPT ![at][2].bytes =
         [i \in DOMAIN old |-> IF i \in DOMAIN encoded THEN encoded[i] ELSE old[i]]]

(* put_scalar_into_packed, once it knows the leaf: leaf_byte_span, and     *)
(* bytes of the same length are replaced where they are.                   *)
PutIntoBlob(blob, key, scalar) ==
  LET at      == BinarySearch(blob, key)
      encoded == EncodeScalar(scalar)
  IN  IF /\ at # 0 /\ blob[at][2].kind = "leaf"
         /\ Len(blob[at][2].bytes) = Len(encoded)
      THEN [blob EXCEPT ![at][2].bytes = encoded]
      ELSE IntoBlob(MemPut(FromBlob(blob), DataKey(key), NodeValue(LeafNode(scalar))))

------------------------------------------------------------------------------
(* What the tree functions write: deletions, then writes, in order         *)

Entry(key, value) == [key |-> key, value |-> value]
WriteNode(k, node) == Entry(DataKey(k), NodeValue(node))

Written(gone, writes) ==
  /\ table' = FoldLeft(LAMBDA t, e : TablePut(t, e.key, e.value),
                       FoldSet(LAMBDA k, t : TableDelete(t, k), table, gone.table), writes)
  /\ mem' = FoldLeft(LAMBDA m, e : MemPut(m, e.key, e.value),
                     FoldSet(LAMBDA k, m : MemDelete(m, k), mem, gone.mem), writes)
  /\ UNCHANGED posted
  /\ WithinBounds

Nothing == [table |-> {}, mem |-> {}]

NodeAt(k) == TableFetch(table, DataKey(k))
IsKind(k, kind) == \E at \in {NodeAt(k)} : at # Absent /\ at.node.kind = kind

\* the items of the list under k
ItemsAt(k) == {at.node.items : at \in {n \in {NodeAt(k)} : n # Absent /\ n.node.kind = "list"}}

\* what cascade_delete removes, given the node and the children of each key
Cascade(found, children, keys) ==
  LET kids(k) == IF found[k] = Absent THEN {}
                 ELSE IF found[k].node.kind = "list" THEN ToSet(found[k].node.items)
                 ELSE {c[2] : c \in ToSet(children[k])}
      below[i \in 0..Cardinality(Skeys)] ==
        IF i = 0 THEN keys ELSE below[i - 1] \cup UNION {kids(k) : k \in below[i - 1]}
      all == below[Cardinality(Skeys)]
  IN  {DataKey(k) : k \in all}
        \cup UNION {{ChildKey(k, c[1]) : c \in ToSet(children[k])} : k \in all}

(* tree::cascade_delete of each of the keys, over each store.              *)
CascadeDelete(keys) ==
  [table |-> Cascade([k \in Skeys |-> NodeAt(k)],
                     [k \in Skeys |-> TableChildren(table, k)], keys),
   mem   |-> Cascade([k \in Skeys |-> MemFetch(mem, DataKey(k))],
                     [k \in Skeys |-> MemChildren(mem, k)], keys)]

WithLinks(gone, links) == [table |-> gone.table \cup links, mem |-> gone.mem \cup links]

------------------------------------------------------------------------------
(* Actions                                                                 *)

NewNodes == {ObjectNode, ListNode(<<>>)} \cup {LeafNode(s) : s \in LeafScalars}

(* ensure_container of the root.                                           *)
EnsureRoot(node) ==
  /\ node.kind \in {"object", "list"}
  /\ NodeAt(ROOT) = Absent
  /\ Written(Nothing, <<WriteNode(ROOT, node)>>)

(* A new node under an object; what was there is removed first.            *)
PutField(parent, name, key, node) ==
  /\ IsKind(parent, "object") /\ NodeAt(key) = Absent /\ key # ROOT
  /\ \E old \in {TableFetch(table, ChildKey(parent, name))} :
       Written(IF old = Absent THEN Nothing ELSE CascadeDelete({old.key}),
               <<WriteNode(key, node), Entry(ChildKey(parent, name), SkeyValue(key))>>)

(* A new node at the end of a list.                                        *)
PushItem(parent, key, node) ==
  \E items \in ItemsAt(parent) :
    /\ NodeAt(key) = Absent /\ key # ROOT
    /\ Written(Nothing, <<WriteNode(key, node),
                          WriteNode(parent, ListNode(Append(items, key)))>>)

(* put_node_scalar.                                                        *)
PutNodeScalar(key, scalar) ==
  /\ IsKind(key, "leaf")
  /\ Written(Nothing, <<WriteNode(key, LeafNode(scalar))>>)

(* remove_rel of a field, of a list element.                               *)
RemoveField(parent, name) ==
  /\ IsKind(parent, "object")
  /\ \E old \in {TableFetch(table, ChildKey(parent, name))} \ {Absent} :
       Written(WithLinks(CascadeDelete({old.key}), {ChildKey(parent, name)}), <<>>)

RemoveItem(parent, i) ==
  \E items \in ItemsAt(parent) :
    /\ i \in DOMAIN items
    /\ Written(CascadeDelete({items[i]}), <<WriteNode(parent, ListNode(RemoveAt(items, i)))>>)

(* clear_children of an object.                                            *)
ClearObject(key) ==
  /\ IsKind(key, "object")
  /\ \E kids \in {TableChildren(table, key)} :
       /\ kids # <<>>
       /\ Written(WithLinks(CascadeDelete({c[2] : c \in ToSet(kids)}),
                            {ChildKey(key, c[1]) : c \in ToSet(kids)}), <<>>)

ListSwap(key, i, j) ==
  \E items \in ItemsAt(key) :
    /\ {i, j} \subseteq DOMAIN items
    /\ Written(Nothing,
               <<WriteNode(key, ListNode([items EXCEPT ![i] = items[j], ![j] = items[i]]))>>)

EntryKey(ix, values, entity) ==
  IndexKey(ix.id, EncodeColumns(ix.descs, values), IF ix.unique THEN NoEntity ELSE entity)

(* reindexed: an index entry is written; guard_unique keeps one that is    *)
(* there for another entity.                                               *)
Post(ix, values, entity) ==
  /\ ~ix.unique \/ EncodeKey(EntryKey(ix, values, entity)) \notin DOMAIN table
  /\ table' = TablePut(table, EntryKey(ix, values, entity),
                       IF ix.unique THEN SkeyValue(entity) ELSE UnitValue)
  /\ posted' = posted \cup {[index |-> ix, values |-> values, entity |-> entity]}
  /\ WithinBounds
  /\ UNCHANGED mem

(* deindexed: the entry of an entity is removed.                           *)
Unpost(p) ==
  /\ p \in posted
  /\ table' = TableDelete(table, EntryKey(p.index, p.values, p.entity))
  /\ posted' = posted \ {p}
  /\ UNCHANGED mem

\* the least key an entry with these leading columns can have
LowerBound(ix, cols) == IndexKey(ix.id, cols, IF ix.unique THEN NoEntity ELSE ROOT)

\* mutant: the scan goes on to the entries of the next index
AllEntries_NextIndex(t, ix) ==
  TakeWhile(TableScan(t, LowerBound(ix, <<>>)), LAMBDA e : e.key.is = "index")

AllEntries(t, ix) ==
  TakeWhile(TableScan(t, LowerBound(ix, <<>>)),
            LAMBDA e : e.key.is = "index" /\ e.key.id = ix.id)

(* delete_all.                                                             *)
DeleteAll(ix) ==
  /\ posted # {}
  /\ table' = Unbind(table, {EncodeKey(e.key) : e \in ToSet(AllEntries(table, ix))})
  /\ posted' = {p \in posted : p.index # ix}
  /\ UNCHANGED mem

NextStores ==
  \/ \E node \in NewNodes : EnsureRoot(node)
  \/ \E p, k \in Skeys, name \in FieldNames, node \in NewNodes : PutField(p, name, k, node)
  \/ \E p, k \in Skeys, node \in NewNodes : PushItem(p, k, node)
  \/ \E k \in Skeys, s \in LeafScalars : PutNodeScalar(k, s)
  \/ \E p \in Skeys, name \in FieldNames : RemoveField(p, name)
  \/ \E p \in Skeys, i \in 1..MaxNodes : RemoveItem(p, i)
  \/ \E k \in Skeys : ClearObject(k)
  \/ \E k \in Skeys, i, j \in 1..MaxNodes : i < j /\ ListSwap(k, i, j)
  \/ \E ix \in Indexes, entity \in Entities :
       \E values \in [DOMAIN ix.descs -> ColumnValues] : Post(ix, values, entity)
  \/ \E p \in posted : Unpost(p)
  \/ \E ix \in Indexes : DeleteAll(ix)

------------------------------------------------------------------------------
(* Queries                                                                 *)

StartsWith(bytes, prefix) ==
  Len(prefix) <= Len(bytes) /\ SubSeq(bytes, 1, Len(prefix)) = prefix

\* the entries of an index that start with these columns, from lower on
HitsFrom(t, ix, cols, lower) ==
  TakeWhile(TableScan(t, lower), LAMBDA e : /\ e.key.is = "index" /\ e.key.id = ix.id
                                            /\ StartsWith(e.key.cols, cols))

EntitiesOf(ix, hits) ==
  [i \in DOMAIN hits |-> IF ix.unique THEN hits[i].value.key ELSE hits[i].key.entity]

\* mutant: the walk starts after the entries of the first entities
ScanColumns_Late(t, ix, cols) ==
  EntitiesOf(ix, HitsFrom(t, ix, cols, IndexKey(ix.id, cols, [i \in 1..SkeyLen |-> 255])))

ScanColumns(t, ix, cols) == EntitiesOf(ix, HitsFrom(t, ix, cols, LowerBound(ix, cols)))

(* scan_prefix: the entities whose leading columns hold these values.      *)
ScanPrefix(t, ix, values) == ScanColumns(t, ix, EncodeColumns(ix.descs, values))

PrefixesOf(ix) == UNION {[1..n -> ColumnValues] : n \in 0..Len(ix.descs)}

(* A query by the leading columns of an index finds every entity posted    *)
(* with these values and no other, in the order of the columns, each in    *)
(* its direction, and of the keys of the entities                          *)
(* (IndexQuery, read.rs scan_prefix).                                      *)
ScanFindsThePrefix ==
  \A ix \in Indexes : \A values \in PrefixesOf(ix) :
    LET wanted == {p \in posted : p.index = ix /\ SubSeq(p.values, 1, Len(values)) = values}
        InOrder(p, q) ==
          \/ ColumnsBefore(ix.descs, p.values, q.values)
          \/ p.values = q.values /\ BytesBefore(p.entity, q.entity)
        sorted == SetToSortSeq(wanted, InOrder)
    IN  ScanPrefix(table, ix, values) = [i \in DOMAIN sorted |-> sorted[i].entity]

(* The table holds the nodes, the links and the entries that were posted,  *)
(* and nothing else: dropping an index leaves the entries of its           *)
(* neighbours, and no link outlives its object (delete_all,                *)
(* take_object_children).                                                  *)
TableHoldsTheEntries ==
  DOMAIN table =
    {EncodeKey(e.key) : e \in IntoEntries(mem)}
      \cup {EncodeKey(EntryKey(p.index, p.values, p.entity)) : p \in posted}

(* A read of a node, of a link, or of the links of an object gives the     *)
(* same from the table, from the nodes in memory and from their blob: the  *)
(* tree functions cannot tell the stores apart (ReadNodes).                *)
StoresAgree ==
  LET blob == IntoBlob(mem)
  IN  \A k \in Skeys :
        /\ TableFetch(table, DataKey(k)) = MemFetch(mem, DataKey(k))
        /\ mem # <<>> => ArchFetch(blob, DataKey(k)) = MemFetch(mem, DataKey(k))
        /\ TableChildren(table, k) = MemChildren(mem, k)
        /\ ObjectChildren(ArchScan(blob, ChildKey(k, <<>>)), k) = MemChildren(mem, k)
        /\ \A n \in FieldNames :
             /\ TableFetch(table, ChildKey(k, n)) = MemFetch(mem, ChildKey(k, n))
             /\ ArchFetch(blob, ChildKey(k, n)) = MemFetch(mem, ChildKey(k, n))

(* A blob decodes to the nodes it was made of, and a leaf written into it, *)
(* in place or not, gives the blob of the nodes with that leaf             *)
(* (put_scalar_into_packed).                                               *)
PatchedBlobIsReencoded ==
  /\ mem # <<>> => FromBlob(IntoBlob(mem)) = mem
  /\ \A k \in DOMAIN mem : mem[k].kind = "leaf" =>
       \A s \in LeafScalars :
         PutIntoBlob(IntoBlob(mem), k, s) = IntoBlob([mem EXCEPT ![k] = LeafNode(s)])
=============================================================================
