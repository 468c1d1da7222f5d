----------------------------- MODULE StoredTree -----------------------------
(***************************************************************************)
(* What one committed version of a table holds, as far as a read can tell: *)
(* the links from a container to its children and the node at every key.   *)
(* A packed node keeps its whole subtree in one blob and has no links.     *)
(*                                                                         *)
(* Paths have one or two segments.  Two are enough for everything a cached *)
(* read distinguishes: a path that lands on an entity, a path that goes on *)
(* inside a packed entity, and a hop from a container to its child.        *)
(***************************************************************************)
EXTENDS Sequences, Naturals

CONSTANTS
  Keys,      \* node keys other than the root's
  ROOT,      \* the fixed key of the root node
  NoKey,     \* None, where the code has Option<Skey>
  Names,     \* field names
  Values     \* what a leaf or a decoded blob holds

ASSUME KeysAreDistinct == /\ ROOT \notin Keys
                          /\ NoKey \notin Keys \cup {ROOT}

TopPaths == {<<n>> : n \in Names}
SubPaths == {<<n, m>> : n \in Names, m \in Names}
Paths    == TopPaths \cup SubPaths

Node  == [kind : {"plain", "packed"}, val : Values]
Link  == [(Keys \cup {ROOT}) \X Names -> Keys \cup {NoKey}]
Store == [link : Link, node : [Keys -> Node]]

IsPacked(s, k) == s.node[k].kind = "packed"

(* A packed entity is terminal: what is below it lives in its blob only.   *)
PackedIsTerminal(s) ==
  \A k \in Keys : IsPacked(s, k) => \A n \in Names : s.link[<<k, n>>] = NoKey

------------------------------------------------------------------------------

(* One hop of the walk: the child of container k named n, if any.          *)
ChildKey(s, k, n) == s.link[<<k, n>>]

(* The key a path lands on, walking links only.                            *)
Resolve(s, p) ==
  LET top == ChildKey(s, ROOT, p[1])
  IN  IF Len(p) = 1 \/ top = NoKey THEN top ELSE ChildKey(s, top, p[2])

Missing == [key |-> NoKey, rel |-> <<>>]

(* Where a path lands, stopping at the first packed entity on the way: its *)
(* key and the rest of the path, to be followed inside the blob.           *)
Locate(s, p) ==
  LET top == ChildKey(s, ROOT, p[1])
      sub == ChildKey(s, top, p[2])
  IN  IF top = NoKey THEN Missing
      ELSE IF Len(p) = 1 THEN [key |-> top, rel |-> <<>>]
      ELSE IF IsPacked(s, top) THEN [key |-> top, rel |-> <<p[2]>>]
      ELSE IF sub = NoKey THEN Missing
      ELSE [key |-> sub, rel |-> <<>>]

------------------------------------------------------------------------------

(* What a read of a path yields: nothing, or the part of a node's content  *)
(* that the rest of the path selects.                                      *)
Absent == [found |-> FALSE]
Found(v, rel) == [found |-> TRUE, val |-> v, rel |-> rel]

View(s, p) ==
  LET at == Locate(s, p)
  IN  IF at.key = NoKey THEN Absent ELSE Found(s.node[at.key].val, at.rel)
=============================================================================
