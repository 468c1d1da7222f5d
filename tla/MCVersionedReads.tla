-------------------------- MODULE MCVersionedReads --------------------------
(***************************************************************************)
(* Small instances of VersionedReads for TLC: one entity name and four     *)
(* versions that differ in what a cache could get wrong.                   *)
(***************************************************************************)
EXTENDS VersionedReads, TLC

CONSTANTS k1, k2, n1, v1, v2

Tree(links, nodes) ==
  [link |-> [l \in (Keys \cup {ROOT}) \X Names |->
               IF l \in DOMAIN links THEN links[l] ELSE NoKey],
   node |-> [k \in Keys |->
               IF k \in DOMAIN nodes THEN nodes[k]
               ELSE [kind |-> "plain", val |-> v1]]]

Packed(v) == [kind |-> "packed", val |-> v]
Plain(v)  == [kind |-> "plain", val |-> v]

\* nothing stored; an entity packed; the same key with another blob; the
\* same key spilled to a plain container with a leaf below it
Empty    == Tree(<<>>, <<>>)
PackedV1 == Tree(<<ROOT, n1>> :> k1, k1 :> Packed(v1))
PackedV2 == Tree(<<ROOT, n1>> :> k1, k1 :> Packed(v2))
Spilled  == Tree(<<ROOT, n1>> :> k1 @@ <<k1, n1>> :> k2,
                 k1 :> Plain(v2) @@ k2 :> Plain(v1))

MCStores == {Empty, PackedV1, PackedV2, Spilled}
=============================================================================
