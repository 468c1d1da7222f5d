----------------------------- MODULE MCNodeTree -----------------------------
(***************************************************************************)
(* Small instances of NodeTree for TLC: paths of up to two segments, over  *)
(* one or two field names and the first two list positions.                *)
(***************************************************************************)
EXTENDS NodeTree

CONSTANTS a, v1, v2

MCPaths == {<<>>, <<Name(a)>>, <<Index(0)>>} \cup
             {<<Name(a), x>> : x \in {Name(a), Index(0), Index(1)}}

\* no index, or one that reaches below the entry a
MCSchemas == {{}, {<<Name(a)>>}}

\* a leaf, an object with one field, a list of one element, an empty list
MCStored == {Leaf(v1), Object(a :> Leaf(v1)), List(<<Leaf(v2)>>), EmptyList}

\* siblings under one parent; one path twice; a root that cannot be both kinds
MCBatches ==
  LET at(seg) == <<Name(a), seg>>
      object  == Object(a :> Leaf(v1))
  IN  {<< <<at(Index(0)), object>>, <<at(Index(1)), Leaf(v2)>> >>,
       << <<at(Name(a)), Leaf(v1)>>, <<at(Name(a)), object>> >>,
       << <<at(Name(a)), Leaf(v1)>>, <<<<Index(0)>>, object>> >>,
       << <<<<Name(a)>>, object>> >>}

\* states that differ in the last call only are the same state
MCView == <<node, link, shredded, failed>>
=============================================================================
