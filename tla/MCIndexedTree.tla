--------------------------- MODULE MCIndexedTree ---------------------------
(***************************************************************************)
(* Small instances of IndexedTree for TLC: an object or a list under the   *)
(* entry a, whose children are entities.                                   *)
(***************************************************************************)
EXTENDS IndexedTree

CONSTANTS a, c

A == Name(a)

MCPaths == {<<A>>, <<A, Index(0)>>, <<A, Name(c)>>}

\* a leaf, entities with a column, a list of two entities
MCStored == {Leaf(1), List(<<Leaf(1), Leaf(2)>>)}
              \cup {Object(c :> Leaf(v)) : v \in Values}

\* two entities, of a list and of an object, and one entity twice
MCBatches ==
  {<< <<<<A, Index(0)>>, Leaf(1)>>, <<<<A, Name(c)>>, Object(c :> Leaf(1))>> >>,
   << <<<<A, Name(c)>>, Leaf(2)>>, <<<<A, Name(c)>>, Leaf(1)>> >>}

Column(p, desc) == [path |-> p, desc |-> desc]

\* the entries of a, unique, by themselves and their field c; a, by its
\* field c; the first element of a, by itself
EachOfA == [name |-> "each", pattern |-> <<Lit(A), Star>>, unique |-> TRUE,
            columns |-> <<Column(<<>>, TRUE), Column(<<Name(c)>>, FALSE)>>]
WholeA  == [name |-> "whole", pattern |-> <<Lit(A)>>, unique |-> FALSE,
            columns |-> <<Column(<<Name(c)>>, FALSE)>>]
HeadOfA == [name |-> "head", pattern |-> <<Lit(A), Lit(Index(0))>>, unique |-> FALSE,
            columns |-> <<Column(<<>>, FALSE)>>]

MCDefs == {EachOfA, WholeA}
MCEach == {EachOfA}
MCWhole == {WholeA}
MCHead == {HeadOfA}

\* states that differ in the last call only are the same state
MCView == <<node, link, shredded, failed, indexes, posting, tracked>>
=============================================================================
