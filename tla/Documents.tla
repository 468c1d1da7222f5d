----------------------------- MODULE Documents -----------------------------
(***************************************************************************)
(* The tree a table holds, as its user sees it: a document is a leaf, an   *)
(* object (field names to documents) or a list (a sequence of documents),  *)
(* and a path of field names and list positions leads to a part of it.     *)
(*                                                                         *)
(* The operators say what reading and writing at a path mean.  They walk   *)
(* the path with functions over its positions: none of them is recursive   *)
(* over documents.                                                         *)
(***************************************************************************)
EXTENDS Naturals, SequencesExt

CONSTANTS
  Names,     \* field names
  Values,    \* what a leaf holds
  Nowhere    \* the document at a path that leads nowhere

Leaf(v)     == [kind |-> "leaf", val |-> v]
Object(f)   == [kind |-> "object", fields |-> f]
List(s)     == [kind |-> "list", items |-> s]
EmptyObject == Object(<<>>)
EmptyList   == List(<<>>)

Container(isList) == IF isList THEN EmptyList ELSE EmptyObject

(* Whether d is there and of some kind.                                    *)
Is(d, kind)    == d # Nowhere /\ d.kind = kind
IsContainer(d) == Is(d, "object") \/ Is(d, "list")

(* A segment of a path: a field name, or a list position (from 0).         *)
Segment      == [name : Names] \cup [index : Nat]
Name(n)      == [name |-> n]
Index(i)     == [index |-> i]
IsIndex(seg) == "index" \in DOMAIN seg
IsName(seg)  == ~IsIndex(seg)

Prefix(p, i) == SubSeq(p, 1, i)

(* The part of d that a segment names.                                     *)
Kid(d, seg) ==
  IF Is(d, "object") /\ IsName(seg) /\ seg.name \in DOMAIN d.fields
  THEN d.fields[seg.name]
  ELSE IF Is(d, "list") /\ IsIndex(seg) /\ seg.index < Len(d.items)
  THEN d.items[seg.index + 1] ELSE Nowhere

(* The segments that name the parts of d, lists from the front.            *)
Segments(d) ==
  IF Is(d, "list") THEN [x \in DOMAIN d.items |-> Index(x - 1)]
  ELSE IF Is(d, "object") THEN SetToSeq({Name(n) : n \in DOMAIN d.fields})
  ELSE <<>>

(* Whether d may be given a part named seg: it is a container of the right *)
(* kind, and a position is at most the one after the last.                 *)
Takes(d, seg) ==
  IF IsName(seg) THEN Is(d, "object")
  ELSE Is(d, "list") /\ seg.index <= Len(d.items)

SetKid(d, seg, part) ==
  IF IsName(seg)
  THEN Object([n \in DOMAIN d.fields \cup {seg.name} |->
                 IF n = seg.name THEN part ELSE d.fields[n]])
  ELSE List([x \in DOMAIN d.items \cup {seg.index + 1} |->
               IF x = seg.index + 1 THEN part ELSE d.items[x]])

DropKid(d, seg) ==
  IF IsName(seg)
  THEN Object([n \in DOMAIN d.fields \ {seg.name} |-> d.fields[n]])
  ELSE List(RemoveAt(d.items, seg.index + 1))

(* What was asked of a table: the operation, its path and what it was      *)
(* given.                                                                  *)
Call(op, p, arg) == [op |-> op, path |-> p, arg |-> arg]
NoCall == Call("none", <<>>, Nowhere)

------------------------------------------------------------------------------

(* Along(d, p)[i]: what the first i segments of p lead to.                 *)
Along(d, p) ==
  LET A[i \in 0..Len(p)] == IF i = 0 THEN d ELSE Kid(A[i - 1], p[i])
  IN  A

At(d, p) == Along(d, p)[Len(p)]

(* The container a write goes through after i segments of p: the one that  *)
(* is there, or a new one of the kind the next segment asks for.           *)
Through(d, p, i) ==
  LET there == Along(d, p)[i]
  IN  IF there = Nowhere THEN Container(IsIndex(p[i + 1])) ELSE there

(* Whether something can be written at p: nothing on the way is of the     *)
(* wrong kind, and no position is beyond the end.                          *)
Fits(d, p) == \A i \in 0..Len(p) - 1 : Takes(Through(d, p, i), p[i + 1])

(* d with part at p, whatever was there before, and with new containers    *)
(* on the way where there were none.                                       *)
With(d, p, part) ==
  LET n == Len(p)
      W[j \in 0..n] ==
        IF j = 0 THEN part
        ELSE SetKid(Through(d, p, n - j), p[n - j + 1], W[j - 1])
  IN  W[n]

(* d without what is at p; the list elements after it move up.             *)
Without(d, p) ==
  IF At(d, p) = Nowhere THEN d
  ELSE IF p = <<>> THEN Nowhere
  ELSE With(d, Front(p), DropKid(At(d, Front(p)), Last(p)))

(* The list elements of d in another order: element i taken out and put    *)
(* back at j, or at the end; elements i and j exchanged.                   *)
MoveIn(items, i, j) ==
  LET rest == RemoveAt(items, i + 1)
      to   == IF j <= Len(rest) THEN j ELSE Len(rest)
  IN  InsertAt(rest, to + 1, items[i + 1])

SwapIn(items, i, j) ==
  [items EXCEPT ![i + 1] = items[j + 1], ![j + 1] = items[i + 1]]
=============================================================================
