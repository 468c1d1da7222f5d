--------------------------- MODULE ValueDocument ---------------------------
(***************************************************************************)
(* The dynamic document in memory, Value (value.rs), whose nodes are the   *)
(* documents of Documents: what its calls do to it.                        *)
(***************************************************************************)
EXTENDS Documents, TLC

CONSTANT NullValue  \* the leaf that holds no value

Applied(d)  == [applied |-> TRUE, doc |-> d]
NotApplied(d) == [applied |-> FALSE, doc |-> d]

\* mutant: any position starts a list
BuildFresh_AnyIndex(segs, d) ==
  LET n == Len(segs)
      B[i \in 0..n] == IF i = 0 THEN d
                       ELSE SetKid(Container(IsIndex(segs[n - i + 1])),
                                   IF IsIndex(segs[n - i + 1]) THEN Index(0) ELSE segs[n - i + 1],
                                   B[i - 1])
  IN  B[n]

(* build_fresh: d in new containers, or Nowhere: a new list starts at 0.   *)
BuildFresh(segs, d) ==
  LET n == Len(segs)
      B[i \in 0..n] == IF i = 0 THEN d
                       ELSE SetKid(Container(IsIndex(segs[n - i + 1])), segs[n - i + 1], B[i - 1])
  IN  IF \E i \in DOMAIN segs : IsIndex(segs[i]) /\ segs[i].index # 0 THEN Nowhere
      ELSE B[n]

(* set_in: from the end of the path, what becomes of the part that the     *)
(* first i segments lead to; the first missing part is built afresh.       *)
SetIn(target, segs, d) ==
  LET n     == Len(segs)
      along == Along(target, segs)
      there(i) == along[i] # Nowhere
      last  == CHOOSE i \in 0..n : there(i) /\ \A j \in i + 1..n : ~there(j)
      rest  == BuildFresh(SubSeq(segs, last + 2, n), d)
      part  == IF last = n THEN d
               ELSE IF ~Takes(along[last], segs[last + 1]) \/ rest = Nowhere THEN Nowhere
               ELSE SetKid(along[last], segs[last + 1], rest)
      Up[i \in 0..last] ==
        IF i = last THEN part ELSE SetKid(along[i], segs[i + 1], Up[i + 1])
  IN  IF part = Nowhere THEN NotApplied(target) ELSE Applied(Up[0])

(* Value::subtree, get_value.                                              *)
Subtree(d, segs) ==
  LET S[i \in 0..Len(segs)] == IF i = 0 THEN d ELSE Kid(S[i - 1], segs[i])
  IN  S[Len(segs)]

(* Value::clear.                                                           *)
Clear(d) == IF IsContainer(d) THEN Container(d.kind = "list") ELSE Leaf(NullValue)

(* Value::push, insert, remove_at, remove_key: nothing on another kind.    *)
Push(d, x)      == IF Is(d, "list") THEN List(Append(d.items, x)) ELSE d
Insert(d, n, x) == IF Is(d, "object") THEN SetKid(d, Name(n), x) ELSE d
RemoveKid(d, seg) == IF Kid(d, seg) = Nowhere THEN d ELSE DropKid(d, seg)

\* mutant: what is there already stays
Merge_Keeps(d, with) ==
  IF Is(d, "list") THEN List(d.items \o (IF Is(with, "list") THEN with.items ELSE <<with>>))
  ELSE IF Is(d, "object") /\ Is(with, "object") THEN Object(d.fields @@ with.fields)
  ELSE with

(* Value::merge.                                                           *)
Merge(d, with) ==
  IF Is(d, "list") THEN List(d.items \o (IF Is(with, "list") THEN with.items ELSE <<with>>))
  ELSE IF Is(d, "object") /\ Is(with, "object") THEN Object(with.fields @@ d.fields)
  ELSE with

------------------------------------------------------------------------------

(* set_value applies where a write to the table would, and gives the       *)
(* document the table would hold; it destroys nothing on the way, and what *)
(* was set is what is read there ("never silently destroy data along the   *)
(* way", value.rs:10-12).                                                  *)
SetsLikeTheTable(d, path, x) ==
  LET set == SetIn(d, path, x)
  IN  /\ set.applied = Fits(d, path)
      /\ set.doc = IF set.applied THEN With(d, path, x) ELSE d
      /\ set.applied => Subtree(set.doc, path) = x

(* Merging documents of one kind of container is putting each part of the  *)
(* second into the first: an entry at its name, an element at the end      *)
(* (Value::merge).                                                         *)
MergesPartByPart(d, with) ==
  LET put(acc, seg) == SetIn(acc, <<IF IsIndex(seg) THEN Index(Len(acc.items)) ELSE seg>>,
                             Kid(with, seg)).doc
  IN  IsContainer(d) /\ IsContainer(with) /\ d.kind = with.kind =>
        Merge(d, with) = FoldLeft(put, d, Segments(with))
=============================================================================
