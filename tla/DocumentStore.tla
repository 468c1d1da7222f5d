--------------------------- MODULE DocumentStore ---------------------------
(***************************************************************************)
(* What a write transaction promises about the table it changes: each call *)
(* does to the table's document what its path says and nothing else.  A    *)
(* call that fails leaves the document as it was, but for an empty         *)
(* container it may have created on the way.                               *)
(***************************************************************************)
EXTENDS Documents

CONSTANTS
  Paths,     \* the paths calls are given
  Stored,    \* the documents calls store
  Batches    \* the batches of <<path, document>> pairs

VARIABLES
  doc,       \* the table's document, or Nowhere
  failed,    \* a call of this transaction has failed
  call       \* the last call

vars == <<doc, failed, call>>

Init == doc = Nowhere /\ failed = FALSE /\ call = NoCall

(* A document written at p, by a put or a store.                           *)
Write(op, p, d) ==
  /\ call' = Call(op, p, d)
  /\ Fits(doc, p)
  /\ doc' = With(doc, p, d)
  /\ UNCHANGED failed

Delete(p) ==
  /\ call' = Call("remove", p, Nowhere)
  /\ doc' = Without(doc, p)
  /\ UNCHANGED failed

(* An accessor opened at p changes nothing.                                *)
Open(p) ==
  /\ call' = Call("open", p, Nowhere)
  /\ UNCHANGED <<doc, failed>>

(* The container at p, emptied.                                            *)
Clear(p) ==
  /\ call' = Call("clear", p, Nowhere)
  /\ IsContainer(At(doc, p))
  /\ doc' = With(doc, p, Container(Is(At(doc, p), "list")))
  /\ UNCHANGED failed

(* The list at p, with d as a new element at some position.                *)
Insert(p, d) ==
  LET items == At(doc, p).items
  IN  /\ Is(At(doc, p), "list")
      /\ \E i \in 0..Len(items) :
           /\ call' = Call("insert", p, <<i, d>>)
           /\ doc' = With(doc, p, List(InsertAt(items, i + 1, d)))
      /\ UNCHANGED failed

(* The list at p, with two elements exchanged.                             *)
Swap(p) ==
  LET items == At(doc, p).items
  IN  /\ Is(At(doc, p), "list")
      /\ \E i, j \in 0..Len(items) - 1 :
           /\ call' = Call("swap", p, <<i, j>>)
           /\ doc' = With(doc, p, List(SwapIn(items, i, j)))
      /\ UNCHANGED failed

(* The list at p with some elements gone, or the object with some fields   *)
(* gone; the others keep their order.                                      *)
Retain(p) ==
  LET d == At(doc, p)
  IN  /\ call' = Call("retain", p, Nowhere)
      /\ \/ /\ Is(d, "list")
            /\ \E n \in 0..Len(d.items) : \E from \in [1..n -> DOMAIN d.items] :
                 /\ \A x, y \in 1..n : x < y => from[x] < from[y]
                 /\ doc' = With(doc, p, List([x \in 1..n |-> d.items[from[x]]]))
         \/ /\ Is(d, "object")
            /\ \E kept \in SUBSET DOMAIN d.fields :
                 doc' = With(doc, p, Object([n \in kept |-> d.fields[n]]))
      /\ UNCHANGED failed

(* An element of the list at p gone, the last one in its place.            *)
SwapRemove(p) ==
  LET items == At(doc, p).items
  IN  /\ Is(At(doc, p), "list")
      /\ \E i \in 0..Len(items) - 1 :
           /\ call' = Call("swap_remove", p, i)
           /\ doc' = With(doc, p, List(Front(SwapIn(items, i, Len(items) - 1))))
      /\ UNCHANGED failed

(* What d may be after a write at p that does not fit.                     *)
Stopped(d, p) ==
  {d} \cup {With(d, Prefix(p, i), Container(IsIndex(p[i + 1]))) :
              i \in {x \in 0..Len(p) - 1 : At(d, Prefix(p, x)) = Nowhere
                                            /\ Fits(d, Prefix(p, x))}}

(* A write that does not fit.                                              *)
Fail(op, p, d) ==
  /\ call' = Call(op, p, d)
  /\ ~Fits(doc, p)
  /\ failed' = TRUE
  /\ doc' \in Stopped(doc, p)

(* Stores(d, items)[n]: the document after the first n pairs.              *)
Stores(d, items) ==
  LET D[n \in 0..Len(items)] ==
        IF n = 0 THEN d ELSE With(D[n - 1], items[n][1], items[n][2])
  IN  D

(* "Exactly that of storing each pair in order", up to the first that does *)
(* not fit.                                                                *)
Batch(items) ==
  LET after   == Stores(doc, items)
      fits(n) == \A x \in 1..n : Fits(after[x - 1], items[x][1])
      next(n) == items[n + 1][1]
  IN  /\ call' = Call("batch", <<>>, items)
      /\ \/ /\ fits(Len(items))
            /\ doc' = after[Len(items)]
            /\ UNCHANGED failed
         \/ \E n \in 0..Len(items) - 1 :
              /\ fits(n) /\ ~Fits(after[n], next(n))
              /\ doc' \in Stopped(after[n], next(n))
              /\ failed' = TRUE

OneCall ==
  \E p \in Paths :
    \/ \E d \in Stored \cup {Leaf(v) : v \in Values}, op \in {"put", "store"} :
         Write(op, p, d) \/ Fail(op, p, d)
    \/ Delete(p) \/ Open(p) \/ Clear(p) \/ Swap(p) \/ Retain(p) \/ SwapRemove(p)
    \/ \E d \in Stored : Insert(p, d)

Next == OneCall \/ \E items \in Batches : Batch(items)

Spec == Init /\ [][Next]_vars
=============================================================================
