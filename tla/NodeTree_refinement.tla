--------------------------- MODULE NodeTree_refinement ---------------------------
(***************************************************************************)
(* The write transaction implements DocumentStore: each call does to the    *)
(* document of the table what the abstract specification says of its path,  *)
(* and so does a batch.                                                     *)
(***************************************************************************)
EXTENDS NodeTree_documents

(* The entity that a path leads to or into: the first m segments lead to   *)
(* it past nodes that are not packed, the rest leads on in its blob.       *)
EntityOn(s, p, at, m) ==
  /\ m \in 0..Len(p) /\ at.key = Walk(s, ROOT, p)[m] /\ at.rel = SubSeq(p, m + 1, Len(p))
  /\ HasKind(s, at.key, "packed")
  /\ \A i \in 0..m - 1 : ~HasKind(s, Walk(s, ROOT, p)[i], "packed")

(* What tree::locate finds when it finds an entity.                        *)
LEMMA EntityFound ==
  ASSUME NEW s, Tree(s), NEW p \in Seq(Segment), Locate(s, p).at = "packed"
  PROVE  \E m \in 0..Len(p) : EntityOn(s, p, Locate(s, p), m)
  <1> DEFINE n == Len(p)
             w == Walk(s, ROOT, p)
             packed == {i \in 0..n : HasKind(s, w[i], "packed")}
             lost == {i \in 0..n : ~Live(s, w[i])}
             at == Locate(s, p)
             m == Min(packed)
  <1>1. n \in Nat
    BY LenProperties
  <1>2. at = IF packed # {} /\ \A i \in lost : m < i
             THEN [at |-> "packed", key |-> w[m], rel |-> SubSeq(p, m + 1, n)]
             ELSE IF lost = {} THEN [at |-> "plain", key |-> w[n]]
             ELSE Missing
    BY DEF Locate, PlaceOn
  <1>3. at.at = "packed"
    OBVIOUS
  <1>4. packed # {} /\ at = [at |-> "packed", key |-> w[m], rel |-> SubSeq(p, m + 1, n)]
    <2> HIDE DEF packed, lost, at, w, m
    <2> QED  BY <1>2, <1>3 DEF Missing
  <1>5. m \in packed /\ \A i \in packed : m <= i
    <2>1. packed \in SUBSET Nat
      BY <1>1
    <2> HIDE DEF packed
    <2> QED  BY <1>4, <2>1, LeastIn
  <1> HIDE DEF m
  <1>6. m \in 0..n /\ HasKind(s, w[m], "packed")
    BY <1>5
  <1>7. \A i \in 0..m - 1 : ~HasKind(s, w[i], "packed")
    <2> SUFFICES ASSUME NEW i \in 0..m - 1 PROVE i \notin packed
      BY <1>1, <1>6
    <2>1. ~(m <= i)
      BY <1>1, <1>6
    <2> HIDE DEF packed
    <2> QED  BY <1>5, <2>1
  <1>8. at.key = w[m] /\ at.rel = SubSeq(p, m + 1, n)
    <2> HIDE DEF at, w, n
    <2> QED  BY <1>4
  <1> HIDE DEF at, w
  <1>9. EntityOn(s, p, at, m)
    BY <1>6, <1>7, <1>8 DEF EntityOn, w
  <1> QED  BY <1>6, <1>9 DEF at

(* The way to an entity, and the document there.                           *)
LEMMA EntityWay ==
  ASSUME NowhereApart, NEW s, Tree(s), NEW p \in Seq(Segment), NEW at, NEW m \in 0..Len(p),
         EntityOn(s, p, at, m)
  PROVE  LET k == at.key
             q == Prefix(p, m)
         IN  /\ k # NoKey /\ k \in Nat \ {ROOT} /\ Reached(s, k) /\ Flat(s.node[k].doc)
             /\ \A tag \in Segment : ChildKey(s, k, tag) = NoKey
             /\ q \in Seq(Segment) /\ ResolveFrom(s, ROOT, q) = k
             /\ DocUnder(s, k) = s.node[k].doc
             /\ Along(DocUnder(s, ROOT), p)[m] = s.node[k].doc
             /\ at.rel \in Seq(Segment) /\ Len(at.rel) = Len(p) - m
  <1> DEFINE k == at.key
             q == Prefix(p, m)
             w == Walk(s, ROOT, p)
  <1>1. HasKind(s, k, "packed") /\ k = w[m] /\ at.rel = SubSeq(p, m + 1, Len(p))
    BY DEF EntityOn
  <1>2. /\ k \in Nat \ {ROOT} /\ Live(s, k) /\ Flat(s.node[k].doc)
        /\ \A tag \in Segment : ChildKey(s, k, tag) = NoKey
    BY <1>1, PackedIsBare
  <1>3. k # NoKey
    BY <1>2 DEF NoKey
  <1>4. q \in Seq(Segment) /\ Len(q) = m /\ \A i \in 1..m : q[i] = p[i]
    BY PrefixIs
  <1>5. Along(DocUnder(s, ROOT), p)[m] = DocUnder(s, w[m]) /\ (w[m] # NoKey => Reached(s, w[m]))
    BY WalkKeepsToDocument DEF EntityOn
  <1>6. ResolveFrom(s, ROOT, q) = k
    <2>1. m \in 0..Len(q) /\ m <= Len(p) /\ m \in 0..m
      BY <1>4
    <2>2. \A i \in 0..m : Walk(s, ROOT, q)[i] = Walk(s, ROOT, p)[i]
      <3> HIDE DEF q
      <3> QED  BY <1>4, <2>1, WalksAlong
    <2> QED  BY <1>1, <1>4, <2>1, <2>2 DEF ResolveFrom
  <1>7. DocUnder(s, k) = s.node[k].doc
    BY <1>1, <1>2, <1>3, <1>5, DocIs
  <1>8. at.rel \in Seq(Segment) /\ Len(at.rel) = Len(p) - m
    BY <1>1, AlongOn
  <1> QED  BY <1>1, <1>2, <1>3, <1>4, <1>5, <1>6, <1>7, <1>8

(* A blob written back: the document changes at the entity's path.         *)
LEMMA BlobWritten ==
  ASSUME NowhereApart, NEW s, Tree(s), NEW p \in Seq(Segment), NEW at, NEW m \in 0..Len(p),
         EntityOn(s, p, at, m), NEW x, Flat(x)
  PROVE  LET t == WriteNode(s, at.key, PackedNode(x))
             q == Prefix(p, m)
         IN  /\ Tree(t) /\ Fits(DocUnder(s, ROOT), q)
             /\ DocUnder(t, ROOT) = With(DocUnder(s, ROOT), q, x)
  <1> DEFINE k == at.key
             q == Prefix(p, m)
             n == PackedNode(x)
             t == WriteNode(s, k, n)
  <1>1. /\ k # NoKey /\ k \in Nat \ {ROOT} /\ Reached(s, k)
        /\ \A tag \in Segment : ChildKey(s, k, tag) = NoKey
        /\ q \in Seq(Segment) /\ ResolveFrom(s, ROOT, q) = k
    BY EntityWay
  <1>2. Bare(n) /\ n.kind = "packed" /\ BareDoc(n) = x
    BY PackedNodeBare DEF BareDoc, PackedNode
  <1> HIDE DEF k, n, q
  <1>3. Tree(t) /\ Confined(s, t, k) /\ DocUnder(t, k) = x
    BY <1>1, <1>2, OverwriteDoc
  <1> HIDE DEF t
  <1>4. DocUnder(t, ROOT) = With(DocUnder(s, ROOT), q, x) /\ Fits(DocUnder(s, ROOT), q)
    BY <1>1, <1>3, Lift
  <1> QED  BY <1>3, <1>4 DEF t, k, q, n

(* A part written into a blob.                                             *)
LEMMA BlobWith ==
  ASSUME NowhereApart, NEW s, Tree(s), NEW p \in Seq(Segment), NEW at, NEW m \in 0..Len(p),
         EntityOn(s, p, at, m), NEW part
  PROVE  LET e == s.node[at.key].doc
             x == With(e, at.rel, part)
             t == WriteNode(s, at.key, PackedNode(x))
             d == DocUnder(s, ROOT)
         IN  /\ Fits(d, p) <=> Fits(e, at.rel)
             /\ Flat(x) => Tree(t) /\ DocUnder(t, ROOT) = With(d, p, part)
  <1> DEFINE e == s.node[at.key].doc
             x == With(e, at.rel, part)
             t == WriteNode(s, at.key, PackedNode(x))
             d == DocUnder(s, ROOT)
             q == Prefix(p, m)
  <1>1. Along(d, p)[m] = e /\ at.rel = SubSeq(p, m + 1, Len(p)) /\ Flat(e)
    <2>1. Along(d, p)[m] = e /\ Flat(e)
      BY EntityWay
    <2>2. at.rel = SubSeq(p, m + 1, Len(p))
      BY DEF EntityOn
    <2> QED  BY <2>1, <2>2
  <1>2. /\ With(d, p, part) = With(d, q, x)
        /\ Fits(d, p) <=> Fits(d, q) /\ Fits(e, at.rel)
    <2> HIDE DEF d, e, q
    <2>1. /\ With(d, p, part) = With(d, Prefix(p, m), With(Along(d, p)[m], SubSeq(p, m + 1, Len(p)), part))
          /\ Fits(d, p) <=> Fits(d, Prefix(p, m)) /\ Fits(Along(d, p)[m], SubSeq(p, m + 1, Len(p)))
      BY WithAlong
    <2> QED  BY <1>1, <2>1 DEF q
  <1>3. Fits(d, q)
    <2>1. EntityOn(s, p, at, m) /\ Flat(e)
      BY <1>1
    <2> HIDE DEF e
    <2> QED  BY <2>1, BlobWritten
  <1>4. ASSUME Flat(x) PROVE Tree(t) /\ DocUnder(t, ROOT) = With(d, q, x)
    <2> HIDE DEF x
    <2> QED  BY <1>4, BlobWritten
  <1> HIDE DEF d, x, q, t
  <1>5. Flat(x) => Tree(t) /\ DocUnder(t, ROOT) = With(d, p, part)
    BY <1>2, <1>4
  <1>6. Fits(d, p) <=> Fits(e, at.rel)
    BY <1>2, <1>3
  <1> QED  BY <1>5, <1>6 DEF d, x, t

(* A blob written back as it was changes nothing.                          *)
LEMMA BlobAgain ==
  ASSUME NowhereApart, NEW s, Tree(s), NEW p \in Seq(Segment), NEW at, NEW m \in 0..Len(p),
         EntityOn(s, p, at, m)
  PROVE  With(DocUnder(s, ROOT), Prefix(p, m), s.node[at.key].doc) = DocUnder(s, ROOT)
  <1> DEFINE k == at.key
             q == Prefix(p, m)
  <1>1. /\ k # NoKey /\ q \in Seq(Segment) /\ ResolveFrom(s, ROOT, q) = k
        /\ DocUnder(s, k) = s.node[k].doc
    BY EntityWay
  <1>2. Confined(s, s, k)
    BY ConfinedSelf
  <1> HIDE DEF k, q
  <1>3. DocUnder(s, ROOT) = With(DocUnder(s, ROOT), q, DocUnder(s, k))
    BY <1>1, <1>2, Lift
  <1> QED  BY <1>1, <1>3 DEF k, q

(* The first segments of a path without its last one, and the rest.        *)
LEMMA FrontSplit ==
  ASSUME NEW p \in Seq(Segment), NEW m \in 0..Len(p), m < Len(p)
  PROVE  LET q == Front(p)
             rest == SubSeq(p, m + 1, Len(p))
         IN  /\ p # <<>> /\ q \in Seq(Segment) /\ m \in 0..Len(q)
             /\ rest \in Seq(Segment) /\ rest # <<>> /\ Last(rest) = Last(p)
             /\ Prefix(q, m) = Prefix(p, m)
             /\ Front(rest) = SubSeq(q, m + 1, Len(q))
             /\ \A i \in 1..m : p[i] = q[i]
  <1> DEFINE q == Front(p)
             rest == SubSeq(p, m + 1, Len(p))
             n == Len(p)
             back == SubSeq(q, m + 1, Len(q))
  <1>1. n \in Nat /\ p # <<>>
    <2>1. n \in Nat /\ n # 0
      BY LenProperties
    <2> QED  BY <2>1, EmptySeq
  <1>2. q \in Seq(Segment) /\ Len(q) = n - 1 /\ (\A i \in 1..n - 1 : q[i] = p[i]) /\ Last(p) = p[n]
    BY <1>1, PathFront
  <1>3. m \in 0..Len(q)
    BY <1>1, <1>2
  <1>4. rest \in Seq(Segment) /\ Len(rest) = n - m /\ \A i \in 1..n - m : rest[i] = p[m + i]
    BY AlongOn
  <1> HIDE DEF q
  <1>5. back \in Seq(Segment) /\ Len(back) = Len(q) - m /\ \A i \in 1..Len(q) - m : back[i] = q[m + i]
    BY <1>2, <1>3, AlongOn
  <1> HIDE DEF rest, back
  <1>6. rest # <<>>
    <2>1. Len(rest) # 0
      BY <1>1, <1>4
    <2> QED  BY <2>1, EmptySeq
  <1>7. /\ Front(rest) \in Seq(Segment) /\ Len(Front(rest)) = Len(rest) - 1
        /\ \A i \in 1..Len(rest) - 1 : Front(rest)[i] = rest[i]
        /\ Last(rest) = rest[Len(rest)]
    BY <1>4, <1>6, PathFront
  <1>8. Last(rest) = Last(p)
    BY <1>1, <1>2, <1>4, <1>7
  <1>9. Front(rest) = back
    <2>1. Len(Front(rest)) = Len(back)
      BY <1>1, <1>2, <1>4, <1>5, <1>7
    <2>2. ASSUME NEW i \in 1..Len(back) PROVE Front(rest)[i] = back[i]
      <3>1. i \in 1..Len(rest) - 1 /\ i \in 1..n - m /\ i \in 1..Len(q) - m /\ m + i \in 1..n - 1
        BY <1>1, <1>2, <1>4, <1>5
      <3> QED  BY <1>2, <1>4, <1>5, <1>7, <3>1
    <2> HIDE DEF n
    <2> QED  BY <1>5, <1>7, <2>1, <2>2, SeqEqual
  <1> DEFINE u == Prefix(q, m)
             v == Prefix(p, m)
  <1>10. u \in Seq(Segment) /\ Len(u) = m /\ \A i \in 1..m : u[i] = q[i]
    BY <1>2, <1>3, PrefixIs
  <1>11. v \in Seq(Segment) /\ Len(v) = m /\ \A i \in 1..m : v[i] = p[i]
    BY PrefixIs
  <1>12. \A i \in 1..m : p[i] = q[i]
    BY <1>1, <1>2
  <1>13. u = v
    <2> HIDE DEF u, v
    <2> QED  BY <1>10, <1>11, <1>12, SeqEqual
  <1> QED  BY <1>1, <1>2, <1>3, <1>4, <1>6, <1>8, <1>9, <1>12, <1>13 DEF q, rest, back

(* A removal is a removal in the part that the first segments lead to.     *)
LEMMA WithoutAlong ==
  ASSUME NEW d, NEW p \in Seq(Segment), NEW m \in 0..Len(p), m < Len(p)
  PROVE  LET e    == Along(d, p)[m]
             rest == SubSeq(p, m + 1, Len(p))
         IN  /\ At(d, p) = At(e, rest)
             /\ At(d, p) # Nowhere =>
                  Without(d, p) = With(d, Prefix(p, m), Without(e, rest))
  <1> DEFINE e    == Along(d, p)[m]
             rest == SubSeq(p, m + 1, Len(p))
             q == Front(p)
             f == Front(rest)
  <1>1. At(d, p) = At(e, rest)
    BY AlongRest
  <1>2. /\ p # <<>> /\ q \in Seq(Segment) /\ m \in 0..Len(q)
        /\ rest \in Seq(Segment) /\ rest # <<>> /\ Last(rest) = Last(p)
        /\ Prefix(q, m) = Prefix(p, m)
        /\ f = SubSeq(q, m + 1, Len(q))
        /\ \A i \in 1..m : p[i] = q[i]
    BY FrontSplit
  <1>3. Along(d, q)[m] = e
    <2>1. m \in 0..m /\ m <= Len(q)
      BY <1>2
    <2> HIDE DEF q
    <2> QED  BY <1>2, <2>1, AlongFront
  <1> HIDE DEF e, rest, q, f
  <1>4. At(d, q) = At(e, f)
    <2>1. At(d, q) = At(Along(d, q)[m], SubSeq(q, m + 1, Len(q)))
      BY <1>2, AlongRest
    <2> QED  BY <1>2, <1>3, <2>1
  <1>5. \A part : With(d, q, part) = With(d, Prefix(p, m), With(e, f, part))
    <2>1. \A part : With(d, q, part)
                    = With(d, Prefix(q, m), With(Along(d, q)[m], SubSeq(q, m + 1, Len(q)), part))
      BY <1>2, WithAlong
    <2> QED  BY <1>2, <1>3, <2>1
  <1>6. ASSUME At(d, p) # Nowhere
        PROVE  Without(d, p) = With(d, Prefix(p, m), Without(e, rest))
    <2>1. Without(d, p) = With(d, q, DropKid(At(d, q), Last(p)))
      BY <1>2, <1>6 DEF Without, q
    <2>2. Without(e, rest) = With(e, f, DropKid(At(e, f), Last(rest)))
      BY <1>1, <1>2, <1>6 DEF Without, f
    <2> QED  BY <1>2, <1>4, <1>5, <2>1, <2>2
  <1> QED  BY <1>1, <1>6 DEF e, rest

(* A removal in a blob.                                                    *)
LEMMA BlobWithout ==
  ASSUME NowhereApart, NEW s, Tree(s), NEW p \in Seq(Segment), NEW at, NEW m \in 0..Len(p),
         EntityOn(s, p, at, m), at.rel # <<>>
  PROVE  LET e == s.node[at.key].doc
             x == Without(e, at.rel)
             t == WriteNode(s, at.key, PackedNode(x))
         IN  Flat(x) => Tree(t) /\ DocUnder(t, ROOT) = Without(DocUnder(s, ROOT), p)
  <1> DEFINE e == s.node[at.key].doc
             rel == at.rel
             x == Without(e, rel)
             t == WriteNode(s, at.key, PackedNode(x))
             d == DocUnder(s, ROOT)
             q == Prefix(p, m)
  <1>1. /\ Along(d, p)[m] = e /\ Flat(e)
        /\ rel \in Seq(Segment) /\ Len(rel) = Len(p) - m
    BY EntityWay
  <1>2. rel = SubSeq(p, m + 1, Len(p))
    BY DEF EntityOn
  <1>3. m < Len(p)
    <2>1. Len(rel) # 0 /\ Len(rel) \in Nat
      BY <1>1, EmptySeq, LenProperties
    <2>2. Len(p) \in Nat
      BY LenProperties
    <2> HIDE DEF rel
    <2> QED  BY <1>1, <2>1, <2>2
  <1>4. ASSUME Flat(x) PROVE Tree(t) /\ DocUnder(t, ROOT) = With(d, q, x)
    <2> HIDE DEF x
    <2> QED  BY <1>4, BlobWritten
  <1>5. With(d, q, e) = d
    BY BlobAgain
  <1>6. /\ At(d, p) = At(e, rel)
        /\ At(d, p) # Nowhere => Without(d, p) = With(d, q, x)
    <2> HIDE DEF d, e, rel
    <2>1. LET ee == Along(d, p)[m]
              rest == SubSeq(p, m + 1, Len(p))
          IN  /\ At(d, p) = At(ee, rest)
              /\ At(d, p) # Nowhere => Without(d, p) = With(d, Prefix(p, m), Without(ee, rest))
      BY <1>3, WithoutAlong
    <2> QED  BY <1>1, <1>2, <2>1
  <1>7. With(d, q, x) = Without(d, p)
    <2> HIDE DEF d, e, rel, q
    <2>1. CASE At(d, p) = Nowhere
      BY <1>5, <1>6, <2>1 DEF Without
    <2>2. CASE At(d, p) # Nowhere
      BY <1>6, <2>2
    <2> QED  BY <2>1, <2>2
  <1> HIDE DEF d, x, q, t
  <1>8. Flat(x) => Tree(t) /\ DocUnder(t, ROOT) = Without(d, p)
    BY <1>4, <1>7
  <1> QED  BY <1>8 DEF d, x, t

(* The blob of an entity below the root, and how much of the path is left. *)
LEMMA TableEntity ==
  ASSUME NowhereApart, Tree(Table), NEW p \in Seq(Segment), Len(p) <= 2,
         Locate(Table, p).at = "packed"
  PROVE  LET at == Locate(Table, p)
         IN  /\ \E m \in 0..Len(p) : EntityOn(Table, p, at, m)
             /\ node[at.key].doc = Table.node[at.key].doc
             /\ Flat(Table.node[at.key].doc)
             /\ at.rel \in Seq(Segment) /\ Len(at.rel) <= 1
  <1> DEFINE at == Locate(Table, p)
             s == Table
  <1>1. PICK m \in 0..Len(p) : EntityOn(s, p, at, m)
    BY EntityFound
  <1>2. node[at.key].doc = s.node[at.key].doc
    BY DEF Table
  <1>3. at.key = Walk(s, ROOT, p)[m] /\ Walk(s, ROOT, p)[0] = ROOT
    BY <1>1, WalkSteps DEF EntityOn
  <1> HIDE DEF at, s
  <1>4. /\ at.key # ROOT /\ Flat(s.node[at.key].doc)
        /\ at.rel \in Seq(Segment) /\ Len(at.rel) = Len(p) - m
    <2>1. Tree(s)
      BY DEF s
    <2> QED  BY <1>1, <2>1, EntityWay
  <1>5. m # 0 /\ Len(p) \in Nat
    BY <1>3, <1>4, LenProperties
  <1>6. Len(at.rel) <= 1
    BY <1>4, <1>5
  <1> QED  BY <1>1, <1>2, <1>4, <1>6 DEF at, s

(* WriteTxn::put_scalar writes a leaf, in the table or in a blob.          *)
LEMMA PutStepWrites ==
  ASSUME NowhereApart, Tree(Table), NEW p \in Seq(Segment), Len(p) <= 2, NEW v \in Values
  PROVE  Writes(Table, p, Leaf(v), PutStep(p, v))
  <1> DEFINE at == Locate(Table, p)
             s == Table
             r == PutStep(p, v)
  <1>1. CASE at.at = "packed"
    <2> DEFINE e == s.node[at.key].doc
               x == With(e, at.rel, Leaf(v))
               t == WriteNode(s, at.key, PackedNode(x))
               d == DocUnder(s, ROOT)
    <2>1. /\ \E m \in 0..Len(p) : EntityOn(s, p, at, m)
          /\ node[at.key].doc = e /\ Flat(e) /\ at.rel \in Seq(Segment) /\ Len(at.rel) <= 1
      BY <1>1, TableEntity
    <2>2. PICK m \in 0..Len(p) : EntityOn(s, p, at, m)
      BY <2>1
    <2>3. r = IF Fits(e, at.rel) THEN Done(t, at.key) ELSE Error(s)
      BY <1>1, <2>1 DEF PutStep, PutAt, EditBlob
    <2> HIDE DEF at, s, r
    <2>4. /\ Fits(d, p) <=> Fits(e, at.rel)
          /\ Flat(x) => Tree(t) /\ DocUnder(t, ROOT) = With(d, p, Leaf(v))
      <3>1. Tree(s)
        BY DEF s
      <3> QED  BY <2>2, <3>1, BlobWith
    <2>5. Fits(e, at.rel) => Flat(x)
      <3> HIDE DEF e
      <3> QED  BY <2>1, FlatWith
    <2>6. d \in Stopped(d, p)
      BY DEF Stopped
    <2> HIDE DEF e, x, t, d
    <2>7. CASE Fits(e, at.rel)
      <3>1. r.ok = TRUE /\ r.s = t
        BY <2>3, <2>7 DEF Done
      <3> QED  BY <2>4, <2>5, <2>7, <3>1 DEF Writes, r, s, d
    <2>8. CASE ~Fits(e, at.rel)
      <3>1. r.ok = FALSE /\ r.s = s
        BY <2>3, <2>8 DEF Error
      <3> QED  BY <2>4, <2>6, <2>8, <3>1 DEF Writes, r, s, d
    <2> QED  BY <2>7, <2>8
  <1>2. CASE at.at # "packed"
    <2>1. NoEntity(s, p, at)
      BY <1>2, PlaceIs DEF ToEntity, IntoEntity, AnEntity
    <2>2. WayClear(s, p)
      BY <2>1, UnpackedFront, RootIsBase DEF NoEntity, WayClear
    <2>3. r = PutScalar(s, ROOT, p, v)
      BY <1>2 DEF PutStep, PutAt
    <2> QED  BY <2>2, <2>3, PutWrites
  <1> QED  BY <1>1, <1>2

(* WriteTxn::remove takes out what is at the path, in the table or in a    *)
(* blob.                                                                   *)
LEMMA RemoveStepDoc ==
  ASSUME NowhereApart, Tree(Table), NEW p \in Seq(Segment), Len(p) <= 2
  PROVE  LET r == RemoveStep(p)
         IN  /\ r.ok = TRUE /\ Tree(r.s)
             /\ DocUnder(r.s, ROOT) = Without(DocUnder(Table, ROOT), p)
  <1> DEFINE at == Locate(Table, p)
             s == Table
             r == RemoveStep(p)
  <1>1. CASE at.at = "packed" /\ at.rel # <<>>
    <2> DEFINE e == s.node[at.key].doc
               x == Without(e, at.rel)
               t == WriteNode(s, at.key, PackedNode(x))
    <2>1. /\ \E m \in 0..Len(p) : EntityOn(s, p, at, m)
          /\ node[at.key].doc = e /\ Flat(e) /\ at.rel \in Seq(Segment) /\ Len(at.rel) <= 1
      BY <1>1, TableEntity
    <2>2. PICK m \in 0..Len(p) : EntityOn(s, p, at, m)
      BY <2>1
    <2>3. r = Done(t, at.key)
      BY <1>1, <2>1 DEF RemoveStep, RemoveIn, EditBlob
    <2> HIDE DEF at, s, r
    <2>4. Flat(x)
      <3> HIDE DEF e
      <3> QED  BY <1>1, <2>1, FlatWithout
    <2>5. Tree(t) /\ DocUnder(t, ROOT) = Without(DocUnder(s, ROOT), p)
      <3>1. Tree(s)
        BY DEF s
      <3> QED  BY <1>1, <2>2, <2>4, <3>1, BlobWithout
    <2> HIDE DEF t
    <2>6. r.ok = TRUE /\ r.s = t
      BY <2>3 DEF Done
    <2> QED  BY <2>5, <2>6 DEF r, s
  <1>2. CASE ~(at.at = "packed" /\ at.rel # <<>>)
    <2>1. NoEntity(s, p, at) \/ ToEntity(s, p, at)
      BY <1>2, PlaceIs DEF IntoEntity, AnEntity
    <2>2. WayClear(s, p)
      BY <2>1, UnpackedFront, RootIsBase DEF NoEntity, ToEntity, WayClear
    <2>3. r = RemovePath(s, p)
      BY <1>2 DEF RemoveStep, RemoveIn
    <2> QED  BY <2>2, <2>3, RemoveDoc
  <1> QED  BY <1>1, <1>2

(* WriteTxn::store writes a document, in place or for the old subtree.     *)
LEMMA StoreStepWrites ==
  ASSUME NowhereApart, ~StoreShifts, ~StoreIntoPacked, Tree(Table), NEW p \in Seq(Segment),
         Len(p) <= 2, MayStore(Table, p), NEW d, Flat(d)
  PROVE  Writes(Table, p, d, StoreStep(p, d))
  <1> DEFINE at == Locate(Table, p)
             s == Table
             r == StoreStep(p, d)
  <1>1. CASE p \notin shredded /\ at.at = "packed" /\ at.rel = <<>>
    <2> DEFINE e == s.node[at.key].doc
               x == With(e, at.rel, d)
               t == WriteNode(s, at.key, PackedNode(x))
               D == DocUnder(s, ROOT)
    <2>1. \E m \in 0..Len(p) : EntityOn(s, p, at, m)
      BY <1>1, TableEntity
    <2>2. PICK m \in 0..Len(p) : EntityOn(s, p, at, m)
      BY <2>1
    <2>3. x = d /\ Fits(e, at.rel)
      <3> HIDE DEF e, at
      <3> QED  BY <1>1, AtNone
    <2>4. r = Done(t, at.key)
      <3>1. r = Done(WriteNode(s, at.key, PackedNode(d)), at.key)
        BY <1>1 DEF StoreStep, StoreOver
      <3> HIDE DEF x
      <3> QED  BY <2>3, <3>1
    <2> HIDE DEF at, s, r
    <2>5. /\ Fits(D, p) <=> Fits(e, at.rel)
          /\ Flat(x) => Tree(t) /\ DocUnder(t, ROOT) = With(D, p, d)
      <3>1. Tree(s)
        BY DEF s
      <3> QED  BY <2>2, <3>1, BlobWith
    <2> HIDE DEF e, x, t, D
    <2>6. r.ok = TRUE /\ r.s = t
      BY <2>4 DEF Done
    <2> QED  BY <2>3, <2>5, <2>6 DEF Writes, r, s, D
  <1>2. CASE ~(p \notin shredded /\ at.at = "packed" /\ at.rel = <<>>)
    <2>1. r = ReplaceIn(s, p, d)
      BY <1>2 DEF StoreStep, StoreOver, Replace
    <2>2. WayClear(s, p) /\ Unshifted(s, p)
      BY MayStoreIs
    <2> QED  BY <2>1, <2>2, ReplaceWrites
  <1> QED  BY <1>1, <1>2

(* tree::unpack_entity keeps the document of the entity.                   *)
LEMMA UnpackDoc ==
  ASSUME NowhereApart, NEW s, Tree(s), NEW k, HasKind(s, k, "packed"), Reached(s, k)
  PROVE  LET t == Unpack(s, k)
         IN  Tree(t) /\ Confined(s, t, k) /\ DocUnder(t, k) = s.node[k].doc
  <1> DEFINE d == s.node[k].doc
  <1>1. /\ k \in Nat /\ k # ROOT /\ Live(s, k) /\ Flat(d)
        /\ \A tag \in Segment : ChildKey(s, k, tag) = NoKey
    BY PackedIsBare
  <1>2. /\ Is(d, "leaf") => Unpack(s, k) = WriteNode(s, k, LeafNode(d.val))
        /\ ~Is(d, "leaf") => Unpack(s, k) = SpillAll(WriteNode(s, k, EmptyNode(Is(d, "list"))), k, d)
    BY DEF Unpack
  <1> HIDE DEF d
  <1>3. CASE Is(d, "leaf")
    <2> DEFINE n == LeafNode(d.val)
               t == WriteNode(s, k, n)
    <2>1. Bare(n) /\ BareDoc(n) = d
      <3>1. d = Leaf(d.val) /\ d.val \in Values
        BY <1>1, <1>3, FlatKinds
      <3> DEFINE v == d.val
      <3>2. d = Leaf(v) /\ v \in Values
        BY <3>1
      <3> HIDE DEF v
      <3>3. Bare(LeafNode(v)) /\ BareDoc(LeafNode(v)) = Leaf(v)
        BY <3>2, LeafNodeBare DEF BareDoc, LeafNode
      <3> QED  BY <3>2, <3>3 DEF v
    <2> HIDE DEF n
    <2>2. Tree(t) /\ Confined(s, t, k) /\ DocUnder(t, k) = d
      BY <1>1, <2>1, OverwriteDoc
    <2> QED  BY <1>2, <1>3, <2>2 DEF n, d
  <1>4. CASE ~Is(d, "leaf")
    <2> DEFINE n == EmptyNode(Is(d, "list"))
               t == WriteNode(s, k, n)
               u == SpillAll(t, k, d)
    <2>1. Bare(n) /\ n.kind = ContainerKind(Is(d, "list"))
      <3>1. Is(d, "list") \in BOOLEAN
        BY DEF Is
      <3> QED  BY <3>1, EmptyNodeBare
    <2>2. Is(d, "list") \/ Is(d, "object")
      BY <1>1, <1>4, FlatKinds
    <2> HIDE DEF n
    <2>3. /\ Tree(t) /\ Confined(s, t, k) /\ Reached(t, k)
          /\ \A tag \in Segment : ChildKey(t, k, tag) = NoKey
          /\ \A kind : HasKind(t, k, kind) <=> n.kind = kind
      BY <1>1, <2>1, OverwriteDoc
    <2>4. HasKind(t, k, ContainerKind(Is(d, "list")))
      BY <2>1, <2>3
    <2> HIDE DEF t
    <2>5. Tree(u) /\ Confined(t, u, k) /\ DocUnder(u, k) = d
      BY <1>1, <2>2, <2>3, <2>4, SpillDoc
    <2> HIDE DEF u
    <2>6. Confined(s, u, k)
      BY <2>3, <2>5, ConfinedOn
    <2> QED  BY <1>2, <1>4, <2>5, <2>6 DEF u, t, n, d
  <1> QED  BY <1>3, <1>4

(* WriteTxn::fetch_mut changes the entries, not the document.              *)
LEMMA OpenedDoc ==
  ASSUME NowhereApart, Tree(Table), NEW p \in Seq(Segment)
  PROVE  Tree(Opened(p)) /\ DocUnder(Opened(p), ROOT) = DocUnder(Table, ROOT)
  <1> DEFINE at == Locate(Table, p)
             s == Table
  <1>1. CASE at.at = "packed"
    <2> DEFINE k == at.key
               t == Unpack(s, k)
    <2>1. Opened(p) = t
      BY <1>1 DEF Opened, OpenedAt
    <2>2. PICK m \in 0..Len(p) : EntityOn(s, p, at, m)
      BY <1>1, EntityFound
    <2> DEFINE q == Prefix(p, m)
    <2> HIDE DEF at, s
    <2>3. Tree(s)
      BY DEF s
    <2>4. /\ k # NoKey /\ Reached(s, k) /\ HasKind(s, k, "packed")
          /\ q \in Seq(Segment) /\ ResolveFrom(s, ROOT, q) = k
          /\ DocUnder(s, k) = s.node[k].doc
      <3>1. HasKind(s, k, "packed")
        BY <2>2 DEF EntityOn
      <3> QED  BY <2>2, <2>3, <3>1, EntityWay
    <2>5. With(DocUnder(s, ROOT), q, s.node[k].doc) = DocUnder(s, ROOT)
      BY <2>2, <2>3, BlobAgain
    <2> HIDE DEF k, q
    <2>6. Tree(t) /\ Confined(s, t, k) /\ DocUnder(t, k) = s.node[k].doc
      BY <2>3, <2>4, UnpackDoc
    <2> HIDE DEF t
    <2>7. DocUnder(t, ROOT) = With(DocUnder(s, ROOT), q, DocUnder(t, k))
      BY <2>3, <2>4, <2>6, Lift
    <2> QED  BY <2>1, <2>5, <2>6, <2>7 DEF s
  <1>2. CASE at.at # "packed"
    BY <1>2 DEF Opened, OpenedAt
  <1> QED  BY <1>1, <1>2

------------------------------------------------------------------------------
(* The accessors                                                           *)


(* The place of an accessor: the container at p, not packed.               *)
Opening(s, p, k) ==
  /\ Tree(s) /\ p \in Seq(Segment) /\ Unpacked(s, ROOT, p)
  /\ k # NoKey /\ k \in Nat /\ ResolveFrom(s, ROOT, p) = k /\ Reached(s, k) /\ Live(s, k)

(* An accessor is at such a place, and of one of the kinds it asked for.   *)
LEMMA OpeningIs ==
  ASSUME NEW s, Tree(s), NEW p \in Seq(Segment),
         NEW kinds \in SUBSET {"object", "list", "leaf"}, NEW k \in Accessor(s, p, kinds)
  PROVE  Opening(s, p, k) /\ \E kind \in kinds : HasKind(s, k, kind)
  BY AccessorIs DEF Opening, HasKind

(* The document of the place of an accessor is at its path.                *)
LEMMA OpeningDoc ==
  ASSUME NowhereApart, NEW s, NEW p, NEW k, Opening(s, p, k)
  PROVE  /\ At(DocUnder(s, ROOT), p) = DocUnder(s, k)
         /\ Fits(DocUnder(s, ROOT), p) /\ Sane(DocUnder(s, ROOT), p)
         /\ DocUnder(s, k) # Nowhere
         /\ ~HasKind(s, k, "packed")
         /\ Is(DocUnder(s, k), "list") <=> HasKind(s, k, "list")
         /\ Is(DocUnder(s, k), "object") <=> HasKind(s, k, "object")
  <1>1. /\ Tree(s) /\ p \in Seq(Segment) /\ Unpacked(s, ROOT, p)
        /\ k # NoKey /\ ResolveFrom(s, ROOT, p) = k /\ Reached(s, k) /\ Live(s, k)
    BY DEF Opening
  <1>2. At(DocUnder(s, ROOT), p) = DocUnder(s, k) /\ Fits(DocUnder(s, ROOT), p)
    BY <1>1, DocAtPath
  <1>3. Sane(DocUnder(s, ROOT), p)
    BY <1>1, DocSane
  <1>4. DocUnder(s, k) # Nowhere
    BY <1>1, DocThere
  <1>5. ~HasKind(s, k, "packed")
    <2>1. Len(p) \in 0..Len(p)
      BY <1>1, LenProperties
    <2> QED  BY <1>1, <2>1 DEF Unpacked, ResolveFrom
  <1>6. /\ Is(DocUnder(s, k), "list") <=> HasKind(s, k, "list")
        /\ Is(DocUnder(s, k), "object") <=> HasKind(s, k, "object")
    BY <1>1, <1>5, DocIs
  <1> QED  BY <1>2, <1>3, <1>4, <1>5, <1>6

(* The root document after a change at the place of an accessor.           *)
LEMMA OpeningLift ==
  ASSUME NowhereApart, NEW s, NEW p, NEW k, Opening(s, p, k),
         NEW t, Tree(t), Confined(s, t, k)
  PROVE  /\ DocUnder(t, ROOT) = With(DocUnder(s, ROOT), p, DocUnder(t, k))
         /\ ResolveFrom(t, ROOT, p) = k /\ Reached(t, k)
  <1>1. /\ Tree(s) /\ p \in Seq(Segment) /\ k # NoKey /\ ResolveFrom(s, ROOT, p) = k
    BY DEF Opening
  <1> QED  BY <1>1, Lift, StillLeads

(* A container without children is empty.                                  *)
LEMMA NoChildren ==
  ASSUME NowhereApart, NEW t, Tree(t), NEW k, Reached(t, k), Live(t, k),
         NEW isList \in BOOLEAN, HasKind(t, k, ContainerKind(isList)),
         \A tag \in Segment : ChildKey(t, k, tag) = NoKey
  PROVE  DocUnder(t, k) = Container(isList)
  <1> DEFINE d == DocUnder(t, k)
             c == Container(isList)
  <1>1. ~HasKind(t, k, "packed")
    BY DEF HasKind, ContainerKind
  <1>2. Proper(d) /\ (Is(d, "object") <=> HasKind(t, k, "object"))
        /\ (Is(d, "list") <=> HasKind(t, k, "list"))
    BY <1>1, DocIs
  <1>3. /\ Proper(c) /\ (Is(c, "list") <=> isList) /\ (Is(c, "object") <=> ~isList)
        /\ \A seg \in Segment : Kid(c, seg) = Nowhere
    BY EmptyContainer
  <1>4. ASSUME NEW seg \in Segment PROVE Kid(d, seg) = Nowhere
    <2>1. Kid(d, seg) = DocUnder(t, ChildKey(t, k, seg))
      BY <1>1, KidOf
    <2>2. DocUnder(t, NoKey) = Nowhere
      BY NoDoc DEF Tree, Sound
    <2> QED  BY <2>1, <2>2
  <1>5. (Is(d, "object") /\ Is(c, "object")) \/ (Is(d, "list") /\ Is(c, "list"))
    <2>1. CASE isList
      BY <1>2, <1>3, <2>1 DEF ContainerKind
    <2>2. CASE ~isList
      BY <1>2, <1>3, <2>2 DEF ContainerKind
    <2> QED  BY <2>1, <2>2
  <1> HIDE DEF d, c
  <1>6. d = c
    BY <1>2, <1>3, <1>4, <1>5, SameKids
  <1> QED  BY <1>6 DEF d, c

(* u is s with the container at k emptied.                                 *)
Cleared(s, u, k) ==
  /\ Tree(u) /\ Confined(s, u, k) /\ k \in DOMAIN u.node
  /\ \A kind : HasKind(u, k, kind) <=> HasKind(s, k, kind)
  /\ \A tag \in Segment : ChildKey(u, k, tag) = NoKey
  /\ \A m \in Nat, tag \in Segment :
       ChildKey(u, m, tag) # NoKey => ChildKey(u, m, tag) = ChildKey(s, m, tag)
  /\ \A m : HasKind(u, m, "packed") => HasKind(s, m, "packed")

(* SeqMut::clear and MapMut::clear remove what is below the container.     *)
LEMMA ClearedIs ==
  ASSUME NEW s, NEW p, NEW k, Opening(s, p, k),
         HasKind(s, k, "object") \/ HasKind(s, k, "list")
  PROVE  LET r == ClearChildren(s, k)
         IN  r.ok = TRUE /\ Cleared(s, r.s, k)
  <1> DEFINE from == Below(s, k)
             gone == Visited(s, from)
             t == DeleteAll(s, from)
             u == EmptyAt(t, k)
             r == ClearChildren(s, k)
  <1>1. Tree(s) /\ Sound(s) /\ Shape(s) /\ k \in Nat /\ k \in DOMAIN s.node /\ Reached(s, k)
    BY DEF Opening, Tree, Sound, Live
  <1>2. from = Refs(s, k)
    BY DEF Below
  <1>3. r = Done(u, k)
    BY <1>2 DEF ClearChildren
  <1>4. r.ok = TRUE /\ r.s = u
    BY <1>3 DEF Done
  <1>5. Tree(u)
    <2>1. Good(s, r)
      BY <1>1, ClearEffect
    <2> HIDE DEF r, u
    <2> QED  BY <1>4, <2>1 DEF Good
  <1>6. from \in SUBSET Nat /\ k \notin gone /\ \A c : c \in from <=> c # NoKey /\ \E seg \in Segment : c = ChildKey(s, k, seg)
    BY <1>1, NotBelowItself, BelowAreChildren
  <1>7. gone \subseteq Visited(s, {k}) /\ k \in Visited(s, {k})
    <2>1. {k} \in SUBSET Nat /\ {k} \subseteq Visited(s, {k})
      BY <1>1, VisitedFrom
    <2>2. from \subseteq Visited(s, {k})
      BY <1>1, <1>6, <2>1, VisitedChild
    <2> HIDE DEF from
    <2> QED  BY <1>1, <2>1, <2>2, VisitedNested
  <1>8. Sound(t) /\ Pruned(s, t, gone)
    <2> HIDE DEF from
    <2> QED  BY <1>1, <1>6, DeleteAllEffect
  <1> HIDE DEF t, gone, from
  <1>9. Emptied(t, u, k)
    <2>1. HasKind(t, k, "object") \/ HasKind(t, k, "list")
      BY <1>6, <1>8 DEF Pruned
    <2> QED  BY <1>8, <2>1, EmptyAtEffect
  <1>10. \A m \in DOMAIN t.node : m # k => u.node[m] = t.node[m]
    BY DEF EmptyAt, WriteNode
  <1> HIDE DEF u, r
  <1>11. ASSUME NEW m \in DOMAIN s.node, m \notin Visited(s, {k}) PROVE SameNode(s, u, m)
    <2>1. m \in Nat /\ m # k /\ m \notin gone /\ m \in DOMAIN t.node
      BY <1>1, <1>7, <1>8, <1>11 DEF Shape, Pruned
    <2>2. /\ m \in DOMAIN u.node /\ u.node[m] = s.node[m]
          /\ \A kind : HasKind(u, m, kind) <=> HasKind(s, m, kind)
          /\ \A tag \in Segment : ChildKey(u, m, tag) = ChildKey(s, m, tag)
      BY <1>8, <1>9, <1>10, <2>1 DEF Pruned, Emptied
    <2> QED  BY <2>2 DEF SameNode
  <1>12. \A tag \in Segment : ChildKey(u, k, tag) = NoKey
    BY <1>1, <1>9 DEF Emptied
  <1>13. Visited(u, {k}) \subseteq {k}
    <2>1. Sound(u) /\ {k} \in SUBSET Nat /\ {k} \subseteq {k}
      BY <1>1, <1>5 DEF Tree
    <2>2. \A m \in {k}, tag \in Segment : ChildKey(u, m, tag) # NoKey => ChildKey(u, m, tag) \in {k}
      BY <1>12
    <2> QED  BY <2>1, <2>2, VisitedWithin
  <1>14. Confined(s, u, k)
    BY <1>7, <1>11, <1>13 DEF Confined
  <1>15. /\ k \in DOMAIN u.node
         /\ \A kind : HasKind(u, k, kind) <=> HasKind(s, k, kind)
    BY <1>1, <1>6, <1>8, <1>9 DEF Pruned, Emptied
  <1>16. /\ \A m \in Nat, tag \in Segment :
              ChildKey(u, m, tag) # NoKey => ChildKey(u, m, tag) = ChildKey(s, m, tag)
         /\ \A m : HasKind(u, m, "packed") => HasKind(s, m, "packed")
    BY <1>8, <1>9 DEF Pruned, Emptied
  <1> QED  BY <1>4, <1>5, <1>12, <1>14, <1>15, <1>16 DEF Cleared, r

(* SeqMut::clear and MapMut::clear leave an empty container.               *)
LEMMA ClearDoc ==
  ASSUME NowhereApart, NEW s, NEW p, NEW k, Opening(s, p, k),
         HasKind(s, k, "object") \/ HasKind(s, k, "list")
  PROVE  LET r == ClearChildren(s, k)
             d == DocUnder(s, ROOT)
         IN  /\ r.ok = TRUE /\ Tree(r.s)
             /\ IsContainer(At(d, p))
             /\ DocUnder(r.s, ROOT) = With(d, p, Container(Is(At(d, p), "list")))
  <1> DEFINE r == ClearChildren(s, k)
             u == r.s
             d == DocUnder(s, ROOT)
             isList == HasKind(s, k, "list")
  <1>4. r.ok = TRUE /\ Cleared(s, u, k)
    BY ClearedIs
  <1> HIDE DEF r, u
  <1>5. Tree(u) /\ Confined(s, u, k) /\ \A tag \in Segment : ChildKey(u, k, tag) = NoKey
    BY <1>4 DEF Cleared
  <1>12. \A tag \in Segment : ChildKey(u, k, tag) = NoKey
    BY <1>5
  <1>15. DocUnder(u, ROOT) = With(d, p, DocUnder(u, k)) /\ Reached(u, k)
    BY <1>5, OpeningLift
  <1>16. /\ k \in DOMAIN u.node
         /\ \A kind : HasKind(u, k, kind) <=> HasKind(s, k, kind)
    BY <1>4 DEF Cleared
  <1>17. isList \in BOOLEAN /\ HasKind(u, k, ContainerKind(isList))
    <2>1. isList \in BOOLEAN
      BY DEF HasKind, Live
    <2> QED  BY <1>16, <2>1 DEF ContainerKind
  <1>18. /\ At(d, p) = DocUnder(s, k)
         /\ Is(DocUnder(s, k), "list") <=> isList
         /\ Is(DocUnder(s, k), "object") <=> HasKind(s, k, "object")
    BY OpeningDoc
  <1>a. Is(DocUnder(s, k), "list") = isList
    BY <1>17, <1>18 DEF Is
  <1> HIDE DEF isList, d
  <1>19. DocUnder(u, k) = Container(isList)
    BY <1>5, <1>12, <1>15, <1>16, <1>17, NoChildren DEF Live
  <1>20. IsContainer(At(d, p))
    BY <1>18 DEF IsContainer, isList
  <1>21. DocUnder(u, ROOT) = With(d, p, Container(Is(At(d, p), "list")))
    BY <1>15, <1>18, <1>a, <1>19
  <1> QED  BY <1>4, <1>5, <1>20, <1>21 DEF r, u, d

(* The document of a list holds those of its elements, in their order.     *)
LEMMA ListDoc ==
  ASSUME NEW s, Tree(s), NEW k, Reached(s, k), HasKind(s, k, "list")
  PROVE  LET items == s.node[k].items
         IN  /\ DocUnder(s, k) = List([x \in 1..Len(items) |-> DocUnder(s, items[x])])
             /\ items \in Seq(Nat \ {ROOT})
             /\ \A x \in 1..Len(items) :
                  /\ Index(x - 1) \in Segment /\ items[x] = ChildKey(s, k, Index(x - 1))
                  /\ items[x] # NoKey /\ items[x] \in DOMAIN s.node /\ Reached(s, items[x])
  <1> DEFINE items == s.node[k].items
  <1>1. /\ Sound(s) /\ Shape(s) /\ k \in DOMAIN s.node /\ k \in Nat
        /\ items \in Seq(Nat \ {ROOT}) /\ s.node[k] = ListNode(items)
    BY ListItems DEF Tree, Sound, HasKind, Live
  <1>2. Len(items) \in Nat /\ DOMAIN items = 1..Len(items)
    BY <1>1, LenProperties
  <1>3. s.node[k].kind = "list"
    BY DEF HasKind
  <1> HIDE DEF items
  <1>4. ASSUME NEW x \in 1..Len(items)
        PROVE  /\ Index(x - 1) \in Segment /\ items[x] = ChildKey(s, k, Index(x - 1))
               /\ items[x] # NoKey /\ items[x] \in DOMAIN s.node /\ Reached(s, items[x])
    <2> DEFINE seg == Index(x - 1)
    <2>1. x - 1 \in Nat /\ x - 1 < Len(items) /\ (x - 1) + 1 = x
      BY <1>2
    <2>2. seg \in Segment /\ ~IsName(seg) /\ seg.index = x - 1
      BY <2>1, IndexSegment
    <2> HIDE DEF seg
    <2>3. ChildKey(s, k, seg) = items[x]
      BY <2>1, <2>2 DEF ChildKey, items
    <2>4. items[x] \in Nat \ {ROOT}
      BY <1>1, ElementOfSeq
    <2>5. items[x] # NoKey
      BY <2>4 DEF NoKey
    <2>6. items[x] \in DOMAIN s.node
      BY <1>1, <2>2, <2>3, <2>5 DEF Tree
    <2>7. Reached(s, items[x])
      BY <1>1, <2>2, <2>3, <2>5, ReachedChild
    <2> QED  BY <2>2, <2>3, <2>5, <2>6, <2>7 DEF seg
  <1>5. DocUnder(s, k) = NodeDoc(s, k, Docs(s))
    BY <1>1, DocUnfold
  <1>6. NodeDoc(s, k, Docs(s)) = List([x \in DOMAIN items |-> Docs(s)[items[x]]])
    BY <1>3 DEF NodeDoc, items
  <1>7. [x \in DOMAIN items |-> Docs(s)[items[x]]] = [x \in 1..Len(items) |-> DocUnder(s, items[x])]
    BY <1>2, <1>4 DEF Docs
  <1> QED  BY <1>1, <1>4, <1>5, <1>6, <1>7 DEF items

(* The elements of a list in another order keep their documents.           *)
LEMMA ItemsReordered ==
  ASSUME NowhereApart, NEW s, NEW p, NEW k, Opening(s, p, k), HasKind(s, k, "list"),
         NEW ks \in Seq(Nat \ {ROOT}), Rearranged(s.node[k].items, ks)
  PROVE  LET t == SetItems(s, k, ks)
         IN  /\ Tree(t) /\ Confined(s, t, k) /\ Reached(t, k) /\ HasKind(t, k, "list")
             /\ t.node[k].items = ks
             /\ DocUnder(t, k) = List([x \in 1..Len(ks) |-> DocUnder(s, ks[x])])
  <1> DEFINE items == s.node[k].items
             t == SetItems(s, k, ks)
  <1>1. Tree(s) /\ Sound(s) /\ Shape(s) /\ k \in Nat /\ k \in DOMAIN s.node /\ Reached(s, k)
    BY DEF Opening, Tree, Sound, Live
  <1>2. Tree(t)
    <2>1. Good(s, Done(t, k))
      BY <1>1, RearrangeEffect
    <2> HIDE DEF t
    <2>2. Done(t, k).s = t
      BY DEF Done
    <2> QED  BY <2>1, <2>2 DEF Good
  <1>3. /\ DOMAIN t.node = DOMAIN s.node
        /\ \A m \in DOMAIN s.node : m # k => t.node[m] = s.node[m]
        /\ t.node[k] = ListNode(ks)
        /\ \A m, kind : HasKind(t, m, kind) <=> HasKind(s, m, kind)
        /\ \A m, tag : m # k \/ IsName(tag) => ChildKey(t, m, tag) = ChildKey(s, m, tag)
        /\ \A tag : ~IsName(tag) =>
             ChildKey(t, k, tag) = IF tag.index < Len(ks) THEN ks[tag.index + 1] ELSE NoKey
    BY <1>1, SetItemsEffect
  <1>4. t.node[k].items = ks
    BY <1>3 DEF ListNode
  <1>5. PICK f, g : /\ Orders(f, g, Len(ks)) /\ Len(ks) = Len(items)
                    /\ \A x \in 1..Len(ks) : ks[x] = items[f[x]]
    BY DEF Rearranged
  <1> HIDE DEF t
  <1>6. /\ \A x \in 1..Len(items) :
             /\ Index(x - 1) \in Segment /\ items[x] = ChildKey(s, k, Index(x - 1))
             /\ items[x] # NoKey /\ items[x] \in DOMAIN s.node /\ Reached(s, items[x])
    BY <1>1, ListDoc
  <1>7. {k} \in SUBSET Nat /\ k \in Visited(s, {k})
    <2>1. {k} \subseteq Visited(s, {k})
      BY <1>1, VisitedFrom
    <2> QED  BY <1>1, <2>1
  <1> HIDE DEF items
  <1>8. \A x \in 1..Len(ks) : f[x] \in 1..Len(items)
    BY <1>5 DEF Orders
  <1>9. ASSUME NEW m \in DOMAIN s.node, m # k PROVE SameNode(s, t, m)
    BY <1>3, <1>9 DEF SameNode
  <1>10. Visited(t, {k}) \subseteq Visited(s, {k})
    <2> DEFINE A == Visited(s, {k})
    <2>1. A \in SUBSET Nat
      BY <1>1, <1>7, VisitedType
    <2>2. ASSUME NEW m \in A, NEW tag \in Segment, ChildKey(t, m, tag) # NoKey
          PROVE  ChildKey(t, m, tag) \in A
      <3>1. m \in Nat
        BY <2>1
      <3>2. CASE m # k \/ IsName(tag)
        <4>1. ChildKey(t, m, tag) = ChildKey(s, m, tag)
          BY <1>3, <3>2
        <4>2. ChildKey(s, m, tag) # NoKey
          BY <2>2, <4>1
        <4>3. ChildKey(s, m, tag) \in Visited(s, {k})
          BY <1>1, <2>2, <3>1, <4>2, VisitedChild
        <4> QED  BY <4>1, <4>3
      <3>3. CASE m = k /\ ~IsName(tag)
        <4> DEFINE x == tag.index + 1
        <4>1. tag.index < Len(ks) /\ ChildKey(t, m, tag) = ks[x]
          BY <1>3, <2>2, <3>3
        <4>2. tag.index \in Nat
          BY <3>3, SegmentKinds DEF IsName
        <4>3. x \in 1..Len(ks)
          BY <4>1, <4>2, LenProperties
        <4> HIDE DEF x
        <4> DEFINE y == f[x]
                   seg == Index(y - 1)
        <4>4. y \in 1..Len(items) /\ ks[x] = items[y]
          BY <1>5, <1>8, <4>3
        <4> HIDE DEF y
        <4>5. seg \in Segment /\ items[y] = ChildKey(s, k, seg) /\ items[y] # NoKey
          BY <1>6, <4>4
        <4> HIDE DEF seg
        <4>6. ChildKey(s, k, seg) # NoKey
          BY <4>5
        <4>7. ChildKey(s, k, seg) \in Visited(s, {k})
          BY <1>1, <1>7, <4>5, <4>6, VisitedChild
        <4> QED  BY <4>1, <4>4, <4>5, <4>7
      <3> QED  BY <3>2, <3>3
    <2>3. {k} \subseteq A /\ Sound(t)
      BY <1>2, <1>7 DEF Tree
    <2> HIDE DEF A
    <2>4. Visited(t, {k}) \subseteq A
      BY <2>1, <2>2, <2>3, VisitedWithin
    <2> QED  BY <2>4 DEF A
  <1>11. Confined(s, t, k)
    <2>1. \A m \in DOMAIN s.node : m \notin Visited(s, {k}) => SameNode(s, t, m)
      BY <1>7, <1>9
    <2> QED  BY <1>10, <2>1 DEF Confined
  <1>12. Reached(t, k)
    BY <1>2, <1>11, OpeningLift
  <1>13. HasKind(t, k, "list")
    BY <1>3
  <1>14. /\ DocUnder(t, k) = List([x \in 1..Len(ks) |-> DocUnder(t, ks[x])])
         /\ \A x \in 1..Len(ks) : Reached(t, ks[x])
    <2> DEFINE these == t.node[k].items
    <2>1. /\ DocUnder(t, k) = List([x \in 1..Len(these) |-> DocUnder(t, these[x])])
          /\ \A x \in 1..Len(these) : Reached(t, these[x])
      BY <1>2, <1>12, <1>13, ListDoc
    <2>2. these = ks
      BY <1>4
    <2> HIDE DEF these
    <2> QED  BY <2>1, <2>2
  <1>15. ASSUME NEW x \in 1..Len(ks) PROVE DocUnder(t, ks[x]) = DocUnder(s, ks[x])
    <2> DEFINE c == ks[x]
               y == f[x]
               seg == Index(y - 1)
    <2>1. y \in 1..Len(items) /\ c = items[y]
      BY <1>5, <1>8
    <2> HIDE DEF y
    <2>2. seg \in Segment /\ c = ChildKey(s, k, seg) /\ c # NoKey /\ c \in DOMAIN s.node /\ Reached(s, c)
      BY <1>6, <2>1
    <2>3. Reached(t, c)
      BY <1>14
    <2> HIDE DEF seg, c
    <2>4. ChildKey(s, k, seg) # NoKey
      BY <2>2
    <2>5. k \notin Visited(s, {ChildKey(s, k, seg)})
      BY <1>1, <2>2, <2>4, NoCycle
    <2>6. c \in Nat /\ DOMAIN s.node \in SUBSET Nat
      BY <1>1, <2>2 DEF Shape
    <2>7. Visited(s, {c}) \subseteq DOMAIN s.node
      BY <1>1, <2>2, <2>6, VisitedWithin DEF Tree
    <2>8. \A m \in Visited(s, {c}) : SameNode(s, t, m)
      BY <1>9, <2>2, <2>5, <2>7
    <2>9. DocUnder(t, c) = DocUnder(s, c)
      BY <1>1, <1>2, <2>2, <2>3, <2>8, FrameDocs
    <2> QED  BY <2>9 DEF c
  <1>16. [x \in 1..Len(ks) |-> DocUnder(t, ks[x])] = [x \in 1..Len(ks) |-> DocUnder(s, ks[x])]
    BY <1>15
  <1> QED  BY <1>2, <1>4, <1>11, <1>12, <1>13, <1>14, <1>16 DEF t

(* An accessor keeps its place when what changes is below it.              *)
LEMMA OpeningStays ==
  ASSUME NEW s, NEW p, NEW k, Opening(s, p, k), NEW t, Tree(t), Confined(s, t, k),
         Live(t, k), ~HasKind(t, k, "packed")
  PROVE  Opening(t, p, k)
  <1>1. /\ Tree(s) /\ p \in Seq(Segment) /\ k # NoKey /\ ResolveFrom(s, ROOT, p) = k /\ k \in Nat
    BY DEF Opening
  <1>2. ResolveFrom(t, ROOT, p) = k /\ Reached(t, k)
    BY <1>1, StillLeads
  <1>3. Unpacked(t, ROOT, p)
    <2>1. Sound(t) /\ ROOT \in Nat
      BY RootIsBase
    <2>2. ResolveFrom(t, ROOT, p) # NoKey /\ ~HasKind(t, ResolveFrom(t, ROOT, p), "packed")
      BY <1>1, <1>2
    <2> QED  BY <1>1, <2>1, <2>2, UnpackedTo
  <1> QED  BY <1>1, <1>2, <1>3 DEF Opening

(* The sequence of a function's values.                                    *)
LEMMA MapLen ==
  ASSUME NEW n \in Nat, NEW f, DOMAIN f = 1..n, NEW S, \A x \in 1..n : f[x] \in S,
         f = [x \in 1..n |-> f[x]]
  PROVE  f \in Seq(S) /\ Len(f) = n
  <1>1. f \in [1..n -> S]
    OBVIOUS
  <1>2. f \in Seq(S)
    <2>1. [1..n -> S] \in {[1..m -> S] : m \in Nat}
      OBVIOUS
    <2> QED  BY <1>1, <2>1, SeqDef
  <1>3. Len(f) = n
    BY <1>2, LenProperties
  <1> QED  BY <1>2, <1>3

(* What the documents of a list's elements are, and the list's own.        *)
ItemDocs(s, ks) == [x \in 1..Len(ks) |-> DocUnder(s, ks[x])]

(* The document of a list is the list of its elements' documents.          *)
LEMMA ItemDocsIs ==
  ASSUME NowhereApart, NEW s, NEW p, NEW k, Opening(s, p, k), HasKind(s, k, "list")
  PROVE  LET items == s.node[k].items
             ds    == ItemDocs(s, items)
             S     == {DocUnder(s, c) : c \in {m \in DOMAIN s.node : Reached(s, m)}}
         IN  /\ items \in Seq(Nat \ {ROOT}) /\ Len(items) \in Nat
             /\ DocUnder(s, k) = List(ds) /\ DocUnder(s, k).items = ds
             /\ ds \in Seq(S) /\ Len(ds) = Len(items) /\ Nowhere \notin S
             /\ Is(DocUnder(s, k), "list") /\ ~Is(DocUnder(s, k), "object")
  <1> DEFINE items == s.node[k].items
             ds == ItemDocs(s, items)
             S == {DocUnder(s, c) : c \in {m \in DOMAIN s.node : Reached(s, m)}}
  <1>1. Tree(s) /\ Reached(s, k)
    BY DEF Opening
  <1>2. /\ DocUnder(s, k) = List(ds)
        /\ items \in Seq(Nat \ {ROOT})
        /\ \A x \in 1..Len(items) : items[x] \in DOMAIN s.node /\ Reached(s, items[x])
    BY <1>1, ListDoc DEF ItemDocs
  <1>3. Len(items) \in Nat
    BY <1>2, LenProperties
  <1>4. DocUnder(s, k).items = ds
    BY <1>2 DEF List
  <1>5. \A x \in 1..Len(items) : ds[x] \in S
    BY <1>2 DEF ItemDocs
  <1>6. DOMAIN ds = 1..Len(items) /\ ds = [x \in 1..Len(items) |-> ds[x]]
    BY DEF ItemDocs
  <1> HIDE DEF ds, items, S
  <1>7. ds \in Seq(S) /\ Len(ds) = Len(items)
    BY <1>3, <1>5, <1>6, MapLen
  <1>8. Nowhere \notin S
    BY <1>1, DocThere DEF S, Live
  <1>9. Is(DocUnder(s, k), "list")
    BY OpeningDoc
  <1>10. ~Is(DocUnder(s, k), "object")
    BY <1>9 DEF Is
  <1> QED  BY <1>2, <1>3, <1>4, <1>7, <1>8, <1>9, <1>10 DEF ds, items, S

(* The elements exchanged, and their documents.                            *)
LEMMA SwapDocs ==
  ASSUME NEW S, NEW ks \in Seq(S), NEW i \in Nat, i < Len(ks), NEW j \in Nat, j < Len(ks),
         NEW s
  PROVE  /\ ItemDocs(s, SwapIn(ks, i, j)) = SwapIn(ItemDocs(s, ks), i, j)
         /\ Len(SwapIn(ks, i, j)) = Len(ks)
  <1> DEFINE n == Len(ks)
             ds == ItemDocs(s, ks)
             a == i + 1
             b == j + 1
             one == [ks EXCEPT ![a] = ks[b], ![b] = ks[a]]
             two == [ds EXCEPT ![a] = ds[b], ![b] = ds[a]]
  <1>1. n \in Nat /\ DOMAIN ks = 1..n /\ ks = [x \in 1..n |-> ks[x]] /\ a \in 1..n /\ b \in 1..n
    BY LenProperties
  <1>2. SwapIn(ks, i, j) = one /\ SwapIn(ds, i, j) = two
    BY DEF SwapIn
  <1>3. ds = [x \in 1..n |-> DocUnder(s, ks[x])]
    BY DEF ItemDocs
  <1>4. SwapIn(ks, i, j) \in Seq(S) /\ Len(SwapIn(ks, i, j)) = Len(ks)
    BY SwapOrders DEF Rearranged
  <1> HIDE DEF a, b, n
  <1>5. one = [x \in 1..n |-> IF x = b THEN ks[a] ELSE IF x = a THEN ks[b] ELSE ks[x]]
    BY <1>1
  <1>6. DOMAIN ds = 1..n /\ \A x \in 1..n : ds[x] = DocUnder(s, ks[x])
    BY <1>3
  <1>7. two = [x \in 1..n |-> IF x = b THEN ds[a] ELSE IF x = a THEN ds[b] ELSE ds[x]]
    <2>1. ds = [x \in 1..n |-> ds[x]]
      BY <1>3, <1>6
    <2> HIDE DEF ds
    <2> QED  BY <1>1, <1>6, <2>1
  <1>8. Len(one) = n
    BY <1>2, <1>4 DEF n
  <1> HIDE DEF one, two, ds
  <1>9. ItemDocs(s, one) = [x \in 1..n |-> DocUnder(s, one[x])]
    BY <1>8 DEF ItemDocs
  <1>10. ASSUME NEW x \in 1..n PROVE DocUnder(s, one[x]) = two[x]
    <2>1. CASE x = b
      BY <1>1, <1>5, <1>6, <1>7, <2>1
    <2>2. CASE x # b /\ x = a
      BY <1>1, <1>5, <1>6, <1>7, <2>2
    <2>3. CASE x # b /\ x # a
      BY <1>1, <1>5, <1>6, <1>7, <2>3
    <2> QED  BY <2>1, <2>2, <2>3
  <1>11. two = [x \in 1..n |-> two[x]]
    BY <1>7
  <1>12. ItemDocs(s, one) = two
    BY <1>9, <1>10, <1>11
  <1> QED  BY <1>2, <1>4, <1>12 DEF ds

(* What tree::list_swap leaves: the documents of two elements exchanged.   *)
Swapped(s, p, k, i, j, r) ==
  LET d == DocUnder(s, ROOT)
      x == List(SwapIn(At(d, p).items, i, j))
  IN  /\ r.ok = TRUE /\ Tree(r.s) /\ Opening(r.s, p, k) /\ HasKind(r.s, k, "list")
      /\ Len(r.s.node[k].items) = Len(s.node[k].items)
      /\ Is(At(d, p), "list") /\ Len(At(d, p).items) = Len(s.node[k].items)
      /\ DocUnder(r.s, k) = x
      /\ DocUnder(r.s, ROOT) = With(d, p, x)

(* SeqMut::swap exchanges the two elements of the document.                *)
LEMMA SwapDoc ==
  ASSUME NowhereApart, NEW s, NEW p, NEW k, Opening(s, p, k), HasKind(s, k, "list"),
         NEW i \in Nat, i < Len(s.node[k].items), NEW j \in Nat, j < Len(s.node[k].items)
  PROVE  Swapped(s, p, k, i, j, ListSwap(s, k, i, j))
  <1> DEFINE items == s.node[k].items
             ks == SwapIn(items, i, j)
             t == SetItems(s, k, ks)
             r == ListSwap(s, k, i, j)
             d == DocUnder(s, ROOT)
             ds == ItemDocs(s, items)
  <1>1. r.ok = TRUE /\ r.s = t
    BY DEF ListSwap, Done
  <1>2. /\ items \in Seq(Nat \ {ROOT}) /\ Len(items) \in Nat
        /\ DocUnder(s, k).items = ds /\ Len(ds) = Len(items)
    BY ItemDocsIs
  <1>3. At(d, p) = DocUnder(s, k) /\ Is(DocUnder(s, k), "list")
    BY OpeningDoc
  <1> HIDE DEF items
  <1>4. ks \in Seq(Nat \ {ROOT}) /\ Rearranged(items, ks)
    BY <1>2, SwapOrders DEF items
  <1>5. ItemDocs(s, ks) = SwapIn(ds, i, j) /\ Len(ks) = Len(items)
    BY <1>2, SwapDocs DEF items
  <1> HIDE DEF ks
  <1>6. /\ Tree(t) /\ Confined(s, t, k) /\ HasKind(t, k, "list")
        /\ t.node[k].items = ks
        /\ DocUnder(t, k) = List([x \in 1..Len(ks) |-> DocUnder(s, ks[x])])
    BY <1>4, ItemsReordered DEF items
  <1> HIDE DEF t
  <1>7. DocUnder(t, k) = List(ItemDocs(s, ks))
    BY <1>6 DEF ItemDocs
  <1>8. DocUnder(t, k) = List(SwapIn(ds, i, j))
    BY <1>5, <1>7
  <1>9. Opening(t, p, k)
    <2>1. Live(t, k) /\ ~HasKind(t, k, "packed")
      BY <1>6 DEF HasKind
    <2> QED  BY <1>6, <2>1, OpeningStays
  <1>10. DocUnder(t, ROOT) = With(d, p, DocUnder(t, k))
    BY <1>6, OpeningLift
  <1> HIDE DEF r, d, ds
  <1>11. At(d, p).items = ds /\ Len(At(d, p).items) = Len(items) /\ Is(At(d, p), "list")
    BY <1>2, <1>3
  <1>12. Len(t.node[k].items) = Len(items)
    BY <1>5, <1>6
  <1> QED  BY <1>1, <1>6, <1>8, <1>9, <1>10, <1>11, <1>12 DEF Swapped, r, d, items

(* Without its last element a sequence is its front.                       *)
LEMMA LastRemoved ==
  ASSUME NEW S, NEW f \in Seq(S), NEW n, n = Len(f), n # 0
  PROVE  RemoveAt(f, n) = Front(f)
  <1>1. n \in Nat /\ n \in 1..Len(f) /\ f # <<>>
    <2>1. n \in Nat
      BY LenProperties
    <2>2. f # <<>>
      BY EmptySeq
    <2> QED  BY <2>1, <2>2
  <1>2. /\ RemoveAt(f, n) \in Seq(S) /\ Len(RemoveAt(f, n)) = n - 1
        /\ \A x \in 1..n - 1 : RemoveAt(f, n)[x] = IF x < n THEN f[x] ELSE f[x + 1]
    BY <1>1, RemoveAtItems
  <1>3. /\ Front(f) \in Seq(S) /\ Len(Front(f)) = n - 1
        /\ \A x \in 1..n - 1 : Front(f)[x] = f[x]
    BY <1>1, PathFront
  <1>4. \A x \in 1..n - 1 : RemoveAt(f, n)[x] = f[x]
    BY <1>1, <1>2
  <1> QED  BY <1>2, <1>3, <1>4, SeqEqual

(* SeqMut::swap_remove: the element goes and the last one takes its place. *)
LEMMA SwapRemoveDoc ==
  ASSUME NowhereApart, NEW s, NEW p, NEW k, Opening(s, p, k), HasKind(s, k, "list"),
         NEW last, last = Len(s.node[k].items) - 1, NEW i \in 0..last
  PROVE  LET r == RemovePath(ListSwap(s, k, i, last).s, Append(p, Index(last)))
             d == DocUnder(s, ROOT)
         IN  /\ r.ok = TRUE /\ Tree(r.s)
             /\ Is(At(d, p), "list") /\ last = Len(At(d, p).items) - 1
             /\ DocUnder(r.s, ROOT) = With(d, p, List(Front(SwapIn(At(d, p).items, i, last))))
  <1> DEFINE n == Len(s.node[k].items)
             t == ListSwap(s, k, i, last).s
             seg == Index(last)
             q == Append(p, seg)
             r == RemovePath(t, q)
             d == DocUnder(s, ROOT)
             f == SwapIn(At(d, p).items, i, last)
  <1>1. n \in Nat /\ last \in Nat /\ i \in Nat /\ i < n /\ last < n /\ n = last + 1
    <2>1. n \in Nat
      BY ItemDocsIs
    <2> QED  BY <2>1
  <1>2. /\ Tree(t) /\ Opening(t, p, k) /\ HasKind(t, k, "list")
        /\ Len(t.node[k].items) = n
        /\ Is(At(d, p), "list") /\ Len(At(d, p).items) = n
        /\ DocUnder(t, k) = List(f)
        /\ DocUnder(t, ROOT) = With(d, p, List(f))
    <2>1. i \in Nat /\ i < Len(s.node[k].items) /\ last \in Nat /\ last < Len(s.node[k].items)
      BY <1>1
    <2>2. Swapped(s, p, k, i, last, ListSwap(s, k, i, last))
      BY <2>1, SwapDoc
    <2> QED  BY <2>2 DEF Swapped
  <1> HIDE DEF t
  <1>3. p \in Seq(Segment) /\ k # NoKey /\ ResolveFrom(t, ROOT, p) = k /\ Reached(t, k)
    BY <1>2 DEF Opening
  <1>4. seg \in Segment /\ IsIndex(seg) /\ ~IsName(seg) /\ seg.index = last
    BY <1>1, IndexSegment
  <1> HIDE DEF seg
  <1>5. q \in Seq(Segment) /\ q # <<>> /\ Front(q) = p /\ Last(q) = seg
    BY <1>3, <1>4, PathAppend
  <1> HIDE DEF q
  <1>6. ChildKey(t, k, seg) # NoKey
    <2>1. ChildKey(t, k, seg) = t.node[k].items[last + 1]
      BY <1>1, <1>2, <1>4 DEF ChildKey
    <2>2. last + 1 \in 1..Len(t.node[k].items)
      BY <1>1, <1>2
    <2>3. t.node[k].items \in Seq(Nat \ {ROOT})
      BY <1>2, ItemDocsIs
    <2> DEFINE items == t.node[k].items
    <2> HIDE DEF items
    <2>4. items[last + 1] \in Nat
      <3>1. last + 1 \in 1..Len(items) /\ items \in Seq(Nat \ {ROOT})
        BY <2>2, <2>3 DEF items
      <3> QED  BY <3>1, ElementOfSeq
    <2> QED  BY <2>1, <2>4 DEF NoKey, items
  <1>7. ResolveFrom(t, ROOT, q) # NoKey
    BY <1>3, <1>5, <1>6, ResolveLast
  <1> HIDE DEF r, f, d
  <1>8. /\ r.ok = TRUE /\ Tree(r.s)
        /\ At(DocUnder(t, ROOT), q) # Nowhere
        /\ DocUnder(r.s, ROOT) = Without(DocUnder(t, ROOT), q)
    BY <1>2, <1>5, <1>7, RemoveBelow DEF r
  <1>9. At(DocUnder(t, ROOT), p) = List(f)
    BY <1>2, OpeningDoc
  <1>10. DocUnder(r.s, ROOT) = With(DocUnder(t, ROOT), p, DropKid(List(f), seg))
    BY <1>5, <1>8, <1>9 DEF Without
  <1>11. DropKid(List(f), seg) = List(RemoveAt(f, n))
    BY <1>1, <1>4 DEF DropKid, List
  <1>12. RemoveAt(f, n) = Front(f)
    <2>1. PICK S : t.node[k].items \in Seq(Nat \ {ROOT}) /\ DocUnder(t, k).items \in Seq(S)
                   /\ Len(DocUnder(t, k).items) = n
      BY <1>2, ItemDocsIs
    <2>2. f \in Seq(S) /\ Len(f) = n
      BY <1>2, <2>1 DEF List
    <2> HIDE DEF n
    <2> QED  BY <1>1, <2>2, LastRemoved
  <1>13. Fits(d, p) /\ Sane(d, p)
    BY OpeningDoc DEF d
  <1>14. List(f) # Nowhere /\ List(Front(f)) # Nowhere
    BY DEF NowhereApart
  <1>15. With(With(d, p, List(f)), p, List(Front(f))) = With(d, p, List(Front(f)))
    BY <1>3, <1>13, <1>14, WithWith
  <1>16. DocUnder(r.s, ROOT) = With(d, p, List(Front(f)))
    BY <1>2, <1>10, <1>11, <1>12, <1>15
  <1>17. last = Len(At(d, p).items) - 1
    BY <1>1, <1>2
  <1> QED  BY <1>2, <1>8, <1>16, <1>17 DEF r, f, d, q, seg, t

(* The documents of the nodes in S.                                        *)
ItemDoc(s, S) == {DocUnder(s, c) : c \in S}

(* The documents of a list's elements are a sequence as long as the list.  *)
LEMMA ItemDocsType ==
  ASSUME NEW s, NEW S, NEW ks \in Seq(S)
  PROVE  /\ ItemDocs(s, ks) \in Seq(ItemDoc(s, S)) /\ Len(ItemDocs(s, ks)) = Len(ks)
         /\ \A x \in 1..Len(ks) : ItemDocs(s, ks)[x] = DocUnder(s, ks[x])
  <1> DEFINE f == ItemDocs(s, ks)
             n == Len(ks)
  <1>1. n \in Nat /\ \A x \in 1..n : ks[x] \in S
    BY LenProperties, ElementOfSeq
  <1>2. /\ DOMAIN f = 1..n /\ f = [x \in 1..n |-> f[x]]
        /\ \A x \in 1..n : f[x] = DocUnder(s, ks[x])
    BY DEF ItemDocs
  <1>3. \A x \in 1..n : f[x] \in ItemDoc(s, S)
    BY <1>1, <1>2 DEF ItemDoc
  <1> HIDE DEF f, n
  <1>4. f \in Seq(ItemDoc(s, S)) /\ Len(f) = n
    BY <1>1, <1>2, <1>3, MapLen
  <1> QED  BY <1>2, <1>4 DEF f, n

(* Taking an element out takes its document out.                           *)
LEMMA RemoveDocs ==
  ASSUME NEW s, NEW S, NEW ks \in Seq(S), NEW a \in 1..Len(ks)
  PROVE  ItemDocs(s, RemoveAt(ks, a)) = RemoveAt(ItemDocs(s, ks), a)
  <1> DEFINE T == ItemDoc(s, S)
             ds == ItemDocs(s, ks)
             ls == RemoveAt(ks, a)
             f == ItemDocs(s, ls)
             g == RemoveAt(ds, a)
             n == Len(ks)
  <1>1. /\ ds \in Seq(T) /\ Len(ds) = n /\ \A x \in 1..n : ds[x] = DocUnder(s, ks[x])
    BY ItemDocsType
  <1>2. /\ ls \in Seq(S) /\ Len(ls) = n - 1
        /\ \A x \in 1..n - 1 : ls[x] = IF x < a THEN ks[x] ELSE ks[x + 1]
    BY RemoveAtItems
  <1>3. n \in Nat /\ a \in 1..Len(ds)
    BY <1>1, LenProperties
  <1> HIDE DEF ds, ls
  <1>4. /\ g \in Seq(T) /\ Len(g) = Len(ds) - 1
        /\ \A x \in 1..Len(ds) - 1 : g[x] = IF x < a THEN ds[x] ELSE ds[x + 1]
    BY <1>1, <1>3, RemoveAtItems
  <1>5. /\ f \in Seq(T) /\ Len(f) = n - 1 /\ \A x \in 1..n - 1 : f[x] = DocUnder(s, ls[x])
    BY <1>2, ItemDocsType
  <1> HIDE DEF f, g, n
  <1>6. ASSUME NEW x \in 1..n - 1 PROVE f[x] = g[x]
    <2>1. x \in 1..n /\ x + 1 \in 1..n
      BY <1>3
    <2>2. CASE x < a
      <3>1. ls[x] = ks[x] /\ g[x] = ds[x]
        BY <1>1, <1>2, <1>4, <2>2
      <3> QED  BY <1>1, <1>5, <2>1, <3>1
    <2>3. CASE ~(x < a)
      <3>1. ls[x] = ks[x + 1] /\ g[x] = ds[x + 1]
        BY <1>1, <1>2, <1>4, <2>3
      <3> QED  BY <1>1, <1>5, <2>1, <3>1
    <2> QED  BY <2>2, <2>3
  <1>7. f = g
    BY <1>1, <1>4, <1>5, <1>6, SeqEqual
  <1> QED  BY <1>7 DEF f, g, ds, ls

(* Putting an element in puts its document in.                             *)
LEMMA InsertDocs ==
  ASSUME NEW s, NEW S, NEW ks \in Seq(S), NEW a \in 1..Len(ks) + 1, NEW c \in S
  PROVE  ItemDocs(s, InsertAt(ks, a, c)) = InsertAt(ItemDocs(s, ks), a, DocUnder(s, c))
  <1> DEFINE T == ItemDoc(s, S)
             ds == ItemDocs(s, ks)
             e == DocUnder(s, c)
             ls == InsertAt(ks, a, c)
             f == ItemDocs(s, ls)
             g == InsertAt(ds, a, e)
             n == Len(ks)
  <1>1. /\ ds \in Seq(T) /\ Len(ds) = n /\ \A x \in 1..n : ds[x] = DocUnder(s, ks[x])
    BY ItemDocsType
  <1>2. /\ ls \in Seq(S) /\ Len(ls) = n + 1
        /\ \A x \in 1..n + 1 : ls[x] = IF x < a THEN ks[x] ELSE IF x = a THEN c ELSE ks[x - 1]
    BY InsertAtItems
  <1>3. n \in Nat /\ a \in 1..Len(ds) + 1 /\ e \in T
    BY <1>1, LenProperties DEF ItemDoc
  <1> HIDE DEF ds, ls, e, T
  <1>4. /\ g \in Seq(T) /\ Len(g) = Len(ds) + 1
        /\ \A x \in 1..Len(ds) + 1 : g[x] = IF x < a THEN ds[x] ELSE IF x = a THEN e ELSE ds[x - 1]
    <2>1. ds \in Seq(T)
      BY <1>1
    <2>2. g \in Seq(T) /\ Len(g) = Len(ds) + 1
      BY <1>3, <2>1, InsertAtItems
    <2>3. ASSUME NEW x \in 1..Len(ds) + 1
          PROVE  g[x] = IF x < a THEN ds[x] ELSE IF x = a THEN e ELSE ds[x - 1]
      BY <1>3, <2>1, InsertAtItems
    <2> QED  BY <2>2, <2>3
  <1>5. /\ f \in Seq(T) /\ Len(f) = n + 1 /\ \A x \in 1..n + 1 : f[x] = DocUnder(s, ls[x])
    <2>1. /\ f \in Seq(T) /\ Len(f) = Len(ls) /\ \A x \in 1..Len(ls) : f[x] = DocUnder(s, ls[x])
      BY <1>2, ItemDocsType DEF T
    <2> HIDE DEF f, n
    <2> QED  BY <1>2, <2>1
  <1> HIDE DEF f, g, n
  <1>6. ASSUME NEW x \in 1..n + 1 PROVE f[x] = g[x]
    <2>1. CASE x < a
      <3>1. ls[x] = ks[x] /\ g[x] = ds[x] /\ x \in 1..n
        BY <1>1, <1>2, <1>3, <1>4, <2>1
      <3> QED  BY <1>1, <1>5, <3>1
    <2>2. CASE x = a
      <3>1. ls[x] = c /\ g[x] = e
        BY <1>1, <1>2, <1>3, <1>4, <2>2
      <3> QED  BY <1>5, <3>1 DEF e
    <2>3. CASE ~(x < a) /\ x # a
      <3>1. ls[x] = ks[x - 1] /\ g[x] = ds[x - 1] /\ x - 1 \in 1..n
        BY <1>1, <1>2, <1>3, <1>4, <2>3
      <3> QED  BY <1>1, <1>5, <3>1
    <2> QED  BY <2>1, <2>2, <2>3
  <1>7. f = g
    BY <1>1, <1>4, <1>5, <1>6, SeqEqual
  <1> QED  BY <1>7 DEF f, g, ds, ls, e

(* Moving an element moves its document.                                   *)
LEMMA MoveDocs ==
  ASSUME NEW s, NEW S, NEW ks \in Seq(S), NEW i \in Nat, i < Len(ks), NEW j \in Nat
  PROVE  ItemDocs(s, MoveIn(ks, i, j)) = MoveIn(ItemDocs(s, ks), i, j)
  <1> DEFINE a == i + 1
             rest == RemoveAt(ks, a)
             to == IF j <= Len(rest) THEN j ELSE Len(rest)
             b == to + 1
             c == ks[a]
             ds == ItemDocs(s, ks)
             less == RemoveAt(ds, a)
             lto == IF j <= Len(less) THEN j ELSE Len(less)
  <1>1. a \in 1..Len(ks) /\ Len(ks) \in Nat
    BY LenProperties
  <1>2. c \in S
    BY <1>1, ElementOfSeq
  <1>3. MoveIn(ks, i, j) = InsertAt(rest, b, c) /\ MoveIn(ds, i, j) = InsertAt(less, lto + 1, ds[a])
    BY DEF MoveIn
  <1> HIDE DEF a
  <1>4. rest \in Seq(S) /\ Len(rest) = Len(ks) - 1 /\ ItemDocs(s, rest) = less
    BY <1>1, RemoveAtItems, RemoveDocs
  <1>5. Len(less) = Len(rest)
    <2> HIDE DEF rest, less
    <2> QED  BY <1>4, ItemDocsType
  <1>6. ds[a] = DocUnder(s, c)
    BY <1>1, ItemDocsType
  <1> HIDE DEF rest, less, ds, c
  <1>7. Len(rest) \in Nat /\ lto = to
    BY <1>1, <1>4, <1>5, LenProperties
  <1>8. b \in 1..Len(rest) + 1
    BY <1>7
  <1>9. lto + 1 = b
    BY <1>7
  <1> HIDE DEF b, lto, to
  <1>10. ItemDocs(s, InsertAt(rest, b, c)) = InsertAt(less, b, DocUnder(s, c))
    BY <1>2, <1>4, <1>8, InsertDocs
  <1> QED  BY <1>3, <1>6, <1>9, <1>10 DEF ds

(* A part put after the last element of a list, and moved from there.      *)
LEMMA AppendKid ==
  ASSUME NEW S, NEW ds \in Seq(S), NEW n, n = Len(ds), NEW d
  PROVE  SetKid(List(ds), Index(n), d) = List(Append(ds, d))
  <1> DEFINE seg == Index(n)
  <1>1. n \in Nat /\ DOMAIN ds = 1..n
    BY LenProperties
  <1>2. ~IsName(seg) /\ seg.index = n
    BY <1>1, IndexSegment
  <1>3. SetKid(List(ds), seg, d) = List([x \in 1..n \cup {n + 1} |-> IF x = n + 1 THEN d ELSE ds[x]])
    BY <1>1, <1>2 DEF SetKid, List
  <1>4. 1..n \cup {n + 1} = 1..n + 1
    BY <1>1
  <1>5. [x \in 1..n + 1 |-> IF x = n + 1 THEN d ELSE ds[x]] = Append(ds, d)
    <2> DEFINE f == [x \in 1..n + 1 |-> IF x = n + 1 THEN d ELSE ds[x]]
               g == Append(ds, d)
               T == S \cup {d}
    <2>1. ds \in Seq(T)
      <3>1. \A x \in 1..n : ds[x] \in T
        BY <1>1, ElementOfSeq
      <3>2. ds = [x \in 1..n |-> ds[x]]
        BY <1>1, LenProperties
      <3> HIDE DEF T
      <3> QED  BY <1>1, <3>1, <3>2, MapLen
    <2>2. /\ g \in Seq(T) /\ Len(g) = n + 1
          /\ \A x \in 1..n : g[x] = ds[x]
          /\ g[n + 1] = d
      BY <2>1, AppendProperties DEF T
    <2>3. f \in Seq(T) /\ Len(f) = n + 1
      <3>1. n + 1 \in Nat /\ DOMAIN f = 1..n + 1 /\ f = [x \in 1..n + 1 |-> f[x]]
        BY <1>1
      <3>2. \A x \in 1..n + 1 : f[x] \in T
        BY <1>1, <2>1, ElementOfSeq
      <3> HIDE DEF f
      <3> QED  BY <3>1, <3>2, MapLen
    <2>4. \A x \in 1..n + 1 : f[x] = g[x]
      BY <1>1, <2>2
    <2> HIDE DEF f, g
    <2>5. f = g
      BY <2>2, <2>3, <2>4, SeqEqual
    <2> QED  BY <2>5 DEF f, g
  <1> QED  BY <1>3, <1>4, <1>5

(* Moving the last element is inserting it at its place.                   *)
LEMMA MoveLast ==
  ASSUME NEW S, NEW ds \in Seq(S), NEW n, n = Len(ds), NEW d, NEW i \in 0..n
  PROVE  MoveIn(Append(ds, d), n, i) = InsertAt(ds, i + 1, d)
  <1> DEFINE T == S \cup {d}
             g == Append(ds, d)
             a == n + 1
             rest == RemoveAt(g, a)
  <1>1. n \in Nat
    BY LenProperties
  <1>2. ds \in Seq(T)
    <2>1. \A x \in 1..n : ds[x] \in T
      BY <1>1, ElementOfSeq
    <2>2. ds = [x \in 1..n |-> ds[x]] /\ DOMAIN ds = 1..n
      BY <1>1, LenProperties
    <2> HIDE DEF T
    <2> QED  BY <1>1, <2>1, <2>2, MapLen
  <1>3. /\ g \in Seq(T) /\ Len(g) = n + 1
        /\ \A x \in 1..n : g[x] = ds[x]
        /\ g[a] = d
    BY <1>2, AppendProperties DEF T
  <1>4. MoveIn(g, n, i) = LET to == IF i <= Len(rest) THEN i ELSE Len(rest)
                          IN  InsertAt(rest, to + 1, g[a])
    BY DEF MoveIn
  <1> HIDE DEF g, T
  <1>5. a \in 1..Len(g)
    BY <1>1, <1>3
  <1> HIDE DEF a
  <1>6. /\ rest \in Seq(T) /\ Len(rest) = Len(g) - 1
        /\ \A x \in 1..Len(g) - 1 : rest[x] = IF x < a THEN g[x] ELSE g[x + 1]
    BY <1>3, <1>5, RemoveAtItems
  <1> HIDE DEF rest
  <1>7. rest = ds
    <2>1. Len(rest) = n
      BY <1>1, <1>3, <1>6
    <2>2. \A x \in 1..n : rest[x] = ds[x]
      BY <1>1, <1>3, <1>6 DEF a
    <2> QED  BY <1>2, <1>6, <2>1, <2>2, SeqEqual
  <1> QED  BY <1>1, <1>3, <1>4, <1>7 DEF g

(* A value written at the end of the list of an accessor.                  *)
Extended(s, p, k, d, r) ==
  LET q  == DocUnder(s, ROOT)
      ds == At(q, p).items
  IN  /\ r.ok = TRUE /\ Tree(r.s) /\ Opening(r.s, p, k) /\ HasKind(r.s, k, "list")
      /\ DocUnder(r.s, k) = List(Append(ds, d))
      /\ DocUnder(r.s, ROOT) = With(q, p, List(Append(ds, d)))

(* SeqMut::push appends the document to the list.                          *)
LEMMA ExtendDoc ==
  ASSUME NowhereApart, NEW s, NEW p, NEW k, Opening(s, p, k), HasKind(s, k, "list"),
         NEW d, Flat(d), NEW n, n = Len(s.node[k].items)
  PROVE  Extended(s, p, k, d, WriteValue(s, ROOT, Append(p, Index(n)), d))
  <1> DEFINE items == s.node[k].items
             seg == Index(n)
             q == Append(p, seg)
             r == WriteValue(s, ROOT, q, d)
             D == DocUnder(s, ROOT)
             ds == ItemDocs(s, items)
             e == List(Append(ds, d))
  <1>1. /\ Tree(s) /\ Sound(s) /\ Shape(s) /\ p \in Seq(Segment) /\ Unpacked(s, ROOT, p)
        /\ k # NoKey /\ k \in Nat /\ ResolveFrom(s, ROOT, p) = k
    BY DEF Opening, Tree, Sound
  <1>2. /\ n \in Nat /\ DocUnder(s, k) = List(ds) /\ Len(ds) = n
        /\ \E S : ds \in Seq(S)
    BY ItemDocsIs
  <1>3. /\ At(D, p) = DocUnder(s, k) /\ Fits(D, p) /\ Sane(D, p)
        /\ DocUnder(s, k) # Nowhere /\ Is(DocUnder(s, k), "list")
    BY OpeningDoc
  <1>4. seg \in Segment /\ IsIndex(seg) /\ ~IsName(seg) /\ seg.index = n
    BY <1>2, IndexSegment
  <1>a. ChildKey(s, k, seg) = NoKey
    BY <1>2, <1>4 DEF ChildKey
  <1>b. SetKid(List(ds), seg, d) = e
    <2>1. PICK S : ds \in Seq(S)
      BY <1>2
    <2> HIDE DEF ds
    <2> QED  BY <1>2, <2>1, AppendKid
  <1> HIDE DEF seg
  <1>5. /\ q \in Seq(Segment) /\ q # <<>> /\ Front(q) = p /\ Last(q) = seg
        /\ Len(q) = Len(p) + 1 /\ Len(p) \in Nat
    BY <1>1, <1>4, PathAppend, LenProperties
  <1> HIDE DEF q
  <1>6. ResolveFrom(s, ROOT, q) = NoKey
    BY <1>1, <1>5, <1>a, ResolveLast
  <1>7. Unpacked(s, ROOT, q)
    <2>1. ~HasKind(s, NoKey, "packed") /\ ROOT \in Nat
      BY <1>1, NoKeyIsNoNode, RootIsBase
    <2> QED  BY <1>1, <1>5, <1>6, <2>1, UnpackedFront
  <1>8. Writes(s, q, d, r)
    BY <1>1, <1>5, <1>6, <1>7, ValueWrites
  <1> HIDE DEF D, ds
  <1>9. Grip(D, q) = List(ds)
    BY <1>2, <1>3, <1>5, ThroughFront
  <1>10. Takes(List(ds), seg)
    <2>1. Is(List(ds), "list")
      BY <1>2, <1>3
    <2>2. List(ds).items = ds
      BY DEF List
    <2> QED  BY <1>2, <1>4, <2>1, <2>2 DEF Takes
  <1> HIDE DEF e
  <1>11. Fits(D, q) /\ With(D, q, d) = With(D, p, e)
    <2>1. /\ With(D, q, d) = With(D, Front(q), SetKid(Grip(D, q), Last(q), d))
          /\ Fits(D, q) <=> Fits(D, Front(q)) /\ Takes(Grip(D, q), Last(q))
      BY <1>5, WithSnoc
    <2> QED  BY <1>3, <1>5, <1>9, <1>10, <1>b, <2>1
  <1>12. ValueDone(s, ROOT, q, r)
    <2>1. Base(s, ROOT)
      BY <1>1, RootIsBase
    <2> QED  BY <1>1, <1>5, <1>7, <2>1, WriteValueEffect
  <1> HIDE DEF r
  <1>13. r.ok = TRUE /\ Tree(r.s) /\ DocUnder(r.s, ROOT) = With(D, p, e)
    BY <1>8, <1>11 DEF Writes, D
  <1>14. ResolveFrom(r.s, ROOT, q) # NoKey /\ Walk(r.s, ROOT, q)[Len(p)] = k
    <2>1. /\ ResolveFrom(r.s, ROOT, q) # NoKey
          /\ \A j \in 0..Len(q) - 1 :
               Walk(s, ROOT, q)[j] # NoKey => Walk(r.s, ROOT, q)[j] = Walk(s, ROOT, q)[j]
      BY <1>5, <1>12, <1>13 DEF ValueDone
    <2>2. Walk(s, ROOT, q)[Len(p)] = k
      <3>1. Len(q) - 1 = Len(p)
        BY <1>5
      <3>2. Walk(s, ROOT, q)[Len(q) - 1] = ResolveFrom(s, ROOT, Front(q))
        BY <1>5, ResolveLast
      <3> QED  BY <1>1, <1>5, <3>1, <3>2
    <2>3. Len(p) \in 0..Len(q) - 1
      BY <1>5
    <2> QED  BY <1>1, <2>1, <2>2, <2>3
  <1>15. ResolveFrom(r.s, ROOT, p) = k
    <2>1. Walk(r.s, ROOT, q)[Len(q) - 1] = ResolveFrom(r.s, ROOT, Front(q))
      BY <1>5, ResolveLast
    <2>2. Len(q) - 1 = Len(p)
      BY <1>5
    <2> QED  BY <1>5, <1>14, <2>1, <2>2
  <1>16. HasKind(r.s, k, "list")
    <2>1. Sound(r.s) /\ ROOT \in Nat
      BY <1>13, RootIsBase
    <2>2. Walk(r.s, ROOT, q)[Len(q)] # NoKey /\ Len(q) \in 1..Len(q) /\ Len(q) - 1 = Len(p)
      BY <1>5, <1>14 DEF ResolveFrom
    <2>3. Holder(r.s, Walk(r.s, ROOT, q)[Len(q) - 1], q[Len(q)])
      BY <1>5, <2>1, <2>2, WalkHolder
    <2>4. q[Len(q)] = seg
      BY <1>5, PathFront
    <2> QED  BY <1>4, <1>14, <2>2, <2>3, <2>4 DEF Holder
  <1>17. Opening(r.s, p, k)
    <2>1. Live(r.s, k) /\ ~HasKind(r.s, k, "packed")
      BY <1>16 DEF HasKind
    <2>2. Sound(r.s) /\ ROOT \in Nat /\ Reached(r.s, ROOT)
      BY <1>13, RootIsBase
    <2>3. Unpacked(r.s, ROOT, p)
      BY <1>1, <1>15, <2>1, <2>2, UnpackedTo
    <2>4. Reached(r.s, k)
      <3>1. Len(p) \in 0..Len(p) /\ Walk(r.s, ROOT, p)[Len(p)] = k
        BY <1>5, <1>15 DEF ResolveFrom
      <3> QED  BY <1>1, <2>2, <3>1, WalkReached
    <2> QED  BY <1>1, <1>13, <1>15, <2>1, <2>3, <2>4 DEF Opening
  <1>18. DocUnder(r.s, k) = e
    <2>1. At(DocUnder(r.s, ROOT), p) = DocUnder(r.s, k)
      BY <1>17, OpeningDoc
    <2>2. e # Nowhere
      BY DEF e, NowhereApart
    <2>3. At(With(D, p, e), p) = e
      BY <1>1, <1>3, <2>2, WithWith
    <2> QED  BY <1>13, <2>1, <2>3
  <1>19. At(D, p).items = ds
    BY <1>2, <1>3 DEF List
  <1> QED  BY <1>13, <1>16, <1>17, <1>18, <1>19 DEF Extended, e, D, r, q, seg

(* What an insertion at position i of the list at p leaves.                *)
InsertedAt(s, p, i, d, r) ==
  LET q == DocUnder(s, ROOT)
  IN  /\ r.ok = TRUE /\ Tree(r.s)
      /\ DocUnder(r.s, ROOT) = With(q, p, List(InsertAt(At(q, p).items, i + 1, d)))

(* What the move of an element leaves under k: the document e.             *)
MovesIn(s, k, e, r) ==
  r.ok = TRUE /\ Tree(r.s) /\ Confined(s, r.s, k) /\ DocUnder(r.s, k) = e

(* SeqMut::insert_at puts the element at its place, whatever is moved.     *)
LEMMA MovedIn ==
  ASSUME NowhereApart, NEW s, NEW p, NEW k, Opening(s, p, k), HasKind(s, k, "list"),
         NEW d, NEW n \in Nat, NEW ds, DocUnder(s, k) = List(Append(ds, d)),
         NEW S, ds \in Seq(S), Len(ds) = n, NEW i \in 0..n
  PROVE  MovesIn(s, k, List(InsertAt(ds, i + 1, d)), ListMove(s, k, n, i))
  <1> DEFINE items == s.node[k].items
             ks == MoveIn(items, n, i)
             t == SetItems(s, k, ks)
             r == ListMove(s, k, n, i)
             new == Append(ds, d)
  <1>1. r.ok = TRUE /\ r.s = t
    BY DEF ListMove, Done
  <1>2. /\ items \in Seq(Nat \ {ROOT}) /\ Len(items) \in Nat
        /\ DocUnder(s, k).items = ItemDocs(s, items) /\ Len(ItemDocs(s, items)) = Len(items)
    BY ItemDocsIs
  <1>3. ItemDocs(s, items) = new
    BY <1>2 DEF List
  <1>4. Len(new) = n + 1
    <2>1. DOMAIN new = 1..n + 1 
      OBVIOUS
    <2>2. ds \in Seq(S \cup {d})
      <3>1. \A x \in 1..n : ds[x] \in S \cup {d}
        BY ElementOfSeq
      <3>2. ds = [x \in 1..n |-> ds[x]] /\ DOMAIN ds = 1..n
        BY LenProperties
      <3> QED  BY <3>1, <3>2, MapLen
    <2> QED  BY <2>2, AppendProperties
  <1> HIDE DEF items
  <1>5. i \in Nat /\ n < Len(items)
    BY <1>2, <1>3, <1>4
  <1>6. ks \in Seq(Nat \ {ROOT}) /\ Rearranged(items, ks)
    BY <1>2, <1>5, MoveOrders
  <1>7. ItemDocs(s, ks) = MoveIn(new, n, i)
    <2>1. ItemDocs(s, ks) = MoveIn(ItemDocs(s, items), n, i)
      BY <1>2, <1>5, MoveDocs
    <2> QED  BY <1>3, <2>1
  <1>8. MoveIn(new, n, i) = InsertAt(ds, i + 1, d)
    BY MoveLast
  <1> HIDE DEF ks
  <1>9. /\ Tree(t) /\ Confined(s, t, k)
        /\ DocUnder(t, k) = List([x \in 1..Len(ks) |-> DocUnder(s, ks[x])])
    BY <1>6, ItemsReordered DEF items
  <1> HIDE DEF t, r, new
  <1>10. DocUnder(t, k) = List(ItemDocs(s, ks))
    BY <1>9 DEF ItemDocs
  <1> QED  BY <1>1, <1>7, <1>8, <1>9, <1>10 DEF r, MovesIn

(* SeqMut::insert puts the document at its place in the list.              *)
LEMMA InsertDoc ==
  ASSUME NowhereApart, NEW s, NEW p, NEW k, Opening(s, p, k), HasKind(s, k, "list"),
         NEW d, Flat(d), NEW n, n = Len(s.node[k].items),
         NEW new, new = WriteValue(s, ROOT, Append(p, Index(n)), d), NEW i \in 0..n
  PROVE  /\ InsertedAt(s, p, i, d, IF new.ok THEN ListMove(new.s, k, n, i) ELSE new)
         /\ Is(At(DocUnder(s, ROOT), p), "list")
         /\ n = Len(At(DocUnder(s, ROOT), p).items)
  <1> DEFINE D == DocUnder(s, ROOT)
             ds == At(D, p).items
             e == List(Append(ds, d))
             r == ListMove(new.s, k, n, i)
             x == List(InsertAt(ds, i + 1, d))
  <1>1. p \in Seq(Segment)
    BY DEF Opening
  <1>2. At(D, p) = DocUnder(s, k) /\ Fits(D, p) /\ Sane(D, p)
    BY OpeningDoc
  <1>3. /\ n \in Nat /\ Len(ds) = n /\ \E S : ds \in Seq(S)
        /\ Is(At(D, p), "list")
    <2>1. PICK S : /\ Len(s.node[k].items) \in Nat
                   /\ DocUnder(s, k).items \in Seq(S)
                   /\ Len(DocUnder(s, k).items) = Len(s.node[k].items)
                   /\ Is(DocUnder(s, k), "list")
      BY ItemDocsIs
    <2> QED  BY <1>2, <2>1
  <1>4. Extended(s, p, k, d, new)
    BY ExtendDoc
  <1>5. /\ new.ok = TRUE /\ Tree(new.s) /\ Opening(new.s, p, k) /\ HasKind(new.s, k, "list")
        /\ DocUnder(new.s, k) = e
        /\ DocUnder(new.s, ROOT) = With(D, p, e)
    BY <1>4 DEF Extended
  <1>6. r.ok = TRUE /\ Tree(r.s) /\ Confined(new.s, r.s, k) /\ DocUnder(r.s, k) = x
    <2>1. PICK S : ds \in Seq(S)
      BY <1>3
    <2> HIDE DEF ds, D
    <2> DEFINE u == new.s
    <2>2. Opening(u, p, k) /\ HasKind(u, k, "list") /\ DocUnder(u, k) = List(Append(ds, d))
      BY <1>5
    <2> HIDE DEF u
    <2>3. MovesIn(u, k, List(InsertAt(ds, i + 1, d)), ListMove(u, k, n, i))
      BY <1>3, <2>1, <2>2, MovedIn
    <2> QED  BY <2>3 DEF MovesIn, u
  <1> HIDE DEF r, x, e, ds
  <1>7. DocUnder(r.s, ROOT) = With(DocUnder(new.s, ROOT), p, x)
    BY <1>5, <1>6, OpeningLift
  <1>8. e # Nowhere /\ x # Nowhere
    BY DEF NowhereApart, e, x
  <1>9. With(With(D, p, e), p, x) = With(D, p, x)
    <2> HIDE DEF D
    <2> QED  BY <1>1, <1>2, <1>8, WithWith
  <1>10. InsertedAt(s, p, i, d, r)
    BY <1>5, <1>6, <1>7, <1>9 DEF InsertedAt, x, ds
  <1> QED  BY <1>3, <1>5, <1>10 DEF r, ds

------------------------------------------------------------------------------
(* Removals that keep the rest                                             *)


(* e is d with some of its parts gone, the others in their order.          *)
KeptList(d, e) ==
  \E n \in 0..Len(d.items) : \E from \in [1..n -> DOMAIN d.items] :
    /\ \A x, y \in 1..n : x < y => from[x] < from[y]
    /\ e = List([x \in 1..n |-> d.items[from[x]]])

(* e is the object d with some of its fields gone.                         *)
KeptObject(d, e) ==
  \E kept \in SUBSET DOMAIN d.fields : e = Object([n \in kept |-> d.fields[n]])

(* e is the container d with some of its parts gone.                       *)
Kept(d, e) == (Is(d, "list") /\ KeptList(d, e)) \/ (Is(d, "object") /\ KeptObject(d, e))

(* A container with all its parts.                                         *)
LEMMA KeptSelf ==
  ASSUME NowhereApart, NEW d, Proper(d), IsContainer(d)
  PROVE  Kept(d, d)
  <1>1. CASE Is(d, "list")
    <2>1. PICK S : d = List(d.items) /\ d.items \in Seq(S)
      BY <1>1, ProperIs
    <2> DEFINE f == d.items
               n == Len(f)
               from == [x \in 1..n |-> x]
    <2>2. n \in Nat /\ DOMAIN f = 1..n /\ f = [x \in 1..n |-> f[x]]
      BY <2>1, LenProperties
    <2>3. n \in 0..n /\ from \in [1..n -> DOMAIN f]
      BY <2>2
    <2>4. \A x, y \in 1..n : x < y => from[x] < from[y]
      OBVIOUS
    <2>5. [x \in 1..n |-> f[from[x]]] = f
      <3>1. [x \in 1..n |-> f[from[x]]] = [x \in 1..n |-> f[x]]
        OBVIOUS
      <3> QED  BY <2>2, <3>1
    <2> HIDE DEF from
    <2>6. d = List([x \in 1..n |-> f[from[x]]])
      BY <2>1, <2>5
    <2> QED  BY <1>1, <2>3, <2>4, <2>6 DEF Kept, KeptList
  <1>2. CASE Is(d, "object")
    <2>1. PICK names, S : \E f \in [names -> S] : d = Object(f) /\ f = d.fields
      BY <1>2, ProperIs
    <2>2. d = Object([n \in DOMAIN d.fields |-> d.fields[n]])
      BY <2>1
    <2> QED  BY <1>2, <2>2 DEF Kept, KeptObject
  <1> QED  BY <1>1, <1>2 DEF IsContainer

(* One element less.                                                       *)
LEMMA KeptDropItem ==
  ASSUME NEW d, NEW S, d.items \in Seq(S), NEW e, KeptList(d, e),
         NEW i \in Nat, i < Len(e.items)
  PROVE  KeptList(d, List(RemoveAt(e.items, i + 1)))
  <1> DEFINE f == d.items
             a == i + 1
  <1>0. PICK n \in 0..Len(f) : \E from \in [1..n -> DOMAIN f] :
             /\ \A x, y \in 1..n : x < y => from[x] < from[y]
             /\ e = List([x \in 1..n |-> f[from[x]]])
    BY DEF KeptList
  <1>1. PICK from \in [1..n -> DOMAIN f] :
             /\ \A x, y \in 1..n : x < y => from[x] < from[y]
             /\ e = List([x \in 1..n |-> f[from[x]]])
    BY <1>0
  <1> DEFINE g == [x \in 1..n |-> f[from[x]]]
             h == RemoveAt(g, a)
             less == [x \in 1..n - 1 |-> IF x < a THEN from[x] ELSE from[x + 1]]
  <1>2. Len(f) \in Nat /\ DOMAIN f = 1..Len(f) /\ n \in Nat
    BY LenProperties
  <1>3. e.items = g
    BY <1>1 DEF List
  <1>4. g \in Seq(S) /\ Len(g) = n
    <2>1. \A x \in 1..n : g[x] \in S
      BY <1>2, ElementOfSeq
    <2>2. DOMAIN g = 1..n /\ g = [x \in 1..n |-> g[x]]
      OBVIOUS
    <2> HIDE DEF g
    <2> QED  BY <1>2, <2>1, <2>2, MapLen
  <1>5. i < n /\ a \in 1..n /\ n - 1 \in Nat
    BY <1>2, <1>3, <1>4
  <1>6. \A x \in 1..n : g[x] = f[from[x]]
    OBVIOUS
  <1> HIDE DEF g, a
  <1>7. /\ h \in Seq(S) /\ Len(h) = n - 1
        /\ \A x \in 1..n - 1 : h[x] = IF x < a THEN g[x] ELSE g[x + 1]
    BY <1>4, <1>5, RemoveAtItems
  <1> HIDE DEF h
  <1>8. less \in [1..n - 1 -> DOMAIN f]
    <2>1. \A x \in 1..n - 1 : x \in 1..n /\ x + 1 \in 1..n
      BY <1>5
    <2> QED  BY <2>1
  <1>9. ASSUME NEW x \in 1..n - 1, NEW y \in 1..n - 1, x < y PROVE less[x] < less[y]
    <2> DEFINE x1 == IF x < a THEN x ELSE x + 1
               y1 == IF y < a THEN y ELSE y + 1
    <2>1. x1 \in 1..n /\ y1 \in 1..n /\ x1 < y1
      BY <1>5, <1>9
    <2>2. less[x] = from[x1] /\ less[y] = from[y1]
      OBVIOUS
    <2> HIDE DEF x1, y1, less
    <2> QED  BY <1>1, <2>1, <2>2
  <1>10. ASSUME NEW x \in 1..n - 1 PROVE h[x] = f[less[x]]
    <2>1. x \in 1..n /\ x + 1 \in 1..n
      BY <1>5
    <2>2. CASE x < a
      BY <1>6, <1>7, <2>1, <2>2
    <2>3. CASE ~(x < a)
      BY <1>6, <1>7, <2>1, <2>3
    <2> QED  BY <2>2, <2>3
  <1>11. h = [x \in 1..n - 1 |-> f[less[x]]]
    <2>1. DOMAIN h = 1..n - 1 /\ h = [x \in 1..n - 1 |-> h[x]]
      BY <1>7, LenProperties
    <2> HIDE DEF less
    <2> QED  BY <1>10, <2>1
  <1> HIDE DEF less
  <1>12. n - 1 \in 0..Len(f)
    BY <1>2, <1>5
  <1> DEFINE m == n - 1
  <1> HIDE DEF m
  <1>13. /\ m \in 0..Len(f) /\ less \in [1..m -> DOMAIN f]
         /\ \A x, y \in 1..m : x < y => less[x] < less[y]
         /\ List(h) = List([x \in 1..m |-> f[less[x]]])
    BY <1>8, <1>9, <1>11, <1>12 DEF m
  <1>14. KeptList(d, List(h))
    BY <1>13 DEF KeptList
  <1> QED  BY <1>3, <1>14 DEF h, a

(* One field less.                                                         *)
LEMMA KeptDropField ==
  ASSUME NEW d, NEW e, KeptObject(d, e), NEW n
  PROVE  KeptObject(d, Object([m \in DOMAIN e.fields \ {n} |-> e.fields[m]]))
  <1>1. PICK kept \in SUBSET DOMAIN d.fields : e = Object([m \in kept |-> d.fields[m]])
    BY DEF KeptObject
  <1>2. e.fields = [m \in kept |-> d.fields[m]]
    BY <1>1 DEF Object
  <1>3. [m \in DOMAIN e.fields \ {n} |-> e.fields[m]] = [m \in kept \ {n} |-> d.fields[m]]
    BY <1>2
  <1>4. kept \ {n} \in SUBSET DOMAIN d.fields
    OBVIOUS
  <1> QED  BY <1>3, <1>4 DEF KeptObject

(* One part less.                                                          *)
LEMMA KeptDrop ==
  ASSUME NowhereApart, NEW d, Proper(d), NEW e, Kept(d, e), NEW seg \in Segment,
         Kid(e, seg) # Nowhere
  PROVE  Kept(d, DropKid(e, seg))
  <1>1. CASE Is(d, "list") /\ KeptList(d, e)
    <2>1. PICK S : d.items \in Seq(S)
      BY <1>1, ProperIs
    <2>2. ~Is(e, "object")
      BY <1>1 DEF KeptList, List, Is
    <2>3. IsIndex(seg) /\ seg.index < Len(e.items)
      BY <2>2 DEF Kid
    <2>4. seg.index \in Nat
      BY <2>3, SegmentKinds
    <2>5. DropKid(e, seg) = List(RemoveAt(e.items, seg.index + 1))
      BY <2>3 DEF DropKid, IsName
    <2>6. KeptList(d, List(RemoveAt(e.items, seg.index + 1)))
      BY <1>1, <2>1, <2>3, <2>4, KeptDropItem
    <2> QED  BY <1>1, <2>5, <2>6 DEF Kept
  <1>2. CASE Is(d, "object") /\ KeptObject(d, e)
    <2>1. ~Is(e, "list")
      BY <1>2 DEF KeptObject, Object, Is
    <2>2. IsName(seg)
      BY <2>1 DEF Kid
    <2>3. DropKid(e, seg) = Object([m \in DOMAIN e.fields \ {seg.name} |-> e.fields[m]])
      BY <2>2 DEF DropKid
    <2>4. KeptObject(d, DropKid(e, seg))
      <3> DEFINE n == seg.name
      <3>1. KeptObject(d, e)
        BY <1>2
      <3> HIDE DEF n
      <3>2. KeptObject(d, Object([m \in DOMAIN e.fields \ {n} |-> e.fields[m]]))
        BY <3>1, KeptDropField
      <3> QED  BY <2>3, <3>2 DEF n
    <2> QED  BY <1>2, <2>4 DEF Kept
  <1> QED  BY <1>1, <1>2 DEF Kept

(* What removals of one call leave: the container without some parts.      *)
Retained(s, p, k, r) ==
  /\ r.ok = TRUE /\ Opening(r.s, p, k) /\ IsContainer(DocUnder(r.s, k))
  /\ Kept(DocUnder(s, k), DocUnder(r.s, k))
  /\ DocUnder(r.s, ROOT) = With(DocUnder(s, ROOT), p, DocUnder(r.s, k))

(* Before the first removal the container has all its parts.               *)
LEMMA RetainedFirst ==
  ASSUME NowhereApart, NEW s, NEW p, NEW k, Opening(s, p, k), IsContainer(DocUnder(s, k))
  PROVE  Retained(s, p, k, Done(s, NoKey))
  <1> DEFINE r == Done(s, NoKey)
  <1>1. r.ok = TRUE /\ r.s = s
    BY DEF Done
  <1> HIDE DEF r
  <1>2. Proper(DocUnder(s, k))
    BY DocIs DEF Opening
  <1>3. Kept(DocUnder(s, k), DocUnder(s, k))
    BY <1>2, KeptSelf
  <1>4. Tree(s) /\ Confined(s, s, k)
    BY ConfinedSelf DEF Opening
  <1>5. DocUnder(s, ROOT) = With(DocUnder(s, ROOT), p, DocUnder(s, k))
    BY <1>4, OpeningLift
  <1> QED  BY <1>1, <1>3, <1>5 DEF Retained, r

(* One more removal leaves some parts less.                                *)
LEMMA RetainedNext ==
  ASSUME NowhereApart, NEW s, NEW p, NEW k, Opening(s, p, k),
         NEW r, Retained(s, p, k, r), NEW seg \in Segment
  PROVE  Retained(s, p, k, RemovePath(r.s, Append(p, seg)))
  <1> DEFINE t == r.s
             q == Append(p, seg)
             o == RemovePath(t, q)
             u == o.s
             d == DocUnder(s, k)
             x == DocUnder(t, k)
             D == DocUnder(s, ROOT)
  <1>1. /\ r.ok = TRUE /\ Opening(t, p, k) /\ Kept(d, x) /\ IsContainer(x)
        /\ DocUnder(t, ROOT) = With(D, p, x)
    BY DEF Retained
  <1> HIDE DEF t
  <1>2. /\ Tree(t) /\ p \in Seq(Segment) /\ Unpacked(t, ROOT, p) /\ k # NoKey
        /\ ResolveFrom(t, ROOT, p) = k /\ Reached(t, k) /\ k \in Nat
    BY <1>1 DEF Opening
  <1>3. q \in Seq(Segment) /\ q # <<>> /\ Front(q) = p /\ Last(q) = seg
    BY <1>2, PathAppend
  <1> HIDE DEF q
  <1>4. CASE ResolveFrom(t, ROOT, q) = NoKey
    <2>1. WayClear(t, q)
      BY <1>2, <1>3 DEF WayClear
    <2>2. o = Done(t, NoKey)
      BY <1>2, <1>3, <1>4, <2>1, RemoveNothing
    <2>3. o.ok = TRUE /\ u = t
      BY <2>2 DEF Done
    <2> HIDE DEF o, u
    <2>4. Retained(s, p, k, o)
      BY <1>1, <2>3 DEF Retained, u
    <2> QED  BY <2>4 DEF o, t, q
  <1>5. CASE ResolveFrom(t, ROOT, q) # NoKey
    <2> DEFINE gone == Visited(t, {ChildKey(t, k, seg)})
    <2>1. /\ o.ok = TRUE /\ Tree(u) /\ Parent(t, q, k)
          /\ ChildKey(t, k, seg) = ResolveFrom(t, ROOT, q)
          /\ Cut(t, u, k, seg, gone)
      BY <1>2, <1>3, <1>5, RemoveCut
    <2>2. ChildKey(t, k, seg) # NoKey
      BY <1>5, <2>1
    <2>3. Holder(t, k, seg)
      BY <1>3, <2>1 DEF Parent
    <2> HIDE DEF o, u
    <2>4. DocUnder(u, k) = DropKid(x, seg) /\ Holder(u, k, seg)
      BY <1>2, <2>1, <2>2, <2>3, CutDoc
    <2>5. Confined(t, u, k)
      BY <1>2, <2>1, <2>2, CutConfined
    <2>6. Live(u, k) /\ ~HasKind(u, k, "packed")
      BY <2>4 DEF Holder, HasKind
    <2>7. Opening(u, p, k)
      BY <1>1, <2>1, <2>5, <2>6, OpeningStays
    <2>8. DocUnder(u, ROOT) = With(With(D, p, x), p, DocUnder(u, k))
      BY <1>1, <2>1, <2>5, OpeningLift
    <2> DEFINE y == DocUnder(u, k)
    <2>9. x # Nowhere /\ y # Nowhere
      BY <1>1, <2>7, OpeningDoc
    <2>10. Fits(D, p) /\ Sane(D, p)
      BY OpeningDoc
    <2>11. IsContainer(y)
      <3>1. /\ Is(y, "list") <=> HasKind(u, k, "list")
            /\ Is(y, "object") <=> HasKind(u, k, "object")
        BY <2>7, OpeningDoc
      <3> HIDE DEF y
      <3> QED  BY <2>4, <3>1 DEF Holder, IsContainer
    <2>12. Kid(x, seg) # Nowhere
      BY <1>2, <2>2, ChildTaken
    <2>13. Proper(d)
      BY DocIs DEF Opening
    <2> HIDE DEF x, d, D
    <2>14. Kept(d, DropKid(x, seg))
      BY <1>1, <2>12, <2>13, KeptDrop
    <2>15. Kept(d, y)
      BY <2>4, <2>14
    <2> HIDE DEF y
    <2>16. With(With(D, p, x), p, y) = With(D, p, y)
      BY <1>2, <2>9, <2>10, WithWith
    <2>17. DocUnder(u, ROOT) = With(D, p, y)
      BY <2>8, <2>16 DEF y
    <2>18. Retained(s, p, k, o)
      BY <2>1, <2>7, <2>11, <2>15, <2>17 DEF Retained, u, y, d, D
    <2> QED  BY <2>18 DEF o, q, t
  <1> QED  BY <1>4, <1>5

(* All removals of one call leave the container without some parts.        *)
LEMMA RetainDoc ==
  ASSUME NowhereApart, NEW s, NEW p, NEW k, Opening(s, p, k), IsContainer(DocUnder(s, k)),
         NEW segs \in Seq(Segment), NEW gone
  PROVE  Retained(s, p, k, RemoveEach(s, p, segs, gone))
  <1>1. PICK g : Each(g, s, p, segs, gone) /\ RemoveEach(s, p, segs, gone) = g[Len(segs)]
    BY EachSteps
  <1> DEFINE n == Len(segs)
             P(i) == Retained(s, p, k, g[i])
             S == {i \in Nat : i <= n => P(i)}
  <1>2. n \in Nat
    BY LenProperties
  <1>3. 0 \in S
    <2>1. g[0] = Done(s, NoKey)
      BY <1>1 DEF Each
    <2> QED  BY <2>1, RetainedFirst
  <1>4. ASSUME NEW i \in Nat, i \in S PROVE i + 1 \in S
    <2>1. SUFFICES ASSUME i + 1 <= n PROVE P(i + 1)
      OBVIOUS
    <2> DEFINE j == i + 1
    <2>2. j \in 1..n /\ j - 1 = i /\ i <= n
      BY <1>2, <2>1
    <2>3. P(i)
      BY <1>4, <2>2
    <2>4. g[j] = IF g[i].ok /\ segs[j] \in gone
                 THEN RemovePath(g[i].s, Append(p, segs[j])) ELSE g[i]
      BY <1>1, <2>2 DEF Each
    <2>5. segs[j] \in Segment
      BY <2>2, ElementOfSeq
    <2> HIDE DEF j
    <2> DEFINE r == g[i]
               seg == segs[j]
    <2>6. Retained(s, p, k, r)
      BY <2>3
    <2> HIDE DEF r, seg
    <2>7. Retained(s, p, k, RemovePath(r.s, Append(p, seg)))
      BY <2>5, <2>6, RetainedNext DEF seg
    <2>8. P(j)
      BY <2>3, <2>4, <2>7 DEF r, seg
    <2> QED  BY <2>8 DEF j
  <1> HIDE DEF P
  <1>5. Nat \subseteq S
    BY <1>3, <1>4, SetInduction
  <1>6. P(n)
    BY <1>2, <1>5
  <1> QED  BY <1>1, <1>6 DEF P

------------------------------------------------------------------------------
(* The calls and the abstract specification                                *)


(* A table's document is made of its entries alone.                        *)
LEMMA SameTableDoc ==
  ASSUME NEW s, NEW t, t.node = s.node, t.link = s.link, NEW k
  PROVE  DocUnder(t, k) = DocUnder(s, k)
  <1>1. \A m, kind : HasKind(t, m, kind) <=> HasKind(s, m, kind)
    BY DEF HasKind, Live
  <1>2. \A m, below : NodeDoc(t, m, below) = NodeDoc(s, m, below)
    BY DEF NodeDoc
  <1>3. Levels(t) = Levels(s)
    BY <1>2 DEF Levels
  <1> QED  BY <1>3 DEF DocUnder, Live

(* Fits is that of the abstract specification.                             *)
LEMMA SameFits ==
  ASSUME NEW d, NEW p
  PROVE  /\ Abstract!Fits(d, p) <=> Fits(d, p)
         /\ Abstract!At(d, p) = At(d, p)
  BY DEF Abstract!Fits, Abstract!At, Abstract!Along, Abstract!Kid, Abstract!Is,
         Abstract!IsName, Abstract!IsIndex, Abstract!Takes, Abstract!Through,
         Abstract!Container, Abstract!EmptyList, Abstract!EmptyObject,
         Abstract!List, Abstract!Object,
         Fits, At, Along, Kid, Is, IsName, IsIndex, Takes, Through, Container,
         EmptyList, EmptyObject, List, Object

(* So is With.                                                             *)
LEMMA SameWith ==
  ASSUME NEW d, NEW p, NEW x
  PROVE  Abstract!With(d, p, x) = With(d, p, x)
  BY DEF Abstract!With, Abstract!SetKid, Abstract!Along, Abstract!Kid, Abstract!Is,
         Abstract!IsName, Abstract!IsIndex, Abstract!Through, Abstract!Container,
         Abstract!EmptyList, Abstract!EmptyObject, Abstract!List, Abstract!Object,
         With, SetKid, Along, Kid, Is, IsName, IsIndex, Through, Container,
         EmptyList, EmptyObject, List, Object

(* So is DropKid.                                                          *)
LEMMA SameDrop ==
  ASSUME NEW d, NEW seg
  PROVE  Abstract!DropKid(d, seg) = DropKid(d, seg)
  BY DEF Abstract!DropKid, Abstract!IsName, Abstract!IsIndex, Abstract!List,
         Abstract!Object, Abstract!RemoveAt, DropKid, IsName, IsIndex, List, Object,
         RemoveAt

(* So is Without.                                                          *)
LEMMA SameWithout ==
  ASSUME NEW d, NEW p
  PROVE  Abstract!Without(d, p) = Without(d, p)
  <1>1. Abstract!Front(p) = Front(p) /\ Abstract!Last(p) = Last(p)
    BY DEF Abstract!Front, Abstract!Last, Front, Last
  <1>2. Abstract!At(d, p) = At(d, p) /\ Abstract!At(d, Front(p)) = At(d, Front(p))
    BY SameFits
  <1>3. Abstract!DropKid(At(d, Front(p)), Last(p)) = DropKid(At(d, Front(p)), Last(p))
    BY SameDrop
  <1>4. \A x : Abstract!With(d, Front(p), x) = With(d, Front(p), x)
    BY SameWith
  <1> QED  BY <1>1, <1>2, <1>3, <1>4 DEF Abstract!Without, Without

(* So is Stopped.                                                          *)
LEMMA SameStopped ==
  ASSUME NEW d, NEW p
  PROVE  Abstract!Stopped(d, p) = Stopped(d, p)
  <1>1. \A kind : Abstract!Container(kind) = Container(kind)
    BY DEF Abstract!Container, Abstract!EmptyList, Abstract!EmptyObject, Abstract!List,
           Abstract!Object, Container, EmptyList, EmptyObject, List, Object
  <1>2. \A i : Abstract!Container(Abstract!IsIndex(p[i])) = Container(IsIndex(p[i]))
    BY <1>1 DEF Abstract!IsIndex, IsIndex
  <1>3. \A i : Abstract!Prefix(p, i) = Prefix(p, i)
    BY DEF Abstract!Prefix, Prefix
  <1>4. \A i : /\ Abstract!At(d, Prefix(p, i)) = At(d, Prefix(p, i))
               /\ Abstract!Fits(d, Prefix(p, i)) <=> Fits(d, Prefix(p, i))
    BY SameFits
  <1>5. \A i, x : Abstract!With(d, Prefix(p, i), x) = With(d, Prefix(p, i), x)
    BY SameWith
  <1> DEFINE I == {x \in 0..Len(p) - 1 : At(d, Prefix(p, x)) = Nowhere
                                           /\ Fits(d, Prefix(p, x))}
             J == {x \in 0..Len(p) - 1 : Abstract!At(d, Abstract!Prefix(p, x)) = Nowhere
                                           /\ Abstract!Fits(d, Abstract!Prefix(p, x))}
  <1>6. I = J
    BY <1>3, <1>4
  <1>7. Abstract!Stopped(d, p) =
          {d} \cup {Abstract!With(d, Abstract!Prefix(p, i),
                                   Abstract!Container(Abstract!IsIndex(p[i + 1]))) : i \in J}
    BY DEF Abstract!Stopped
  <1>8. Stopped(d, p) =
          {d} \cup {With(d, Prefix(p, i), Container(IsIndex(p[i + 1]))) : i \in I}
    BY DEF Stopped
  <1> HIDE DEF I, J
  <1> QED  BY <1>2, <1>3, <1>5, <1>6, <1>7, <1>8

(* What a call that ends leaves of the document, and of what the history   *)
(* remembers.                                                              *)
LEMMA Finished ==
  ASSUME NEW c, NEW r, Finish(c, r)
  PROVE  /\ doc' = DocUnder(r.s, ROOT)
         /\ failed' = (failed \/ ~r.ok)
         /\ call' = c
  <1>1. Table'.node = r.s.node /\ Table'.link = r.s.link
    BY DEF Finish, Table
  <1>2. DocUnder(Table', ROOT) = DocUnder(r.s, ROOT)
    BY <1>1, SameTableDoc
  <1>3. doc' = DocUnder(Table', ROOT)
    BY DEF doc, ROOT
  <1> QED  BY <1>2, <1>3 DEF Finish

(* A call is the same for both specifications.                             *)
LEMMA SameCall ==
  ASSUME NEW op, NEW p, NEW arg
  PROVE  Abstract!Call(op, p, arg) = Call(op, p, arg)
  BY DEF Abstract!Call, Call

(* A step that writes a part at p is the abstract write, or its failure.   *)
LEMMA WriteCall ==
  ASSUME failed \in BOOLEAN, NEW op, NEW p, NEW d, NEW r,
         Finish(Call(op, p, d), r), Writes(Table, p, d, r)
  PROVE  Abstract!Write(op, p, d) \/ Abstract!Fail(op, p, d)
  <1>1. /\ doc' = DocUnder(r.s, ROOT)
        /\ failed' = (failed \/ ~r.ok)
        /\ call' = Abstract!Call(op, p, d)
    BY Finished, SameCall
  <1>2. /\ r.ok \in BOOLEAN
        /\ r.ok <=> Abstract!Fits(doc, p)
        /\ r.ok => DocUnder(r.s, ROOT) = Abstract!With(doc, p, d)
        /\ ~r.ok => DocUnder(r.s, ROOT) \in Abstract!Stopped(doc, p)
    BY SameFits, SameWith, SameStopped DEF Writes, doc
  <1>3. CASE r.ok
    <2>1. Abstract!Write(op, p, d)
      BY <1>1, <1>2, <1>3 DEF Abstract!Write
    <2> QED  BY <2>1
  <1>4. CASE ~r.ok
    <2>1. Abstract!Fail(op, p, d)
      BY <1>1, <1>2, <1>4 DEF Abstract!Fail
    <2> QED  BY <2>1
  <1> QED  BY <1>3, <1>4

(* Paths and the documents calls store are what the lemmas ask for.        *)
LEMMA CallInputs ==
  ASSUME NEW p \in Paths
  PROVE  /\ p \in Seq(Segment) /\ Len(p) <= 2
         /\ \A d \in Stored : Flat(d)
  BY TreeAssumption

(* A call that succeeds.                                                   *)
LEMMA QuietCall ==
  ASSUME failed \in BOOLEAN, NEW op, NEW p, NEW arg, NEW r,
         Finish(Call(op, p, arg), r), r.ok = TRUE
  PROVE  /\ doc' = DocUnder(r.s, ROOT)
         /\ failed' = failed
         /\ call' = Abstract!Call(op, p, arg)
  BY Finished, SameCall

(* What a call through an accessor writes it writes to the document that   *)
(* was there before the accessor was opened.                               *)
LEMMA OpenedWrites ==
  ASSUME NowhereApart, Tree(Table), NEW p \in Seq(Segment), NEW q, NEW d, NEW r,
         Writes(Opened(p), q, d, r)
  PROVE  Writes(Table, q, d, r)
  BY OpenedDoc DEF Writes

(* A put of a scalar is a write of the abstract specification, or fails as *)
(* one.                                                                    *)
LEMMA PutCall ==
  ASSUME NowhereApart, TreeInv, NEW p \in Paths, NEW v \in Values, Put(p, v)
  PROVE  Abstract!Write("put", p, Leaf(v)) \/ Abstract!Fail("put", p, Leaf(v))
  <1>1. Tree(Table) /\ failed \in BOOLEAN
    BY DEF TreeInv
  <1>2. Writes(Table, p, Leaf(v), PutStep(p, v))
    BY <1>1, CallInputs, PutStepWrites
  <1>3. Finish(Call("put", p, Leaf(v)), PutStep(p, v))
    BY DEF Put
  <1> QED  BY <1>1, <1>2, <1>3, WriteCall

(* A removal is a deletion of the abstract specification.                  *)
LEMMA RemoveCall ==
  ASSUME NowhereApart, TreeInv, NEW p \in Paths, RemoveAtPath(p)
  PROVE  Abstract!Delete(p)
  <1> DEFINE r == RemoveStep(p)
  <1>1. Tree(Table) /\ failed \in BOOLEAN
    BY DEF TreeInv
  <1>2. r.ok = TRUE /\ DocUnder(r.s, ROOT) = Without(doc, p)
    BY <1>1, CallInputs, RemoveStepDoc DEF doc
  <1>3. Finish(Call("remove", p, Nowhere), r)
    BY DEF RemoveAtPath
  <1> HIDE DEF r
  <1>4. /\ doc' = Abstract!Without(doc, p)
        /\ failed' = failed
        /\ call' = Abstract!Call("remove", p, Nowhere)
    BY <1>1, <1>2, <1>3, QuietCall, SameWithout
  <1> QED  BY <1>4 DEF Abstract!Delete

(* A store, node by node or packed, is a write of the abstract             *)
(* specification, or fails as one.                                         *)
LEMMA StoreCall ==
  ASSUME NowhereApart, ~StoreShifts, ~StoreIntoPacked, TreeInv, NEW p \in Paths,
         NEW d \in Stored, Store(p, d) \/ StoreValue(p, d)
  PROVE  Abstract!Write("store", p, d) \/ Abstract!Fail("store", p, d)
  <1>1. Tree(Table) /\ failed \in BOOLEAN /\ p \in Seq(Segment) /\ Len(p) <= 2 /\ Flat(d)
    BY CallInputs DEF TreeInv
  <1>2. CASE Store(p, d)
    <2>1. MayStore(Table, p) /\ Finish(Call("store", p, d), StoreStep(p, d))
      BY <1>2 DEF Store
    <2>2. Writes(Table, p, d, StoreStep(p, d))
      BY <1>1, <2>1, StoreStepWrites
    <2> QED  BY <1>1, <2>1, <2>2, WriteCall
  <1>3. CASE StoreValue(p, d)
    <2>1. MayStore(Table, p) /\ Finish(Call("store", p, d), ReplaceIn(Table, p, d))
      BY <1>3 DEF StoreValue, Replace
    <2>2. WayClear(Table, p) /\ Unshifted(Table, p)
      BY <1>1, <2>1, MayStoreIs
    <2>3. Writes(Table, p, d, ReplaceIn(Table, p, d))
      BY <1>1, <2>2, ReplaceWrites
    <2> QED  BY <1>1, <2>1, <2>3, WriteCall
  <1> QED  BY <1>2, <1>3

(* Opening an accessor with fetch_mut changes nothing of the document.     *)
LEMMA OpenCall ==
  ASSUME NowhereApart, TreeInv, NEW p \in Paths, FetchMut(p)
  PROVE  Abstract!Open(p)
  <1> DEFINE r == Done(Opened(p), NoKey)
  <1>1. Tree(Table) /\ failed \in BOOLEAN /\ p \in Seq(Segment)
    BY CallInputs DEF TreeInv
  <1>2. r.ok = TRUE /\ DocUnder(r.s, ROOT) = doc
    BY <1>1, OpenedDoc DEF doc, Done
  <1>3. Finish(Call("open", p, Nowhere), r)
    BY DEF FetchMut
  <1> HIDE DEF r
  <1>4. doc' = doc /\ failed' = failed /\ call' = Abstract!Call("open", p, Nowhere)
    BY <1>1, <1>2, <1>3, QuietCall
  <1> QED  BY <1>4 DEF Abstract!Open

(* An accessor works on the document that was there before it was opened.  *)
LEMMA AccessorOpens ==
  ASSUME NowhereApart, TreeInv, NEW p \in Paths,
         NEW kinds \in SUBSET {"object", "list", "leaf"}, NEW k \in Accessor(Opened(p), p, kinds)
  PROVE  /\ Opening(Opened(p), p, k)
         /\ \E kind \in kinds : HasKind(Opened(p), k, kind)
         /\ DocUnder(Opened(p), ROOT) = doc
         /\ At(doc, p) = DocUnder(Opened(p), k)
  <1>1. Tree(Table) /\ p \in Seq(Segment)
    BY CallInputs DEF TreeInv
  <1>2. Tree(Opened(p)) /\ DocUnder(Opened(p), ROOT) = doc
    BY <1>1, OpenedDoc DEF doc
  <1>3. Opening(Opened(p), p, k) /\ \E kind \in kinds : HasKind(Opened(p), k, kind)
    BY <1>1, <1>2, OpeningIs
  <1>4. At(DocUnder(Opened(p), ROOT), p) = DocUnder(Opened(p), k)
    BY <1>3, OpeningDoc
  <1> QED  BY <1>2, <1>3, <1>4

(* A container of the abstract specification.                              *)
LEMMA SameContainer ==
  ASSUME NEW d, NEW kind
  PROVE  /\ Abstract!Is(d, kind) = Is(d, kind)
         /\ Abstract!IsContainer(d) <=> IsContainer(d)
         /\ Abstract!Container(kind) = Container(kind)
         /\ \A x : Abstract!List(x) = List(x) /\ Abstract!Object(x) = Object(x)
  BY DEF Abstract!Is, Abstract!IsContainer, Abstract!Container, Abstract!EmptyList,
         Abstract!EmptyObject, Abstract!List, Abstract!Object, Is, IsContainer,
         Container, EmptyList, EmptyObject, List, Object

(* Clearing a container is so in the abstract specification.               *)
LEMMA ClearCall ==
  ASSUME NowhereApart, TreeInv, NEW p \in Paths, Clear(p)
  PROVE  Abstract!Clear(p)
  <1> DEFINE s == Opened(p)
             part == Container(Is(At(doc, p), "list"))
  <1>1. PICK k \in Accessor(s, p, {"object", "list"}) :
          Finish(Call("clear", p, Nowhere), ClearChildren(s, k))
    BY DEF Clear
  <1> DEFINE r == ClearChildren(s, k)
  <1>2. {"object", "list"} \in SUBSET {"object", "list", "leaf"} /\ failed \in BOOLEAN
    BY DEF TreeInv
  <1>3. /\ Opening(s, p, k) /\ \E kind \in {"object", "list"} : HasKind(s, k, kind)
        /\ DocUnder(s, ROOT) = doc
    BY <1>2, AccessorOpens
  <1>4. HasKind(s, k, "object") \/ HasKind(s, k, "list")
    BY <1>3
  <1>5. /\ r.ok = TRUE
        /\ IsContainer(At(doc, p))
        /\ DocUnder(r.s, ROOT) = With(doc, p, part)
    <2> HIDE DEF s
    <2> QED  BY <1>3, <1>4, ClearDoc
  <1> HIDE DEF r
  <1>6. /\ doc' = With(doc, p, part)
        /\ failed' = failed
        /\ call' = Abstract!Call("clear", p, Nowhere)
    BY <1>1, <1>2, <1>5, QuietCall DEF r
  <1>7. /\ Abstract!IsContainer(Abstract!At(doc, p))
        /\ Abstract!Container(Abstract!Is(Abstract!At(doc, p), "list")) = part
    <2>1. Abstract!At(doc, p) = At(doc, p)
      BY SameFits
    <2>2. Abstract!IsContainer(At(doc, p)) /\ Abstract!Is(At(doc, p), "list") = Is(At(doc, p), "list")
      BY <1>5, SameContainer
    <2>3. Abstract!Container(Is(At(doc, p), "list")) = part
      BY SameContainer
    <2> QED  BY <2>1, <2>2, <2>3
  <1>8. doc' = Abstract!With(doc, p, part)
    BY <1>6, SameWith
  <1> QED  BY <1>6, <1>7, <1>8 DEF Abstract!Clear

(* So is the exchange of two elements.                                     *)
LEMMA SwapCall ==
  ASSUME NowhereApart, TreeInv, NEW p \in Paths, Swap(p)
  PROVE  Abstract!Swap(p)
  <1> DEFINE s == Opened(p)
  <1>1. PICK k \in Accessor(s, p, {"list"}) :
          \E i, j \in 0..Len(s.node[k].items) - 1 :
            Finish(Call("swap", p, <<i, j>>), ListSwap(s, k, i, j))
    BY DEF Swap
  <1>2. {"list"} \in SUBSET {"object", "list", "leaf"} /\ failed \in BOOLEAN
        /\ Tree(Table) /\ p \in Seq(Segment)
    BY CallInputs DEF TreeInv
  <1>3. Opening(s, p, k) /\ HasKind(s, k, "list") /\ DocUnder(s, ROOT) = doc
    BY <1>2, AccessorOpens
  <1>4. Len(s.node[k].items) \in Nat
    BY <1>2, <1>3, ListAccessor, OpenedDoc
  <1>5. PICK i \in 0..Len(s.node[k].items) - 1, j \in 0..Len(s.node[k].items) - 1 :
          Finish(Call("swap", p, <<i, j>>), ListSwap(s, k, i, j))
    BY <1>1
  <1>6. /\ i \in Nat /\ i < Len(s.node[k].items)
        /\ j \in Nat /\ j < Len(s.node[k].items)
    BY <1>4
  <1> DEFINE r == ListSwap(s, k, i, j)
             items == At(doc, p).items
             x == List(SwapIn(items, i, j))
  <1>7. Swapped(s, p, k, i, j, r)
    <2> HIDE DEF s
    <2> QED  BY <1>3, <1>6, SwapDoc
  <1>8. /\ r.ok = TRUE /\ Is(At(doc, p), "list") /\ Len(items) = Len(s.node[k].items)
        /\ DocUnder(r.s, ROOT) = With(doc, p, x)
    <2> HIDE DEF s, r
    <2> QED  BY <1>3, <1>7 DEF Swapped
  <1> HIDE DEF r
  <1>9. /\ doc' = With(doc, p, x)
        /\ failed' = failed
        /\ call' = Abstract!Call("swap", p, <<i, j>>)
    BY <1>2, <1>5, <1>8, QuietCall DEF r
  <1>10. i \in 0..Len(items) - 1 /\ j \in 0..Len(items) - 1
    BY <1>8
  <1>11. /\ Abstract!At(doc, p) = At(doc, p)
         /\ Abstract!Is(At(doc, p), "list")
         /\ Abstract!SwapIn(items, i, j) = SwapIn(items, i, j)
         /\ \A y : Abstract!List(y) = List(y)
         /\ \A y : Abstract!With(doc, p, y) = With(doc, p, y)
    <2>1. Abstract!SwapIn(items, i, j) = SwapIn(items, i, j)
      BY DEF Abstract!SwapIn, SwapIn
    <2> QED  BY <1>8, <2>1, SameFits, SameContainer, SameWith
  <1> HIDE DEF items
  <1>12. doc' = Abstract!With(doc, p, Abstract!List(Abstract!SwapIn(items, i, j)))
    BY <1>9, <1>11
  <1> QED  BY <1>9, <1>10, <1>11, <1>12 DEF Abstract!Swap, items

(* So is swap_remove.                                                      *)
LEMMA SwapRemoveCall ==
  ASSUME NowhereApart, TreeInv, NEW p \in Paths, SwapRemove(p)
  PROVE  Abstract!SwapRemove(p)
  <1> DEFINE s == Opened(p)
  <1>1. PICK k \in Accessor(s, p, {"list"}) :
          LET last == Len(s.node[k].items) - 1
          IN  \E i \in 0..last :
                Finish(Call("swap_remove", p, i),
                       RemovePath(ListSwap(s, k, i, last).s, Append(p, Index(last))))
    BY DEF SwapRemove
  <1>2. {"list"} \in SUBSET {"object", "list", "leaf"} /\ failed \in BOOLEAN
    BY DEF TreeInv
  <1>3. Opening(s, p, k) /\ HasKind(s, k, "list") /\ DocUnder(s, ROOT) = doc
    BY <1>2, AccessorOpens
  <1> DEFINE last == Len(s.node[k].items) - 1
  <1>4. PICK i \in 0..last :
          Finish(Call("swap_remove", p, i),
                 RemovePath(ListSwap(s, k, i, last).s, Append(p, Index(last))))
    BY <1>1
  <1> DEFINE r == RemovePath(ListSwap(s, k, i, last).s, Append(p, Index(last)))
             items == At(doc, p).items
             x == List(Front(SwapIn(items, i, last)))
  <1>5. /\ r.ok = TRUE /\ Is(At(doc, p), "list") /\ last = Len(items) - 1
        /\ DocUnder(r.s, ROOT) = With(doc, p, x)
    <2>1. \A n : n = last =>
            LET u == RemovePath(ListSwap(s, k, i, n).s, Append(p, Index(n)))
                d == DocUnder(s, ROOT)
            IN  /\ u.ok = TRUE /\ Tree(u.s)
                /\ Is(At(d, p), "list") /\ n = Len(At(d, p).items) - 1
                /\ DocUnder(u.s, ROOT) = With(d, p, List(Front(SwapIn(At(d, p).items, i, n))))
      <3> HIDE DEF s
      <3> QED  BY <1>3, SwapRemoveDoc
    <2> HIDE DEF s, last
    <2> QED  BY <1>3, <2>1
  <1> HIDE DEF r
  <1>6. /\ doc' = With(doc, p, x)
        /\ failed' = failed
        /\ call' = Abstract!Call("swap_remove", p, i)
    BY <1>2, <1>4, <1>5, QuietCall DEF r
  <1>7. /\ Abstract!At(doc, p) = At(doc, p)
        /\ Abstract!Is(At(doc, p), "list")
        /\ Abstract!Front(Abstract!SwapIn(items, i, last)) = Front(SwapIn(items, i, last))
        /\ \A y : Abstract!List(y) = List(y)
        /\ \A y : Abstract!With(doc, p, y) = With(doc, p, y)
    <2> HIDE DEF last, items
    <2>1. Abstract!Front(Abstract!SwapIn(items, i, last)) = Front(SwapIn(items, i, last))
      BY DEF Abstract!SwapIn, SwapIn, Abstract!Front, Front
    <2> QED  BY <1>5, <2>1, SameFits, SameContainer, SameWith
  <1> HIDE DEF items, last
  <1>8. doc' = Abstract!With(doc, p, Abstract!List(Abstract!Front(Abstract!SwapIn(items, i, last))))
    BY <1>6, <1>7
  <1>9. /\ i \in 0..Len(items) - 1
        /\ doc' = Abstract!With(doc, p,
                     Abstract!List(Abstract!Front(Abstract!SwapIn(items, i, Len(items) - 1))))
    BY <1>5, <1>8
  <1> QED  BY <1>6, <1>7, <1>9 DEF Abstract!SwapRemove, items

(* Inserting an element is so in the abstract specification.               *)
LEMMA InsertCall ==
  ASSUME NowhereApart, TreeInv, NEW p \in Paths, NEW d \in Stored, InsertElement(p, d)
  PROVE  Abstract!Insert(p, d)
  <1> DEFINE s == Opened(p)
  <1>1. PICK k \in Accessor(s, p, {"list"}) :
          LET end == Len(s.node[k].items)
          IN  \E new \in {WriteValue(s, ROOT, Append(p, Index(end)), d)}, i \in 0..end :
                Finish(Call("insert", p, <<i, d>>),
                       IF new.ok THEN ListMove(new.s, k, end, i) ELSE new)
    BY DEF InsertElement
  <1>2. {"list"} \in SUBSET {"object", "list", "leaf"} /\ failed \in BOOLEAN /\ Flat(d)
    BY CallInputs DEF TreeInv
  <1>3. Opening(s, p, k) /\ HasKind(s, k, "list") /\ DocUnder(s, ROOT) = doc
    BY <1>2, AccessorOpens
  <1> DEFINE end == Len(s.node[k].items)
             new == WriteValue(s, ROOT, Append(p, Index(end)), d)
  <1>4. PICK i \in 0..end :
          Finish(Call("insert", p, <<i, d>>),
                 IF new.ok THEN ListMove(new.s, k, end, i) ELSE new)
    BY <1>1
  <1> DEFINE r == IF new.ok THEN ListMove(new.s, k, end, i) ELSE new
             items == At(doc, p).items
             x == List(InsertAt(items, i + 1, d))
  <1>5. /\ InsertedAt(s, p, i, d, r)
        /\ Is(At(doc, p), "list") /\ end = Len(items)
    <2>1. \A n : n = end =>
            \A t : t = WriteValue(s, ROOT, Append(p, Index(n)), d) =>
              \A a \in 0..n :
                /\ InsertedAt(s, p, a, d, IF t.ok THEN ListMove(t.s, k, n, a) ELSE t)
                /\ Is(At(DocUnder(s, ROOT), p), "list")
                /\ n = Len(At(DocUnder(s, ROOT), p).items)
      <3> HIDE DEF s
      <3> QED  BY <1>2, <1>3, InsertDoc
    <2>2. \A t : t = new =>
            /\ InsertedAt(s, p, i, d, IF t.ok THEN ListMove(t.s, k, end, i) ELSE t)
            /\ Is(At(DocUnder(s, ROOT), p), "list")
            /\ end = Len(At(DocUnder(s, ROOT), p).items)
      <3> HIDE DEF s, end
      <3> QED  BY <2>1
    <2> HIDE DEF s, end, new
    <2> QED  BY <1>3, <2>2
  <1> HIDE DEF r, new
  <1>6. r.ok = TRUE /\ DocUnder(r.s, ROOT) = With(doc, p, x)
    <2> HIDE DEF s
    <2> QED  BY <1>3, <1>5 DEF InsertedAt
  <1>7. /\ doc' = With(doc, p, x)
        /\ failed' = failed
        /\ call' = Abstract!Call("insert", p, <<i, d>>)
    BY <1>2, <1>4, <1>6, QuietCall DEF r
  <1>8. /\ Abstract!At(doc, p) = At(doc, p)
        /\ Abstract!Is(At(doc, p), "list")
        /\ Abstract!InsertAt(items, i + 1, d) = InsertAt(items, i + 1, d)
        /\ \A y : Abstract!List(y) = List(y)
        /\ \A y : Abstract!With(doc, p, y) = With(doc, p, y)
    <2>1. Abstract!InsertAt(items, i + 1, d) = InsertAt(items, i + 1, d)
      BY DEF Abstract!InsertAt, InsertAt
    <2> QED  BY <1>5, <2>1, SameFits, SameContainer, SameWith
  <1> HIDE DEF items, end
  <1>9. doc' = Abstract!With(doc, p, Abstract!List(Abstract!InsertAt(items, i + 1, d)))
    BY <1>7, <1>8
  <1>10. i \in 0..Len(items)
    BY <1>5
  <1> QED  BY <1>7, <1>8, <1>9, <1>10 DEF Abstract!Insert, items

(* The removals of one call are the abstract retain.                       *)
LEMMA RetainCall ==
  ASSUME NowhereApart, TreeInv, NEW p \in Paths,
         NEW k \in Accessor(Opened(p), p, {"object", "list"}),
         NEW segs \in Seq(Segment), NEW gone,
         Finish(Call("retain", p, Nowhere), RemoveEach(Opened(p), p, segs, gone))
  PROVE  Abstract!Retain(p)
  <1> DEFINE s == Opened(p)
             r == RemoveEach(s, p, segs, gone)
             d == At(doc, p)
             e == DocUnder(r.s, k)
  <1>1. {"object", "list"} \in SUBSET {"object", "list", "leaf"} /\ failed \in BOOLEAN
    BY DEF TreeInv
  <1>2. /\ Opening(s, p, k) /\ \E kind \in {"object", "list"} : HasKind(s, k, kind)
        /\ DocUnder(s, ROOT) = doc /\ d = DocUnder(s, k)
    BY <1>1, AccessorOpens
  <1>3. IsContainer(DocUnder(s, k))
    <2> HIDE DEF s
    <2>1. HasKind(s, k, "object") \/ HasKind(s, k, "list")
      BY <1>2
    <2> QED  BY <1>2, <2>1, OpeningDoc DEF IsContainer
  <1>4. Retained(s, p, k, r)
    <2> HIDE DEF s
    <2> QED  BY <1>2, <1>3, RetainDoc
  <1>5. r.ok = TRUE /\ Kept(d, e) /\ DocUnder(r.s, ROOT) = With(doc, p, e)
    <2> HIDE DEF s, r
    <2> QED  BY <1>2, <1>4 DEF Retained
  <1> HIDE DEF r
  <1>6. /\ doc' = With(doc, p, e)
        /\ failed' = failed
        /\ call' = Abstract!Call("retain", p, Nowhere)
    BY <1>1, <1>5, QuietCall DEF r
  <1> HIDE DEF e
  <1>7. /\ Abstract!At(doc, p) = d
        /\ Abstract!Is(d, "list") <=> Is(d, "list")
        /\ Abstract!Is(d, "object") <=> Is(d, "object")
        /\ \A y : Abstract!List(y) = List(y) /\ Abstract!Object(y) = Object(y)
        /\ \A y : Abstract!With(doc, p, y) = With(doc, p, y)
    BY SameFits, SameContainer, SameWith
  <1> HIDE DEF d
  <1>8. CASE Is(d, "list") /\ KeptList(d, e)
    <2>1. PICK n \in 0..Len(d.items) : \E from \in [1..n -> DOMAIN d.items] :
            /\ \A x, y \in 1..n : x < y => from[x] < from[y]
            /\ e = List([x \in 1..n |-> d.items[from[x]]])
      BY <1>8 DEF KeptList
    <2>2. PICK from \in [1..n -> DOMAIN d.items] :
            /\ \A x, y \in 1..n : x < y => from[x] < from[y]
            /\ e = List([x \in 1..n |-> d.items[from[x]]])
      BY <2>1
    <2>3. doc' = Abstract!With(doc, p, Abstract!List([x \in 1..n |-> d.items[from[x]]]))
      BY <1>6, <1>7, <2>2
    <2> QED  BY <1>6, <1>7, <1>8, <2>2, <2>3 DEF Abstract!Retain
  <1>9. CASE Is(d, "object") /\ KeptObject(d, e)
    <2>1. PICK kept \in SUBSET DOMAIN d.fields : e = Object([n \in kept |-> d.fields[n]])
      BY <1>9 DEF KeptObject
    <2>2. doc' = Abstract!With(doc, p, Abstract!Object([n \in kept |-> d.fields[n]]))
      BY <1>6, <1>7, <2>1
    <2> QED  BY <1>6, <1>7, <1>9, <2>2 DEF Abstract!Retain
  <1> QED  BY <1>5, <1>8, <1>9 DEF Kept

(* The accessors on a list, or on an object, are on a container.           *)
LEMMA ContainerAccessor ==
  ASSUME NEW s, NEW p
  PROVE  /\ Accessor(s, p, {"list"}) \subseteq Accessor(s, p, {"object", "list"})
         /\ Accessor(s, p, {"object"}) \subseteq Accessor(s, p, {"object", "list"})
  BY DEF Accessor

(* Removing a range of elements keeps the others.                          *)
LEMMA RemoveRangeCall ==
  ASSUME NowhereApart, TreeInv, NEW p \in Paths, RemoveRange(p)
  PROVE  Abstract!Retain(p)
  <1> DEFINE s == Opened(p)
  <1>1. PICK k \in Accessor(s, p, {"list"}) :
          \E i, n \in 0..Len(s.node[k].items) :
            Finish(Call("retain", p, Nowhere),
                   RemoveEach(s, p, [x \in 1..n |-> Index(i)], {Index(i)}))
    BY DEF RemoveRange
  <1>2. Tree(Table) /\ p \in Seq(Segment)
    BY CallInputs DEF TreeInv
  <1>3. Len(s.node[k].items) \in Nat
    BY <1>2, OpenedDoc, ListAccessor
  <1>4. PICK i \in 0..Len(s.node[k].items), n \in 0..Len(s.node[k].items) :
          Finish(Call("retain", p, Nowhere),
                 RemoveEach(s, p, [x \in 1..n |-> Index(i)], {Index(i)}))
    BY <1>1
  <1>5. [x \in 1..n |-> Index(i)] \in Seq(Segment)
    <2>1. n \in Nat /\ Index(i) \in Segment
      BY <1>3, IndexSegment
    <2> QED  BY <2>1
  <1>6. k \in Accessor(s, p, {"object", "list"})
    BY ContainerAccessor
  <1> QED  BY <1>4, <1>5, <1>6, RetainCall

(* SeqMut::retain keeps the elements it is asked to keep.                  *)
LEMMA RetainElementsCall ==
  ASSUME NowhereApart, TreeInv, NEW p \in Paths, RetainElements(p)
  PROVE  Abstract!Retain(p)
  <1> DEFINE s == Opened(p)
  <1>1. PICK k \in Accessor(s, p, {"list"}) :
          \E gone \in SUBSET {Index(i) : i \in 0..Len(s.node[k].items) - 1} :
            Finish(Call("retain", p, Nowhere),
                   RemoveEach(s, p, BackToFront(Len(s.node[k].items)), gone))
    BY DEF RetainElements
  <1>2. PICK gone : Finish(Call("retain", p, Nowhere),
                           RemoveEach(s, p, BackToFront(Len(s.node[k].items)), gone))
    BY <1>1
  <1> DEFINE n == Len(s.node[k].items)
  <1>3. Tree(Table) /\ p \in Seq(Segment)
    BY CallInputs DEF TreeInv
  <1>4. n \in Nat
    BY <1>3, OpenedDoc, ListAccessor
  <1>5. BackToFront(n) \in Seq(Segment)
    <2> HIDE DEF n
    <2>1. \A x \in 1..n : n - x \in Nat
      BY <1>4
    <2>2. \A x \in 1..n : Index(n - x) \in Segment
      BY <2>1, IndexSegment
    <2>3. BackToFront(n) \in [1..n -> Segment]
      BY <2>2 DEF BackToFront
    <2> QED  BY <1>4, <2>3, SeqDef
  <1>6. k \in Accessor(s, p, {"object", "list"})
    BY ContainerAccessor
  <1> QED  BY <1>2, <1>5, <1>6, RetainCall

(* MapMut::retain keeps the entries it is asked to keep.                   *)
LEMMA RetainEntriesCall ==
  ASSUME NowhereApart, TreeInv, NEW p \in Paths, RetainEntries(p)
  PROVE  Abstract!Retain(p)
  <1> DEFINE s == Opened(p)
  <1>1. PICK k \in Accessor(s, p, {"object"}) :
          \E gone \in SUBSET {Name(n) : n \in Names} :
            Finish(Call("retain", p, Nowhere), RemoveEach(s, p, SetToSeq(gone), gone))
    BY DEF RetainEntries
  <1>2. PICK gone \in SUBSET {Name(n) : n \in Names} :
          Finish(Call("retain", p, Nowhere), RemoveEach(s, p, SetToSeq(gone), gone))
    BY <1>1
  <1>3. SetToSeq(gone) \in Seq(Segment)
    <2>1. gone \subseteq Segment
      BY NameSegment
    <2>2. IsFiniteSet({Name(n) : n \in Names})
      <3> DEFINE f == [n \in Names |-> Name(n)]
      <3>1. f \in Surjection(Names, {Name(n) : n \in Names})
        BY DEF Surjection
      <3> HIDE DEF f
      <3> QED  BY <3>1, TreeAssumption, FS_Surjection
    <2>3. IsFiniteSet(gone)
      BY <2>2, FS_Subset
    <2> QED  BY <2>1, <2>3, SetSequence
  <1>4. k \in Accessor(s, p, {"object", "list"})
    BY ContainerAccessor
  <1> QED  BY <1>2, <1>3, <1>4, RetainCall

(* Storing through an option accessor is a write at its path.              *)
LEMMA SetOptionCall ==
  ASSUME NowhereApart, ~StoreShifts, ~StoreIntoPacked, TreeInv, NEW p \in Paths,
         NEW d \in Stored, SetOption(p, d)
  PROVE  Abstract!Write("store", p, d) \/ Abstract!Fail("store", p, d)
  <1> DEFINE s == Opened(p)
             r == WriteValue(RemovePath(s, p).s, ROOT, p, d)
  <1>1. MayStore(s, p) /\ Finish(Call("store", p, d), r)
    BY DEF SetOption
  <1>2. Tree(Table) /\ failed \in BOOLEAN /\ p \in Seq(Segment) /\ Flat(d)
    BY CallInputs DEF TreeInv
  <1>3. Tree(s)
    BY <1>2, OpenedDoc
  <1>4. Writes(s, p, d, r)
    <2> HIDE DEF s
    <2>1. WayClear(s, p) /\ Unshifted(s, p)
      BY <1>1, <1>2, <1>3, MayStoreIs
    <2> QED  BY <1>2, <1>3, <2>1, ReplaceValueWrites
  <1> HIDE DEF r
  <1>5. Writes(Table, p, d, r)
    BY <1>2, <1>4, OpenedWrites
  <1> QED  BY <1>1, <1>2, <1>5, WriteCall

(* Inserting into a map is a write at the path of the entry.               *)
LEMMA InsertEntryCall ==
  ASSUME NowhereApart, TreeInv, NEW p \in Paths, NEW d \in Stored, NEW n \in FieldsOf(p),
         InsertEntry(p, n, d)
  PROVE  \E q \in Paths : Abstract!Write("store", q, d) \/ Abstract!Fail("store", q, d)
  <1> DEFINE s == Opened(p)
             q == Append(p, Name(n))
             r == WriteValue(RemovePath(s, q).s, ROOT, q, d)
  <1>1. PICK k \in Accessor(s, p, {"object"}) : Finish(Call("store", q, d), r)
    BY DEF InsertEntry
  <1>2. /\ Tree(Table) /\ failed \in BOOLEAN /\ p \in Seq(Segment) /\ Flat(d)
        /\ n \in Names /\ q \in Paths
    BY CallInputs DEF TreeInv, FieldsOf
  <1>3. Tree(s)
    BY <1>2, OpenedDoc
  <1>4. {"object"} \in SUBSET {"object", "list", "leaf"}
    OBVIOUS
  <1>5. Unpacked(s, ROOT, p)
    <2> HIDE DEF s
    <2> QED  BY <1>2, <1>3, <1>4, OpeningIs DEF Opening
  <1>6. /\ q \in Seq(Segment) /\ q # <<>> /\ Front(q) = p /\ Last(q) = Name(n)
        /\ ~IsIndex(Name(n))
    BY <1>2, NameSegment, PathAppend DEF IsName
  <1> HIDE DEF s, q
  <1>7. WayClear(s, q) /\ Unshifted(s, q)
    BY <1>5, <1>6 DEF WayClear, Unshifted
  <1>8. Writes(s, q, d, r)
    BY <1>2, <1>3, <1>6, <1>7, ReplaceValueWrites
  <1> HIDE DEF r
  <1>9. Writes(Table, q, d, r)
    BY <1>2, <1>8, OpenedWrites DEF s
  <1>10. Abstract!Write("store", q, d) \/ Abstract!Fail("store", q, d)
    BY <1>1, <1>2, <1>9, WriteCall
  <1> QED  BY <1>2, <1>10

(* Every call does to the document what the abstract specification says.   *)
LEMMA CallImplements ==
  ASSUME NowhereApart, ~StoreShifts, ~StoreIntoPacked, TreeInv, OneCall
  PROVE  Abstract!OneCall
  <1>1. PICK p \in Paths :
          \/ \E v \in Values : Put(p, v)
          \/ RemoveAtPath(p)
          \/ \E d \in Stored : Store(p, d) \/ StoreValue(p, d)
          \/ FetchMut(p) \/ Clear(p) \/ Swap(p) \/ SwapRemove(p)
          \/ RemoveRange(p) \/ RetainElements(p) \/ RetainEntries(p)
          \/ \E d \in Stored : SetOption(p, d)
          \/ p \in Inner /\ \E d \in Stored : InsertElement(p, d)
          \/ \E d \in Stored, n \in FieldsOf(p) : InsertEntry(p, n, d)
    BY DEF OneCall
  <1>2. ASSUME NEW v \in Values, Put(p, v) PROVE Abstract!OneCall
    <2>1. Abstract!Write("put", p, Leaf(v)) \/ Abstract!Fail("put", p, Leaf(v))
      BY <1>2, PutCall
    <2>2. Leaf(v) \in Stored \cup {Abstract!Leaf(w) : w \in Values}
      BY DEF Leaf, Abstract!Leaf
    <2> QED  BY <2>1, <2>2 DEF Abstract!OneCall
  <1>3. CASE RemoveAtPath(p)
    <2>1. Abstract!Delete(p)
      BY <1>3, RemoveCall
    <2> QED  BY <2>1 DEF Abstract!OneCall
  <1>4. ASSUME NEW d \in Stored, Store(p, d) \/ StoreValue(p, d) \/ SetOption(p, d)
        PROVE  Abstract!OneCall
    <2>1. Abstract!Write("store", p, d) \/ Abstract!Fail("store", p, d)
      BY <1>4, StoreCall, SetOptionCall
    <2> QED  BY <2>1 DEF Abstract!OneCall
  <1>5. CASE FetchMut(p)
    <2>1. Abstract!Open(p)
      BY <1>5, OpenCall
    <2> QED  BY <2>1 DEF Abstract!OneCall
  <1>6. CASE Clear(p)
    <2>1. Abstract!Clear(p)
      BY <1>6, ClearCall
    <2> QED  BY <2>1 DEF Abstract!OneCall
  <1>7. CASE Swap(p)
    <2>1. Abstract!Swap(p)
      BY <1>7, SwapCall
    <2> QED  BY <2>1 DEF Abstract!OneCall
  <1>8. CASE SwapRemove(p)
    <2>1. Abstract!SwapRemove(p)
      BY <1>8, SwapRemoveCall
    <2> QED  BY <2>1 DEF Abstract!OneCall
  <1>9. CASE RemoveRange(p) \/ RetainElements(p) \/ RetainEntries(p)
    <2>1. Abstract!Retain(p)
      BY <1>9, RemoveRangeCall, RetainElementsCall, RetainEntriesCall
    <2> QED  BY <2>1 DEF Abstract!OneCall
  <1>10. ASSUME NEW d \in Stored, InsertElement(p, d) PROVE Abstract!OneCall
    <2>1. Abstract!Insert(p, d)
      BY <1>10, InsertCall
    <2> QED  BY <2>1 DEF Abstract!OneCall
  <1>11. ASSUME NEW d \in Stored, NEW n \in FieldsOf(p), InsertEntry(p, n, d)
         PROVE  Abstract!OneCall
    <2>1. PICK q \in Paths : Abstract!Write("store", q, d) \/ Abstract!Fail("store", q, d)
      BY <1>11, InsertEntryCall
    <2> QED  BY <2>1 DEF Abstract!OneCall
  <1> QED  BY <1>1, <1>2, <1>3, <1>4, <1>5, <1>6, <1>7, <1>8, <1>9, <1>10, <1>11

------------------------------------------------------------------------------
(* Batches                                                                 *)


(* g is the document after each of the first n pairs of a batch.           *)
IsStores(g, d, items, n) ==
  g = [i \in 0..n |->
         IF i = 0 THEN d ELSE Abstract!With(g[i - 1], items[i][1], items[i][2])]

(* The function that Stores defines exists.                                *)
LEMMA StoresExist ==
  ASSUME NEW d, NEW items
  PROVE  \A n \in Nat : \E g : IsStores(g, d, items, n)
  <1> DEFINE S == {n \in Nat : \E g : IsStores(g, d, items, n)}
  <1>1. 0 \in S
    <2> DEFINE g == [i \in 0..0 |-> d]
    <2>1. IsStores(g, d, items, 0)
      BY DEF IsStores
    <2> QED  BY <2>1
  <1>2. ASSUME NEW n \in Nat, n \in S PROVE n + 1 \in S
    <2>1. PICK g : IsStores(g, d, items, n)
      BY <1>2
    <2> DEFINE next == Abstract!With(g[n], items[n + 1][1], items[n + 1][2])
               h == [i \in 0..n + 1 |-> IF i = n + 1 THEN next ELSE g[i]]
    <2>2. /\ \A i \in 0..n : h[i] = g[i]
          /\ h[n + 1] = next
      OBVIOUS
    <2>3. \A i \in 0..n + 1 :
            h[i] = IF i = 0 THEN d ELSE Abstract!With(h[i - 1], items[i][1], items[i][2])
      <3> TAKE i \in 0..n + 1
      <3>1. CASE i = n + 1
        <4>1. n \in 0..n /\ i - 1 = n /\ i # 0
          BY <3>1
        <4> HIDE DEF h
        <4> QED  BY <2>2, <3>1, <4>1
      <3>2. CASE i # n + 1
        <4>1. i \in 0..n /\ (i # 0 => i - 1 \in 0..n)
          BY <3>2
        <4> HIDE DEF h
        <4>2. g[i] = IF i = 0 THEN d ELSE Abstract!With(g[i - 1], items[i][1], items[i][2])
          BY <2>1, <4>1 DEF IsStores
        <4> QED  BY <2>2, <4>1, <4>2
      <3> QED  BY <3>1, <3>2
    <2>4. IsStores(h, d, items, n + 1)
      BY <2>3 DEF IsStores
    <2> QED  BY <2>4
  <1> HIDE DEF S
  <1>3. Nat \subseteq S
    BY <1>1, <1>2, SetInduction
  <1> QED  BY <1>3 DEF S

(* Stores stores one pair after the other.                                 *)
LEMMA StoresSteps ==
  ASSUME NEW d, NEW items, Len(items) \in Nat
  PROVE  /\ Abstract!Stores(d, items)[0] = d
         /\ \A i \in 1..Len(items) :
              Abstract!Stores(d, items)[i] =
                With(Abstract!Stores(d, items)[i - 1], items[i][1], items[i][2])
  <1> DEFINE n == Len(items)
             D == Abstract!Stores(d, items)
  <1>1. D = CHOOSE g : IsStores(g, d, items, n)
    BY DEF Abstract!Stores, IsStores
  <1>2. IsStores(D, d, items, n)
    BY <1>1, StoresExist
  <1> HIDE DEF n, D
  <1>3. /\ D[0] = d
        /\ \A i \in 1..n : D[i] = Abstract!With(D[i - 1], items[i][1], items[i][2])
    BY <1>2 DEF IsStores, n
  <1> QED  BY <1>3, SameWith DEF n, D

(* The entity of one pair is written to the document.                      *)
LEMMA PackedWrites ==
  ASSUME NowhereApart, NEW items, Items(items), Compatible(items), NEW i \in 1..Len(items),
         Packs(items[i]), NEW b, Tree(b.r.s), b.r.ok, Known(b.r.s, items, i - 1, b.parents),
         ~IntoPacked(b.r.s, items[i][1])
  PROVE  Writes(b.r.s, items[i][1], items[i][2], NextBatch(b, items[i]).r)
  <1> DEFINE p == items[i][1]
             d == items[i][2]
             s == b.r.s
             parent == BatchParent(s, b.parents, p)
             r == StorePackedUnder(parent, Last(p), d)
  <1>1. /\ p \in Seq(Segment) /\ p # <<>> /\ Front(p) \in Seq(Segment) /\ Flat(d)
        /\ i \in 0..Len(items) /\ i \in 1..i
    <2>1. i \in 0..Len(items) /\ i \in 1..i /\ Len(items) \in Nat
      BY DEF Items
    <2>2. p \in Seq(Segment) /\ p # <<>> /\ Front(p) \in Seq(Segment)
      BY <2>1, KnownPath
    <2> QED  BY <2>1, <2>2 DEF Items
  <1>2. NextBatch(b, items[i]).r = r
    BY DEF NextBatch, StoreBatched
  <1>3. WayClear(s, p)
    <2> HIDE DEF p
    <2> QED  BY <1>1, WayClearOutside DEF p
  <1>4. CASE Front(p) \notin DOMAIN b.parents
    <2>1. parent = EnsureParent(s, ROOT, p)
      BY <1>4 DEF BatchParent
    <2>2. r = StorePacked(s, p, d)
      <3> HIDE DEF parent
      <3> QED  BY <2>1 DEF StorePacked
    <2> HIDE DEF p, d, s, parent, r
    <2>3. Writes(s, p, d, StorePacked(s, p, d))
      BY <1>1, <1>3, StorePackedWrites DEF s
    <2> QED  BY <1>2, <2>2, <2>3 DEF p, d, s
  <1>5. CASE Front(p) \in DOMAIN b.parents
    <2>1. parent = Done(s, b.parents[Front(p)])
      BY <1>5 DEF BatchParent
    <2>2. Parented(s, items, i, b.parents, parent)
      <3> HIDE DEF parent
      <3> QED  BY BatchParentEffect DEF parent
    <2> DEFINE k == b.parents[Front(p)]
    <2>3. parent.ok = TRUE /\ parent.s = s /\ parent.key = k
      BY <2>1 DEF Done
    <2>4. ResolveFrom(s, ROOT, Front(p)) = k /\ Holder(s, k, Last(p))
      <3> HIDE DEF parent, k
      <3> QED  BY <2>2, <2>3 DEF Parented
    <2>5. k # NoKey
      BY <2>4, HolderIsKey
    <2> HIDE DEF p, d, s, parent, k
    <2>6. Parent(s, p, k)
      BY <1>1, <2>4, <2>5 DEF Parent
    <2>7. Tree(s)
      BY DEF s
    <2>8. Lands(s, p, d, StorePackedUnder(parent, Last(p), d))
      BY <1>1, <2>3, <2>6, <2>7, StorePackedLands
    <2>9. Lands(s, p, d, r)
      BY <2>8 DEF r
    <2> HIDE DEF r
    <2>10. DocUnder(s, ROOT) \in Stopped(DocUnder(s, ROOT), p)
      BY DEF Stopped
    <2>11. Writes(s, p, d, r)
      BY <2>9, <2>10 DEF Lands, Writes
    <2> QED  BY <1>2, <2>11 DEF p, d, s
  <1> QED  BY <1>4, <1>5

(* Of a batch the pairs come first that it packs.                          *)
LEMMA PackedFirst ==
  ASSUME NEW items, Items(items),
         \A x, y \in 1..Len(items) : x < y /\ Packs(items[y]) => Packs(items[x])
  PROVE  \E m \in 0..Len(items) : \A x \in 1..Len(items) : Packs(items[x]) <=> x <= m
  <1> DEFINE n == Len(items)
             S == {i \in Nat : i <= n =>
                     \E m \in 0..i : \A x \in 1..i : Packs(items[x]) <=> x <= m}
  <1>1. n \in Nat
    BY DEF Items
  <1> HIDE DEF n
  <1>2. 0 \in S
    OBVIOUS
  <1>3. ASSUME NEW i \in Nat, i \in S PROVE i + 1 \in S
    <2>1. SUFFICES ASSUME i + 1 <= n
                   PROVE  \E m \in 0..i + 1 : \A x \in 1..i + 1 : Packs(items[x]) <=> x <= m
      OBVIOUS
    <2>2. PICK m \in 0..i : \A x \in 1..i : Packs(items[x]) <=> x <= m
      BY <1>1, <1>3, <2>1
    <2>3. CASE Packs(items[i + 1])
      <3>1. \A x \in 1..i + 1 : x = i + 1 \/ (x \in 1..n /\ i + 1 \in 1..n /\ x < i + 1)
        BY <1>1, <2>1
      <3>2. \A x \in 1..i + 1 : Packs(items[x]) /\ x <= i + 1
        BY <2>3, <3>1 DEF n
      <3>3. i + 1 \in 0..i + 1
        OBVIOUS
      <3> QED  BY <3>2, <3>3
    <2>4. CASE ~Packs(items[i + 1])
      <3>1. \A x \in 1..i + 1 : x = i + 1 \/ x \in 1..i
        OBVIOUS
      <3>2. ~(i + 1 <= m) /\ m \in 0..i + 1
        OBVIOUS
      <3>3. \A x \in 1..i + 1 : Packs(items[x]) <=> x <= m
        BY <2>2, <2>4, <3>1, <3>2
      <3> QED  BY <3>2, <3>3
    <2> QED  BY <2>3, <2>4
  <1> HIDE DEF S
  <1>4. Nat \subseteq S
    BY <1>2, <1>3, SetInduction
  <1>5. n \in S
    BY <1>1, <1>4
  <1> QED  BY <1>1, <1>5 DEF S, n

(* The first n pairs of a batch fit.                                       *)
FitsAll(items, after, n) == \A x \in 1..n : Fits(after[x - 1], items[x][1])

(* What r has done of a batch after its first i pairs: all of them, or     *)
(* those up to the first that does not fit.                                *)
Ran(items, after, i, r) ==
  /\ r.ok \in BOOLEAN
  /\ r.ok => DocUnder(r.s, ROOT) = after[i] /\ FitsAll(items, after, i)
  /\ ~r.ok => \E n \in 0..i - 1 :
                /\ FitsAll(items, after, n) /\ ~Fits(after[n], items[n + 1][1])
                /\ DocUnder(r.s, ROOT) \in Stopped(after[n], items[n + 1][1])

(* A batch that has stopped has stopped.                                   *)
LEMMA RanStays ==
  ASSUME NEW items, NEW after, NEW i \in Nat \ {0}, NEW r, Ran(items, after, i - 1, r), ~r.ok
  PROVE  Ran(items, after, i, r)
  <1>1. PICK n \in 0..(i - 1) - 1 :
          /\ FitsAll(items, after, n) /\ ~Fits(after[n], items[n + 1][1])
          /\ DocUnder(r.s, ROOT) \in Stopped(after[n], items[n + 1][1])
    BY DEF Ran
  <1>2. n \in 0..i - 1
    OBVIOUS
  <1> QED  BY <1>1, <1>2 DEF Ran

(* One more pair of a batch.                                               *)
LEMMA RanOn ==
  ASSUME NEW items, NEW after, NEW i \in Nat \ {0}, NEW r, Ran(items, after, i - 1, r), r.ok,
         after[i] = With(after[i - 1], items[i][1], items[i][2]),
         NEW u, Writes(r.s, items[i][1], items[i][2], u)
  PROVE  Ran(items, after, i, u)
  <1> DEFINE p == items[i][1]
             D == after[i - 1]
  <1>1. DocUnder(r.s, ROOT) = D /\ FitsAll(items, after, i - 1)
    BY DEF Ran
  <1>2. /\ u.ok \in BOOLEAN
        /\ u.ok <=> Fits(D, p)
        /\ u.ok => DocUnder(u.s, ROOT) = after[i]
        /\ ~u.ok => DocUnder(u.s, ROOT) \in Stopped(D, p)
    BY <1>1 DEF Writes
  <1>3. u.ok => FitsAll(items, after, i)
    <2>1. \A x \in 1..i : x = i \/ x \in 1..i - 1
      OBVIOUS
    <2> QED  BY <1>1, <1>2, <2>1 DEF FitsAll
  <1>4. ASSUME ~u.ok
        PROVE  \E n \in 0..i - 1 :
                 /\ FitsAll(items, after, n) /\ ~Fits(after[n], items[n + 1][1])
                 /\ DocUnder(u.s, ROOT) \in Stopped(after[n], items[n + 1][1])
    <2> DEFINE n == i - 1
    <2>1. n \in 0..i - 1 /\ n + 1 = i
      OBVIOUS
    <2>2. /\ FitsAll(items, after, n) /\ ~Fits(after[n], items[i][1])
          /\ DocUnder(u.s, ROOT) \in Stopped(after[n], items[i][1])
      BY <1>1, <1>2, <1>4
    <2> HIDE DEF n
    <2> QED  BY <2>1, <2>2
  <1> QED  BY <1>2, <1>3, <1>4 DEF Ran

(* after[i] is the document after the first i pairs of a batch.            *)
Afters(items, after) ==
  \A i \in 1..Len(items) : after[i] = With(after[i - 1], items[i][1], items[i][2])

(* The first m pairs are those the batch packs.                            *)
PacksFirst(items, m) == \A x \in 1..Len(items) : Packs(items[x]) <=> x <= m

(* Of two numbers the lesser one, and the greater one.                     *)
Lesser(i, m)  == IF i <= m THEN i ELSE m
Greater(i, m) == IF i <= m THEN m ELSE i

(* What a batch packs is stored pair by pair.                              *)
LEMMA PackedRan ==
  ASSUME NowhereApart, Tree(Table), NEW items, Items(items), Compatible(items),
         NEW m \in 0..Len(items), PacksFirst(items, m),
         NEW after, Afters(items, after), after[0] = DocUnder(Table, ROOT),
         NEW met, Meets(items, met),
         \A x \in 1..Len(items) : Packs(items[x]) => met[x] = PackedSteps(items)[x - 1].r.s
  PROVE  /\ Good(Table, PackedSteps(items)[Len(items)].r)
         /\ Ran(items, after, m, PackedSteps(items)[Len(items)].r)
  <1> DEFINE B == PackedSteps(items)
             S == {i \in Nat : i <= Len(items) =>
                     Batched(items, i, B[i]) /\ Ran(items, after, Lesser(i, m), B[i].r)}
  <1>1. Len(items) \in Nat /\ m \in Nat /\ m <= Len(items)
    BY DEF Items
  <1>2. /\ B[0] = FirstBatch
        /\ \A i \in 1..Len(items) : B[i] = NextBatch(B[i - 1], items[i])
    BY <1>1, BatchSteps
  <1> HIDE DEF B
  <1>3. 0 \in S
    <2>1. B[0].r = [ok |-> TRUE, s |-> Table, key |-> NoKey] /\ B[0].parents = <<>>
      BY <1>2 DEF FirstBatch, Done
    <2>2. Good(Table, B[0].r)
      BY <2>1 DEF Good
    <2>3. DOMAIN B[0].parents = {}
      BY <2>1
    <2>4. Batched(items, 0, B[0])
      BY <2>2, <2>3 DEF Batched, Known
    <2>5. Lesser(0, m) = 0
      BY <1>1 DEF Lesser
    <2>6. Ran(items, after, 0, B[0].r)
      BY <2>1 DEF Ran, FitsAll
    <2> QED  BY <2>4, <2>5, <2>6
  <1>4. ASSUME NEW i \in Nat, i \in S PROVE i + 1 \in S
    <2> DEFINE j == i + 1
    <2>1. SUFFICES ASSUME j <= Len(items)
                   PROVE  Batched(items, j, B[j]) /\ Ran(items, after, Lesser(j, m), B[j].r)
      OBVIOUS
    <2>2. /\ j \in 1..Len(items) /\ j \in Nat \ {0} /\ j - 1 = i /\ i <= Len(items)
          /\ Lesser(i, m) = IF j <= m THEN i ELSE m
          /\ Lesser(j, m) = IF j <= m THEN j ELSE m
      BY <1>1, <2>1 DEF Lesser
    <2>3. /\ Batched(items, i, B[i]) /\ Ran(items, after, Lesser(i, m), B[i].r)
          /\ B[j] = NextBatch(B[i], items[j])
      BY <1>2, <1>4, <2>2
    <2> HIDE DEF j, S
    <2>4. Packs(items[j]) => ~IntoPacked(B[i].r.s, items[j][1])
      BY <2>2 DEF Meets, B
    <2>5. Batched(items, j, B[j])
      <3>1. Batched(items, j, NextBatch(B[i], items[j]))
        BY <2>2, <2>3, <2>4, BatchStepEffect
      <3> QED  BY <2>3, <3>1
    <2>6. Packs(items[j]) <=> j <= m
      BY <2>2 DEF PacksFirst
    <2>7. CASE j <= m /\ B[i].r.ok
      <3>1. /\ Tree(B[i].r.s) /\ Known(B[i].r.s, items, j - 1, B[i].parents)
        BY <2>2, <2>3, <2>7 DEF Batched, Good
      <3>2. Writes(B[i].r.s, items[j][1], items[j][2], NextBatch(B[i], items[j]).r)
        BY <2>2, <2>4, <2>6, <2>7, <3>1, PackedWrites
      <3>3. Writes(B[i].r.s, items[j][1], items[j][2], B[j].r)
        BY <2>3, <3>2
      <3>4. after[j] = With(after[j - 1], items[j][1], items[j][2])
        BY <2>2 DEF Afters
      <3>5. Ran(items, after, j - 1, B[i].r)
        BY <2>2, <2>3, <2>7
      <3>6. Ran(items, after, j, B[j].r)
        BY <2>2, <2>7, <3>3, <3>4, <3>5, RanOn
      <3> QED  BY <2>2, <2>5, <2>7, <3>6
    <2>8. CASE j <= m /\ ~B[i].r.ok
      <3>1. B[j] = B[i]
        BY <2>3, <2>8 DEF NextBatch
      <3>2. Ran(items, after, j - 1, B[i].r)
        BY <2>2, <2>3, <2>8
      <3>3. Ran(items, after, j, B[i].r)
        BY <2>2, <2>8, <3>2, RanStays
      <3> QED  BY <2>2, <2>5, <2>8, <3>1, <3>3
    <2>9. CASE ~(j <= m)
      <3>1. B[j] = B[i]
        BY <2>3, <2>6, <2>9 DEF NextBatch
      <3> QED  BY <2>2, <2>3, <2>5, <2>9, <3>1
    <2> QED  BY <2>7, <2>8, <2>9
  <1> HIDE DEF S
  <1>5. Nat \subseteq S
    BY <1>3, <1>4, SetInduction
  <1>6. Len(items) \in S /\ Lesser(Len(items), m) = m
    BY <1>1, <1>5 DEF Lesser
  <1>7. Batched(items, Len(items), B[Len(items)]) /\ Ran(items, after, m, B[Len(items)].r)
    BY <1>1, <1>6 DEF S
  <1> QED  BY <1>7 DEF Batched, B

(* What it stores node by node is stored pair by pair.                     *)
LEMMA PlainRan ==
  ASSUME NowhereApart, ~StoreShifts, ~StoreIntoPacked, Tree(Table), NEW items, Items(items),
         NEW m \in 0..Len(items), PacksFirst(items, m), NEW after, Afters(items, after),
         NEW packed, Good(Table, packed), Ran(items, after, m, packed),
         NEW met, Meets(items, met),
         \A x \in 1..Len(items) : ~Packs(items[x]) => met[x] = PlainSteps(packed, items)[x - 1].s
  PROVE  Ran(items, after, Len(items), PlainSteps(packed, items)[Len(items)])
  <1> DEFINE B == PlainSteps(packed, items)
             S == {i \in Nat : i <= Len(items) =>
                     Tree(B[i].s) /\ Ran(items, after, Greater(i, m), B[i])}
  <1>1. Len(items) \in Nat /\ m \in Nat /\ m <= Len(items)
    BY DEF Items
  <1>2. /\ B[0] = packed
        /\ \A i \in 1..Len(items) : B[i] = NextPlain(B[i - 1], items[i])
    BY <1>1, PlainRun
  <1> HIDE DEF B
  <1>3. 0 \in S
    <2>1. Greater(0, m) = m
      BY <1>1 DEF Greater
    <2> QED  BY <1>2, <2>1 DEF Good
  <1>4. ASSUME NEW i \in Nat, i \in S PROVE i + 1 \in S
    <2> DEFINE j == i + 1
    <2>1. SUFFICES ASSUME j <= Len(items)
                   PROVE  Tree(B[j].s) /\ Ran(items, after, Greater(j, m), B[j])
      OBVIOUS
    <2>2. /\ j \in 1..Len(items) /\ j \in Nat \ {0} /\ j - 1 = i /\ i <= Len(items)
          /\ Greater(i, m) = IF j <= m THEN m ELSE i
          /\ Greater(j, m) = IF j <= m THEN m ELSE j
      BY <1>1, <2>1 DEF Greater
    <2>3. /\ Tree(B[i].s) /\ Ran(items, after, Greater(i, m), B[i])
          /\ B[j] = NextPlain(B[i], items[j])
      BY <1>2, <1>4, <2>2
    <2> HIDE DEF j, S
    <2>4. Packs(items[j]) <=> j <= m
      BY <2>2 DEF PacksFirst
    <2>5. CASE ~(j <= m) /\ B[i].ok
      <3>1. items[j][1] \in Seq(Segment) /\ Flat(items[j][2])
        BY <2>2 DEF Items
      <3>2. MayStore(B[i].s, items[j][1])
        BY <2>2, <2>4, <2>5 DEF Meets, B
      <3>3. WayClear(B[i].s, items[j][1]) /\ Unshifted(B[i].s, items[j][1])
        BY <2>3, <3>1, <3>2, MayStoreIs
      <3>4. Writes(B[i].s, items[j][1], items[j][2],
                   ReplaceIn(B[i].s, items[j][1], items[j][2]))
        BY <2>3, <3>1, <3>3, ReplaceWrites
      <3>5. Writes(B[i].s, items[j][1], items[j][2], B[j])
        BY <2>3, <2>4, <2>5, <3>4 DEF NextPlain
      <3>6. after[j] = With(after[j - 1], items[j][1], items[j][2])
        BY <2>2 DEF Afters
      <3>7. Ran(items, after, j - 1, B[i])
        BY <2>2, <2>3, <2>5
      <3>8. Ran(items, after, j, B[j])
        BY <2>2, <2>5, <3>5, <3>6, <3>7, RanOn
      <3>9. Tree(B[j].s)
        BY <3>5 DEF Writes
      <3> QED  BY <2>2, <2>5, <3>8, <3>9
    <2>6. CASE ~(j <= m) /\ ~B[i].ok
      <3>1. B[j] = B[i]
        BY <2>3, <2>6 DEF NextPlain
      <3>2. Ran(items, after, j - 1, B[i])
        BY <2>2, <2>3, <2>6
      <3>3. Ran(items, after, j, B[i])
        BY <2>2, <2>6, <3>2, RanStays
      <3> QED  BY <2>2, <2>3, <2>6, <3>1, <3>3
    <2>7. CASE j <= m
      <3>1. B[j] = B[i]
        BY <2>3, <2>4, <2>7 DEF NextPlain
      <3> QED  BY <2>2, <2>3, <2>7, <3>1
    <2> QED  BY <2>5, <2>6, <2>7
  <1> HIDE DEF S
  <1>5. Nat \subseteq S
    BY <1>3, <1>4, SetInduction
  <1>6. Len(items) \in S /\ Greater(Len(items), m) = Len(items)
    BY <1>1, <1>5 DEF Greater
  <1>7. Ran(items, after, Len(items), B[Len(items)])
    BY <1>1, <1>6 DEF S
  <1> QED  BY <1>7 DEF B

------------------------------------------------------------------------------
(* The refinement                                                          *)


(* What a batch that ran to its end, or to its first error, has done.      *)
LEMMA BatchRan ==
  ASSUME NowhereApart, ~StoreShifts, ~StoreIntoPacked, Tree(Table), NEW items \in Batches,
         NEW B, B = PackedSteps(items),
         NEW packed, packed = B[Len(items)].r,
         NEW plain, plain = PlainSteps(packed, items),
         MayBatch(items, [x \in DOMAIN items |->
                            IF Packs(items[x]) THEN B[x - 1].r.s ELSE plain[x - 1].s]),
         NEW after, Afters(items, after), after[0] = DocUnder(Table, ROOT)
  PROVE  Ran(items, after, Len(items), plain[Len(items)])
  <1> DEFINE met == [x \in DOMAIN items |->
                       IF Packs(items[x]) THEN B[x - 1].r.s ELSE plain[x - 1].s]
  <1>1. Items(items)
    BY BatchItems
  <1>2. DOMAIN items = 1..Len(items)
    BY TreeAssumption, LenProperties
  <1>3. \A x \in 1..Len(items) :
          met[x] = IF Packs(items[x]) THEN B[x - 1].r.s ELSE plain[x - 1].s
    BY <1>2
  <1>4. MayBatch(items, met)
    OBVIOUS
  <1> HIDE DEF met
  <1>5. Compatible(items)
    BY <1>2, <1>4 DEF MayBatch, Compatible
  <1>6. Meets(items, met)
    <2>1. ASSUME NEW x \in 1..Len(items)
          PROVE  IF Packs(items[x]) THEN ~IntoPacked(met[x], items[x][1])
                 ELSE MayStore(met[x], items[x][1])
      <3>1. x \in DOMAIN items
        BY <1>2
      <3>2. IF Packs(items[x]) THEN IntoPacked(met[x], items[x][1]) => StoreIntoPacked
            ELSE MayStore(met[x], items[x][1])
        BY <1>4, <3>1 DEF MayBatch
      <3> QED  BY <3>2
    <2> QED  BY <2>1 DEF Meets
  <1>7. \A x, y \in 1..Len(items) : x < y /\ Packs(items[y]) => Packs(items[x])
    BY <1>2, <1>4 DEF MayBatch
  <1>8. PICK m \in 0..Len(items) : \A x \in 1..Len(items) : Packs(items[x]) <=> x <= m
    BY <1>1, <1>7, PackedFirst
  <1>9. PacksFirst(items, m)
    BY <1>8 DEF PacksFirst
  <1>10. Good(Table, packed) /\ Ran(items, after, m, packed)
    BY <1>1, <1>3, <1>5, <1>6, <1>9, PackedRan
  <1> QED  BY <1>1, <1>3, <1>6, <1>9, <1>10, PlainRan

(* A batch does to the document what storing its pairs in order does, up   *)
(* to the first that does not fit.                                         *)
LEMMA BatchImplements ==
  ASSUME NowhereApart, ~StoreShifts, ~StoreIntoPacked, TreeInv, NEW items \in Batches,
         StoreMany(items)
  PROVE  Abstract!Batch(items)
  <1> DEFINE B == PackedSteps(items)
             packed == B[Len(items)].r
             plain == PlainSteps(packed, items)
             r == plain[Len(items)]
             after == Abstract!Stores(doc, items)
             fits(n) == \A x \in 1..n : Abstract!Fits(after[x - 1], items[x][1])
             next(n) == items[n + 1][1]
  <1>1. /\ MayBatch(items, [x \in DOMAIN items |->
                            IF Packs(items[x]) THEN B[x - 1].r.s ELSE plain[x - 1].s])
        /\ Finish(Call("batch", <<>>, items), r)
    BY DEF StoreMany
  <1>2. Tree(Table) /\ failed \in BOOLEAN /\ Len(items) \in Nat
    BY BatchItems DEF TreeInv, Items
  <1>3. Afters(items, after) /\ after[0] = DocUnder(Table, ROOT)
    BY <1>2, StoresSteps DEF Afters, doc
  <1> HIDE DEF after
  <1>4. Ran(items, after, Len(items), r)
    BY <1>1, <1>2, <1>3, BatchRan
  <1> HIDE DEF r
  <1>5. /\ doc' = DocUnder(r.s, ROOT)
        /\ failed' = (failed \/ ~r.ok)
        /\ call' = Abstract!Call("batch", <<>>, items)
    BY <1>1, Finished, SameCall
  <1>6. CASE r.ok
    <2>1. doc' = after[Len(items)] /\ FitsAll(items, after, Len(items))
      BY <1>4, <1>5, <1>6 DEF Ran
    <2>2. fits(Len(items))
      BY <2>1, SameFits DEF FitsAll
    <2> QED  BY <1>2, <1>5, <1>6, <2>1, <2>2 DEF Abstract!Batch, after
  <1>7. CASE ~r.ok
    <2>1. PICK n \in 0..Len(items) - 1 :
            /\ FitsAll(items, after, n) /\ ~Fits(after[n], next(n))
            /\ DocUnder(r.s, ROOT) \in Stopped(after[n], next(n))
      BY <1>4, <1>7 DEF Ran
    <2>2. /\ fits(n) /\ ~Abstract!Fits(after[n], next(n))
          /\ doc' \in Abstract!Stopped(after[n], next(n))
          /\ failed' = TRUE
      BY <1>5, <1>7, <2>1, SameFits, SameStopped DEF FitsAll
    <2> QED  BY <1>5, <2>2 DEF Abstract!Batch, after
  <1> QED  BY <1>4, <1>6, <1>7 DEF Ran

(* Every step of the transaction is a step of the abstract specification.  *)
LEMMA NextImplements ==
  ASSUME NowhereApart, ~StoreShifts, ~StoreIntoPacked, TreeInv, Next
  PROVE  Abstract!Next
  <1>1. CASE OneCall
    BY <1>1, CallImplements DEF Abstract!Next
  <1>2. CASE \E items \in Batches : StoreMany(items)
    BY <1>2, BatchImplements DEF Abstract!Next
  <1> QED  BY <1>1, <1>2 DEF Next

(* A step that changes no entry changes nothing of the document.           *)
LEMMA StutterImplements ==
  ASSUME UNCHANGED vars
  PROVE  UNCHANGED <<doc, failed, call>>
  <1>1. Table'.node = Table.node /\ Table'.link = Table.link
    BY DEF vars, Table
  <1>2. DocUnder(Table', ROOT) = DocUnder(Table, ROOT)
    BY <1>1, SameTableDoc
  <1>3. doc' = doc
    BY <1>2 DEF doc, ROOT
  <1> QED  BY <1>3 DEF vars

(* An empty table holds no document.                                       *)
LEMMA InitImplements ==
  ASSUME Init
  PROVE  Abstract!Init
  <1>1. doc = Nowhere
    BY DEF Init, doc, DocUnder, Live, Table
  <1>2. Abstract!NoCall = NoCall
    BY DEF Abstract!NoCall, Abstract!Call, NoCall, Call
  <1> QED  BY <1>1, <1>2 DEF Init, Abstract!Init

(* The write transaction implements the document store: every call does to *)
(* the document what its path says and nothing else, whatever the shape    *)
(* its nodes and packed entities have.                                     *)
THEOREM TreeImplementsDocumentStore ==
  ASSUME NowhereApart, ~StoreShifts, ~StoreIntoPacked
  PROVE  Spec => ImplementsDocumentStore
  <1>1. Init => Abstract!Init
    BY InitImplements
  <1>2. TreeInv /\ [Next]_vars => [Abstract!Next]_(Abstract!vars)
    BY NextImplements, StutterImplements DEF Abstract!vars
  <1>3. Spec => []TreeInv
    BY TreeStays
  <1>4. Spec => Abstract!Spec
    BY <1>1, <1>2, <1>3, PTL DEF Spec, Abstract!Spec
  <1> QED  BY <1>4 DEF ImplementsDocumentStore

(* In the abstract specification only the writes are stores.               *)
LEMMA StoreIsWrite ==
  ASSUME Abstract!Next, call'.op = "store", ~failed'
  PROVE  doc' = Abstract!With(doc, call'.path, call'.arg)
  <1>1. \A op, p, arg : /\ Abstract!Call(op, p, arg).op = op
                        /\ Abstract!Call(op, p, arg).path = p
                        /\ Abstract!Call(op, p, arg).arg = arg
    BY DEF Abstract!Call
  <1>2. CASE \E items \in Batches : Abstract!Batch(items)
    <2>1. PICK items : call' = Abstract!Call("batch", <<>>, items)
      BY <1>2 DEF Abstract!Batch
    <2> QED  BY <1>1, <2>1
  <1>3. CASE Abstract!OneCall
    <2>1. PICK p \in Paths :
            \/ \E d, op : Abstract!Write(op, p, d) \/ Abstract!Fail(op, p, d)
            \/ Abstract!Delete(p) \/ Abstract!Open(p) \/ Abstract!Clear(p)
            \/ Abstract!Swap(p) \/ Abstract!Retain(p) \/ Abstract!SwapRemove(p)
            \/ \E d : Abstract!Insert(p, d)
      BY <1>3 DEF Abstract!OneCall
    <2>2. ASSUME NEW d, NEW op, Abstract!Write(op, p, d)
          PROVE  doc' = Abstract!With(doc, call'.path, call'.arg)
      BY <1>1, <2>2 DEF Abstract!Write
    <2>3. ASSUME NEW d, NEW op, Abstract!Fail(op, p, d)
          PROVE  FALSE
      BY <2>3 DEF Abstract!Fail
    <2>4. CASE Abstract!Delete(p)
      BY <1>1, <2>4 DEF Abstract!Delete
    <2>5. CASE Abstract!Open(p)
      BY <1>1, <2>5 DEF Abstract!Open
    <2>6. CASE Abstract!Clear(p)
      BY <1>1, <2>6 DEF Abstract!Clear
    <2>7. CASE Abstract!Swap(p)
      BY <1>1, <2>7 DEF Abstract!Swap
    <2>8. CASE Abstract!Retain(p)
      BY <1>1, <2>8 DEF Abstract!Retain
    <2>9. CASE Abstract!SwapRemove(p)
      BY <1>1, <2>9 DEF Abstract!SwapRemove
    <2>10. ASSUME NEW d, Abstract!Insert(p, d) PROVE FALSE
      BY <1>1, <2>10 DEF Abstract!Insert
    <2> QED  BY <2>1, <2>2, <2>3, <2>4, <2>5, <2>6, <2>7, <2>8, <2>9, <2>10
  <1> QED  BY <1>2, <1>3 DEF Abstract!Next

(* A store that succeeds leaves the old document with the value at the     *)
(* path: the parts beside it are as they were.                             *)
THEOREM TreeStoreReplaces ==
  ASSUME NowhereApart, ~StoreShifts, ~StoreIntoPacked
  PROVE  Spec => StoreReplaces
  <1>1. TreeInv /\ [Next]_vars => [StoreReplaced]_vars
    <2>1. SUFFICES ASSUME TreeInv, Next, call'.op = "store", ~failed'
                   PROVE  doc' = With(doc, call'.path, call'.arg)
      BY DEF StoreReplaced
    <2>2. Abstract!Next
      BY <2>1, NextImplements
    <2>3. doc' = Abstract!With(doc, call'.path, call'.arg)
      BY <2>1, <2>2, StoreIsWrite
    <2> QED  BY <2>3, SameWith
  <1>2. Spec => []TreeInv
    BY TreeStays
  <1> QED  BY <1>1, <1>2, PTL DEF Spec, StoreReplaces
=============================================================================
