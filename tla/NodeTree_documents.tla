--------------------------- MODULE NodeTree_documents ---------------------------
(***************************************************************************)
(* The document of a table: what it is at a node, given what it is at the   *)
(* children, that a read which stops at packed entities and goes on in      *)
(* their blobs sees it, and what a change of the nodes under a path does    *)
(* to it.                                                                   *)
(***************************************************************************)
EXTENDS NodeTree_proofs

(* Nowhere is no document.                                                 *)
NowhereApart ==
  \A x : Leaf(x) # Nowhere /\ Object(x) # Nowhere /\ List(x) # Nowhere

(* The document at one level, from the documents one level down.           *)
Level(s, below, i) ==
  [k \in DOMAIN s.node |-> IF i = 0 THEN Nowhere ELSE NodeDoc(s, k, below)]

(* g is the first n + 1 levels.                                            *)
IsLevels(g, s, n) == g = [i \in 0..n |-> Level(s, g[i - 1], i)]

(* The function that Levels defines exists.                                *)
LEMMA LevelsExist ==
  ASSUME NEW s
  PROVE  \A n \in Nat : \E g : IsLevels(g, s, n)
  <1> DEFINE S == {n \in Nat : \E g : IsLevels(g, s, n)}
  <1>1. 0 \in S
    <2> DEFINE g == [i \in 0..0 |-> [k \in DOMAIN s.node |-> Nowhere]]
    <2>1. \A i \in 0..0 : g[i] = Level(s, g[i - 1], i)
      BY DEF Level
    <2>2. IsLevels(g, s, 0)
      BY <2>1 DEF IsLevels
    <2> QED  BY <2>2
  <1>2. ASSUME NEW n \in Nat, n \in S PROVE n + 1 \in S
    <2>1. PICK g : IsLevels(g, s, n)
      BY <1>2
    <2> DEFINE h == [i \in 0..n + 1 |-> IF i = n + 1 THEN Level(s, g[n], n + 1) ELSE g[i]]
    <2>2. \A i \in 0..n : h[i] = g[i]
      OBVIOUS
    <2>3. ASSUME NEW i \in 0..n + 1
          PROVE  h[i] = Level(s, h[i - 1], i)
      <3>1. CASE i = n + 1
        BY <2>2, <3>1
      <3>2. CASE i = 0
        BY <2>1, <3>2 DEF IsLevels, Level
      <3>3. CASE i # n + 1 /\ i # 0
        <4>1. i \in 0..n /\ i - 1 \in 0..n
          BY <3>3
        <4> QED  BY <2>1, <2>2, <4>1 DEF IsLevels
      <3> QED  BY <3>1, <3>2, <3>3
    <2>4. IsLevels(h, s, n + 1)
      BY <2>3 DEF IsLevels
    <2> QED  BY <2>4
  <1> HIDE DEF S
  <1>3. Nat \subseteq S
    BY <1>1, <1>2, SetInduction
  <1> QED  BY <1>3 DEF S

(* Each level is made from the one before it.                              *)
LEMMA LevelSteps ==
  ASSUME NEW s, Shape(s)
  PROVE  /\ Cardinality(DOMAIN s.node) \in Nat
         /\ \A i \in 1..Cardinality(DOMAIN s.node) : \A k \in DOMAIN s.node :
              Levels(s)[i][k] = NodeDoc(s, k, Levels(s)[i - 1])
  <1> DEFINE N == Cardinality(DOMAIN s.node)
             D == Levels(s)
  <1>1. N \in Nat
    BY FS_CardinalityType DEF Shape
  <1>2. PICK g : IsLevels(g, s, N)
    BY <1>1, LevelsExist
  <1>3. g = [i \in 0..N |-> [k \in DOMAIN s.node |->
                              IF i = 0 THEN Nowhere ELSE NodeDoc(s, k, g[i - 1])]]
    BY <1>2 DEF IsLevels, Level
  <1>4. D = [i \in 0..N |-> [k \in DOMAIN s.node |->
                              IF i = 0 THEN Nowhere ELSE NodeDoc(s, k, D[i - 1])]]
    BY <1>3 DEF Levels
  <1> HIDE DEF D
  <1>5. ASSUME NEW i \in 1..N, NEW k \in DOMAIN s.node
        PROVE  D[i][k] = NodeDoc(s, k, D[i - 1])
    <2>1. i \in 0..N /\ i # 0
      BY <1>1
    <2> DEFINE L(m) == [x \in DOMAIN s.node |->
                          IF m = 0 THEN Nowhere ELSE NodeDoc(s, x, D[m - 1])]
    <2>2. D = [m \in 0..N |-> L(m)]
      BY <1>4
    <2> HIDE DEF L
    <2>3. D[i] = L(i)
      BY <2>1, <2>2
    <2> QED  BY <2>1, <2>3 DEF L
  <1> QED  BY <1>1, <1>5 DEF D

(* The document at a node depends on the documents at its children.        *)
LEMMA NodeDocAgrees ==
  ASSUME NEW s, Tree(s), NEW k \in DOMAIN s.node, NEW f, NEW g,
         \A seg \in Segment : ChildKey(s, k, seg) # NoKey =>
           f[ChildKey(s, k, seg)] = g[ChildKey(s, k, seg)]
  PROVE  NodeDoc(s, k, f) = NodeDoc(s, k, g)
  <1> DEFINE n == s.node[k]
  <1>1. Shape(s) /\ NodeOK(n) /\ k \in Nat
    BY DEF Tree, Sound, Shape
  <1>2. CASE n.kind = "leaf" \/ n.kind = "packed"
    BY <1>2 DEF NodeDoc
  <1>3. CASE n.kind = "list"
    <2>1. HasKind(s, k, "list") /\ n.items \in Seq(Nat \ {ROOT})
      <3>1. HasKind(s, k, "list")
        BY <1>3 DEF HasKind, Live
      <3> QED  BY <1>1, <3>1, ListItems
    <2>2. ASSUME NEW x \in DOMAIN n.items
          PROVE  f[n.items[x]] = g[n.items[x]]
      <3>1. x \in Nat /\ x - 1 \in Nat /\ x - 1 < Len(n.items) /\ (x - 1) + 1 = x
            /\ n.items[x] \in Nat
        <4>1. DOMAIN n.items = 1..Len(n.items) /\ Len(n.items) \in Nat
          BY <2>1, LenProperties
        <4>2. n.items[x] \in Nat
          BY <2>1, <4>1, ElementOfSeq
        <4> QED  BY <4>1, <4>2
      <3>2. Index(x - 1) \in Segment /\ ~IsName(Index(x - 1)) /\ Index(x - 1).index = x - 1
        BY <3>1, IndexSegment
      <3>3. ChildKey(s, k, Index(x - 1)) = n.items[x] /\ n.items[x] # NoKey
        BY <2>1, <3>1, <3>2 DEF ChildKey, NoKey
      <3> QED  BY <3>2, <3>3
    <2>3. [x \in DOMAIN n.items |-> f[n.items[x]]] = [x \in DOMAIN n.items |-> g[n.items[x]]]
      BY <2>2
    <2> QED  BY <1>3, <2>3 DEF NodeDoc
  <1>4. CASE n.kind = "object"
    <2> DEFINE names == {x \in Names : <<k, x>> \in DOMAIN s.link}
    <2>1. ASSUME NEW m \in names
          PROVE  f[s.link[<<k, m>>]] = g[s.link[<<k, m>>]]
      <3>1. Name(m) \in Segment /\ IsName(Name(m)) /\ Name(m).name = m
        BY NameSegment
      <3>2. s.link[<<k, m>>] \in Nat
        BY <1>1 DEF Shape
      <3>3. ChildKey(s, k, Name(m)) = s.link[<<k, m>>] /\ s.link[<<k, m>>] # NoKey
        BY <3>1, <3>2 DEF ChildKey, NoKey
      <3> QED  BY <3>1, <3>3
    <2>2. [m \in names |-> f[s.link[<<k, m>>]]] = [m \in names |-> g[s.link[<<k, m>>]]]
      BY <2>1
    <2> QED  BY <1>4, <2>2 DEF NodeDoc
  <1> QED  BY <1>1, <1>2, <1>3, <1>4 DEF NodeOK

(* Below a child there are fewer nodes than below its parent.              *)
LEMMA FewerBelow ==
  ASSUME NEW s, Tree(s), NEW k \in DOMAIN s.node, Reached(s, k), NEW seg \in Segment,
         ChildKey(s, k, seg) # NoKey
  PROVE  LET c == ChildKey(s, k, seg)
         IN  /\ c \in DOMAIN s.node /\ Reached(s, c)
             /\ IsFiniteSet(Visited(s, {k})) /\ IsFiniteSet(Visited(s, {c}))
             /\ Cardinality(Visited(s, {k})) \in Nat /\ Cardinality(Visited(s, {c})) \in Nat
             /\ Cardinality(Visited(s, {c})) < Cardinality(Visited(s, {k}))
             /\ Cardinality(Visited(s, {k})) <= Cardinality(DOMAIN s.node)
  <1> DEFINE c == ChildKey(s, k, seg)
             A == Visited(s, {k})
             B == Visited(s, {c})
  <1>1. /\ Sound(s) /\ Shape(s) /\ k \in Nat /\ c \in DOMAIN s.node /\ c \in Nat
        /\ DOMAIN s.node \in SUBSET Nat /\ IsFiniteSet(DOMAIN s.node)
    BY DEF Tree, Sound, Shape
  <1>2. Reached(s, c)
    BY <1>1, ReachedChild
  <1>3. A \subseteq DOMAIN s.node
    BY <1>1, VisitedWithin DEF Tree
  <1>4. k \in A /\ c \in A
    BY <1>1, VisitedFrom, VisitedChild
  <1>5. B \subseteq A
    BY <1>1, <1>4, VisitedNested
  <1>6. k \notin B
    BY <1>1, NoCycle
  <1>7. IsFiniteSet(A) /\ IsFiniteSet(B)
    BY <1>1, <1>3, <1>5, FS_Subset
  <1>8. Cardinality(A) \in Nat /\ Cardinality(B) \in Nat
    BY <1>7, FS_CardinalityType
  <1> HIDE DEF A, B
  <1>9. Cardinality(B) < Cardinality(A)
    <2>1. B # A
      BY <1>4, <1>6
    <2>2. Cardinality(B) <= Cardinality(A) /\ (Cardinality(A) = Cardinality(B) => A = B)
      BY <1>5, <1>7, FS_Subset
    <2> QED  BY <1>8, <2>1, <2>2
  <1>10. Cardinality(A) <= Cardinality(DOMAIN s.node)
    BY <1>1, <1>3, FS_Subset
  <1> QED  BY <1>1, <1>2, <1>7, <1>8, <1>9, <1>10 DEF A, B

(* From as many levels on as there are nodes below, the document at a node *)
(* stays as it is.                                                         *)
LEMMA LevelsSettle ==
  ASSUME NEW s, Tree(s)
  PROVE  \A n \in Nat : \A k \in DOMAIN s.node :
           Reached(s, k) /\ Cardinality(Visited(s, {k})) <= n =>
             \A i, j \in n..Cardinality(DOMAIN s.node) : Levels(s)[i][k] = Levels(s)[j][k]
  <1> DEFINE N == Cardinality(DOMAIN s.node)
             D == Levels(s)
             P(n) == \A k \in DOMAIN s.node :
                       Reached(s, k) /\ Cardinality(Visited(s, {k})) <= n =>
                         \A i, j \in n..N : D[i][k] = D[j][k]
             S == {n \in Nat : P(n)}
  <1>1. Sound(s) /\ Shape(s)
    BY DEF Tree, Sound
  <1>2. N \in Nat /\ \A i \in 1..N : \A k \in DOMAIN s.node : D[i][k] = NodeDoc(s, k, D[i - 1])
    BY <1>1, LevelSteps
  <1>3. ASSUME NEW k \in DOMAIN s.node
        PROVE  Cardinality(Visited(s, {k})) \in Nat /\ Cardinality(Visited(s, {k})) # 0
    <2>1. /\ k \in Nat /\ DOMAIN s.node \in SUBSET Nat /\ IsFiniteSet(DOMAIN s.node)
      BY <1>1 DEF Shape
    <2>2. Visited(s, {k}) \subseteq DOMAIN s.node
      BY <1>1, <2>1, VisitedWithin DEF Tree
    <2>3. k \in Visited(s, {k})
      BY <1>1, VisitedFrom
    <2>4. IsFiniteSet(Visited(s, {k}))
      BY <2>1, <2>2, FS_Subset
    <2> QED  BY <2>3, <2>4, FS_CardinalityType, FS_EmptySet
  <1> HIDE DEF D, N
  <1>4. 0 \in S
    BY <1>3
  <1>5. ASSUME NEW n \in Nat, n \in S PROVE n + 1 \in S
    <2>1. SUFFICES ASSUME NEW k \in DOMAIN s.node, Reached(s, k),
                          Cardinality(Visited(s, {k})) <= n + 1,
                          NEW i \in n + 1..N, NEW j \in n + 1..N
                   PROVE  D[i][k] = D[j][k]
      BY <1>5
    <2>2. i - 1 \in n..N /\ j - 1 \in n..N /\ i \in 1..N /\ j \in 1..N
      BY <1>2
    <2>3. ASSUME NEW seg \in Segment, ChildKey(s, k, seg) # NoKey
          PROVE  D[i - 1][ChildKey(s, k, seg)] = D[j - 1][ChildKey(s, k, seg)]
      <3> DEFINE c == ChildKey(s, k, seg)
      <3>1. /\ c \in DOMAIN s.node /\ Reached(s, c)
            /\ Cardinality(Visited(s, {k})) \in Nat /\ Cardinality(Visited(s, {c})) \in Nat
            /\ Cardinality(Visited(s, {c})) < Cardinality(Visited(s, {k}))
        BY <2>1, <2>3, FewerBelow
      <3>2. Cardinality(Visited(s, {c})) <= n
        BY <2>1, <3>1
      <3> QED  BY <1>5, <2>2, <3>1, <3>2
    <2>4. NodeDoc(s, k, D[i - 1]) = NodeDoc(s, k, D[j - 1])
      BY <2>3, NodeDocAgrees
    <2> QED  BY <1>2, <2>2, <2>4
  <1> HIDE DEF S
  <1>6. Nat \subseteq S
    BY <1>4, <1>5, SetInduction
  <1> QED  BY <1>6 DEF S, D, N

(* The document at a node, from the documents at its children.             *)
Docs(s) == [k \in DOMAIN s.node |-> DocUnder(s, k)]

LEMMA DocUnfold ==
  ASSUME NEW s, Tree(s), NEW k \in DOMAIN s.node, Reached(s, k)
  PROVE  DocUnder(s, k) = NodeDoc(s, k, Docs(s))
  <1> DEFINE N == Cardinality(DOMAIN s.node)
             D == Levels(s)
  <1>1. Sound(s) /\ Shape(s) /\ DOMAIN s.node \in SUBSET Nat /\ IsFiniteSet(DOMAIN s.node)
    BY DEF Tree, Sound, Shape
  <1>2. N \in Nat /\ \A i \in 1..N : \A m \in DOMAIN s.node : D[i][m] = NodeDoc(s, m, D[i - 1])
    BY <1>1, LevelSteps
  <1>3. N # 0
    BY <1>1, FS_EmptySet
  <1>4. \A m \in DOMAIN s.node : DocUnder(s, m) = D[N][m]
    BY DEF DocUnder, Live
  <1>5. \A n \in Nat : \A m \in DOMAIN s.node :
          Reached(s, m) /\ Cardinality(Visited(s, {m})) <= n =>
            \A i, j \in n..N : D[i][m] = D[j][m]
    BY LevelsSettle
  <1> HIDE DEF N, D
  <1>6. ASSUME NEW seg \in Segment, ChildKey(s, k, seg) # NoKey
        PROVE  D[N - 1][ChildKey(s, k, seg)] = Docs(s)[ChildKey(s, k, seg)]
    <2> DEFINE c == ChildKey(s, k, seg)
    <2>1. /\ c \in DOMAIN s.node /\ Reached(s, c)
          /\ Cardinality(Visited(s, {k})) \in Nat /\ Cardinality(Visited(s, {c})) \in Nat
          /\ Cardinality(Visited(s, {c})) < Cardinality(Visited(s, {k}))
          /\ Cardinality(Visited(s, {k})) <= N
      BY <1>6, FewerBelow DEF N
    <2> HIDE DEF c
    <2> DEFINE n == Cardinality(Visited(s, {c}))
    <2>2. n \in Nat /\ N - 1 \in n..N /\ N \in n..N /\ n <= n
      BY <1>2, <2>1
    <2> HIDE DEF n
    <2>3. D[N - 1][c] = D[N][c]
      BY <1>5, <2>1, <2>2 DEF n
    <2>4. D[N][c] = DocUnder(s, c)
      BY <1>4, <2>1
    <2>5. Docs(s)[c] = DocUnder(s, c)
      BY <2>1 DEF Docs
    <2> QED  BY <2>3, <2>4, <2>5 DEF c
  <1>7. NodeDoc(s, k, D[N - 1]) = NodeDoc(s, k, Docs(s))
    BY <1>6, NodeDocAgrees
  <1>8. D[N][k] = NodeDoc(s, k, D[N - 1])
    BY <1>2, <1>3
  <1> QED  BY <1>4, <1>7, <1>8

(* Below nothing there is nothing.                                         *)
LEMMA NowhereBelow ==
  ASSUME NEW seg
  PROVE  Kid(Nowhere, seg) = Nowhere
  BY DEF Kid, Is

(* The part of a document that a segment names is the document at the      *)
(* child that the segment leads to.                                        *)
LEMMA KidOf ==
  ASSUME NowhereApart, NEW s, Tree(s), NEW k, Reached(s, k), ~HasKind(s, k, "packed"),
         NEW seg \in Segment
  PROVE  Kid(DocUnder(s, k), seg) = DocUnder(s, ChildKey(s, k, seg))
  <1> DEFINE n == s.node[k]
             c == ChildKey(s, k, seg)
  <1>1. Sound(s) /\ Shape(s) /\ k \in Nat /\ DOMAIN s.node \in SUBSET Nat
    BY ReachedType DEF Tree, Sound, Shape
  <1>2. IsName(seg) <=> ~IsIndex(seg)
    BY DEF IsName
  <1>3. c = NoKey => DocUnder(s, c) = Nowhere
    <2>1. NoKey \notin DOMAIN s.node
      BY <1>1 DEF NoKey
    <2> QED  BY <2>1 DEF DocUnder, Live
  <1>4. c # NoKey => Holder(s, k, seg) /\ c \in DOMAIN s.node
    BY <1>1 DEF Tree, Sound
  <1>5. CASE ~Live(s, k)
    <2>1. c = NoKey
      BY <1>4, <1>5 DEF Holder, HasKind
    <2>2. DocUnder(s, k) = Nowhere
      BY <1>5 DEF DocUnder
    <2> QED  BY <1>3, <2>1, <2>2, NowhereBelow
  <1>6. CASE Live(s, k)
    <2>1. k \in DOMAIN s.node /\ NodeOK(n) /\ n.kind # "packed"
      BY <1>1, <1>6 DEF Live, HasKind, Shape
    <2>2. DocUnder(s, k) = NodeDoc(s, k, Docs(s))
      BY <2>1, DocUnfold
    <2>3. \A m \in DOMAIN s.node : Docs(s)[m] = DocUnder(s, m)
      BY DEF Docs
    <2>4. CASE n.kind = "leaf"
      <3>1. DocUnder(s, k) = Leaf(n.val)
        BY <2>2, <2>4 DEF NodeDoc
      <3>2. c = NoKey
        <4>1. ~HasKind(s, k, "list") /\ ~HasKind(s, k, "object")
          BY <2>4 DEF HasKind
        <4> QED  BY <1>4, <4>1 DEF Holder
      <3>3. ~Is(Leaf(n.val), "object") /\ ~Is(Leaf(n.val), "list")
        BY DEF Is, Leaf
      <3> QED  BY <1>3, <3>1, <3>2, <3>3 DEF Kid
    <2>5. CASE n.kind = "object"
      <3> DEFINE names == {x \in Names : <<k, x>> \in DOMAIN s.link}
                 f == [m \in names |-> Docs(s)[s.link[<<k, m>>]]]
      <3>1. DocUnder(s, k) = Object(f)
        BY <2>2, <2>5 DEF NodeDoc
      <3>2. Is(Object(f), "object") /\ ~Is(Object(f), "list") /\ Object(f).fields = f
        BY DEF NowhereApart, Is, Object
      <3>3. CASE IsIndex(seg)
        <4>1. c = NoKey
          <5>1. ~HasKind(s, k, "list")
            BY <2>5 DEF HasKind
          <5> QED  BY <1>4, <3>3, <5>1 DEF Holder
        <4>2. Kid(Object(f), seg) = Nowhere
          BY <1>2, <3>2, <3>3 DEF Kid
        <4> QED  BY <1>3, <3>1, <4>1, <4>2
      <3>4. CASE IsName(seg)
        <4>1. seg.name \in Names
          BY <1>2, <3>4, SegmentKinds
        <4>2. c = IF seg.name \in names THEN s.link[<<k, seg.name>>] ELSE NoKey
          BY <3>4, <4>1 DEF ChildKey
        <4>3. Kid(Object(f), seg) = IF seg.name \in names THEN f[seg.name] ELSE Nowhere
          BY <1>2, <3>2, <3>4 DEF Kid
        <4>4. CASE seg.name \notin names
          BY <1>3, <3>1, <4>2, <4>3, <4>4
        <4>5. CASE seg.name \in names
          <5>1. c = s.link[<<k, seg.name>>] /\ c # NoKey
            <6>1. s.link[<<k, seg.name>>] \in Nat
              BY <1>1, <4>5 DEF Shape
            <6> QED  BY <4>2, <4>5, <6>1 DEF NoKey
          <5>2. f[seg.name] = Docs(s)[s.link[<<k, seg.name>>]]
            BY <4>5
          <5> HIDE DEF f, names, c
          <5>3. f[seg.name] = DocUnder(s, c)
            BY <1>4, <2>3, <5>1, <5>2
          <5> QED  BY <3>1, <4>3, <4>5, <5>3 DEF c
        <4> QED  BY <4>4, <4>5
      <3> QED  BY <1>2, <3>3, <3>4
    <2>6. CASE n.kind = "list"
      <3> DEFINE g == [x \in DOMAIN n.items |-> Docs(s)[n.items[x]]]
      <3>1. DocUnder(s, k) = List(g)
        BY <2>2, <2>6 DEF NodeDoc
      <3>2. Is(List(g), "list") /\ ~Is(List(g), "object") /\ List(g).items = g
        BY DEF NowhereApart, Is, List
      <3>3. HasKind(s, k, "list")
        BY <1>6, <2>6 DEF HasKind
      <3>4. n.items \in Seq(Nat \ {ROOT})
        BY <1>1, <3>3, ListItems
      <3>5. Len(g) = Len(n.items)
        BY <3>4
      <3>6. CASE IsName(seg)
        <4>1. c = NoKey
          <5>1. ~HasKind(s, k, "object")
            BY <2>6 DEF HasKind
          <5> QED  BY <1>2, <1>4, <3>6, <5>1 DEF Holder
        <4>2. Kid(List(g), seg) = Nowhere
          BY <1>2, <3>2, <3>6 DEF Kid
        <4> QED  BY <1>3, <3>1, <4>1, <4>2
      <3>7. CASE IsIndex(seg)
        <4> DEFINE i == seg.index
        <4>1. i \in Nat
          BY <3>7, SegmentKinds
        <4>2. c = IF i < Len(n.items) THEN n.items[i + 1] ELSE NoKey
          BY <1>2, <3>3, <3>7 DEF ChildKey
        <4>3. Kid(List(g), seg) = IF i < Len(n.items) THEN g[i + 1] ELSE Nowhere
          <5> HIDE DEF g
          <5> QED  BY <1>2, <3>2, <3>5, <3>7 DEF Kid
        <4> HIDE DEF i
        <4>4. CASE ~(i < Len(n.items))
          BY <1>3, <3>1, <4>2, <4>3, <4>4
        <4>5. CASE i < Len(n.items)
          <5>1. i + 1 \in DOMAIN n.items /\ n.items[i + 1] \in Nat
            BY <3>4, <4>1, <4>5
          <5>2. c = n.items[i + 1] /\ c # NoKey
            BY <4>2, <4>5, <5>1 DEF NoKey
          <5>3. g[i + 1] = Docs(s)[n.items[i + 1]]
            BY <5>1
          <5> HIDE DEF g, c
          <5>4. g[i + 1] = DocUnder(s, c)
            BY <1>4, <2>3, <5>2, <5>3
          <5> QED  BY <3>1, <4>3, <4>5, <5>4 DEF c
        <4> QED  BY <4>4, <4>5
      <3> QED  BY <1>2, <3>6, <3>7
    <2> QED  BY <2>1, <2>4, <2>5, <2>6 DEF NodeOK
  <1> QED  BY <1>5, <1>6

(* g is what the first n segments of p lead to.                            *)
IsAlong(g, d, p, n) ==
  g = [i \in 0..n |-> IF i = 0 THEN d ELSE Kid(g[i - 1], p[i])]

(* The function that Along defines exists.                                 *)
LEMMA AlongExist ==
  ASSUME NEW d, NEW p
  PROVE  \A n \in Nat : \E g : IsAlong(g, d, p, n)
  <1> DEFINE S == {n \in Nat : \E g : IsAlong(g, d, p, n)}
  <1>1. 0 \in S
    <2> DEFINE g == [i \in 0..0 |-> d]
    <2>1. \A i \in 0..0 : g[i] = IF i = 0 THEN d ELSE Kid(g[i - 1], p[i])
      OBVIOUS
    <2>2. IsAlong(g, d, p, 0)
      BY <2>1 DEF IsAlong
    <2> QED  BY <2>2
  <1>2. ASSUME NEW n \in Nat, n \in S PROVE n + 1 \in S
    <2>1. PICK g : IsAlong(g, d, p, n)
      BY <1>2
    <2> DEFINE h == [i \in 0..n + 1 |-> IF i = n + 1 THEN Kid(g[n], p[n + 1]) ELSE g[i]]
    <2>2. \A i \in 0..n : h[i] = g[i]
      OBVIOUS
    <2>3. ASSUME NEW i \in 0..n + 1
          PROVE  h[i] = IF i = 0 THEN d ELSE Kid(h[i - 1], p[i])
      <3>1. CASE i = n + 1
        <4>1. h[i] = Kid(g[n], p[i]) /\ h[i - 1] = g[n] /\ i # 0
          BY <2>2, <3>1
        <4> QED  BY <4>1
      <3>2. CASE i = 0
        BY <2>1, <3>2 DEF IsAlong
      <3>3. CASE i # n + 1 /\ i # 0
        <4>1. i \in 0..n /\ i - 1 \in 0..n
          BY <3>3
        <4> QED  BY <2>1, <2>2, <3>3, <4>1 DEF IsAlong
      <3> QED  BY <3>1, <3>2, <3>3
    <2>4. IsAlong(h, d, p, n + 1)
      BY <2>3 DEF IsAlong
    <2> QED  BY <2>4
  <1> HIDE DEF S
  <1>3. Nat \subseteq S
    BY <1>1, <1>2, SetInduction
  <1> QED  BY <1>3 DEF S

(* A path is followed one segment at a time.                               *)
LEMMA AlongSteps ==
  ASSUME NEW d, NEW p \in Seq(Segment)
  PROVE  /\ Len(p) \in Nat
         /\ Along(d, p)[0] = d
         /\ \A i \in 1..Len(p) : Along(d, p)[i] = Kid(Along(d, p)[i - 1], p[i])
  <1> DEFINE n == Len(p)
             A == Along(d, p)
  <1>1. n \in Nat
    BY LenProperties
  <1>2. PICK g : IsAlong(g, d, p, n)
    BY <1>1, AlongExist
  <1>3. g = [i \in 0..n |-> IF i = 0 THEN d ELSE Kid(g[i - 1], p[i])]
    BY <1>2 DEF IsAlong
  <1>4. A = [i \in 0..n |-> IF i = 0 THEN d ELSE Kid(A[i - 1], p[i])]
    BY <1>3 DEF Along
  <1> HIDE DEF A, n
  <1> DEFINE L(m) == IF m = 0 THEN d ELSE Kid(A[m - 1], p[m])
  <1>5. A = [m \in 0..n |-> L(m)]
    BY <1>4
  <1> HIDE DEF L
  <1>6. \A i \in 0..n : A[i] = L(i)
    BY <1>5
  <1>7. A[0] = d
    BY <1>1, <1>6 DEF L
  <1>8. ASSUME NEW i \in 1..n PROVE A[i] = Kid(A[i - 1], p[i])
    <2>1. i \in 0..n /\ i # 0
      BY <1>1
    <2> QED  BY <1>6, <2>1 DEF L
  <1> QED  BY <1>1, <1>7, <1>8 DEF A, n

(* The rest of a path goes on from where its beginning leads.              *)
LEMMA AlongRest ==
  ASSUME NEW d, NEW p \in Seq(Segment), NEW m \in 0..Len(p)
  PROVE  At(d, p) = At(Along(d, p)[m], SubSeq(p, m + 1, Len(p)))
  <1> DEFINE n == Len(p)
             A == Along(d, p)
             q == SubSeq(p, m + 1, n)
             B == Along(A[m], q)
             S == {i \in Nat : i <= n - m => A[m + i] = B[i]}
  <1>1. n \in Nat /\ q \in Seq(Segment) /\ Len(q) = n - m
        /\ \A i \in 1..n - m : q[i] = p[m + i]
    <2>1. n \in Nat
      BY LenProperties
    <2>2. \A i \in m + 1..n : p[i] \in Segment
      BY <2>1, ElementOfSeq
    <2> QED  BY <2>1, <2>2, SubSeqProperties
  <1>2. \A i \in 1..n : A[i] = Kid(A[i - 1], p[i])
    BY AlongSteps
  <1>3. B[0] = A[m] /\ \A i \in 1..n - m : B[i] = Kid(B[i - 1], q[i])
    <2> HIDE DEF n, A, q
    <2>1. B[0] = A[m] /\ \A i \in 1..Len(q) : B[i] = Kid(B[i - 1], q[i])
      BY <1>1, AlongSteps
    <2> QED  BY <1>1, <2>1
  <1> HIDE DEF n, A, q, B
  <1>4. 0 \in S
    BY <1>1, <1>3
  <1>5. ASSUME NEW i \in Nat, i \in S PROVE i + 1 \in S
    <2>1. SUFFICES ASSUME i + 1 <= n - m
                   PROVE  A[m + (i + 1)] = B[i + 1]
      OBVIOUS
    <2>2. /\ m + (i + 1) \in 1..n /\ i + 1 \in 1..n - m /\ i <= n - m
          /\ (m + (i + 1)) - 1 = m + i /\ (i + 1) - 1 = i
      BY <1>1, <2>1 DEF n
    <2>3. A[m + i] = B[i]
      BY <1>5, <2>2
    <2>4. A[m + (i + 1)] = Kid(A[m + i], p[m + (i + 1)])
      BY <1>2, <2>2
    <2>5. B[i + 1] = Kid(B[i], q[i + 1])
      BY <1>3, <2>2
    <2>6. q[i + 1] = p[m + (i + 1)]
      BY <1>1, <2>2
    <2> QED  BY <2>3, <2>4, <2>5, <2>6
  <1> HIDE DEF S
  <1>6. n - m \in S
    <2>1. Nat \subseteq S
      BY <1>4, <1>5, SetInduction
    <2>2. n - m \in Nat
      BY <1>1 DEF n
    <2> QED  BY <2>1, <2>2
  <1>7. A[m + (n - m)] = B[n - m] /\ m + (n - m) = n
    BY <1>1, <1>6 DEF S, n
  <1> QED  BY <1>1, <1>7 DEF At, A, B, n, q

(* Past nothing a path leads nowhere.                                      *)
LEMMA AlongNowhere ==
  ASSUME NEW d, NEW p \in Seq(Segment), NEW m \in 0..Len(p), Along(d, p)[m] = Nowhere
  PROVE  At(d, p) = Nowhere
  <1> DEFINE n == Len(p)
             A == Along(d, p)
             S == {i \in Nat : i <= n - m => A[m + i] = Nowhere}
  <1>1. n \in Nat /\ \A i \in 1..n : A[i] = Kid(A[i - 1], p[i])
    BY AlongSteps
  <1> HIDE DEF n, A
  <1>2. 0 \in S
    BY DEF A
  <1>3. ASSUME NEW i \in Nat, i \in S PROVE i + 1 \in S
    <2>1. SUFFICES ASSUME i + 1 <= n - m
                   PROVE  A[m + (i + 1)] = Nowhere
      OBVIOUS
    <2>2. m + (i + 1) \in 1..n /\ i <= n - m /\ (m + (i + 1)) - 1 = m + i
      BY <1>1, <2>1 DEF n
    <2>3. A[m + i] = Nowhere
      BY <1>3, <2>2
    <2>4. A[m + (i + 1)] = Kid(A[m + i], p[m + (i + 1)])
      BY <1>1, <2>2
    <2> QED  BY <2>3, <2>4, NowhereBelow
  <1> HIDE DEF S
  <1>4. n - m \in S
    <2>1. Nat \subseteq S
      BY <1>2, <1>3, SetInduction
    <2>2. n - m \in Nat
      BY <1>1 DEF n
    <2> QED  BY <2>1, <2>2
  <1>5. A[m + (n - m)] = Nowhere /\ m + (n - m) = n
    BY <1>1, <1>4 DEF S, n
  <1> QED  BY <1>5 DEF At, A, n

(* As far as the walk meets no packed entity, it keeps to the document.    *)
LEMMA WalkKeepsToDocument ==
  ASSUME NowhereApart, NEW s, Tree(s), NEW p \in Seq(Segment), NEW j \in 0..Len(p),
         \A i \in 0..j - 1 : ~HasKind(s, Walk(s, ROOT, p)[i], "packed")
  PROVE  /\ Along(DocUnder(s, ROOT), p)[j] = DocUnder(s, Walk(s, ROOT, p)[j])
         /\ Walk(s, ROOT, p)[j] # NoKey => Reached(s, Walk(s, ROOT, p)[j])
  <1> DEFINE n == Len(p)
             d == DocUnder(s, ROOT)
             A == Along(d, p)
             w == Walk(s, ROOT, p)
             Kept(i) == A[i] = DocUnder(s, w[i]) /\ (w[i] # NoKey => Reached(s, w[i]))
             S == {i \in Nat : i <= j => Kept(i)}
  <1>1. Sound(s) /\ Shape(s) /\ NoKey \notin DOMAIN s.node
    <2>1. Sound(s) /\ Shape(s)
      BY DEF Tree, Sound
    <2> QED  BY <2>1 DEF Shape, NoKey
  <1>2. n \in Nat /\ A[0] = d /\ \A i \in 1..n : A[i] = Kid(A[i - 1], p[i])
    BY AlongSteps
  <1>3. w[0] = ROOT /\ \A i \in 1..n : w[i] = IF w[i - 1] = NoKey THEN NoKey
                                             ELSE ChildKey(s, w[i - 1], p[i])
    BY WalkSteps
  <1>4. \A i \in 1..n : p[i] \in Segment
    BY ElementOfSeq, <1>2
  <1> HIDE DEF n, A, w
  <1>5. 0 \in S
    BY <1>1, <1>2, <1>3, RootReached
  <1>6. ASSUME NEW i \in Nat, i \in S PROVE i + 1 \in S
    <2>1. SUFFICES ASSUME i + 1 <= j
                   PROVE  Kept(i + 1)
      OBVIOUS
    <2>2. i + 1 \in 1..n /\ i <= j /\ (i + 1) - 1 = i /\ i \in 0..j - 1 /\ p[i + 1] \in Segment
      BY <1>2, <1>4, <2>1 DEF n
    <2>3. A[i] = DocUnder(s, w[i]) /\ (w[i] # NoKey => Reached(s, w[i]))
      <3> HIDE DEF Kept
      <3>1. Kept(i)
        BY <1>6, <2>2
      <3> QED  BY <3>1 DEF Kept
    <2>4. A[i + 1] = Kid(A[i], p[i + 1])
      BY <1>2, <2>2
    <2>5. w[i + 1] = IF w[i] = NoKey THEN NoKey ELSE ChildKey(s, w[i], p[i + 1])
      BY <1>3, <2>2
    <2>6. CASE w[i] = NoKey
      <3>1. DocUnder(s, NoKey) = Nowhere
        BY <1>1 DEF DocUnder, Live
      <3> QED  BY <2>3, <2>4, <2>5, <2>6, <3>1, NowhereBelow
    <2>7. CASE w[i] # NoKey
      <3>1. Reached(s, w[i]) /\ ~HasKind(s, w[i], "packed")
        BY <2>2, <2>3, <2>7 DEF w
      <3>2. Kid(DocUnder(s, w[i]), p[i + 1]) = DocUnder(s, ChildKey(s, w[i], p[i + 1]))
        BY <2>2, <3>1, KidOf
      <3>3. w[i + 1] # NoKey => Reached(s, w[i + 1])
        BY <1>1, <2>2, <2>5, <3>1, ReachedChild
      <3> QED  BY <2>3, <2>4, <2>5, <2>7, <3>2, <3>3
    <2> QED  BY <2>6, <2>7
  <1> HIDE DEF S
  <1>7. j \in S /\ j \in Nat /\ j <= j
    <2>1. Nat \subseteq S
      BY <1>5, <1>6, SetInduction
    <2> QED  BY <2>1
  <1> HIDE DEF Kept
  <1>8. Kept(j)
    BY <1>7 DEF S
  <1> QED  BY <1>8 DEF Kept, A, w

(* What a read that stops at the first packed entity finds.                *)
FoundAt(s, p) ==
  LET at == Locate(s, p)
  IN  IF at = Missing THEN Nowhere
      ELSE IF at.at = "plain" THEN DocUnder(s, at.key)
      ELSE At(s.node[at.key].doc, at.rel)

LEMMA ReadSees ==
  ASSUME NowhereApart, NEW s, Tree(s), NEW p \in Seq(Segment)
  PROVE  FoundAt(s, p) = At(DocUnder(s, ROOT), p)
  <1> DEFINE n == Len(p)
             d == DocUnder(s, ROOT)
             w == Walk(s, ROOT, p)
             packed == {i \in 0..n : HasKind(s, w[i], "packed")}
             lost == {i \in 0..n : ~Live(s, w[i])}
             at == Locate(s, p)
  <1>1. n \in Nat
    BY LenProperties
  <1>2. packed \in SUBSET Nat /\ (packed # {} => Min(packed) \in packed
                                               /\ \A x \in packed : Min(packed) <= x)
    <2>1. packed \in SUBSET Nat
      BY <1>1
    <2> HIDE DEF packed
    <2> QED  BY <2>1, LeastIn
  <1>3. at = IF packed # {} /\ \A i \in lost : Min(packed) < i
             THEN [at |-> "packed", key |-> w[Min(packed)], rel |-> SubSeq(p, Min(packed) + 1, n)]
             ELSE IF lost = {} THEN [at |-> "plain", key |-> w[n]]
             ELSE Missing
    BY DEF Locate, PlaceOn
  <1>4. ASSUME NEW j \in 0..n, \A i \in packed : j <= i
        PROVE  Along(d, p)[j] = DocUnder(s, w[j])
    <2>1. ASSUME NEW i \in 0..j - 1 PROVE ~HasKind(s, w[i], "packed")
      <3>1. i \in 0..n /\ ~(j <= i)
        BY <1>1
      <3> HIDE DEF w
      <3> QED  BY <1>4, <3>1
    <2>2. j \in 0..Len(p)
      OBVIOUS
    <2> QED  BY <2>1, <2>2, WalkKeepsToDocument
  <1> HIDE DEF d, w, at
  <1>5. CASE packed # {} /\ \A i \in lost : Min(packed) < i
    <2> DEFINE m == Min(packed)
    <2>1. m \in packed /\ m \in 0..n /\ HasKind(s, w[m], "packed") /\ \A i \in packed : m <= i
      BY <1>2, <1>5
    <2>2. at = [at |-> "packed", key |-> w[m], rel |-> SubSeq(p, m + 1, n)]
      BY <1>3, <1>5
    <2> HIDE DEF m, packed, lost
    <2>3. Along(d, p)[m] = DocUnder(s, w[m])
      BY <1>4, <2>1
    <2>4. DocUnder(s, w[m]) = s.node[w[m]].doc
      <3>1. w[m] \in DOMAIN s.node /\ s.node[w[m]].kind = "packed"
        BY <2>1 DEF HasKind, Live
      <3>2. w[m] # NoKey
        BY <3>1 DEF Tree, Sound, Shape, NoKey
      <3>3. Reached(s, w[m])
        <4>1. ASSUME NEW i \in 0..m - 1 PROVE ~HasKind(s, Walk(s, ROOT, p)[i], "packed")
          <5>1. i \in 0..n /\ ~(m <= i)
            BY <1>1, <2>1
          <5> QED  BY <2>1, <5>1 DEF packed, w
        <4>2. m \in 0..Len(p)
          BY <2>1
        <4> QED  BY <3>2, <4>1, <4>2, WalkKeepsToDocument DEF w
      <3>4. DocUnder(s, w[m]) = NodeDoc(s, w[m], Docs(s))
        BY <3>1, <3>3, DocUnfold
      <3> QED  BY <3>1, <3>4 DEF NodeDoc
    <2>5. At(d, p) = At(Along(d, p)[m], SubSeq(p, m + 1, n))
      BY <2>1, AlongRest
    <2>6. at # Missing /\ at.at # "plain" /\ at.key = w[m] /\ at.rel = SubSeq(p, m + 1, n)
      BY <2>2 DEF Missing
    <2>7. FoundAt(s, p) = At(s.node[at.key].doc, at.rel)
      BY <2>6 DEF FoundAt, at
    <2> QED  BY <2>3, <2>4, <2>5, <2>6, <2>7 DEF d
  <1>6. CASE ~(packed # {} /\ \A i \in lost : Min(packed) < i) /\ lost = {}
    <2>1. packed = {} /\ at = [at |-> "plain", key |-> w[n]]
      BY <1>3, <1>6
    <2> HIDE DEF packed, lost
    <2>2. n \in 0..n
      BY <1>1
    <2>3. Along(d, p)[n] = DocUnder(s, w[n])
      BY <1>4, <2>1, <2>2
    <2>4. at # Missing /\ at.at = "plain" /\ at.key = w[n]
      BY <2>1 DEF Missing
    <2>5. FoundAt(s, p) = DocUnder(s, w[n])
      BY <2>4 DEF FoundAt, at
    <2> QED  BY <2>3, <2>5 DEF At, d
  <1>7. CASE ~(packed # {} /\ \A i \in lost : Min(packed) < i) /\ lost # {}
    <2>1. at = Missing
      BY <1>3, <1>7
    <2>2. FoundAt(s, p) = Nowhere
      BY <2>1 DEF FoundAt, at
    <2>3. PICK j \in lost : \A i \in packed : j <= i
      <3>1. CASE packed = {}
        BY <1>7, <3>1
      <3>2. CASE packed # {}
        <4>1. PICK j \in lost : ~(Min(packed) < j)
          BY <1>7, <3>2
        <4>2. j \in Nat /\ Min(packed) \in Nat
          BY <1>1, <1>2, <3>2
        <4> HIDE DEF packed, lost
        <4>3. ASSUME NEW i \in packed PROVE j <= i
          <5>1. i \in Nat /\ Min(packed) <= i
            BY <1>2, <3>2
          <5> QED  BY <4>1, <4>2, <5>1
        <4> QED  BY <4>3
      <3> QED  BY <3>1, <3>2
    <2>4. j \in 0..n /\ ~Live(s, w[j])
      BY <2>3
    <2> HIDE DEF packed, lost
    <2>5. Along(d, p)[j] = DocUnder(s, w[j])
      BY <1>4, <2>3, <2>4
    <2>6. DocUnder(s, w[j]) = Nowhere
      BY <2>4 DEF DocUnder
    <2>7. At(d, p) = Nowhere
      BY <2>4, <2>5, <2>6, AlongNowhere
    <2> QED  BY <2>2, <2>7 DEF d
  <1> QED  BY <1>5, <1>6, <1>7

(* A read that stops at packed entities and goes on in their blobs sees    *)
(* the same document as the walk of all nodes, whatever the path.          *)
THEOREM TreeReadsSeeTheDocument ==
  ASSUME NowhereApart, ~StoreShifts, ~StoreIntoPacked
  PROVE  Spec => []ReadsSeeTheDocument
  <1>1. TreeInv => ReadsSeeTheDocument
    <2>1. SUFFICES ASSUME TreeInv, NEW p \in Paths
                   PROVE  ReadAt(p) = At(doc, p)
      BY DEF ReadsSeeTheDocument
    <2>2. Tree(Table) /\ p \in Seq(Segment)
      BY <2>1, TreeAssumption DEF TreeInv
    <2>3. FoundAt(Table, p) = At(DocUnder(Table, ROOT), p)
      BY <2>2, ReadSees
    <2>4. ReadAt(p) = FoundAt(Table, p)
      BY DEF ReadAt, FoundAt, Table
    <2> QED  BY <2>3, <2>4 DEF doc
  <1>2. Spec => []TreeInv
    BY TreeStays
  <1> QED  BY <1>1, <1>2, PTL

------------------------------------------------------------------------------
(* The algebra of documents                                                *)


(* A leaf, or a container of parts: no part of it is missing.              *)
Proper(d) ==
  \/ Is(d, "leaf")
  \/ Is(d, "object") /\ d = Object(d.fields) /\ DOMAIN d.fields \subseteq Names
      /\ \E S : Nowhere \notin S /\ d.fields \in [DOMAIN d.fields -> S]
  \/ Is(d, "list") /\ d = List(d.items)
      /\ \E S : Nowhere \notin S /\ d.items \in Seq(S)

(* An object of parts.                                                     *)
LEMMA ProperObject ==
  ASSUME NowhereApart, NEW names \in SUBSET Names, NEW S, Nowhere \notin S,
         NEW f \in [names -> S]
  PROVE  LET d == Object(f)
         IN  /\ Proper(d) /\ Is(d, "object") /\ ~Is(d, "list")
             /\ \A seg \in Segment :
                  Kid(d, seg) = IF IsName(seg) /\ seg.name \in names THEN f[seg.name]
                                ELSE Nowhere
  <1> DEFINE d == Object(f)
  <1>1. d # Nowhere /\ d.kind = "object" /\ d.fields = f
    BY DEF NowhereApart, Object
  <1>2. Is(d, "object") /\ ~Is(d, "list") /\ d = Object(d.fields)
    BY <1>1 DEF Is
  <1>3. DOMAIN f = names
    OBVIOUS
  <1> HIDE DEF d
  <1>4. Proper(d)
    BY <1>1, <1>2, <1>3 DEF Proper
  <1>5. ASSUME NEW seg \in Segment
        PROVE  Kid(d, seg) = IF IsName(seg) /\ seg.name \in names THEN f[seg.name] ELSE Nowhere
    BY <1>1, <1>2, <1>3 DEF Kid
  <1> QED  BY <1>2, <1>4, <1>5 DEF d

(* A list of parts.                                                        *)
LEMMA ProperList ==
  ASSUME NowhereApart, NEW S, Nowhere \notin S, NEW f \in Seq(S)
  PROVE  LET d == List(f)
         IN  /\ Proper(d) /\ Is(d, "list") /\ ~Is(d, "object")
             /\ \A seg \in Segment :
                  Kid(d, seg) = IF IsIndex(seg) /\ seg.index < Len(f) THEN f[seg.index + 1]
                                ELSE Nowhere
  <1> DEFINE d == List(f)
  <1>1. d # Nowhere /\ d.kind = "list" /\ d.items = f
    BY DEF NowhereApart, List
  <1>2. Is(d, "list") /\ ~Is(d, "object") /\ d = List(d.items)
    BY <1>1 DEF Is
  <1> HIDE DEF d
  <1>3. Proper(d)
    BY <1>1, <1>2 DEF Proper
  <1>4. ASSUME NEW seg \in Segment
        PROVE  Kid(d, seg) = IF IsIndex(seg) /\ seg.index < Len(f) THEN f[seg.index + 1] ELSE Nowhere
    BY <1>1, <1>2 DEF Kid
  <1> QED  BY <1>2, <1>3, <1>4 DEF d

(* What a proper document is.                                              *)
LEMMA ProperIs ==
  ASSUME NowhereApart, NEW d, Proper(d)
  PROVE  /\ d # Nowhere
         /\ Is(d, "object") => \E names \in SUBSET Names : \E S : \E f \in [names -> S] :
                                 Nowhere \notin S /\ d = Object(f) /\ f = d.fields
         /\ Is(d, "list") => \E S : \E f \in Seq(S) :
                               Nowhere \notin S /\ d = List(f) /\ f = d.items
  <1>1. d # Nowhere
    BY DEF Proper, Is
  <1>2. CASE Is(d, "object")
    <2>1. ~Is(d, "list") /\ ~Is(d, "leaf")
      BY <1>2 DEF Is
    <2>2. /\ d = Object(d.fields) /\ DOMAIN d.fields \subseteq Names
          /\ \E S : Nowhere \notin S /\ d.fields \in [DOMAIN d.fields -> S]
      BY <2>1 DEF Proper
    <2>3. PICK S : Nowhere \notin S /\ d.fields \in [DOMAIN d.fields -> S]
      BY <2>2
    <2> QED  BY <1>1, <2>1, <2>2, <2>3
  <1>3. CASE Is(d, "list")
    <2>1. ~Is(d, "object") /\ ~Is(d, "leaf")
      BY <1>3 DEF Is
    <2>2. d = List(d.items) /\ \E S : Nowhere \notin S /\ d.items \in Seq(S)
      BY <2>1 DEF Proper
    <2>3. PICK S : Nowhere \notin S /\ d.items \in Seq(S)
      BY <2>2
    <2> QED  BY <1>1, <2>1, <2>2, <2>3
  <1> QED  BY <1>1, <1>2, <1>3

(* A container is determined by its kind and its parts.                    *)
LEMMA SameKids ==
  ASSUME NowhereApart, NEW d, Proper(d), NEW e, Proper(e),
         (Is(d, "object") /\ Is(e, "object")) \/ (Is(d, "list") /\ Is(e, "list")),
         \A seg \in Segment : Kid(d, seg) = Kid(e, seg)
  PROVE  d = e
  <1>1. CASE Is(d, "object") /\ Is(e, "object")
    <2>1. PICK A \in SUBSET Names : \E S : \E f \in [A -> S] :
                 Nowhere \notin S /\ d = Object(f) /\ f = d.fields
      BY <1>1, ProperIs
    <2>1a. PICK S : \E f \in [A -> S] : Nowhere \notin S /\ d = Object(f) /\ f = d.fields
      BY <2>1
    <2>1b. PICK f \in [A -> S] : Nowhere \notin S /\ d = Object(f)
      BY <2>1a
    <2>2. PICK B \in SUBSET Names : \E S1 : \E f1 \in [B -> S1] :
                 Nowhere \notin S1 /\ e = Object(f1) /\ f1 = e.fields
      BY <1>1, ProperIs
    <2>2a. PICK T : \E f1 \in [B -> T] : Nowhere \notin T /\ e = Object(f1) /\ f1 = e.fields
      BY <2>2
    <2>2b. PICK g \in [B -> T] : Nowhere \notin T /\ e = Object(g)
      BY <2>2a
    <2>3. ASSUME NEW n \in Names
          PROVE  (IF n \in A THEN f[n] ELSE Nowhere) = (IF n \in B THEN g[n] ELSE Nowhere)
      <3>1. Name(n) \in Segment /\ IsName(Name(n)) /\ Name(n).name = n
        BY NameSegment
      <3>2. Kid(d, Name(n)) = IF n \in A THEN f[n] ELSE Nowhere
        BY <2>1b, <3>1, ProperObject
      <3>3. Kid(e, Name(n)) = IF n \in B THEN g[n] ELSE Nowhere
        BY <2>2b, <3>1, ProperObject
      <3> QED  BY <3>1, <3>2, <3>3
    <2>4. A = B
      <3>1. ASSUME NEW n \in Names PROVE n \in A <=> n \in B
        BY <2>1b, <2>2b, <2>3
      <3> QED  BY <3>1
    <2>5. \A n \in A : f[n] = g[n]
      BY <2>3, <2>4
    <2>6. f = g
      BY <2>4, <2>5
    <2> QED  BY <2>1b, <2>2b, <2>6
  <1>2. CASE Is(d, "list") /\ Is(e, "list")
    <2>1. PICK S : \E f \in Seq(S) : Nowhere \notin S /\ d = List(f) /\ f = d.items
      BY <1>2, ProperIs
    <2>1b. PICK f \in Seq(S) : Nowhere \notin S /\ d = List(f)
      BY <2>1
    <2>2. PICK T : \E f1 \in Seq(T) : Nowhere \notin T /\ e = List(f1) /\ f1 = e.items
      BY <1>2, ProperIs
    <2>2b. PICK g \in Seq(T) : Nowhere \notin T /\ e = List(g)
      BY <2>2
    <2>3. ASSUME NEW i \in Nat
          PROVE  (IF i < Len(f) THEN f[i + 1] ELSE Nowhere) = (IF i < Len(g) THEN g[i + 1] ELSE Nowhere)
      <3>1. Index(i) \in Segment /\ IsIndex(Index(i)) /\ Index(i).index = i
        BY IndexSegment
      <3>2. Kid(d, Index(i)) = IF i < Len(f) THEN f[i + 1] ELSE Nowhere
        BY <2>1b, <3>1, ProperList
      <3>3. Kid(e, Index(i)) = IF i < Len(g) THEN g[i + 1] ELSE Nowhere
        BY <2>2b, <3>1, ProperList
      <3> QED  BY <3>1, <3>2, <3>3
    <2>4. Len(f) \in Nat /\ Len(g) \in Nat
          /\ (\A i \in Nat : i < Len(f) => f[i + 1] # Nowhere)
          /\ (\A i \in Nat : i < Len(g) => g[i + 1] # Nowhere)
      <3>1. Len(f) \in Nat /\ Len(g) \in Nat
        BY LenProperties
      <3>2. ASSUME NEW i \in Nat, i < Len(f) PROVE f[i + 1] # Nowhere
        <4>1. i + 1 \in 1..Len(f)
          BY <3>1, <3>2
        <4> QED  BY <2>1b, <4>1, ElementOfSeq
      <3>3. ASSUME NEW i \in Nat, i < Len(g) PROVE g[i + 1] # Nowhere
        <4>1. i + 1 \in 1..Len(g)
          BY <3>1, <3>3
        <4> QED  BY <2>2b, <4>1, ElementOfSeq
      <3> QED  BY <3>1, <3>2, <3>3
    <2>5. \A i \in Nat : i < Len(f) <=> i < Len(g)
      BY <2>3, <2>4
    <2>6. Len(f) = Len(g)
      <3>1. ~(Len(f) < Len(g))
        BY <2>4, <2>5
      <3>2. ~(Len(g) < Len(f))
        BY <2>4, <2>5
      <3> QED  BY <2>4, <3>1, <3>2
    <2>7. ASSUME NEW x \in 1..Len(f) PROVE f[x] = g[x]
      <3>1. x - 1 \in Nat /\ x - 1 < Len(f) /\ (x - 1) + 1 = x
        BY <2>4
      <3> QED  BY <2>3, <2>6, <3>1
    <2>8. f = g
      <3>1. f \in Seq(S \cup T) /\ g \in Seq(S \cup T)
        BY <2>1b, <2>2b, SeqMonotonic
      <3> QED  BY <2>6, <2>7, <3>1, SeqEqual
    <2> QED  BY <2>1b, <2>2b, <2>8
  <1> QED  BY <1>1, <1>2

(* What proper documents of one kind have in common with each other.       *)
SameKind(d, e) ==
  (Is(d, "object") <=> Is(e, "object")) /\ (Is(d, "list") <=> Is(e, "list"))

(* d is a container that the segment names a part of.                      *)
Opens(d, seg) == IF IsIndex(seg) THEN Is(d, "list") ELSE Is(d, "object")

(* An empty container.                                                     *)
LEMMA EmptyContainer ==
  ASSUME NowhereApart, NEW isList \in BOOLEAN
  PROVE  LET d == Container(isList)
         IN  /\ Proper(d)
             /\ Is(d, "list") <=> isList
             /\ Is(d, "object") <=> ~isList
             /\ \A seg \in Segment : Kid(d, seg) = Nowhere
  <1>1. CASE isList
    <2>1. <<>> \in Seq({}) /\ Len(<<>>) = 0 /\ Nowhere \notin {}
      OBVIOUS
    <2>2. \A seg \in Segment : IsIndex(seg) => ~(seg.index < 0)
      BY SegmentKinds
    <2> QED  BY <1>1, <2>1, <2>2, ProperList DEF Container, EmptyList
  <1>2. CASE ~isList
    <2>1. <<>> \in [{} -> {}] /\ {} \in SUBSET Names /\ Nowhere \notin {}
      OBVIOUS
    <2> QED  BY <1>2, <2>1, ProperObject DEF Container, EmptyObject
  <1> QED  BY <1>1, <1>2

(* A part may be put where a container of the right kind has its end, or   *)
(* has something.                                                          *)
LEMMA TakesIs ==
  ASSUME NowhereApart, NEW d, Proper(d), NEW seg \in Segment
  PROVE  Takes(d, seg) <=>
           /\ Opens(d, seg)
           /\ IsName(seg) \/ seg.index = 0 \/ Kid(d, Index(seg.index - 1)) # Nowhere
  <1>1. CASE IsName(seg)
    BY <1>1 DEF Takes, Opens, IsName
  <1>2. CASE IsIndex(seg) /\ ~Is(d, "list")
    BY <1>2 DEF Takes, Opens, IsName
  <1>3. CASE IsIndex(seg) /\ Is(d, "list")
    <2>1. PICK S : \E f \in Seq(S) : Nowhere \notin S /\ d = List(f) /\ f = d.items
      BY <1>3, ProperIs
    <2>2. PICK f \in Seq(S) : Nowhere \notin S /\ d = List(f) /\ f = d.items
      BY <2>1
    <2>3. Len(f) \in Nat /\ seg.index \in Nat
      BY <1>3, LenProperties, SegmentKinds
    <2>4. Takes(d, seg) <=> seg.index <= Len(f)
      BY <1>3, <2>2 DEF Takes, IsName
    <2>5. ASSUME seg.index # 0
          PROVE  Kid(d, Index(seg.index - 1)) # Nowhere <=> seg.index <= Len(f)
      <3>1. seg.index - 1 \in Nat
        BY <2>3, <2>5
      <3>2. Kid(d, Index(seg.index - 1)) = IF seg.index - 1 < Len(f) THEN f[seg.index - 1 + 1] ELSE Nowhere
        BY <2>2, <3>1, IndexSegment, ProperList
      <3>3. seg.index - 1 < Len(f) <=> seg.index <= Len(f)
        BY <2>3
      <3>4. seg.index <= Len(f) => f[seg.index - 1 + 1] # Nowhere
        <4>1. ASSUME seg.index <= Len(f) PROVE f[seg.index - 1 + 1] # Nowhere
          <5>1. seg.index - 1 + 1 \in 1..Len(f)
            BY <2>3, <2>5, <4>1
          <5> QED  BY <2>2, <5>1, ElementOfSeq
        <4> QED  BY <4>1
      <3> QED  BY <3>2, <3>3, <3>4
    <2>6. seg.index = 0 => seg.index <= Len(f)
      BY <2>3
    <2> QED  BY <1>3, <2>4, <2>5, <2>6 DEF Opens, IsName
  <1> QED  BY <1>1, <1>2, <1>3 DEF IsName

(* A part put into a container is what the container then has there.       *)
LEMMA KidSet ==
  ASSUME NowhereApart, NEW d, Proper(d), NEW seg \in Segment, Takes(d, seg),
         NEW part, part # Nowhere
  PROVE  LET e == SetKid(d, seg, part)
         IN  /\ Proper(e) /\ SameKind(d, e)
             /\ \A tag \in Segment : Kid(e, tag) = IF tag = seg THEN part ELSE Kid(d, tag)
  <1> DEFINE e == SetKid(d, seg, part)
  <1>1. CASE IsName(seg)
    <2>1. Is(d, "object")
      BY <1>1 DEF Takes
    <2>2. PICK A \in SUBSET Names : \E S : \E f \in [A -> S] :
                 Nowhere \notin S /\ d = Object(f) /\ f = d.fields
      BY <2>1, ProperIs
    <2>3. PICK S : \E f \in [A -> S] : Nowhere \notin S /\ d = Object(f) /\ f = d.fields
      BY <2>2
    <2>4. PICK f \in [A -> S] : Nowhere \notin S /\ d = Object(f) /\ f = d.fields
      BY <2>3
    <2> DEFINE g == [n \in A \cup {seg.name} |-> IF n = seg.name THEN part ELSE f[n]]
               B == A \cup {seg.name}
               T == S \cup {part}
    <2>5. e = Object(g)
      <3>1. DOMAIN d.fields = A
        BY <2>4
      <3> QED  BY <1>1, <2>4, <3>1 DEF SetKid
    <2>6. seg.name \in Names
      BY <1>1, SegmentKinds DEF IsName
    <2>7. g \in [B -> T] /\ B \in SUBSET Names /\ Nowhere \notin T
      BY <2>4, <2>6
    <2>8. /\ g[seg.name] = part /\ seg.name \in B
          /\ \A n \in A : n # seg.name => g[n] = f[n]
          /\ \A n : n # seg.name => (n \in B <=> n \in A)
      OBVIOUS
    <2> HIDE DEF g, B, T, e
    <2>9. /\ Proper(e) /\ Is(e, "object") /\ ~Is(e, "list")
          /\ \A tag \in Segment : Kid(e, tag) = IF IsName(tag) /\ tag.name \in B THEN g[tag.name] ELSE Nowhere
      BY <2>5, <2>7, ProperObject
    <2>10. /\ ~Is(d, "list")
           /\ \A tag \in Segment : Kid(d, tag) = IF IsName(tag) /\ tag.name \in A THEN f[tag.name] ELSE Nowhere
      BY <2>4, ProperObject
    <2>11. ASSUME NEW tag \in Segment
           PROVE  Kid(e, tag) = IF tag = seg THEN part ELSE Kid(d, tag)
      <3>1. CASE tag = seg
        BY <1>1, <2>8, <2>9, <3>1
      <3>2. CASE tag # seg /\ IsName(tag)
        <4>1. tag.name # seg.name
          BY <1>1, <3>2, SegmentKinds DEF IsName
        <4> QED  BY <2>8, <2>9, <2>10, <3>2, <4>1
      <3>3. CASE tag # seg /\ ~IsName(tag)
        BY <2>9, <2>10, <3>3
      <3> QED  BY <3>1, <3>2, <3>3
    <2> QED  BY <2>1, <2>9, <2>10, <2>11 DEF SameKind, e
  <1>2. CASE ~IsName(seg)
    <2>1. Is(d, "list") /\ seg.index <= Len(d.items) /\ IsIndex(seg)
      BY <1>2 DEF Takes, IsName
    <2>2. PICK S : \E f \in Seq(S) : Nowhere \notin S /\ d = List(f) /\ f = d.items
      BY <2>1, ProperIs
    <2>3. PICK f \in Seq(S) : Nowhere \notin S /\ d = List(f) /\ f = d.items
      BY <2>2
    <2> DEFINE i == seg.index
               T == S \cup {part}
               g == [x \in (1..Len(f)) \cup {i + 1} |-> IF x = i + 1 THEN part ELSE f[x]]
               m == IF i < Len(f) THEN Len(f) ELSE Len(f) + 1
    <2>4. Len(f) \in Nat /\ i \in Nat /\ i <= Len(f) /\ DOMAIN f = 1..Len(f)
      BY <2>1, <2>3, LenProperties, SegmentKinds
    <2>5. e = List(g)
      BY <1>2, <2>3, <2>4 DEF SetKid
    <2>6. (1..Len(f)) \cup {i + 1} = 1..m /\ m \in Nat
      BY <2>4
    <2>7. \A x \in 1..Len(f) : f[x] \in S
      BY <2>3, ElementOfSeq
    <2>8. g \in [1..m -> T]
      BY <2>6, <2>7
    <2>9. g \in Seq(T) /\ Len(g) = m
      <3>1. g \in Seq(T)
        <4> HIDE DEF g, m, T
        <4>1. [1..m -> T] \in {[1..n -> T] : n \in Nat}
          BY <2>6
        <4> QED  BY <2>8, <4>1, SeqDef
      <3>2. DOMAIN g = 1..m /\ DOMAIN g = 1..Len(g) /\ Len(g) \in Nat
        BY <2>8, <3>1, LenProperties
      <3> HIDE DEF g, m
      <3>3. Len(g) = m
        BY <2>6, <3>2
      <3> QED  BY <3>1, <3>3
    <2>10. \A j \in Nat : j < m => g[j + 1] = IF j = i THEN part ELSE f[j + 1]
      BY <2>4
    <2>11. /\ i < m /\ \A j \in Nat : j # i => (j < m <=> j < Len(f))
           /\ Nowhere \notin T
      BY <2>3, <2>4
    <2> HIDE DEF g, T, m, e
    <2>12. /\ Proper(e) /\ Is(e, "list") /\ ~Is(e, "object")
           /\ \A tag \in Segment : Kid(e, tag) = IF IsIndex(tag) /\ tag.index < Len(g) THEN g[tag.index + 1] ELSE Nowhere
      BY <2>5, <2>9, <2>11, ProperList
    <2>13. /\ ~Is(d, "object")
           /\ \A tag \in Segment : Kid(d, tag) = IF IsIndex(tag) /\ tag.index < Len(f) THEN f[tag.index + 1] ELSE Nowhere
      BY <2>3, ProperList
    <2>14. ASSUME NEW tag \in Segment
           PROVE  Kid(e, tag) = IF tag = seg THEN part ELSE Kid(d, tag)
      <3>1. CASE tag = seg
        BY <2>1, <2>4, <2>9, <2>10, <2>11, <2>12, <3>1
      <3>2. CASE tag # seg /\ IsIndex(tag)
        <4>1. tag.index # i /\ tag.index \in Nat
          BY <2>1, <3>2, SegmentKinds
        <4> QED  BY <2>9, <2>10, <2>11, <2>12, <2>13, <3>2, <4>1
      <3>3. CASE tag # seg /\ ~IsIndex(tag)
        BY <2>12, <2>13, <3>3
      <3> QED  BY <3>1, <3>2, <3>3
    <2> QED  BY <2>1, <2>12, <2>13, <2>14 DEF SameKind, e
  <1> QED  BY <1>1, <1>2

(* A part taken out of a container is gone; in a list those after it move  *)
(* up.                                                                     *)
LEMMA KidDrop ==
  ASSUME NowhereApart, NEW d, Proper(d), NEW seg \in Segment, Kid(d, seg) # Nowhere
  PROVE  LET e == DropKid(d, seg)
         IN  /\ Proper(e) /\ SameKind(d, e)
             /\ \A tag \in Segment :
                  Kid(e, tag) =
                    IF IsName(seg) THEN IF tag = seg THEN Nowhere ELSE Kid(d, tag)
                    ELSE IF IsIndex(tag) /\ tag.index >= seg.index
                         THEN Kid(d, Index(tag.index + 1)) ELSE Kid(d, tag)
  <1> DEFINE e == DropKid(d, seg)
  <1>1. CASE IsName(seg)
    <2>1. Is(d, "object")
      BY <1>1 DEF Kid, IsName
    <2>2. PICK A \in SUBSET Names : \E S : \E f \in [A -> S] :
                 Nowhere \notin S /\ d = Object(f) /\ f = d.fields
      BY <2>1, ProperIs
    <2>3. PICK S : \E f \in [A -> S] : Nowhere \notin S /\ d = Object(f) /\ f = d.fields
      BY <2>2
    <2>4. PICK f \in [A -> S] : Nowhere \notin S /\ d = Object(f) /\ f = d.fields
      BY <2>3
    <2> DEFINE B == A \ {seg.name}
               g == [n \in B |-> f[n]]
    <2>5. e = Object(g)
      <3>1. DOMAIN d.fields = A
        BY <2>4
      <3> QED  BY <1>1, <2>4, <3>1 DEF DropKid
    <2>7. g \in [B -> S] /\ B \in SUBSET Names
      BY <2>4
    <2>8. /\ seg.name \notin B
          /\ \A n \in B : g[n] = f[n]
          /\ \A n : n # seg.name => (n \in B <=> n \in A)
      OBVIOUS
    <2> HIDE DEF g, B, e
    <2>9. /\ Proper(e) /\ Is(e, "object") /\ ~Is(e, "list")
          /\ \A tag \in Segment : Kid(e, tag) = IF IsName(tag) /\ tag.name \in B THEN g[tag.name] ELSE Nowhere
      BY <2>4, <2>5, <2>7, ProperObject
    <2>10. /\ ~Is(d, "list")
           /\ \A tag \in Segment : Kid(d, tag) = IF IsName(tag) /\ tag.name \in A THEN f[tag.name] ELSE Nowhere
      BY <2>4, ProperObject
    <2>11. ASSUME NEW tag \in Segment
           PROVE  Kid(e, tag) = IF tag = seg THEN Nowhere ELSE Kid(d, tag)
      <3>1. CASE tag = seg
        BY <1>1, <2>8, <2>9, <3>1
      <3>2. CASE tag # seg /\ IsName(tag)
        <4>1. tag.name # seg.name
          BY <1>1, <3>2, SegmentKinds DEF IsName
        <4> QED  BY <2>8, <2>9, <2>10, <3>2, <4>1
      <3>3. CASE tag # seg /\ ~IsName(tag)
        BY <2>9, <2>10, <3>3
      <3> QED  BY <3>1, <3>2, <3>3
    <2> QED  BY <1>1, <2>1, <2>9, <2>10, <2>11 DEF SameKind, e
  <1>2. CASE ~IsName(seg)
    <2>1. Is(d, "list") /\ seg.index < Len(d.items) /\ IsIndex(seg)
      BY <1>2 DEF Kid, IsName
    <2>2. PICK S : \E f \in Seq(S) : Nowhere \notin S /\ d = List(f) /\ f = d.items
      BY <2>1, ProperIs
    <2>3. PICK f \in Seq(S) : Nowhere \notin S /\ d = List(f) /\ f = d.items
      BY <2>2
    <2> DEFINE i == seg.index
               g == RemoveAt(f, i + 1)
    <2>4. Len(f) \in Nat /\ i \in Nat /\ i < Len(f) /\ i + 1 \in 1..Len(f)
      BY <2>1, <2>3, LenProperties, SegmentKinds
    <2>5. e = List(g)
      BY <1>2, <2>3 DEF DropKid
    <2>6. /\ g \in Seq(S) /\ Len(g) = Len(f) - 1
          /\ \A j \in 1..Len(f) - 1 : g[j] = IF j < i + 1 THEN f[j] ELSE f[j + 1]
      BY <2>3, <2>4, RemoveAtItems
    <2> HIDE DEF g, e
    <2>7. \A j \in Nat : j < Len(g) => g[j + 1] = IF j >= i THEN f[j + 1 + 1] ELSE f[j + 1]
      <3>1. ASSUME NEW j \in Nat, j < Len(g)
            PROVE  g[j + 1] = IF j >= i THEN f[j + 1 + 1] ELSE f[j + 1]
        <4>1. j + 1 \in 1..Len(f) - 1 /\ (j + 1 < i + 1 <=> ~(j >= i))
          BY <2>4, <2>6, <3>1
        <4> QED  BY <2>6, <4>1
      <3> QED  BY <3>1
    <2>12. /\ Proper(e) /\ Is(e, "list") /\ ~Is(e, "object")
           /\ \A tag \in Segment : Kid(e, tag) = IF IsIndex(tag) /\ tag.index < Len(g) THEN g[tag.index + 1] ELSE Nowhere
      BY <2>3, <2>5, <2>6, ProperList
    <2>13. /\ ~Is(d, "object")
           /\ \A tag \in Segment : Kid(d, tag) = IF IsIndex(tag) /\ tag.index < Len(f) THEN f[tag.index + 1] ELSE Nowhere
      BY <2>3, ProperList
    <2>14. ASSUME NEW tag \in Segment
           PROVE  Kid(e, tag) = IF IsIndex(tag) /\ tag.index >= i
                                THEN Kid(d, Index(tag.index + 1)) ELSE Kid(d, tag)
      <3>1. CASE IsIndex(tag) /\ tag.index >= i
        <4>1. tag.index \in Nat /\ tag.index + 1 \in Nat
          BY <3>1, SegmentKinds
        <4>2. Kid(d, Index(tag.index + 1)) = IF tag.index + 1 < Len(f) THEN f[tag.index + 1 + 1] ELSE Nowhere
          BY <2>13, <4>1, IndexSegment
        <4>3. tag.index + 1 < Len(f) <=> tag.index < Len(g)
          BY <2>4, <2>6, <4>1
        <4> QED  BY <2>7, <2>12, <3>1, <4>1, <4>2, <4>3
      <3>2. CASE IsIndex(tag) /\ ~(tag.index >= i)
        <4>1. tag.index \in Nat
          BY <3>2, SegmentKinds
        <4>2. tag.index < Len(f) /\ tag.index < Len(g)
          BY <2>4, <2>6, <3>2, <4>1
        <4> QED  BY <2>7, <2>12, <2>13, <3>2, <4>1, <4>2
      <3>3. CASE ~IsIndex(tag)
        BY <2>12, <2>13, <3>3
      <3> QED  BY <3>1, <3>2, <3>3
    <2> QED  BY <1>2, <2>1, <2>12, <2>13, <2>14 DEF SameKind, e
  <1> QED  BY <1>1, <1>2

(* A part put in twice is the second one.                                  *)
LEMMA SetKidTwice ==
  ASSUME NowhereApart, NEW d, Proper(d), NEW seg \in Segment, Takes(d, seg),
         NEW x, x # Nowhere, NEW y, y # Nowhere
  PROVE  /\ Takes(SetKid(d, seg, x), seg)
         /\ SetKid(SetKid(d, seg, x), seg, y) = SetKid(d, seg, y)
  <1> DEFINE e == SetKid(d, seg, x)
  <1>1. /\ Proper(e) /\ SameKind(d, e)
        /\ \A tag \in Segment : Kid(e, tag) = IF tag = seg THEN x ELSE Kid(d, tag)
    BY KidSet
  <1> HIDE DEF e
  <1>2. Takes(e, seg)
    <2>1. Opens(e, seg) <=> Opens(d, seg)
      BY <1>1 DEF Opens, SameKind
    <2>2. Opens(d, seg) /\ (IsName(seg) \/ seg.index = 0 \/ Kid(d, Index(seg.index - 1)) # Nowhere)
      BY TakesIs
    <2>3. CASE IsName(seg) \/ seg.index = 0
      BY <1>1, <2>1, <2>2, <2>3, TakesIs
    <2>4. CASE ~IsName(seg) /\ seg.index # 0
      <3>1. seg.index - 1 \in Nat /\ seg.index # seg.index - 1 /\ seg = Index(seg.index)
        BY <2>4, SegmentKinds DEF IsName
      <3>2. Index(seg.index - 1) \in Segment /\ Index(seg.index - 1) # seg
        BY <3>1, IndexSegment
      <3>3. Kid(e, Index(seg.index - 1)) # Nowhere
        BY <1>1, <2>2, <2>4, <3>2
      <3> QED  BY <1>1, <2>1, <2>2, <3>3, TakesIs
    <2> QED  BY <2>3, <2>4
  <1>3. /\ Proper(SetKid(e, seg, y)) /\ SameKind(e, SetKid(e, seg, y))
        /\ \A tag \in Segment : Kid(SetKid(e, seg, y), tag) = IF tag = seg THEN y ELSE Kid(e, tag)
    BY <1>1, <1>2, KidSet
  <1>4. /\ Proper(SetKid(d, seg, y)) /\ SameKind(d, SetKid(d, seg, y))
        /\ \A tag \in Segment : Kid(SetKid(d, seg, y), tag) = IF tag = seg THEN y ELSE Kid(d, tag)
    BY KidSet
  <1>5. \A tag \in Segment : Kid(SetKid(e, seg, y), tag) = Kid(SetKid(d, seg, y), tag)
    BY <1>1, <1>3, <1>4
  <1>6. Is(d, "object") \/ Is(d, "list")
    BY DEF Takes
  <1>7. SetKid(e, seg, y) = SetKid(d, seg, y)
    <2> DEFINE a == SetKid(e, seg, y)
               b == SetKid(d, seg, y)
    <2>1. Proper(a) /\ Proper(b) /\ \A tag \in Segment : Kid(a, tag) = Kid(b, tag)
      BY <1>3, <1>4, <1>5
    <2>2. (Is(a, "object") /\ Is(b, "object")) \/ (Is(a, "list") /\ Is(b, "list"))
      BY <1>1, <1>3, <1>4, <1>6 DEF SameKind
    <2> HIDE DEF a, b
    <2>3. a = b
      BY <2>1, <2>2, SameKids
    <2> QED  BY <2>3 DEF a, b
  <1> QED  BY <1>2, <1>7 DEF e

------------------------------------------------------------------------------
(* Writing along a path                                                    *)

(* g[j] is what belongs after all segments of p but the last j.            *)
IsWith(g, d, p, part, n) ==
  g = [j \in 0..n |-> IF j = 0 THEN part
                      ELSE SetKid(Through(d, p, Len(p) - j), p[Len(p) - j + 1], g[j - 1])]

(* The function that With defines exists.                                  *)
LEMMA WithsExist ==
  ASSUME NEW d, NEW p, NEW part
  PROVE  \A n \in Nat : \E g : IsWith(g, d, p, part, n)
  <1> DEFINE S == {n \in Nat : \E g : IsWith(g, d, p, part, n)}
  <1>1. 0 \in S
    <2>1. IsWith([j \in 0..0 |-> part], d, p, part, 0)
      BY DEF IsWith
    <2> QED  BY <2>1
  <1>2. ASSUME NEW n \in Nat, n \in S PROVE n + 1 \in S
    <2>1. PICK g : IsWith(g, d, p, part, n)
      BY <1>2
    <2> DEFINE h == [j \in 0..n + 1 |->
                       IF j = n + 1
                       THEN SetKid(Through(d, p, Len(p) - j), p[Len(p) - j + 1], g[n])
                       ELSE g[j]]
    <2>2. \A j \in 0..n + 1 :
            h[j] = IF j = 0 THEN part
                   ELSE SetKid(Through(d, p, Len(p) - j), p[Len(p) - j + 1], h[j - 1])
      <3>1. TAKE j \in 0..n + 1
      <3>2. CASE j = n + 1
        <4>1. h[n] = g[n] /\ j # 0 /\ j - 1 = n
          BY <3>2
        <4>2. h[j] = SetKid(Through(d, p, Len(p) - j), p[Len(p) - j + 1], g[n])
          BY <3>2
        <4> QED  BY <4>1, <4>2
      <3>3. CASE j # n + 1
        <4>1. j \in 0..n /\ h[j] = g[j]
          BY <3>3
        <4>2. g[j] = IF j = 0 THEN part
                     ELSE SetKid(Through(d, p, Len(p) - j), p[Len(p) - j + 1], g[j - 1])
          BY <2>1, <4>1 DEF IsWith
        <4>3. j # 0 => h[j - 1] = g[j - 1]
          BY <4>1
        <4> QED  BY <4>1, <4>2, <4>3
      <3> QED  BY <3>2, <3>3
    <2>3. IsWith(h, d, p, part, n + 1)
      <3> DEFINE R(j) == IF j = 0 THEN part
                         ELSE SetKid(Through(d, p, Len(p) - j), p[Len(p) - j + 1], h[j - 1])
      <3>1. \A j \in 0..n + 1 : h[j] = R(j)
        BY <2>2
      <3>2. h = [j \in 0..n + 1 |-> h[j]]
        OBVIOUS
      <3> HIDE DEF h, R
      <3>3. h = [j \in 0..n + 1 |-> R(j)]
        BY <3>1, <3>2
      <3> QED  BY <3>3 DEF IsWith, R
    <2> QED  BY <2>3
  <1> HIDE DEF S
  <1>3. Nat \subseteq S
    BY <1>1, <1>2, SetInduction
  <1> QED  BY <1>3 DEF S

(* u[i]: what d becomes after i segments of p when part is written at p.   *)
Written(u, d, p, part) ==
  /\ u[Len(p)] = part
  /\ \A i \in 0..Len(p) - 1 : u[i] = SetKid(Through(d, p, i), p[i + 1], u[i + 1])

(* With is where a chain of writes from the end of the path begins.        *)
LEMMA WithSteps ==
  ASSUME NEW d, NEW p \in Seq(Segment), NEW part
  PROVE  \E u : Written(u, d, p, part) /\ u[0] = With(d, p, part)
  <1> DEFINE n == Len(p)
  <1>1. n \in Nat
    BY LenProperties
  <1> DEFINE g == CHOOSE h : IsWith(h, d, p, part, n)
  <1>2. IsWith(g, d, p, part, n)
    BY <1>1, WithsExist
  <1>3. With(d, p, part) = g[n]
    BY DEF With, IsWith
  <1> HIDE DEF g
  <1>4. \A j \in 0..n : g[j] = IF j = 0 THEN part
                               ELSE SetKid(Through(d, p, n - j), p[n - j + 1], g[j - 1])
    BY <1>2 DEF IsWith
  <1> DEFINE u == [i \in 0..n |-> g[n - i]]
  <1>5. \A i \in 0..n : u[i] = g[n - i]
    OBVIOUS
  <1> HIDE DEF u
  <1>6. u[n] = part
    BY <1>1, <1>4, <1>5
  <1>7. ASSUME NEW i \in 0..n - 1
        PROVE  u[i] = SetKid(Through(d, p, i), p[i + 1], u[i + 1])
    <2>1. /\ n - i \in 0..n /\ n - i # 0 /\ n - (n - i) = i /\ n - i - 1 = n - (i + 1)
          /\ i \in 0..n /\ i + 1 \in 0..n
      BY <1>1
    <2>2. g[n - i] = SetKid(Through(d, p, n - (n - i)), p[n - (n - i) + 1], g[n - i - 1])
      BY <1>4, <2>1
    <2> QED  BY <1>5, <2>1, <2>2
  <1>8. u[0] = g[n]
    BY <1>1, <1>5
  <1>9. Written(u, d, p, part)
    BY <1>6, <1>7 DEF Written
  <1> QED  BY <1>3, <1>8, <1>9

(* There is one such chain.                                                *)
LEMMA WrittenOnce ==
  ASSUME NEW d, NEW p \in Seq(Segment), NEW part, NEW u, NEW v,
         Written(u, d, p, part), Written(v, d, p, part)
  PROVE  \A i \in 0..Len(p) : u[i] = v[i]
  <1> DEFINE n == Len(p)
             S == {j \in Nat : j <= n => u[n - j] = v[n - j]}
  <1>1. n \in Nat
    BY LenProperties
  <1>2. 0 \in S
    BY <1>1 DEF Written
  <1>3. ASSUME NEW j \in Nat, j \in S PROVE j + 1 \in S
    <2>1. CASE j + 1 <= n
      <3>1. n - (j + 1) \in 0..n - 1 /\ n - (j + 1) + 1 = n - j /\ j <= n
        BY <1>1, <2>1
      <3>2. u[n - j] = v[n - j]
        BY <1>3, <3>1
      <3>3. /\ u[n - (j + 1)] = SetKid(Through(d, p, n - (j + 1)), p[n - (j + 1) + 1], u[n - j])
            /\ v[n - (j + 1)] = SetKid(Through(d, p, n - (j + 1)), p[n - (j + 1) + 1], v[n - j])
        BY <3>1 DEF Written
      <3> QED  BY <3>2, <3>3
    <2> QED  BY <2>1
  <1> HIDE DEF S
  <1>4. Nat \subseteq S
    BY <1>2, <1>3, SetInduction
  <1>5. ASSUME NEW i \in 0..n PROVE u[i] = v[i]
    <2>1. n - i \in Nat /\ n - i <= n /\ n - (n - i) = i
      BY <1>1
    <2> QED  BY <1>4, <2>1 DEF S
  <1> QED  BY <1>5

(* Any such chain begins with With.                                        *)
LEMMA WithIs ==
  ASSUME NEW d, NEW p \in Seq(Segment), NEW part, NEW u, Written(u, d, p, part)
  PROVE  With(d, p, part) = u[0]
  <1>1. PICK v : Written(v, d, p, part) /\ v[0] = With(d, p, part)
    BY WithSteps
  <1>2. 0 \in 0..Len(p)
    BY LenProperties
  <1>3. Written(v, d, p, part)
    BY <1>1
  <1>4. \A i \in 0..Len(p) : u[i] = v[i]
    BY <1>3, WrittenOnce
  <1> QED  BY <1>1, <1>2, <1>4

(* The container that the last segment of p names a part of.               *)
Grip(d, p) == Through(d, p, Len(p) - 1)

(* Two paths lead alike as far as they are alike.                          *)
LEMMA AlongFront ==
  ASSUME NEW d, NEW p \in Seq(Segment), NEW q \in Seq(Segment),
         NEW m \in 0..Len(p), m <= Len(q), \A i \in 1..m : p[i] = q[i]
  PROVE  \A i \in 0..m : Along(d, p)[i] = Along(d, q)[i]
  <1> DEFINE S == {i \in Nat : i <= m => Along(d, p)[i] = Along(d, q)[i]}
  <1>0. Len(p) \in Nat /\ Len(q) \in Nat /\ m \in Nat
    BY LenProperties
  <1>1. 0 \in S
    BY AlongSteps
  <1>2. ASSUME NEW i \in Nat, i \in S PROVE i + 1 \in S
    <2>1. CASE i + 1 <= m
      <3>1. i + 1 \in 1..Len(p) /\ i + 1 \in 1..Len(q) /\ i + 1 \in 1..m /\ i + 1 - 1 = i /\ i <= m
        BY <1>0, <2>1
      <3>2. Along(d, p)[i + 1] = Kid(Along(d, p)[i], p[i + 1])
        BY <3>1, AlongSteps
      <3>3. Along(d, q)[i + 1] = Kid(Along(d, q)[i], q[i + 1])
        BY <3>1, AlongSteps
      <3> QED  BY <1>2, <3>1, <3>2, <3>3
    <2> QED  BY <2>1
  <1> HIDE DEF S
  <1>3. Nat \subseteq S
    BY <1>1, <1>2, SetInduction
  <1> QED  BY <1>0, <1>3 DEF S

(* The containers written through on the way to the end of p are those on  *)
(* the way to its parent.                                                  *)
LEMMA ThroughFront ==
  ASSUME NEW d, NEW p \in Seq(Segment), p # <<>>
  PROVE  /\ \A i \in 0..Len(p) - 2 : Through(d, Front(p), i) = Through(d, p, i)
         /\ Grip(d, p) = IF At(d, Front(p)) = Nowhere THEN Container(IsIndex(Last(p)))
                         ELSE At(d, Front(p))
  <1>1. /\ Front(p) \in Seq(Segment) /\ Len(Front(p)) = Len(p) - 1 /\ Len(p) \in Nat \ {0}
        /\ \A i \in 1..Len(p) - 1 : Front(p)[i] = p[i]
        /\ Last(p) = p[Len(p)]
    BY PathFront
  <1>2. \A i \in 0..Len(p) - 1 : Along(d, Front(p))[i] = Along(d, p)[i]
    <2>1. Len(p) - 1 \in 0..Len(Front(p)) /\ Len(p) - 1 <= Len(p)
      BY <1>1
    <2>2. \A i \in 1..Len(p) - 1 : Front(p)[i] = p[i]
      BY <1>1
    <2> QED  BY <1>1, <2>1, <2>2, AlongFront
  <1>3. ASSUME NEW i \in 0..Len(p) - 2
        PROVE  Through(d, Front(p), i) = Through(d, p, i)
    <2>1. i + 1 \in 1..Len(p) - 1 /\ i \in 0..Len(p) - 1
      BY <1>1
    <2>2. Along(d, Front(p))[i] = Along(d, p)[i] /\ Front(p)[i + 1] = p[i + 1]
      BY <1>1, <1>2, <2>1
    <2> QED  BY <2>2 DEF Through
  <1>4. Len(p) - 1 \in 0..Len(p) - 1 /\ Len(p) - 1 + 1 = Len(p)
    BY <1>1
  <1>5. At(d, Front(p)) = Along(d, p)[Len(p) - 1]
    BY <1>1, <1>2, <1>4 DEF At
  <1>6. Grip(d, p) = IF At(d, Front(p)) = Nowhere THEN Container(IsIndex(Last(p)))
                     ELSE At(d, Front(p))
    BY <1>1, <1>4, <1>5 DEF Grip, Through
  <1> QED  BY <1>3, <1>6

(* A part written at p is written into its container, and the container at *)
(* the parent of p.                                                        *)
LEMMA WithSnoc ==
  ASSUME NEW d, NEW p \in Seq(Segment), p # <<>>, NEW part
  PROVE  /\ With(d, p, part) = With(d, Front(p), SetKid(Grip(d, p), Last(p), part))
         /\ Fits(d, p) <=> Fits(d, Front(p)) /\ Takes(Grip(d, p), Last(p))
  <1>1. /\ Front(p) \in Seq(Segment) /\ Len(Front(p)) = Len(p) - 1 /\ Len(p) \in Nat \ {0}
        /\ \A i \in 1..Len(p) - 1 : Front(p)[i] = p[i]
        /\ Last(p) = p[Len(p)]
    BY PathFront
  <1>2. PICK u : Written(u, d, p, part) /\ u[0] = With(d, p, part)
    BY WithSteps
  <1>3. /\ u[Len(p)] = part
        /\ \A i \in 0..Len(p) - 1 : u[i] = SetKid(Through(d, p, i), p[i + 1], u[i + 1])
    BY <1>2 DEF Written
  <1>4. \A i \in 0..Len(p) - 2 : Through(d, Front(p), i) = Through(d, p, i)
    BY ThroughFront
  <1>5. u[Len(p) - 1] = SetKid(Grip(d, p), Last(p), part)
    <2>1. Len(p) - 1 \in 0..Len(p) - 1 /\ Len(p) - 1 + 1 = Len(p)
      BY <1>1
    <2> QED  BY <1>1, <1>3, <2>1 DEF Grip
  <1>6. ASSUME NEW i \in 0..Len(Front(p)) - 1
        PROVE  u[i] = SetKid(Through(d, Front(p), i), Front(p)[i + 1], u[i + 1])
    <2>1. i \in 0..Len(p) - 2 /\ i \in 0..Len(p) - 1 /\ i + 1 \in 1..Len(p) - 1
      BY <1>1
    <2> QED  BY <1>1, <1>3, <1>4, <2>1
  <1>7. Written(u, d, Front(p), SetKid(Grip(d, p), Last(p), part))
    BY <1>1, <1>5, <1>6 DEF Written
  <1>8. With(d, Front(p), SetKid(Grip(d, p), Last(p), part)) = u[0]
    BY <1>1, <1>7, WithIs
  <1>9. Fits(d, p) <=> Fits(d, Front(p)) /\ Takes(Grip(d, p), Last(p))
    <2>1. Fits(d, Front(p)) <=> \A i \in 0..Len(p) - 2 : Takes(Through(d, p, i), p[i + 1])
      <3>1. \A i \in 0..Len(p) - 2 : Through(d, Front(p), i) = Through(d, p, i) /\ Front(p)[i + 1] = p[i + 1]
        <4>1. \A i \in 0..Len(p) - 2 : i + 1 \in 1..Len(p) - 1
          BY <1>1
        <4> QED  BY <1>1, <1>4, <4>1
      <3>2. Len(Front(p)) - 1 = Len(p) - 2
        BY <1>1
      <3> QED  BY <3>1, <3>2 DEF Fits
    <2>2. Takes(Grip(d, p), Last(p)) <=> Takes(Through(d, p, Len(p) - 1), p[Len(p) - 1 + 1])
      <3>1. Len(p) - 1 + 1 = Len(p)
        BY <1>1
      <3> QED  BY <1>1, <3>1 DEF Grip
    <2>3. \A i \in 0..Len(p) - 1 : i = Len(p) - 1 \/ i \in 0..Len(p) - 2
      BY <1>1
    <2>4. Len(p) - 1 \in 0..Len(p) - 1 /\ \A i \in 0..Len(p) - 2 : i \in 0..Len(p) - 1
      BY <1>1
    <2>5. Fits(d, p) <=> \A i \in 0..Len(p) - 1 : Takes(Through(d, p, i), p[i + 1])
      BY DEF Fits
    <2> QED  BY <2>1, <2>2, <2>3, <2>4, <2>5
  <1> QED  BY <1>2, <1>8, <1>9

------------------------------------------------------------------------------
(* Writes along a path                                                     *)


(* The rest of a path goes on, segment by segment, from where its          *)
(* beginning leads.                                                        *)
LEMMA AlongOn ==
  ASSUME NEW d, NEW p \in Seq(Segment), NEW m \in 0..Len(p)
  PROVE  LET rest == SubSeq(p, m + 1, Len(p))
         IN  /\ rest \in Seq(Segment) /\ Len(rest) = Len(p) - m
             /\ \A i \in 1..Len(p) - m : rest[i] = p[m + i]
             /\ \A i \in 0..Len(p) - m :
                  Along(Along(d, p)[m], rest)[i] = Along(d, p)[m + i]
  <1> DEFINE n == Len(p)
             A == Along(d, p)
             q == SubSeq(p, m + 1, n)
             B == Along(A[m], q)
             S == {i \in Nat : i <= n - m => A[m + i] = B[i]}
  <1>1. n \in Nat /\ q \in Seq(Segment) /\ Len(q) = n - m
        /\ \A i \in 1..n - m : q[i] = p[m + i]
    <2>1. n \in Nat
      BY LenProperties
    <2>2. \A i \in m + 1..n : p[i] \in Segment
      BY <2>1, ElementOfSeq
    <2> QED  BY <2>1, <2>2, SubSeqProperties
  <1>2. \A i \in 1..n : A[i] = Kid(A[i - 1], p[i])
    BY AlongSteps
  <1>3. B[0] = A[m] /\ \A i \in 1..n - m : B[i] = Kid(B[i - 1], q[i])
    <2> HIDE DEF n, A, q
    <2>1. B[0] = A[m] /\ \A i \in 1..Len(q) : B[i] = Kid(B[i - 1], q[i])
      BY <1>1, AlongSteps
    <2> QED  BY <1>1, <2>1
  <1> HIDE DEF n, A, q, B
  <1>4. 0 \in S
    BY <1>1, <1>3
  <1>5. ASSUME NEW i \in Nat, i \in S PROVE i + 1 \in S
    <2>1. SUFFICES ASSUME i + 1 <= n - m
                   PROVE  A[m + (i + 1)] = B[i + 1]
      OBVIOUS
    <2>2. /\ m + (i + 1) \in 1..n /\ i + 1 \in 1..n - m /\ i <= n - m
          /\ (m + (i + 1)) - 1 = m + i /\ (i + 1) - 1 = i
      BY <1>1, <2>1 DEF n
    <2>3. A[m + i] = B[i]
      BY <1>5, <2>2
    <2>4. A[m + (i + 1)] = Kid(A[m + i], p[m + (i + 1)])
      BY <1>2, <2>2
    <2>5. B[i + 1] = Kid(B[i], q[i + 1])
      BY <1>3, <2>2
    <2>6. q[i + 1] = p[m + (i + 1)]
      BY <1>1, <2>2
    <2> QED  BY <2>3, <2>4, <2>5, <2>6
  <1>6. Nat \subseteq S
    <2> HIDE DEF S
    <2> QED  BY <1>4, <1>5, SetInduction
  <1>7. ASSUME NEW i \in 0..n - m PROVE B[i] = A[m + i]
    <2>1. i \in Nat /\ i <= n - m
      BY <1>1
    <2> QED  BY <1>6, <2>1
  <1> QED  BY <1>1, <1>7 DEF A, B, n, q

(* The beginning of a path.                                                *)
LEMMA PrefixIs ==
  ASSUME NEW p \in Seq(Segment), NEW m \in 0..Len(p)
  PROVE  /\ Prefix(p, m) \in Seq(Segment) /\ Len(Prefix(p, m)) = m
         /\ \A i \in 1..m : Prefix(p, m)[i] = p[i]
  <1>1. Len(p) \in Nat
    BY LenProperties
  <1>2. \A i \in 1..m : p[i] \in Segment
    BY <1>1, ElementOfSeq
  <1>3. 1 \in 1..Len(p) + 1 /\ m \in 1 - 1..Len(p)
    BY <1>1
  <1> DEFINE q == SubSeq(p, 1, m)
  <1>4. q \in Seq(Segment) /\ Len(q) = m /\ \A i \in 1..m : q[i] = p[i]
    BY <1>1, <1>2, <1>3, SubSeqProperties
  <1> QED  BY <1>4 DEF Prefix

(* Written at a path, a part is written at the rest of the path in the     *)
(* document that the beginning leads to.                                   *)
LEMMA WithAlong ==
  ASSUME NEW d, NEW p \in Seq(Segment), NEW m \in 0..Len(p), NEW part
  PROVE  LET e    == Along(d, p)[m]
             rest == SubSeq(p, m + 1, Len(p))
         IN  /\ With(d, p, part) = With(d, Prefix(p, m), With(e, rest, part))
             /\ Fits(d, p) <=> Fits(d, Prefix(p, m)) /\ Fits(e, rest)
  <1> DEFINE n == Len(p)
             e == Along(d, p)[m]
             q == Prefix(p, m)
             rest == SubSeq(p, m + 1, n)
  <1>1. n \in Nat /\ m \in Nat /\ m <= n
    BY LenProperties
  <1>2. q \in Seq(Segment) /\ Len(q) = m /\ \A i \in 1..m : q[i] = p[i]
    BY PrefixIs
  <1>3. /\ rest \in Seq(Segment) /\ Len(rest) = n - m
        /\ \A i \in 1..n - m : rest[i] = p[m + i]
        /\ \A i \in 0..n - m : Along(e, rest)[i] = Along(d, p)[m + i]
    BY AlongOn
  <1>4. \A i \in 0..m : Along(d, q)[i] = Along(d, p)[i]
    BY <1>2, AlongFront
  <1> HIDE DEF e, q, rest, n
  <1>5. ASSUME NEW i \in 0..m - 1
        PROVE  Through(d, q, i) = Through(d, p, i) /\ q[i + 1] = p[i + 1]
    <2>1. i \in 0..m /\ i + 1 \in 1..m
      BY <1>1
    <2> QED  BY <1>2, <1>4, <2>1 DEF Through
  <1>6. ASSUME NEW i \in 0..n - m - 1
        PROVE  Through(e, rest, i) = Through(d, p, m + i) /\ rest[i + 1] = p[m + i + 1]
    <2>1. i \in 0..n - m /\ i + 1 \in 1..n - m /\ m + (i + 1) = m + i + 1
      BY <1>1
    <2> QED  BY <1>3, <2>1 DEF Through
  <1>7. PICK u : Written(u, d, p, part) /\ u[0] = With(d, p, part)
    BY WithSteps
  <1>8. u[n] = part /\ \A i \in 0..n - 1 : u[i] = SetKid(Through(d, p, i), p[i + 1], u[i + 1])
    BY <1>7 DEF Written, n
  <1> DEFINE v == [i \in 0..n - m |-> u[m + i]]
  <1>9. \A i \in 0..n - m : v[i] = u[m + i]
    OBVIOUS
  <1> HIDE DEF v
  <1>10. Written(v, e, rest, part)
    <2>1. v[n - m] = part
      <3>1. n - m \in 0..n - m /\ m + (n - m) = n
        BY <1>1
      <3> QED  BY <1>8, <1>9, <3>1
    <2>2. ASSUME NEW i \in 0..n - m - 1
          PROVE  v[i] = SetKid(Through(e, rest, i), rest[i + 1], v[i + 1])
      <3>1. /\ m + i \in 0..n - 1 /\ i \in 0..n - m /\ i + 1 \in 0..n - m
            /\ m + (i + 1) = m + i + 1
        BY <1>1
      <3>2. u[m + i] = SetKid(Through(d, p, m + i), p[m + i + 1], u[m + i + 1])
        BY <1>8, <3>1
      <3> QED  BY <1>6, <1>9, <3>1, <3>2
    <2> QED  BY <1>3, <2>1, <2>2 DEF Written
  <1>11. With(e, rest, part) = u[m]
    <2>1. 0 \in 0..n - m /\ m + 0 = m
      BY <1>1
    <2>2. With(e, rest, part) = v[0]
      BY <1>3, <1>10, WithIs
    <2> QED  BY <1>9, <2>1, <2>2
  <1>12. Written(u, d, q, u[m])
    <2>1. ASSUME NEW i \in 0..m - 1
          PROVE  u[i] = SetKid(Through(d, q, i), q[i + 1], u[i + 1])
      <3>1. i \in 0..n - 1
        BY <1>1
      <3> QED  BY <1>5, <1>8, <3>1
    <2> QED  BY <1>2, <2>1 DEF Written
  <1>13. With(d, q, u[m]) = u[0]
    BY <1>2, <1>12, WithIs
  <1>14. Fits(d, p) <=> Fits(d, q) /\ Fits(e, rest)
    <2>1. Fits(d, p) <=> \A i \in 0..n - 1 : Takes(Through(d, p, i), p[i + 1])
      BY DEF Fits, n
    <2>2. Fits(d, q) <=> \A i \in 0..m - 1 : Takes(Through(d, p, i), p[i + 1])
      BY <1>2, <1>5 DEF Fits
    <2>3. Fits(e, rest) <=> \A i \in 0..n - m - 1 : Takes(Through(d, p, m + i), p[m + i + 1])
      BY <1>3, <1>6 DEF Fits
    <2>4. ASSUME NEW i \in 0..n - 1
          PROVE  i \in 0..m - 1 \/ (i - m \in 0..n - m - 1 /\ m + (i - m) = i)
      BY <1>1
    <2>5. (\A i \in 0..m - 1 : i \in 0..n - 1) /\ (\A i \in 0..n - m - 1 : m + i \in 0..n - 1)
      BY <1>1
    <2>6. Fits(d, p) => Fits(d, q) /\ Fits(e, rest)
      BY <2>1, <2>2, <2>3, <2>5
    <2>7. ASSUME Fits(d, q), Fits(e, rest), NEW i \in 0..n - 1
          PROVE  Takes(Through(d, p, i), p[i + 1])
      <3>1. CASE i \in 0..m - 1
        BY <2>2, <2>7, <3>1
      <3>2. CASE i - m \in 0..n - m - 1 /\ m + (i - m) = i
        <4>1. Takes(Through(d, p, m + (i - m)), p[m + (i - m) + 1])
          BY <2>3, <2>7, <3>2
        <4> QED  BY <3>2, <4>1
      <3> QED  BY <2>4, <3>1, <3>2
    <2> QED  BY <2>1, <2>6, <2>7
  <1> QED  BY <1>7, <1>11, <1>13, <1>14 DEF e, q, rest, n

(* Every document on a path is proper.                                     *)
Sane(d, p) ==
  \A i \in 0..Len(p) : Along(d, p)[i] # Nowhere => Proper(Along(d, p)[i])

(* What is written through is proper.                                      *)
LEMMA ThroughProper ==
  ASSUME NowhereApart, NEW d, NEW p \in Seq(Segment), Sane(d, p), NEW i \in 0..Len(p) - 1
  PROVE  Proper(Through(d, p, i))
  <1>1. i \in 0..Len(p)
    BY LenProperties
  <1>2. IsIndex(p[i + 1]) \in BOOLEAN
    BY IsIndexType
  <1> QED  BY <1>1, <1>2, EmptyContainer DEF Through, Sane

(* What was written at a path is there, and written there again it is      *)
(* replaced.                                                               *)
LEMMA WithWith ==
  ASSUME NowhereApart, NEW d, NEW p \in Seq(Segment), Sane(d, p), Fits(d, p),
         NEW x, x # Nowhere, NEW y, y # Nowhere
  PROVE  LET e == With(d, p, x)
         IN  /\ At(e, p) = x
             /\ With(e, p, y) = With(d, p, y)
             /\ Fits(e, p)
  <1> DEFINE n == Len(p)
             e == With(d, p, x)
             T(i) == Through(d, p, i)
             K(i) == p[i + 1]
  <1>0. n \in Nat
    BY LenProperties
  <1>1. PICK u : Written(u, d, p, x) /\ u[0] = e
    BY WithSteps
  <1>2. PICK v : Written(v, d, p, y) /\ v[0] = With(d, p, y)
    BY WithSteps
  <1>3. \A i \in 0..n - 1 : Proper(T(i)) /\ Takes(T(i), K(i)) /\ K(i) \in Segment
    <2>1. \A i \in 0..n - 1 : Takes(T(i), K(i))
      BY DEF Fits
    <2>2. \A i \in 0..n - 1 : Proper(T(i))
      BY ThroughProper
    <2>3. \A i \in 0..n - 1 : K(i) \in Segment
      <3>1. \A i \in 0..n - 1 : i + 1 \in 1..Len(p)
        BY <1>0
      <3> QED  BY <3>1, ElementOfSeq
    <2> QED  BY <2>1, <2>2, <2>3
  <1>4. /\ u[n] = x /\ \A i \in 0..n - 1 : u[i] = SetKid(T(i), K(i), u[i + 1])
        /\ v[n] = y /\ \A i \in 0..n - 1 : v[i] = SetKid(T(i), K(i), v[i + 1])
    BY <1>1, <1>2 DEF Written
  <1> HIDE DEF e, T, K, n
  <1>5. \A i \in 0..n : u[i] # Nowhere /\ v[i] # Nowhere
    <2>1. ASSUME NEW d1, NEW seg, NEW z PROVE SetKid(d1, seg, z) # Nowhere
      BY DEF SetKid, NowhereApart
    <2>2. ASSUME NEW i \in 0..n PROVE u[i] # Nowhere /\ v[i] # Nowhere
      <3>1. CASE i = n
        BY <1>4, <3>1
      <3>2. CASE i # n
        <4>1. i \in 0..n - 1
          BY <1>0, <3>2
        <4> QED  BY <1>4, <2>1, <4>1
      <3> QED  BY <3>1, <3>2
    <2> QED  BY <2>2
  <1>6. ASSUME NEW i \in 0..n - 1
        PROVE  Kid(u[i], K(i)) = u[i + 1]
    <2>1. i + 1 \in 0..n
      BY <1>0
    <2>2. u[i + 1] # Nowhere
      BY <1>5, <2>1
    <2>3. Proper(T(i)) /\ Takes(T(i), K(i)) /\ K(i) \in Segment
      BY <1>3
    <2>4. Kid(SetKid(T(i), K(i), u[i + 1]), K(i)) = u[i + 1]
      BY <2>2, <2>3, KidSet
    <2> QED  BY <1>4, <2>4
  <1>7. \A i \in 0..n : Along(e, p)[i] = u[i]
    <2> DEFINE S == {i \in Nat : i <= n => Along(e, p)[i] = u[i]}
    <2>1. 0 \in S
      BY <1>1, AlongSteps
    <2>2. ASSUME NEW i \in Nat, i \in S PROVE i + 1 \in S
      <3>1. CASE i + 1 <= n
        <4>1. i \in 0..n - 1 /\ i + 1 \in 1..n /\ i + 1 - 1 = i /\ i <= n
          BY <1>0, <3>1
        <4>2. Along(e, p)[i + 1] = Kid(Along(e, p)[i], K(i))
          BY <4>1, AlongSteps DEF K, n
        <4> QED  BY <1>6, <2>2, <4>1, <4>2
      <3> QED  BY <3>1
    <2>3. Nat \subseteq S
      <3> HIDE DEF S
      <3> QED  BY <2>1, <2>2, SetInduction
    <2> QED  BY <2>3, <1>0
  <1>8. ASSUME NEW i \in 0..n - 1 PROVE Through(e, p, i) = u[i]
    <2>1. i \in 0..n
      BY <1>0
    <2> QED  BY <1>5, <1>7, <2>1 DEF Through
  <1>9. ASSUME NEW i \in 0..n - 1
        PROVE  /\ Takes(u[i], K(i))
               /\ v[i] = SetKid(u[i], K(i), v[i + 1])
    <2>1. i + 1 \in 0..n
      BY <1>0
    <2>2. u[i + 1] # Nowhere /\ v[i + 1] # Nowhere
      BY <1>5, <2>1
    <2>3. Proper(T(i)) /\ Takes(T(i), K(i)) /\ K(i) \in Segment
      BY <1>3
    <2>4. /\ Takes(SetKid(T(i), K(i), u[i + 1]), K(i))
          /\ SetKid(SetKid(T(i), K(i), u[i + 1]), K(i), v[i + 1]) = SetKid(T(i), K(i), v[i + 1])
      BY <2>2, <2>3, SetKidTwice
    <2> QED  BY <1>4, <2>4
  <1>10. Fits(e, p)
    BY <1>8, <1>9 DEF Fits, K, n
  <1>11. Written(v, e, p, y)
    BY <1>4, <1>8, <1>9 DEF Written, K, n
  <1>12. With(e, p, y) = v[0]
    BY <1>11, WithIs
  <1>13. At(e, p) = x
    <2>1. n \in 0..n
      BY <1>0
    <2> QED  BY <1>4, <1>7, <2>1 DEF At, n
  <1> QED  BY <1>2, <1>10, <1>12, <1>13 DEF e

------------------------------------------------------------------------------
(* Changes in the table and the document                                   *)


(* A flat document is proper, and its parts are leaves.                    *)
LEMMA FlatProper ==
  ASSUME NowhereApart, NEW d, Flat(d)
  PROVE  Proper(d)
  <1>1. Nowhere \notin Leaves
    BY DEF Leaves, NowhereApart
  <1>2. CASE d \in Leaves
    <2>1. PICK v \in Values : d = Leaf(v)
      BY <1>2 DEF Leaves
    <2>2. Is(d, "leaf")
      BY <2>1 DEF Is, NowhereApart, Leaf
    <2> QED  BY <2>2 DEF Proper
  <1>3. CASE d.kind = "object" /\ d = Object(d.fields)
               /\ \E names \in SUBSET Names : d.fields \in [names -> Leaves]
    <2>1. PICK names \in SUBSET Names : d.fields \in [names -> Leaves]
      BY <1>3
    <2>2. Proper(Object(d.fields))
      BY <1>1, <2>1, ProperObject
    <2> QED  BY <1>3, <2>2
  <1>4. CASE d.kind = "list" /\ d = List(d.items) /\ d.items \in Seq(Leaves)
    <2>2. Proper(List(d.items))
      BY <1>1, <1>4, ProperList
    <2> QED  BY <1>4, <2>2
  <1> QED  BY <1>2, <1>3, <1>4 DEF Flat

(* At a live node there is a document.                                     *)
LEMMA DocThere ==
  ASSUME NowhereApart, NEW s, Tree(s), NEW k, Live(s, k), Reached(s, k)
  PROVE  DocUnder(s, k) # Nowhere
  <1> DEFINE n == s.node[k]
  <1>1. NodeOK(n) /\ k \in DOMAIN s.node
    BY DEF Tree, Sound, Shape, Live
  <1>2. DocUnder(s, k) = NodeDoc(s, k, Docs(s))
    BY <1>1, DocUnfold
  <1>3. CASE n.kind = "packed"
    <2>1. Flat(n.doc)
      BY <1>1, <1>3 DEF NodeOK
    <2>2. n.doc # Nowhere
      BY <2>1, FlatProper, ProperIs
    <2> QED  BY <1>2, <1>3, <2>2 DEF NodeDoc
  <1>4. CASE n.kind # "packed"
    BY <1>2, <1>4 DEF NodeDoc, NowhereApart
  <1> QED  BY <1>3, <1>4

(* The documents of the nodes that are reached.                            *)
LiveDocs(s) == {DocUnder(s, c) : c \in {m \in DOMAIN s.node : Reached(s, m)}}

(* The document at a live node, by the kind of the node.                   *)
LEMMA DocIs ==
  ASSUME NowhereApart, NEW s, Tree(s), NEW k, Live(s, k), Reached(s, k)
  PROVE  LET d == DocUnder(s, k)
         IN  /\ Proper(d)
             /\ HasKind(s, k, "leaf") => d = Leaf(s.node[k].val)
             /\ HasKind(s, k, "packed") => d = s.node[k].doc
             /\ ~HasKind(s, k, "packed") =>
                  /\ Is(d, "object") <=> HasKind(s, k, "object")
                  /\ Is(d, "list") <=> HasKind(s, k, "list")
  <1> DEFINE n == s.node[k]
             d == DocUnder(s, k)
             S == LiveDocs(s)
  <1>1. /\ Sound(s) /\ Shape(s) /\ NodeOK(n) /\ k \in DOMAIN s.node /\ k \in Nat
        /\ \A kind : HasKind(s, k, kind) <=> n.kind = kind
    BY DEF Tree, Sound, Shape, Live, HasKind
  <1>2. d = NodeDoc(s, k, Docs(s))
    BY <1>1, DocUnfold
  <1>3. Nowhere \notin S
    BY DocThere DEF LiveDocs, Live
  <1>4. ASSUME NEW seg \in Segment, ChildKey(s, k, seg) # NoKey
        PROVE  Docs(s)[ChildKey(s, k, seg)] \in S
    <2>1. ChildKey(s, k, seg) \in DOMAIN s.node /\ Reached(s, ChildKey(s, k, seg))
      BY <1>1, <1>4, ReachedChild DEF Tree
    <2> QED  BY <2>1 DEF Docs, LiveDocs
  <1> HIDE DEF d, S
  <1>5. CASE n.kind = "leaf"
    <2>1. d = Leaf(n.val)
      BY <1>2, <1>5 DEF NodeDoc
    <2>2. Is(d, "leaf") /\ ~Is(d, "object") /\ ~Is(d, "list")
      BY <2>1 DEF Is, NowhereApart, Leaf
    <2>3. Proper(d)
      BY <2>2 DEF Proper
    <2> QED  BY <1>1, <1>5, <2>1, <2>2, <2>3 DEF d
  <1>6. CASE n.kind = "packed"
    <2>1. d = n.doc
      BY <1>2, <1>6 DEF NodeDoc
    <2>2. Proper(d)
      BY <1>1, <1>6, <2>1, FlatProper DEF NodeOK
    <2> QED  BY <1>1, <1>6, <2>1, <2>2 DEF d
  <1>7. CASE n.kind = "list"
    <2> DEFINE f == [x \in DOMAIN n.items |-> Docs(s)[n.items[x]]]
    <2>1. d = List(f)
      BY <1>2, <1>7 DEF NodeDoc
    <2>2. n.items \in Seq(Nat \ {ROOT})
      BY <1>1, <1>7, ListItems
    <2>3. ASSUME NEW x \in DOMAIN n.items
          PROVE  Docs(s)[n.items[x]] \in S
      <3>1. x \in Nat /\ x - 1 \in Nat /\ x - 1 < Len(n.items) /\ (x - 1) + 1 = x
            /\ n.items[x] \in Nat
        <4>1. DOMAIN n.items = 1..Len(n.items) /\ Len(n.items) \in Nat
          BY <2>2, LenProperties
        <4>2. n.items[x] \in Nat \ {ROOT}
          BY <2>2, <4>1, ElementOfSeq
        <4> QED  BY <4>1, <4>2
      <3>2. Index(x - 1) \in Segment /\ ~IsName(Index(x - 1)) /\ Index(x - 1).index = x - 1
        BY <3>1, IndexSegment
      <3>3. ChildKey(s, k, Index(x - 1)) = n.items[x] /\ n.items[x] # NoKey
        BY <1>1, <1>7, <3>1, <3>2 DEF ChildKey, NoKey
      <3> QED  BY <1>4, <3>2, <3>3
    <2>4. DOMAIN n.items = 1..Len(n.items) /\ Len(n.items) \in Nat
      BY <2>2, LenProperties
    <2>5. f \in Seq(S)
      <3> DEFINE N == Len(n.items)
      <3>1. f \in [1..N -> S]
        BY <2>3, <2>4
      <3> HIDE DEF f, N
      <3>2. [1..N -> S] \in {[1..m -> S] : m \in Nat}
        BY <2>4 DEF N
      <3> QED  BY <3>1, <3>2, SeqDef
    <2> HIDE DEF f
    <2>6. Proper(d) /\ Is(d, "list") /\ ~Is(d, "object")
      BY <1>3, <2>1, <2>5, ProperList
    <2> QED  BY <1>1, <1>7, <2>6 DEF d
  <1>8. CASE n.kind = "object"
    <2> DEFINE names == {x \in Names : <<k, x>> \in DOMAIN s.link}
               f == [m \in names |-> Docs(s)[s.link[<<k, m>>]]]
    <2>1. d = Object(f)
      BY <1>2, <1>8 DEF NodeDoc
    <2>3. ASSUME NEW m \in names
          PROVE  Docs(s)[s.link[<<k, m>>]] \in S
      <3>1. Name(m) \in Segment /\ IsName(Name(m)) /\ Name(m).name = m
        BY NameSegment
      <3>2. s.link[<<k, m>>] \in Nat
        BY <1>1 DEF Shape
      <3>3. ChildKey(s, k, Name(m)) = s.link[<<k, m>>] /\ s.link[<<k, m>>] # NoKey
        BY <3>1, <3>2 DEF ChildKey, NoKey
      <3> QED  BY <1>4, <3>1, <3>3
    <2>5. f \in [names -> S] /\ names \in SUBSET Names
      BY <2>3
    <2> HIDE DEF f, names
    <2>6. Proper(d) /\ Is(d, "object") /\ ~Is(d, "list")
      BY <1>3, <2>1, <2>5, ProperObject
    <2> QED  BY <1>1, <1>8, <2>6 DEF d
  <1> QED  BY <1>1, <1>5, <1>6, <1>7, <1>8 DEF NodeOK

(* Where there is no node there is no document.                            *)
LEMMA NoDoc ==
  ASSUME NEW s, Shape(s)
  PROVE  /\ DocUnder(s, NoKey) = Nowhere
         /\ \A k : ~Live(s, k) => DocUnder(s, k) = Nowhere
  <1>1. NoKey \notin DOMAIN s.node
    BY DEF Shape, NoKey
  <1> QED  BY <1>1 DEF DocUnder, Live

------------------------------------------------------------------------------
(* What two tables have in common                                          *)

(* The node at m is the same one in both tables.                           *)
SameNode(s, t, m) ==
  /\ m \in DOMAIN s.node /\ m \in DOMAIN t.node
  /\ \A kind : HasKind(t, m, kind) <=> HasKind(s, m, kind)
  /\ HasKind(s, m, "leaf") \/ HasKind(s, m, "packed") => t.node[m] = s.node[m]
  /\ \A tag \in Segment : ChildKey(t, m, tag) = ChildKey(s, m, tag)

(* Nodes with the same children, of which each has the same document in    *)
(* both tables, have the same document.                                    *)
LEMMA DocsAgree ==
  ASSUME NowhereApart, NEW s, Tree(s), NEW t, Tree(t), NEW k, Reached(s, k), Reached(t, k),
         SameNode(s, t, k),
         \A seg \in Segment : ChildKey(s, k, seg) # NoKey =>
           DocUnder(t, ChildKey(s, k, seg)) = DocUnder(s, ChildKey(s, k, seg))
  PROVE  DocUnder(t, k) = DocUnder(s, k)
  <1>1. Live(s, k) /\ Live(t, k) /\ Shape(s) /\ Shape(t)
    BY DEF SameNode, Live, Tree, Sound
  <1>2. \A kind : HasKind(t, k, kind) <=> HasKind(s, k, kind)
    BY DEF SameNode
  <1>3. CASE HasKind(s, k, "leaf") \/ HasKind(s, k, "packed")
    <2>1. t.node[k] = s.node[k]
      BY <1>3 DEF SameNode
    <2> QED  BY <1>1, <1>2, <1>3, <2>1, DocIs
  <1>4. CASE HasKind(s, k, "object") \/ HasKind(s, k, "list")
    <2>1. ~HasKind(s, k, "packed") /\ ~HasKind(t, k, "packed")
      BY <1>2, <1>4 DEF HasKind
    <2>2. ASSUME NEW seg \in Segment
          PROVE  Kid(DocUnder(t, k), seg) = Kid(DocUnder(s, k), seg)
      <3>1. ChildKey(t, k, seg) = ChildKey(s, k, seg)
        BY DEF SameNode
      <3>2. Kid(DocUnder(t, k), seg) = DocUnder(t, ChildKey(s, k, seg))
        BY <2>1, <3>1, KidOf
      <3>3. Kid(DocUnder(s, k), seg) = DocUnder(s, ChildKey(s, k, seg))
        BY <2>1, KidOf
      <3>4. ChildKey(s, k, seg) = NoKey =>
              DocUnder(t, ChildKey(s, k, seg)) = DocUnder(s, ChildKey(s, k, seg))
        BY <1>1, NoDoc
      <3> QED  BY <3>2, <3>3, <3>4
    <2> DEFINE a == DocUnder(t, k)
               b == DocUnder(s, k)
    <2>3. /\ Proper(a) /\ Proper(b)
          /\ Is(a, "object") <=> HasKind(t, k, "object")
          /\ Is(a, "list") <=> HasKind(t, k, "list")
          /\ Is(b, "object") <=> HasKind(s, k, "object")
          /\ Is(b, "list") <=> HasKind(s, k, "list")
      BY <1>1, <2>1, DocIs
    <2>4. (Is(a, "object") /\ Is(b, "object")) \/ (Is(a, "list") /\ Is(b, "list"))
      BY <1>2, <1>4, <2>3
    <2> HIDE DEF a, b
    <2>5. \A seg \in Segment : Kid(a, seg) = Kid(b, seg)
      BY <2>2 DEF a, b
    <2>6. a = b
      BY <2>3, <2>4, <2>5, SameKids
    <2> QED  BY <2>6 DEF a, b
  <1>5. HasKind(s, k, "leaf") \/ HasKind(s, k, "packed") \/ HasKind(s, k, "object") \/ HasKind(s, k, "list")
    BY <1>1 DEF HasKind, Live, Shape, NodeOK
  <1> QED  BY <1>3, <1>4, <1>5

(* A node that is reached has reached children in both tables.             *)
LEMMA ReachedSame ==
  ASSUME NEW s, Tree(s), NEW t, Tree(t), NEW k, Reached(s, k), Reached(t, k), SameNode(s, t, k),
         NEW seg \in Segment, ChildKey(s, k, seg) # NoKey
  PROVE  Reached(s, ChildKey(s, k, seg)) /\ Reached(t, ChildKey(s, k, seg))
  <1>1. ChildKey(t, k, seg) = ChildKey(s, k, seg)
    BY DEF SameNode
  <1>2. Sound(s) /\ Sound(t)
    BY DEF Tree
  <1> QED  BY <1>1, <1>2, ReachedChild

(* If everything visited from k is the same in both tables, so is the      *)
(* document.                                                               *)
LEMMA FrameDocs ==
  ASSUME NowhereApart, NEW s, Tree(s), NEW t, Tree(t)
  PROVE  \A k : Reached(s, k) /\ Reached(t, k)
                  /\ (\A m \in Visited(s, {k}) : SameNode(s, t, m))
                  => DocUnder(t, k) = DocUnder(s, k)
  <1> DEFINE V(k) == Visited(s, {k})
             Ok(k) == Reached(s, k) /\ Reached(t, k) /\ \A m \in V(k) : SameNode(s, t, m)
             P(n) == \A k : Ok(k) /\ Cardinality(V(k)) <= n => DocUnder(t, k) = DocUnder(s, k)
             S == {n \in Nat : P(n)}
  <1>1. Sound(s) /\ Shape(s)
    BY DEF Tree, Sound
  <1>2. ASSUME NEW k, Ok(k)
        PROVE  /\ k \in DOMAIN s.node /\ k \in Nat /\ SameNode(s, t, k)
               /\ Cardinality(V(k)) \in Nat /\ Cardinality(V(k)) # 0
    <2>1. k \in V(k)
      BY <1>1, VisitedFrom
    <2>2. SameNode(s, t, k)
      BY <1>2, <2>1
    <2>3. k \in DOMAIN s.node /\ k \in Nat /\ DOMAIN s.node \in SUBSET Nat /\ IsFiniteSet(DOMAIN s.node)
      BY <1>1, <2>2 DEF SameNode, Shape
    <2>4. V(k) \subseteq DOMAIN s.node
      BY <1>1, <2>3, VisitedWithin DEF Tree
    <2>5. IsFiniteSet(V(k))
      BY <2>3, <2>4, FS_Subset
    <2> HIDE DEF V
    <2>6. V(k) # {}
      BY <2>1
    <2>7. Cardinality(V(k)) \in Nat /\ Cardinality(V(k)) # 0
      BY <2>5, <2>6, FS_CardinalityType, FS_EmptySet
    <2> QED  BY <2>2, <2>3, <2>7
  <1>3. 0 \in S
    <2> HIDE DEF V, Ok
    <2>1. ASSUME NEW k, Ok(k), Cardinality(V(k)) <= 0 PROVE FALSE
      BY <1>2, <2>1
    <2> QED  BY <2>1
  <1>4. ASSUME NEW n \in Nat, n \in S PROVE n + 1 \in S
    <2>1. SUFFICES ASSUME NEW k, Ok(k), Cardinality(V(k)) <= n + 1
                   PROVE  DocUnder(t, k) = DocUnder(s, k)
      <3> HIDE DEF V, Ok
      <3> QED  OBVIOUS
    <2>2. k \in DOMAIN s.node /\ k \in Nat /\ SameNode(s, t, k)
      BY <1>2, <2>1
    <2>3. ASSUME NEW seg \in Segment, ChildKey(s, k, seg) # NoKey
          PROVE  DocUnder(t, ChildKey(s, k, seg)) = DocUnder(s, ChildKey(s, k, seg))
      <3> DEFINE c == ChildKey(s, k, seg)
      <3>1. Reached(s, c) /\ Reached(t, c)
        BY <2>1, <2>2, <2>3, ReachedSame
      <3>2. c \in V(k) /\ k \in V(k)
        BY <1>1, <2>2, <2>3, VisitedChild, VisitedFrom
      <3>3. V(c) \subseteq V(k)
        BY <1>1, <2>2, <3>2, VisitedNested
      <3>4. /\ Cardinality(V(k)) \in Nat /\ Cardinality(V(c)) \in Nat
            /\ Cardinality(V(c)) < Cardinality(V(k))
        BY <2>1, <2>2, <2>3, FewerBelow
      <3>5. Ok(c)
        BY <2>1, <3>1, <3>3
      <3>6. Cardinality(V(c)) <= n
        <4> HIDE DEF V, c
        <4> QED  BY <2>1, <3>4
      <3> HIDE DEF V, Ok, c
      <3>7. DocUnder(t, c) = DocUnder(s, c)
        BY <1>4, <3>5, <3>6
      <3> QED  BY <3>7 DEF c
    <2> QED  BY <2>1, <2>2, <2>3, DocsAgree
  <1>5. Nat \subseteq S
    <2> HIDE DEF S
    <2> QED  BY <1>3, <1>4, SetInduction
  <1>6. ASSUME NEW k, Ok(k) PROVE DocUnder(t, k) = DocUnder(s, k)
    <2>1. Cardinality(V(k)) \in Nat /\ Cardinality(V(k)) <= Cardinality(V(k))
      BY <1>2, <1>6
    <2> HIDE DEF V, Ok
    <2> QED  BY <1>5, <1>6, <2>1
  <1> QED  BY <1>6

------------------------------------------------------------------------------
(* Changes below one node                                                  *)

(* What is visited from two nodes of which neither is below the other.     *)
LEMMA BesideIsApart ==
  ASSUME NEW s, Sound(s), NEW c \in Nat, NEW k \in Nat,
         k \notin Visited(s, {c}), c \notin Visited(s, {k})
  PROVE  Visited(s, {c}) \cap Visited(s, {k}) = {}
  <1> DEFINE A == Visited(s, {c}) \ Visited(s, {k})
  <1>1. Visited(s, {c}) \in SUBSET Nat /\ Visited(s, {k}) \in SUBSET Nat
    BY VisitedType
  <1>2. c \in A
    BY VisitedFrom DEF Sound
  <1>3. ASSUME NEW y \in A, NEW seg \in Segment, ChildKey(s, y, seg) # NoKey
        PROVE  ChildKey(s, y, seg) \in A
    <2> DEFINE z == ChildKey(s, y, seg)
    <2>1. y \in Nat /\ z \in Visited(s, {c})
      BY <1>1, <1>3, VisitedChild
    <2>2. ASSUME z \in Visited(s, {k}) PROVE FALSE
      <3>1. z # k
        BY <2>1
      <3>2. PICK m \in Visited(s, {k}), tag \in Segment : m \in Nat /\ z = ChildKey(s, m, tag)
        BY <2>2, <3>1, VisitedParent
      <3>3. m = y
        BY <1>3, <2>1, <3>2, OneHolder
      <3> QED  BY <3>2, <3>3
    <2> QED  BY <2>1, <2>2
  <1>4. A \in SUBSET Nat
    BY <1>1
  <1>5. Visited(s, {c}) \subseteq A
    <2> HIDE DEF A
    <2> QED  BY <1>2, <1>3, <1>4, VisitedWithin
  <1> QED  BY <1>5

(* Two children of one node: neither is below the other.                   *)
LEMMA SiblingsApart ==
  ASSUME NEW s, Sound(s), NEW m, Reached(s, m), NEW seg \in Segment, NEW tag \in Segment,
         seg # tag, ChildKey(s, m, seg) # NoKey, ChildKey(s, m, tag) # NoKey
  PROVE  Visited(s, {ChildKey(s, m, seg)}) \cap Visited(s, {ChildKey(s, m, tag)}) = {}
  <1>1. m \in Nat
    BY ReachedType
  <1>2. ASSUME NEW a \in Segment, NEW b \in Segment, a # b,
               ChildKey(s, m, a) # NoKey, ChildKey(s, m, b) # NoKey
        PROVE  ChildKey(s, m, a) \notin Visited(s, {ChildKey(s, m, b)})
    <2>1. SUFFICES ASSUME ChildKey(s, m, a) \in Visited(s, {ChildKey(s, m, b)}) PROVE FALSE
      OBVIOUS
    <2>2. ChildKey(s, m, a) # ChildKey(s, m, b)
      BY <1>1, <1>2, OneHolder
    <2>3. ChildKey(s, m, b) \in Nat
      BY <1>2, ChildKeyType DEF Sound
    <2>4. PICK y \in Visited(s, {ChildKey(s, m, b)}), c \in Segment :
                 y \in Nat /\ ChildKey(s, m, a) = ChildKey(s, y, c)
      BY <2>1, <2>2, <2>3, VisitedParent
    <2>5. y = m
      BY <1>1, <1>2, <2>4, OneHolder
    <2> QED  BY <1>2, <2>4, <2>5, NoCycle
  <1>3. ChildKey(s, m, seg) \in Nat /\ ChildKey(s, m, tag) \in Nat
    BY ChildKeyType DEF Sound
  <1> QED  BY <1>2, <1>3, BesideIsApart

(* From s to t nothing changes but what is below k, and nothing is taken   *)
(* from elsewhere.                                                         *)
Confined(s, t, k) ==
  /\ \A m \in DOMAIN s.node : m \notin Visited(s, {k}) => SameNode(s, t, m)
  /\ \A m \in DOMAIN s.node : m \in Visited(t, {k}) => m \in Visited(s, {k})

(* A node is as it is.                                                     *)
LEMMA SameNodeSelf ==
  ASSUME NEW s, NEW m \in DOMAIN s.node
  PROVE  SameNode(s, s, m)
  BY DEF SameNode

(* A node that stays the same twice stays the same.                        *)
LEMMA SameNodeOn ==
  ASSUME NEW s, NEW t, NEW u, NEW m, SameNode(s, t, m), SameNode(t, u, m)
  PROVE  SameNode(s, u, m)
  BY DEF SameNode

(* No change is confined to every node.                                    *)
LEMMA ConfinedSelf ==
  ASSUME NEW s, NEW k
  PROVE  Confined(s, s, k)
  BY SameNodeSelf DEF Confined

(* Two changes confined to a node make one.                                *)
LEMMA ConfinedOn ==
  ASSUME NEW s, NEW t, NEW u, NEW k, Confined(s, t, k), Confined(t, u, k)
  PROVE  Confined(s, u, k)
  <1>1. ASSUME NEW m \in DOMAIN s.node, m \notin Visited(s, {k})
        PROVE  SameNode(s, t, m) /\ SameNode(t, u, m) /\ m \notin Visited(u, {k})
    <2>1. SameNode(s, t, m) /\ m \notin Visited(t, {k})
      BY <1>1 DEF Confined
    <2>2. m \in DOMAIN t.node
      BY <2>1 DEF SameNode
    <2> QED  BY <2>1, <2>2 DEF Confined
  <1>2. ASSUME NEW m \in DOMAIN s.node, m \notin Visited(s, {k})
        PROVE  SameNode(s, u, m)
    BY <1>1, <1>2, SameNodeOn
  <1> QED  BY <1>1, <1>2 DEF Confined

(* What is confined to k leaves the way to k, and k stays reached.         *)
LEMMA WayStays ==
  ASSUME NEW s, Tree(s), NEW t, Tree(t), NEW q \in Seq(Segment), NEW k, k # NoKey,
         ResolveFrom(s, ROOT, q) = k, Confined(s, t, k)
  PROVE  /\ \A i \in 0..Len(q) : Walk(t, ROOT, q)[i] = Walk(s, ROOT, q)[i]
         /\ \A i \in 0..Len(q) - 1 : Walk(s, ROOT, q)[i] \notin Visited(s, {k})
         /\ Reached(s, k) /\ Reached(t, k)
  <1> DEFINE n == Len(q)
             w == Walk(s, ROOT, q)
  <1>1. /\ Sound(s) /\ Shape(s) /\ ROOT \in Nat /\ Reached(s, ROOT) /\ Base(s, ROOT)
        /\ Sound(t) /\ Reached(t, ROOT) /\ n \in Nat
    BY RootIsBase, LenProperties
  <1>2. w[n] = k /\ n \in 0..n
    BY <1>1 DEF ResolveFrom
  <1>3. \A i \in 0..n : w[i] # NoKey
    BY <1>2, WalkThrough
  <1>4. ASSUME NEW i \in 0..n - 1
        PROVE  /\ w[i] \in DOMAIN s.node /\ w[i] \notin Visited(s, {k})
               /\ w[i + 1] = ChildKey(s, w[i], q[i + 1]) /\ q[i + 1] \in Segment
               /\ Reached(s, w[i])
    <2>1. i + 1 \in 1..n /\ i + 1 - 1 = i /\ i \in 0..n /\ i + 1 \in 0..n /\ n \in i + 1..n
      BY <1>1
    <2>2. /\ w[i + 1] = ChildKey(s, w[i], q[i + 1]) /\ q[i + 1] \in Segment
          /\ w[i + 1] \in Nat \ {ROOT}
      BY <1>1, <1>3, <2>1, WalkStep
    <2>3. Reached(s, w[i])
      BY <1>1, <1>3, <2>1, WalkReached
    <2>4. w[i] \in DOMAIN s.node
      <3>1. Holder(s, w[i], q[i + 1])
        <4>1. w[i + 1] # NoKey /\ ROOT \in Nat /\ Sound(s)
          BY <1>1, <1>3, <2>1
        <4> QED  BY <2>1, <4>1, WalkHolder
      <3> QED  BY <3>1 DEF Holder, HasKind, Live
    <2>5. w[i] \notin Visited(s, {w[i + 1]})
      BY <1>1, <1>3, <2>1, <2>2, <2>3, NoCycle
    <2>6. k \in Visited(s, {w[i + 1]})
      <3>1. w[i + 1] \in Visited(s, {w[i + 1]})
        BY <1>1, VisitedFrom
      <3>2. i + 1 \in 0..Len(q) /\ n \in i + 1..Len(q) /\ w[n] # NoKey
        BY <1>3, <2>1
      <3> DEFINE j == i + 1
                 A == {w[i + 1]}
      <3> HIDE DEF j, A
      <3>3. Walk(s, ROOT, q)[n] \in Visited(s, A)
        <4>1. j \in 0..Len(q) /\ n \in j..Len(q) /\ Walk(s, ROOT, q)[j] \in Visited(s, A)
              /\ Walk(s, ROOT, q)[n] # NoKey
          BY <3>1, <3>2 DEF j, A
        <4> HIDE DEF n
        <4> QED  BY <1>1, <4>1, WalkVisited
      <3> QED  BY <1>2, <3>3 DEF A
    <2>7. Visited(s, {k}) \subseteq Visited(s, {w[i + 1]})
      <3>1. {w[i + 1]} \in SUBSET Nat /\ {k} \subseteq Visited(s, {w[i + 1]})
        BY <2>2, <2>6
      <3> QED  BY <1>1, <3>1, VisitedNested
    <2> QED  BY <2>2, <2>3, <2>4, <2>5, <2>7
  <1>5. \A i \in 0..n : Walk(t, ROOT, q)[i] = w[i]
    <2>1. ASSUME NEW i \in 1..n
          PROVE  ChildKey(t, w[i - 1], q[i]) = ChildKey(s, w[i - 1], q[i])
      <3>1. i - 1 \in 0..n - 1 /\ i - 1 + 1 = i
        BY <1>1
      <3>2. SameNode(s, t, w[i - 1]) /\ q[i] \in Segment
        BY <1>4, <3>1 DEF Confined
      <3> QED  BY <3>2 DEF SameNode
    <2> QED  BY <1>2, <2>1, WalksAgree
  <1>6. Reached(s, k)
    BY <1>1, <1>2, <1>3, WalkReached
  <1>7. Reached(t, k)
    BY <1>1, <1>2, <1>3, <1>5, WalkReached
  <1> QED  BY <1>4, <1>5, <1>6, <1>7

(* A node that is neither above k nor below it has its document still.     *)
LEMMA DocBeside ==
  ASSUME NowhereApart, NEW s, Tree(s), NEW t, Tree(t), NEW k \in Nat, Confined(s, t, k),
         NEW c, c \in DOMAIN s.node, Reached(s, c), Reached(t, c),
         Visited(s, {c}) \cap Visited(s, {k}) = {}
  PROVE  DocUnder(t, c) = DocUnder(s, c)
  <1>1. Sound(s) /\ c \in Nat /\ DOMAIN s.node \in SUBSET Nat
    BY DEF Tree, Sound, Shape
  <1>2. Visited(s, {c}) \subseteq DOMAIN s.node
    BY <1>1, VisitedWithin DEF Tree
  <1>3. \A m \in Visited(s, {c}) : SameNode(s, t, m)
    BY <1>2 DEF Confined
  <1> QED  BY <1>3, FrameDocs

(* Where the parts of a live container differ in one place, the document   *)
(* of the container does.                                                  *)
LEMMA OnePart ==
  ASSUME NowhereApart, NEW s, Tree(s), NEW t, Tree(t), NEW k, Reached(s, k), Reached(t, k),
         NEW seg \in Segment, Holder(s, k, seg), Holder(t, k, seg),
         ChildKey(t, k, seg) \in DOMAIN t.node, Takes(DocUnder(s, k), seg),
         \A tag \in Segment : tag # seg =>
           DocUnder(t, ChildKey(t, k, tag)) = DocUnder(s, ChildKey(s, k, tag))
  PROVE  DocUnder(t, k) = SetKid(DocUnder(s, k), seg, DocUnder(t, ChildKey(t, k, seg)))
  <1> DEFINE a == DocUnder(t, k)
             b == DocUnder(s, k)
             part == DocUnder(t, ChildKey(t, k, seg))
             e == SetKid(b, seg, part)
  <1>1. Live(s, k) /\ Live(t, k) /\ ~HasKind(s, k, "packed") /\ ~HasKind(t, k, "packed") /\ Sound(t)
    BY DEF Holder, HasKind, Live, Tree
  <1>2. /\ Proper(a) /\ Proper(b)
        /\ Is(a, "object") <=> HasKind(t, k, "object")
        /\ Is(a, "list") <=> HasKind(t, k, "list")
        /\ Is(b, "object") <=> HasKind(s, k, "object")
        /\ Is(b, "list") <=> HasKind(s, k, "list")
    BY <1>1, DocIs
  <1>3. part # Nowhere
    <2>1. k \in Nat
      BY <1>1, ReachedType
    <2>2. ChildKey(t, k, seg) # NoKey
      BY <1>1 DEF Sound, Shape, NoKey
    <2>3. Reached(t, ChildKey(t, k, seg)) /\ Live(t, ChildKey(t, k, seg))
      BY <1>1, <2>2, ReachedChild DEF Live
    <2> QED  BY <2>3, DocThere
  <1>4. \A tag \in Segment : Kid(a, tag) = DocUnder(t, ChildKey(t, k, tag))
    BY <1>1, KidOf
  <1>5. \A tag \in Segment : Kid(b, tag) = DocUnder(s, ChildKey(s, k, tag))
    BY <1>1, KidOf
  <1>6. \A tag \in Segment : Kid(a, tag) = IF tag = seg THEN part ELSE Kid(b, tag)
    BY <1>4, <1>5
  <1>7. (Is(a, "object") /\ Is(b, "object")) \/ (Is(a, "list") /\ Is(b, "list"))
    BY <1>2 DEF Holder
  <1>8. Takes(b, seg)
    OBVIOUS
  <1> HIDE DEF a, b, part, e
  <1>9. /\ Proper(e) /\ SameKind(b, e)
        /\ \A tag \in Segment : Kid(e, tag) = IF tag = seg THEN part ELSE Kid(b, tag)
    BY <1>2, <1>3, <1>8, KidSet DEF e
  <1>10. (Is(a, "object") /\ Is(e, "object")) \/ (Is(a, "list") /\ Is(e, "list"))
    BY <1>7, <1>9 DEF SameKind
  <1>11. \A tag \in Segment : Kid(a, tag) = Kid(e, tag)
    BY <1>6, <1>9
  <1>12. a = e
    BY <1>2, <1>9, <1>10, <1>11, SameKids
  <1> QED  BY <1>12 DEF a, b, e, part

(* The last step of a path can be taken, where the node it leads to is.    *)
LEMMA ChildTaken ==
  ASSUME NowhereApart, NEW s, Tree(s), NEW k, Reached(s, k), NEW seg \in Segment,
         ChildKey(s, k, seg) # NoKey
  PROVE  Takes(DocUnder(s, k), seg) /\ Holder(s, k, seg) /\ Kid(DocUnder(s, k), seg) # Nowhere
  <1>1. Sound(s) /\ k \in Nat /\ Holder(s, k, seg)
    <2>1. Sound(s) /\ k \in Nat
      BY ReachedType DEF Tree
    <2> QED  BY <2>1 DEF Sound
  <1>2. Live(s, k) /\ ~HasKind(s, k, "packed")
    BY <1>1 DEF Holder, HasKind
  <1> DEFINE d == DocUnder(s, k)
  <1>3. /\ Proper(d)
        /\ Is(d, "object") <=> HasKind(s, k, "object")
        /\ Is(d, "list") <=> HasKind(s, k, "list")
    BY <1>2, DocIs
  <1>4. Kid(d, seg) # Nowhere
    <2>1. Kid(d, seg) = DocUnder(s, ChildKey(s, k, seg))
      BY <1>2, KidOf
    <2>2. Reached(s, ChildKey(s, k, seg)) /\ Live(s, ChildKey(s, k, seg))
      BY <1>1, ReachedChild DEF Tree, Live
    <2> QED  BY <2>1, <2>2, DocThere
  <1> HIDE DEF d
  <1>5. Takes(d, seg)
    <2>1. CASE IsName(seg)
      BY <1>1, <1>3, <2>1 DEF Takes, Holder, IsName
    <2>2. CASE ~IsName(seg)
      <3>1. Is(d, "list") /\ seg.index < Len(d.items) /\ seg.index \in Nat
        BY <1>4, <2>2, SegmentKinds DEF Kid, IsName
      <3>2. Len(d.items) \in Nat
        <4>1. PICK S : \E f \in Seq(S) : Nowhere \notin S /\ d = List(f) /\ f = d.items
          BY <1>3, <3>1, ProperIs
        <4> QED  BY <4>1, LenProperties
      <3> QED  BY <2>2, <3>1, <3>2 DEF Takes
    <2> QED  BY <2>1, <2>2
  <1> QED  BY <1>1, <1>4, <1>5 DEF d

(* What is confined to the node that q leads to is written at q.           *)
LEMMA Lift ==
  ASSUME NowhereApart, NEW s, Tree(s), NEW t, Tree(t), NEW q \in Seq(Segment), NEW k, k # NoKey,
         ResolveFrom(s, ROOT, q) = k, Confined(s, t, k)
  PROVE  /\ DocUnder(t, ROOT) = With(DocUnder(s, ROOT), q, DocUnder(t, k))
         /\ Fits(DocUnder(s, ROOT), q)
  <1> DEFINE n == Len(q)
             w == Walk(s, ROOT, q)
             d == DocUnder(s, ROOT)
  <1>1. /\ Sound(s) /\ Shape(s) /\ ROOT \in Nat /\ Reached(s, ROOT)
        /\ Sound(t) /\ Reached(t, ROOT) /\ n \in Nat
    BY RootIsBase, LenProperties
  <1>2. w[n] = k /\ n \in 0..n /\ w[0] = ROOT
    BY <1>1, WalkSteps DEF ResolveFrom
  <1>3. \A i \in 0..n : w[i] # NoKey
    BY <1>2, WalkThrough
  <1>3a. ASSUME NEW i \in 1..n PROVE Holder(s, w[i - 1], q[i])
    <2>1. i \in 0..n
      BY <1>1
    <2> QED  BY <1>1, <1>3, <2>1, WalkHolder
  <1>4. /\ \A i \in 0..n : Walk(t, ROOT, q)[i] = w[i]
        /\ \A i \in 0..n - 1 : w[i] \notin Visited(s, {k})
        /\ Reached(s, k) /\ Reached(t, k)
    BY WayStays
  <1>5. ASSUME NEW i \in 0..n - 1
        PROVE  /\ w[i + 1] = ChildKey(s, w[i], q[i + 1]) /\ q[i + 1] \in Segment
               /\ w[i + 1] = ChildKey(t, w[i], q[i + 1])
               /\ Reached(s, w[i]) /\ Reached(t, w[i])
               /\ w[i] \in DOMAIN s.node /\ SameNode(s, t, w[i])
               /\ k \in Visited(s, {w[i + 1]})
    <2>1. i + 1 \in 1..n /\ i + 1 - 1 = i /\ i \in 0..n /\ i + 1 \in 0..n /\ n \in i + 1..n
      BY <1>1
    <2>2. /\ w[i + 1] = ChildKey(s, w[i], q[i + 1]) /\ q[i + 1] \in Segment
          /\ w[i + 1] \in Nat \ {ROOT}
      BY <1>1, <1>3, <2>1, WalkStep
    <2>3. Reached(s, w[i]) /\ Reached(t, w[i])
      <3>1. Reached(s, w[i])
        BY <1>1, <1>3, <2>1, WalkReached
      <3>2. Reached(t, Walk(t, ROOT, q)[i])
        BY <1>1, <1>3, <1>4, <2>1, WalkReached
      <3> QED  BY <1>4, <2>1, <3>1, <3>2
    <2>4. w[i] \in DOMAIN s.node
      <3>1. Holder(s, w[i], q[i + 1])
        <4>1. w[i + 1] # NoKey /\ ROOT \in Nat /\ Sound(s)
          BY <1>1, <1>3, <2>1
        <4> QED  BY <2>1, <4>1, WalkHolder
      <3> QED  BY <3>1 DEF Holder, HasKind, Live
    <2>5. SameNode(s, t, w[i])
      BY <1>4, <2>4 DEF Confined
    <2>6. k \in Visited(s, {w[i + 1]})
      <3>1. w[i + 1] \in Visited(s, {w[i + 1]})
        BY <1>1, VisitedFrom
      <3>2. i + 1 \in 0..Len(q) /\ n \in i + 1..Len(q) /\ w[n] # NoKey
        BY <1>3, <2>1
      <3> DEFINE j == i + 1
                 A == {w[i + 1]}
      <3> HIDE DEF j, A
      <3>3. Walk(s, ROOT, q)[n] \in Visited(s, A)
        <4>1. j \in 0..Len(q) /\ n \in j..Len(q) /\ Walk(s, ROOT, q)[j] \in Visited(s, A)
              /\ Walk(s, ROOT, q)[n] # NoKey
          BY <3>1, <3>2 DEF j, A
        <4> HIDE DEF n
        <4> QED  BY <1>1, <4>1, WalkVisited
      <3> QED  BY <1>2, <3>3 DEF A
    <2>7. w[i + 1] = ChildKey(t, w[i], q[i + 1])
      BY <2>2, <2>5 DEF SameNode
    <2> QED  BY <2>2, <2>3, <2>4, <2>5, <2>6, <2>7
  <1>6. ASSUME NEW i \in 0..n - 1
        PROVE  Through(d, q, i) = DocUnder(s, w[i]) /\ Takes(DocUnder(s, w[i]), q[i + 1])
    <2>1. ~HasKind(s, w[i], "packed")
      <3>1. Holder(s, w[i], q[i + 1])
        <4>1. i + 1 \in 1..n /\ i + 1 - 1 = i
          BY <1>1
        <4> HIDE DEF w
        <4> QED  BY <1>3a, <4>1
      <3> QED  BY <3>1 DEF Holder, HasKind
    <2>2. Along(d, q)[i] = DocUnder(s, w[i])
      <3>1. i \in 0..Len(q) /\ \A j \in 0..i - 1 : j \in 0..n - 1
        BY <1>1
      <3>2. \A j \in 0..i - 1 : ~HasKind(s, w[j], "packed")
        <4>1. ASSUME NEW j \in 0..i - 1 PROVE ~HasKind(s, w[j], "packed")
          <5>1. j + 1 \in 1..n /\ j + 1 - 1 = j /\ j + 1 \in 0..n
            BY <1>1
          <5>2. Holder(s, w[j], q[j + 1])
            BY <1>1, <1>3, <5>1, WalkHolder
          <5> QED  BY <5>2 DEF Holder, HasKind
        <4> QED  BY <4>1
      <3> QED  BY <3>1, <3>2, WalkKeepsToDocument
    <2>3. DocUnder(s, w[i]) # Nowhere
      BY <1>5, DocThere DEF Live
    <2>4. Takes(DocUnder(s, w[i]), q[i + 1])
      <3>1. ChildKey(s, w[i], q[i + 1]) # NoKey
        <4>1. i + 1 \in 0..n
          BY <1>1
        <4> QED  BY <1>3, <1>5, <4>1
      <3> QED  BY <1>5, <3>1, ChildTaken
    <2> QED  BY <2>2, <2>3, <2>4 DEF Through
  <1>7. Fits(d, q)
    BY <1>6 DEF Fits
  <1> DEFINE u == [i \in 0..n |-> DocUnder(t, w[i])]
  <1>8. \A i \in 0..n : u[i] = DocUnder(t, w[i])
    OBVIOUS
  <1> HIDE DEF u
  <1>9. ASSUME NEW i \in 0..n - 1
        PROVE  DocUnder(t, w[i]) = SetKid(DocUnder(s, w[i]), q[i + 1], DocUnder(t, w[i + 1]))
    <2> DEFINE m == w[i]
               seg == q[i + 1]
    <2>1. i + 1 \in 0..n /\ i \in 0..n
      BY <1>1
    <2>2. /\ ChildKey(s, m, seg) # NoKey /\ ChildKey(t, m, seg) # NoKey /\ seg \in Segment
          /\ ChildKey(t, m, seg) = w[i + 1] /\ ChildKey(s, m, seg) = w[i + 1]
          /\ Reached(s, m) /\ Reached(t, m) /\ m \in Nat /\ SameNode(s, t, m)
      <3>1. m \in Nat
        BY <1>1, <1>5, ReachedType
      <3> QED  BY <1>3, <1>5, <2>1, <3>1
    <2>3. Holder(s, m, seg) /\ Holder(t, m, seg) /\ ChildKey(t, m, seg) \in DOMAIN t.node
      BY <1>1, <2>2 DEF Sound, Tree
    <2>4. Takes(DocUnder(s, m), seg)
      BY <1>6
    <2> HIDE DEF m, seg
    <2>5. ASSUME NEW tag \in Segment, tag # seg
          PROVE  DocUnder(t, ChildKey(t, m, tag)) = DocUnder(s, ChildKey(s, m, tag))
      <3> DEFINE c == ChildKey(s, m, tag)
      <3>1. ChildKey(t, m, tag) = c
        BY <2>2 DEF SameNode
      <3>2. CASE c = NoKey
        <4>1. Shape(s) /\ Shape(t)
          BY <1>1 DEF Sound
        <4> QED  BY <3>1, <3>2, <4>1, NoDoc
      <3>3. CASE c # NoKey
        <4>1. c \in DOMAIN s.node /\ Reached(s, c) /\ Reached(t, c)
          <5>1. c \in DOMAIN s.node
            BY <2>2, <3>3 DEF Tree
          <5> QED  BY <2>2, <3>3, <5>1, ReachedSame
        <4>2. Visited(s, {c}) \cap Visited(s, {w[i + 1]}) = {}
          BY <1>1, <2>2, <2>5, <3>3, SiblingsApart
        <4>3. Visited(s, {k}) \subseteq Visited(s, {w[i + 1]})
          <5>1. w[i + 1] \in Nat
            BY <2>2, ChildKeyType DEF Tree, Sound
          <5>2. {w[i + 1]} \in SUBSET Nat /\ {k} \subseteq Visited(s, {w[i + 1]})
            BY <1>5, <5>1
          <5> QED  BY <1>1, <5>2, VisitedNested
        <4>4. Visited(s, {c}) \cap Visited(s, {k}) = {}
          BY <4>2, <4>3
        <4>5. k \in Nat
          BY <1>1, <1>4, ReachedType
        <4> HIDE DEF c
        <4>6. DocUnder(t, c) = DocUnder(s, c)
          BY <4>1, <4>4, <4>5, DocBeside, SMTT(30)
        <4> QED  BY <3>1, <4>6 DEF c
      <3> QED  BY <3>2, <3>3
    <2>6. DocUnder(t, m) = SetKid(DocUnder(s, m), seg, DocUnder(t, ChildKey(t, m, seg)))
      BY <2>2, <2>3, <2>4, <2>5, OnePart
    <2> QED  BY <2>2, <2>6 DEF m, seg
  <1>10. Written(u, d, q, DocUnder(t, k))
    <2>1. u[n] = DocUnder(t, k)
      BY <1>2, <1>8
    <2>2. ASSUME NEW i \in 0..n - 1
          PROVE  u[i] = SetKid(Through(d, q, i), q[i + 1], u[i + 1])
      <3>1. i \in 0..n /\ i + 1 \in 0..n
        BY <1>1
      <3> QED  BY <1>6, <1>8, <1>9, <3>1
    <2> QED  BY <2>1, <2>2 DEF Written
  <1>11. With(d, q, DocUnder(t, k)) = u[0]
    BY <1>10, WithIs
  <1>12. u[0] = DocUnder(t, ROOT)
    <2>1. 0 \in 0..n
      BY <1>1
    <2> QED  BY <1>2, <1>8, <2>1
  <1> QED  BY <1>7, <1>11, <1>12

(* The documents a walk of the tree can meet: those of its nodes, the      *)
(* leaves in a blob, and none.                                             *)
PartDocs(s) == LiveDocs(s) \cup Leaves \cup {Nowhere}

(* A part of a flat document is a leaf, and a leaf has no parts.           *)
LEMMA FlatKid ==
  ASSUME NowhereApart, NEW d, Flat(d), NEW seg \in Segment
  PROVE  /\ Kid(d, seg) \in Leaves \cup {Nowhere}
         /\ d \in Leaves => Kid(d, seg) = Nowhere
  <1>1. CASE d \in Leaves
    <2>1. PICK v \in Values : d = Leaf(v)
      BY <1>1 DEF Leaves
    <2>2. ~Is(d, "object") /\ ~Is(d, "list")
      BY <2>1 DEF Is, NowhereApart, Leaf
    <2> QED  BY <2>2 DEF Kid
  <1>2. CASE d \notin Leaves
    <2>1. CASE Is(d, "object")
      <3>1. ~Is(d, "list")
        BY <2>1 DEF Is
      <3>2. \A n \in DOMAIN d.fields : d.fields[n] \in Leaves
        BY <2>1, FlatIs
      <3> QED  BY <1>2, <2>1, <3>1, <3>2 DEF Kid
    <2>2. CASE Is(d, "list")
      <3>1. ~Is(d, "object")
        BY <2>2 DEF Is
      <3>2. d.items \in Seq(Leaves)
        BY <2>2, FlatIs
      <3>3. ASSUME IsIndex(seg), seg.index < Len(d.items) PROVE d.items[seg.index + 1] \in Leaves
        <4>1. seg.index + 1 \in 1..Len(d.items)
          BY <3>2, <3>3, SegmentKinds, LenProperties
        <4> QED  BY <3>2, <4>1, ElementOfSeq
      <3> QED  BY <1>2, <2>2, <3>1, <3>3 DEF Kid
    <2>3. CASE ~Is(d, "object") /\ ~Is(d, "list")
      BY <1>2, <2>3 DEF Kid
    <2> QED  BY <2>1, <2>2, <2>3
  <1> QED  BY <1>1, <1>2

(* Each of them is proper, and so are the parts of each.                   *)
LEMMA PartsStay ==
  ASSUME NowhereApart, NEW s, Tree(s), NEW d \in PartDocs(s)
  PROVE  /\ d # Nowhere => Proper(d)
         /\ \A seg \in Segment : Kid(d, seg) \in PartDocs(s)
  <1>1. CASE d = Nowhere
    BY <1>1, NowhereBelow DEF PartDocs
  <1>2. CASE d \in Leaves
    <2>1. Flat(d)
      BY <1>2 DEF Flat
    <2> QED  BY <1>2, <2>1, FlatProper, FlatKid DEF PartDocs
  <1>3. CASE d \in LiveDocs(s)
    <2>1. PICK k \in DOMAIN s.node : Reached(s, k) /\ d = DocUnder(s, k)
      BY <1>3 DEF LiveDocs
    <2>2. Live(s, k) /\ Sound(s) /\ k \in Nat
      BY <2>1, ReachedType DEF Live, Tree
    <2>3. Proper(d)
      BY <2>1, <2>2, DocIs
    <2>4. ASSUME NEW seg \in Segment PROVE Kid(d, seg) \in PartDocs(s)
      <3>1. CASE HasKind(s, k, "packed")
        <4>1. d = s.node[k].doc
          BY <2>1, <2>2, <3>1, DocIs
        <4>2. Flat(d)
          BY <3>1, <4>1, PackedIsBare
        <4> QED  BY <4>2, FlatKid DEF PartDocs
      <3>2. CASE ~HasKind(s, k, "packed")
        <4> DEFINE c == ChildKey(s, k, seg)
        <4>1. Kid(d, seg) = DocUnder(s, c)
          BY <2>1, <3>2, KidOf
        <4>2. CASE c = NoKey
          <5>1. DocUnder(s, c) = Nowhere
            BY <2>2, <4>2, NoDoc DEF Sound
          <5> QED  BY <4>1, <5>1 DEF PartDocs
        <4>3. CASE c # NoKey
          <5>1. c \in DOMAIN s.node /\ Reached(s, c)
            BY <2>1, <2>2, <4>3, ReachedChild DEF Tree
          <5> QED  BY <4>1, <5>1 DEF PartDocs, LiveDocs
        <4> QED  BY <4>2, <4>3
      <3> QED  BY <3>1, <3>2
    <2> QED  BY <2>3, <2>4
  <1> QED  BY <1>1, <1>2, <1>3 DEF PartDocs

(* So no walk of the document of a tree meets anything else.               *)
LEMMA DocSane ==
  ASSUME NowhereApart, NEW s, Tree(s), NEW p \in Seq(Segment)
  PROVE  Sane(DocUnder(s, ROOT), p)
  <1> DEFINE d == DocUnder(s, ROOT)
             L(i) == Along(d, p)[i] \in PartDocs(s)
             S == {i \in Nat : i <= Len(p) => L(i)}
  <1>1. /\ Len(p) \in Nat /\ Along(d, p)[0] = d
        /\ \A i \in 1..Len(p) : Along(d, p)[i] = Kid(Along(d, p)[i - 1], p[i])
    BY AlongSteps
  <1>2. d \in PartDocs(s)
    <2>1. Reached(s, ROOT)
      BY RootIsBase
    <2>2. CASE Live(s, ROOT)
      BY <2>1, <2>2 DEF PartDocs, LiveDocs, Live
    <2>3. CASE ~Live(s, ROOT)
      BY <2>3 DEF PartDocs, DocUnder
    <2> QED  BY <2>2, <2>3
  <1> HIDE DEF d
  <1>3. 0 \in S
    BY <1>1, <1>2
  <1>4. ASSUME NEW i \in Nat, i \in S PROVE i + 1 \in S
    <2>1. SUFFICES ASSUME i + 1 <= Len(p) PROVE L(i + 1)
      OBVIOUS
    <2>2. i + 1 \in 1..Len(p) /\ i + 1 - 1 = i /\ i <= Len(p)
      BY <1>1, <2>1
    <2>3. p[i + 1] \in Segment /\ L(i)
      BY <1>4, <2>2, ElementOfSeq
    <2>4. Along(d, p)[i + 1] = Kid(Along(d, p)[i], p[i + 1])
      BY <1>1, <2>2
    <2> QED  BY <2>3, <2>4, PartsStay
  <1>5. Nat \subseteq S
    <2> HIDE DEF S
    <2> QED  BY <1>3, <1>4, SetInduction
  <1>6. ASSUME NEW i \in 0..Len(p), Along(d, p)[i] # Nowhere PROVE Proper(Along(d, p)[i])
    <2>1. i \in Nat /\ i <= Len(p)
      BY <1>1
    <2>2. L(i)
      BY <1>5, <2>1
    <2> QED  BY <1>6, <2>2, PartsStay
  <1> QED  BY <1>6 DEF Sane, d

(* If any node is reached, the root is.                                    *)
LEMMA RootLive ==
  ASSUME NEW s, Tree(s), NEW k, Reached(s, k), Live(s, k)
  PROVE  Live(s, ROOT)
  <1>1. SUFFICES ASSUME ~Live(s, ROOT) PROVE FALSE
    OBVIOUS
  <1>2. Sound(s) /\ ROOT \in Nat
    BY RootIsBase
  <1>3. \A seg \in Segment : ChildKey(s, ROOT, seg) = NoKey
    BY <1>1, <1>2 DEF Sound, Holder, HasKind
  <1>4. Visited(s, {ROOT}) \subseteq {ROOT}
    BY <1>2, <1>3, VisitedWithin
  <1> QED  BY <1>1, <1>4 DEF Reached

(* A child can be attached where the document takes one.                   *)
LEMMA FittingTakes ==
  ASSUME NowhereApart, NEW s, Tree(s), NEW k, Reached(s, k), NEW seg \in Segment,
         Holder(s, k, seg)
  PROVE  Fitting(s, k, seg) <=> Takes(DocUnder(s, k), seg)
  <1> DEFINE d == DocUnder(s, k)
  <1>1. Live(s, k) /\ ~HasKind(s, k, "packed") /\ Sound(s) /\ k \in Nat
    BY ReachedType DEF Holder, HasKind, Tree
  <1>2. /\ Proper(d)
        /\ Is(d, "object") <=> HasKind(s, k, "object")
        /\ Is(d, "list") <=> HasKind(s, k, "list")
    BY <1>1, DocIs
  <1>3. \A tag \in Segment : Kid(d, tag) # Nowhere <=> ChildKey(s, k, tag) # NoKey
    <2>1. SUFFICES ASSUME NEW tag \in Segment
                   PROVE  Kid(d, tag) # Nowhere <=> ChildKey(s, k, tag) # NoKey
      OBVIOUS
    <2>2. Kid(d, tag) = DocUnder(s, ChildKey(s, k, tag))
      BY <1>1, KidOf
    <2>3. CASE ChildKey(s, k, tag) = NoKey
      BY <1>1, <2>2, <2>3, NoDoc DEF Sound
    <2>4. CASE ChildKey(s, k, tag) # NoKey
      <3>1. Reached(s, ChildKey(s, k, tag)) /\ Live(s, ChildKey(s, k, tag))
        BY <1>1, <2>4, ReachedChild DEF Tree, Live
      <3> QED  BY <2>2, <2>4, <3>1, DocThere
    <2> QED  BY <2>3, <2>4
  <1> HIDE DEF d
  <1>4. Opens(d, seg)
    BY <1>2 DEF Opens, Holder
  <1>5. Takes(d, seg) <=> IsName(seg) \/ seg.index = 0 \/ Kid(d, Index(seg.index - 1)) # Nowhere
    BY <1>2, <1>4, TakesIs
  <1>6. ~IsName(seg) /\ seg.index # 0 => Index(seg.index - 1) \in Segment
    <2>1. ASSUME ~IsName(seg), seg.index # 0 PROVE Index(seg.index - 1) \in Segment
      <3>1. seg.index \in Nat
        BY <2>1, SegmentKinds DEF IsName
      <3>2. seg.index - 1 \in Nat
        BY <2>1, <3>1
      <3> QED  BY <3>2, IndexSegment
    <2> QED  BY <2>1
  <1>7. Takes(d, seg) <=> Fitting(s, k, seg)
    BY <1>3, <1>5, <1>6 DEF Fitting
  <1> QED  BY <1>7 DEF d

(* Where every node is the same, so is the document.                       *)
LEMMA SameDocs ==
  ASSUME NowhereApart, NEW s, Tree(s), NEW t, Tree(t),
         \A m \in DOMAIN s.node : SameNode(s, t, m)
  PROVE  /\ \A k \in DOMAIN s.node : Reached(s, k) /\ Reached(t, k) => DocUnder(t, k) = DocUnder(s, k)
         /\ Live(s, ROOT) => DocUnder(t, ROOT) = DocUnder(s, ROOT)
  <1>1. ASSUME NEW k \in DOMAIN s.node, Reached(s, k), Reached(t, k)
        PROVE  DocUnder(t, k) = DocUnder(s, k)
    <2>1. Sound(s) /\ k \in Nat /\ DOMAIN s.node \in SUBSET Nat
      BY DEF Tree, Sound, Shape
    <2>2. Visited(s, {k}) \subseteq DOMAIN s.node
      BY <2>1, VisitedWithin DEF Tree
    <2>3. \A m \in Visited(s, {k}) : SameNode(s, t, m)
      BY <2>2
    <2> QED  BY <1>1, <2>3, FrameDocs
  <1>2. Reached(s, ROOT) /\ Reached(t, ROOT)
    BY RootIsBase
  <1> QED  BY <1>1, <1>2 DEF Live

------------------------------------------------------------------------------
(* A new child                                                             *)


(* What a new node without children stands for.                            *)
BareDoc(n) ==
  IF n.kind = "leaf" THEN Leaf(n.val)
  ELSE IF n.kind = "packed" THEN n.doc
  ELSE Container(n.kind = "list")

(* A new node without children has the document it stands for.             *)
LEMMA BareDocIs ==
  ASSUME NowhereApart, NEW t, Tree(t), NEW k, Live(t, k), Reached(t, k), NEW n, Bare(n),
         t.node[k] = n, \A tag \in Segment : ChildKey(t, k, tag) = NoKey
  PROVE  DocUnder(t, k) = BareDoc(n) /\ BareDoc(n) # Nowhere
  <1> DEFINE d == DocUnder(t, k)
  <1>1. /\ Sound(t) /\ Shape(t) /\ NodeOK(n)
        /\ \A kind : HasKind(t, k, kind) <=> n.kind = kind
    BY DEF Tree, Sound, Bare, HasKind
  <1>2. /\ Proper(d)
        /\ HasKind(t, k, "leaf") => d = Leaf(t.node[k].val)
        /\ HasKind(t, k, "packed") => d = t.node[k].doc
        /\ ~HasKind(t, k, "packed") =>
             /\ Is(d, "object") <=> HasKind(t, k, "object")
             /\ Is(d, "list") <=> HasKind(t, k, "list")
    BY DocIs
  <1>3. d # Nowhere
    BY DocThere
  <1>4. CASE n.kind = "leaf" \/ n.kind = "packed"
    BY <1>1, <1>2, <1>3, <1>4 DEF BareDoc
  <1>5. CASE n.kind = "list" \/ n.kind = "object"
    <2> DEFINE isList == n.kind = "list"
               e == Container(isList)
    <2>1. ~HasKind(t, k, "packed") /\ isList \in BOOLEAN
      BY <1>1, <1>5
    <2>2. \A tag \in Segment : Kid(d, tag) = Nowhere
      <3>1. \A tag \in Segment : Kid(d, tag) = DocUnder(t, ChildKey(t, k, tag))
        BY <2>1, KidOf
      <3>2. DocUnder(t, NoKey) = Nowhere
        BY <1>1, NoDoc
      <3> QED  BY <3>1, <3>2
    <2>3. Is(d, "list") <=> isList
      BY <1>1, <1>2, <2>1
    <2>4. Is(d, "object") <=> ~isList
      BY <1>1, <1>2, <1>5, <2>1
    <2> HIDE DEF d, isList
    <2>5. /\ Proper(e) /\ \A tag \in Segment : Kid(e, tag) = Nowhere
          /\ Is(e, "list") <=> isList
          /\ Is(e, "object") <=> ~isList
      BY <2>1, EmptyContainer
    <2> HIDE DEF e
    <2>6. (Is(d, "object") /\ Is(e, "object")) \/ (Is(d, "list") /\ Is(e, "list"))
      BY <2>1, <2>3, <2>4, <2>5
    <2>7. d = e
      BY <1>2, <2>2, <2>5, <2>6, SameKids
    <2>8. BareDoc(n) = e
      BY <1>5 DEF BareDoc, e, isList
    <2> QED  BY <1>3, <2>7, <2>8 DEF d
  <1> QED  BY <1>1, <1>4, <1>5 DEF NodeOK

(* A list that has an element has those before it.                         *)
LEMMA ListPrefix ==
  ASSUME NEW t, Shape(t), NEW k, NEW seg \in Segment, ~IsName(seg), seg.index # 0,
         ChildKey(t, k, seg) # NoKey
  PROVE  Index(seg.index - 1) \in Segment /\ ChildKey(t, k, Index(seg.index - 1)) # NoKey
  <1>1. HasKind(t, k, "list") /\ seg.index < Len(t.node[k].items)
    BY DEF ChildKey
  <1>2. seg.index \in Nat /\ seg.index - 1 \in Nat
    BY SegmentKinds DEF IsName
  <1> DEFINE i == seg.index - 1
  <1>3. Index(i) \in Segment /\ ~IsName(Index(i)) /\ Index(i).index = i
    BY <1>2, IndexSegment
  <1>4. t.node[k].items \in Seq(Nat \ {ROOT})
    BY <1>1, ListItems
  <1>5. i + 1 \in 1..Len(t.node[k].items) /\ i < Len(t.node[k].items)
    BY <1>1, <1>2, <1>4, LenProperties
  <1>6. t.node[k].items[i + 1] \in Nat
    BY <1>4, <1>5, ElementOfSeq
  <1> HIDE DEF i
  <1>7. ChildKey(t, k, Index(i)) = t.node[k].items[i + 1]
    BY <1>1, <1>3, <1>5 DEF ChildKey
  <1>8. ChildKey(t, k, Index(i)) # NoKey
    BY <1>6, <1>7 DEF NoKey
  <1> QED  BY <1>3, <1>8 DEF i

(* A child put in a slot changes nothing but what is below its parent.     *)
LEMMA ReplacedConfined ==
  ASSUME NEW s, Tree(s), NEW t, Tree(t), NEW k, Reached(s, k), NEW seg \in Segment,
         NEW new, NEW n, Replaced(s, t, k, seg, new, n, Dropped(s, k, seg))
  PROVE  /\ Confined(s, t, k)
         /\ \A tag \in Segment : ChildKey(t, new, tag) = NoKey
         /\ Dropped(s, k, seg) \subseteq Visited(s, {k})
  <1> DEFINE gone == Dropped(s, k, seg)
             V == Visited(s, {k})
  <1>1. Sound(s) /\ Sound(t) /\ k \in Nat /\ Shape(s)
    BY ReachedType DEF Tree, Sound
  <1>2. V \in SUBSET Nat /\ k \in V
    BY <1>1, VisitedType, VisitedFrom
  <1>3. gone \subseteq V
    <2>1. CASE ChildKey(s, k, seg) = NoKey
      BY <2>1 DEF Dropped
    <2>2. CASE ChildKey(s, k, seg) # NoKey
      <3>1. ChildKey(s, k, seg) \in V
        BY <1>1, <1>2, <2>2, VisitedChild
      <3>2. {k} \in SUBSET Nat /\ {ChildKey(s, k, seg)} \subseteq Visited(s, {k})
        BY <1>1, <3>1
      <3>3. Visited(s, {ChildKey(s, k, seg)}) \subseteq V
        BY <1>1, <3>2, VisitedNested
      <3> QED  BY <2>2, <3>3 DEF Dropped
    <2> QED  BY <2>1, <2>2
  <1> HIDE DEF gone, V
  <1>4. /\ new \in Nat \ {ROOT} /\ new # k /\ new \notin DOMAIN s.node \ gone /\ k \notin gone
        /\ DOMAIN t.node = (DOMAIN s.node \ gone) \cup {new}
        /\ \A m \in DOMAIN s.node \ gone : m # k => t.node[m] = s.node[m]
        /\ \A m, kind : m # new /\ m \notin gone => (HasKind(t, m, kind) <=> HasKind(s, m, kind))
        /\ \A m \in Nat, tag \in Segment :
             ChildKey(t, m, tag) = IF m = k /\ tag = seg THEN new
                                   ELSE IF m \in gone THEN NoKey ELSE ChildKey(s, m, tag)
    BY DEF Replaced, gone
  <1>5. ASSUME NEW tag \in Segment PROVE ChildKey(t, new, tag) = NoKey
    <2>1. CASE new \in gone
      BY <1>4, <2>1
    <2>2. CASE new \notin gone
      <3>1. ChildKey(t, new, tag) = ChildKey(s, new, tag) /\ new \notin DOMAIN s.node
        BY <1>4, <2>2
      <3>2. ChildKey(s, new, tag) # NoKey => Holder(s, new, tag)
        BY <1>1, <1>4 DEF Sound
      <3> QED  BY <3>1, <3>2 DEF Holder, HasKind, Live
    <2> QED  BY <2>1, <2>2
  <1>6. ASSUME NEW m \in DOMAIN s.node, m \notin V PROVE SameNode(s, t, m)
    <2>1. m # k /\ m \notin gone /\ m # new /\ m \in Nat
      BY <1>1, <1>2, <1>3, <1>4, <1>6 DEF Shape
    <2> QED  BY <1>4, <2>1 DEF SameNode
  <1>7. Visited(t, {k}) \subseteq V \cup {new}
    <2>1. ASSUME NEW y \in V \cup {new}, NEW tag \in Segment, ChildKey(t, y, tag) # NoKey
          PROVE  ChildKey(t, y, tag) \in V \cup {new}
      <3>1. y \in V /\ y \in Nat
        BY <1>2, <1>5, <2>1
      <3>2. CASE ChildKey(t, y, tag) = new
        BY <3>2
      <3>3. CASE ChildKey(t, y, tag) # new
        <4>1. ChildKey(t, y, tag) = ChildKey(s, y, tag)
          BY <1>4, <2>1, <3>1, <3>3
        <4> QED  BY <1>1, <2>1, <3>1, <4>1, VisitedChild DEF V
      <3> QED  BY <3>2, <3>3
    <2>2. V \cup {new} \in SUBSET Nat /\ {k} \subseteq V \cup {new}
      BY <1>2, <1>4
    <2> QED  BY <1>1, <2>1, <2>2, VisitedWithin
  <1>8. ASSUME NEW m \in DOMAIN s.node, m \in Visited(t, {k}) PROVE m \in V
    BY <1>3, <1>4, <1>7, <1>8
  <1>9. Confined(s, t, k)
    BY <1>6, <1>8 DEF Confined, V
  <1> QED  BY <1>3, <1>5, <1>9 DEF gone, V

(* And the document of the parent gets the new part in that place.         *)
LEMMA SlotDoc ==
  ASSUME NowhereApart, NEW s, Tree(s), NEW t, Tree(t), NEW k, Reached(s, k),
         NEW seg \in Segment, Holder(s, k, seg),
         NEW new, NEW n, Bare(n), Replaced(s, t, k, seg, new, n, Dropped(s, k, seg)),
         Reached(t, new)
  PROVE  /\ Takes(DocUnder(s, k), seg)
         /\ DocUnder(t, new) = BareDoc(n)
         /\ DocUnder(t, k) = SetKid(DocUnder(s, k), seg, BareDoc(n))
         /\ Reached(t, k) /\ Holder(t, k, seg)
  <1> DEFINE gone == Dropped(s, k, seg)
  <1>1. Sound(s) /\ Sound(t) /\ k \in Nat /\ Shape(s) /\ Shape(t) /\ k \in DOMAIN s.node
    BY ReachedType DEF Tree, Sound, Holder, HasKind, Live
  <1>2. /\ \A tag \in Segment : ChildKey(t, new, tag) = NoKey
        /\ gone \subseteq Visited(s, {k})
    BY ReplacedConfined
  <1> HIDE DEF gone
  <1>3. /\ new \in Nat \ {ROOT} /\ new # k /\ new \notin DOMAIN s.node \ gone /\ k \notin gone
        /\ DOMAIN t.node = (DOMAIN s.node \ gone) \cup {new}
        /\ t.node[new] = n
        /\ \A m \in DOMAIN s.node \ gone : m # k => t.node[m] = s.node[m]
        /\ \A m, kind : m # new /\ m \notin gone => (HasKind(t, m, kind) <=> HasKind(s, m, kind))
        /\ \A m \in Nat, tag \in Segment :
             ChildKey(t, m, tag) = IF m = k /\ tag = seg THEN new
                                   ELSE IF m \in gone THEN NoKey ELSE ChildKey(s, m, tag)
        /\ \A m \in DOMAIN s.node \ gone : Reached(s, m) => Reached(t, m)
    BY DEF Replaced, gone
  <1>4. Reached(t, k) /\ Holder(t, k, seg) /\ ChildKey(t, k, seg) = new /\ new \in DOMAIN t.node
    BY <1>1, <1>3 DEF Holder
  <1>5. DocUnder(t, new) = BareDoc(n)
    <2>1. Live(t, new)
      BY <1>4 DEF Live
    <2> QED  BY <1>2, <1>3, <2>1, BareDocIs
  <1>6. Fitting(s, k, seg)
    <2>1. SUFFICES ASSUME ~IsName(seg), seg.index # 0
                   PROVE  ChildKey(s, k, Index(seg.index - 1)) # NoKey
      BY DEF Fitting
    <2>2. ChildKey(t, k, seg) # NoKey
      BY <1>3, <1>4 DEF NoKey
    <2>3. Index(seg.index - 1) \in Segment /\ ChildKey(t, k, Index(seg.index - 1)) # NoKey
      BY <1>1, <2>1, <2>2, ListPrefix
    <2>4. Index(seg.index - 1) # seg
      <3>1. seg.index \in Nat /\ seg.index - 1 \in Nat
        BY <2>1, SegmentKinds DEF IsName
      <3>2. Index(seg.index - 1).index = seg.index - 1
        BY <3>1, IndexSegment
      <3> QED  BY <3>1, <3>2
    <2>5. ChildKey(t, k, Index(seg.index - 1)) = ChildKey(s, k, Index(seg.index - 1))
      BY <1>1, <1>3, <2>3, <2>4
    <2> QED  BY <2>3, <2>5
  <1>7. Takes(DocUnder(s, k), seg)
    BY <1>6, FittingTakes
  <1>8. ASSUME NEW tag \in Segment, tag # seg
        PROVE  DocUnder(t, ChildKey(t, k, tag)) = DocUnder(s, ChildKey(s, k, tag))
    <2> DEFINE c == ChildKey(s, k, tag)
    <2>1. ChildKey(t, k, tag) = c
      BY <1>1, <1>3, <1>8
    <2>2. CASE c = NoKey
      BY <1>1, <2>1, <2>2, NoDoc
    <2>3. CASE c # NoKey
      <3>1. Reached(s, c) /\ c \in DOMAIN s.node /\ c \in Nat
        BY <1>1, <2>3, ReachedChild, ReachedType DEF Tree
      <3>2. Reached(t, c)
        <4>1. ChildKey(t, k, tag) # NoKey
          BY <2>1, <2>3
        <4> QED  BY <1>1, <1>4, <2>1, <4>1, ReachedChild
      <3>3. Visited(s, {c}) \cap gone = {}
        <4>1. CASE ChildKey(s, k, seg) = NoKey
          BY <4>1 DEF Dropped, gone
        <4>2. CASE ChildKey(s, k, seg) # NoKey
          <5>1. Visited(s, {c}) \cap Visited(s, {ChildKey(s, k, seg)}) = {}
            BY <1>1, <1>8, <2>3, <4>2, SiblingsApart
          <5> QED  BY <4>2, <5>1 DEF Dropped, gone
        <4> QED  BY <4>1, <4>2
      <3>4. k \notin Visited(s, {c})
        BY <1>1, <2>3, NoCycle
      <3>5. Visited(s, {c}) \subseteq DOMAIN s.node
        <4>1. DOMAIN s.node \in SUBSET Nat /\ {c} \subseteq DOMAIN s.node
          BY <1>1, <3>1 DEF Shape
        <4> HIDE DEF c
        <4> QED  BY <1>1, <4>1, VisitedWithin DEF Tree
      <3>6. \A m \in Visited(s, {c}) : SameNode(s, t, m)
        <4>1. SUFFICES ASSUME NEW m \in Visited(s, {c}) PROVE SameNode(s, t, m)
          OBVIOUS
        <4>2. m # k /\ m \notin gone /\ m \in DOMAIN s.node
          BY <3>3, <3>4, <3>5
        <4>3. m \in Nat /\ m # new
          BY <1>1, <1>3, <4>2 DEF Shape
        <4> QED  BY <1>3, <4>2, <4>3 DEF SameNode
      <3> HIDE DEF c
      <3>7. DocUnder(t, c) = DocUnder(s, c)
        BY <3>1, <3>2, <3>6, FrameDocs
      <3> QED  BY <2>1, <3>7 DEF c
    <2> QED  BY <2>2, <2>3
  <1>9. DocUnder(t, k) = SetKid(DocUnder(s, k), seg, DocUnder(t, ChildKey(t, k, seg)))
    BY <1>4, <1>7, <1>8, OnePart
  <1> QED  BY <1>4, <1>5, <1>7, <1>9

------------------------------------------------------------------------------
(* A write at a path                                                       *)


(* The last segment of p names a part of the container at k, to which the  *)
(* rest of p leads.                                                        *)
Parent(s, p, k) ==
  /\ p \in Seq(Segment) /\ p # <<>>
  /\ k # NoKey /\ ResolveFrom(s, ROOT, Front(p)) = k
  /\ Holder(s, k, Last(p))

(* The document of a node is what its path leads to in that of the root.   *)
LEMMA DocAtPath ==
  ASSUME NowhereApart, NEW s, Tree(s), NEW p \in Seq(Segment), NEW k, k # NoKey,
         ResolveFrom(s, ROOT, p) = k, Unpacked(s, ROOT, p) \/ ~HasKind(s, k, "packed")
  PROVE  /\ At(DocUnder(s, ROOT), p) = DocUnder(s, k)
         /\ Reached(s, k)
         /\ Fits(DocUnder(s, ROOT), p)
         /\ With(DocUnder(s, ROOT), p, DocUnder(s, k)) = DocUnder(s, ROOT)
  <1>1. /\ Sound(s) /\ ROOT \in Nat /\ Reached(s, ROOT) /\ Len(p) \in Nat /\ Len(p) \in 0..Len(p)
        /\ Walk(s, ROOT, p)[Len(p)] = k
    BY RootIsBase, LenProperties DEF ResolveFrom
  <1>2. Unpacked(s, ROOT, p)
    BY <1>1, UnpackedTo
  <1>3. \A i \in 0..Len(p) - 1 : ~HasKind(s, Walk(s, ROOT, p)[i], "packed")
    BY <1>1, <1>2 DEF Unpacked
  <1>4. Along(DocUnder(s, ROOT), p)[Len(p)] = DocUnder(s, k) /\ Reached(s, k)
    BY <1>1, <1>3, WalkKeepsToDocument
  <1>5. Confined(s, s, k)
    BY ConfinedSelf
  <1> QED  BY <1>4, <1>5, Lift DEF At

(* What is confined to the node that a path leads to leaves the path.      *)
LEMMA StillLeads ==
  ASSUME NEW s, Tree(s), NEW t, Tree(t), NEW q \in Seq(Segment), NEW k, k # NoKey,
         ResolveFrom(s, ROOT, q) = k, Confined(s, t, k)
  PROVE  ResolveFrom(t, ROOT, q) = k /\ Reached(t, k)
  <1>1. /\ \A i \in 0..Len(q) : Walk(t, ROOT, q)[i] = Walk(s, ROOT, q)[i]
        /\ \A i \in 0..Len(q) - 1 : Walk(s, ROOT, q)[i] \notin Visited(s, {k})
        /\ Reached(s, k) /\ Reached(t, k)
    BY WayStays
  <1>2. Len(q) \in 0..Len(q)
    BY LenProperties
  <1> QED  BY <1>1, <1>2 DEF ResolveFrom

(* Where nodes lead to the parent of a path, the path fits the document if *)
(* the parent takes the last segment.                                      *)
LEMMA ParentFits ==
  ASSUME NowhereApart, NEW s, Tree(s), NEW p, NEW k, Parent(s, p, k)
  PROVE  /\ Reached(s, k) /\ Live(s, k) /\ k \in Nat /\ ~HasKind(s, k, "packed")
         /\ Front(p) \in Seq(Segment) /\ Last(p) \in Segment
         /\ Grip(DocUnder(s, ROOT), p) = DocUnder(s, k)
         /\ Fits(DocUnder(s, ROOT), Front(p))
         /\ Fits(DocUnder(s, ROOT), p) <=> Takes(DocUnder(s, k), Last(p))
         /\ Live(s, ROOT)
  <1>1. p \in Seq(Segment) /\ p # <<>> /\ k # NoKey /\ ResolveFrom(s, ROOT, Front(p)) = k
    BY DEF Parent
  <1>2. Live(s, k) /\ ~HasKind(s, k, "packed")
    BY DEF Parent, Holder, HasKind
  <1>3. Front(p) \in Seq(Segment) /\ Last(p) \in Segment
    BY <1>1, PathFront
  <1>4. /\ At(DocUnder(s, ROOT), Front(p)) = DocUnder(s, k) /\ Reached(s, k)
        /\ Fits(DocUnder(s, ROOT), Front(p))
    BY <1>1, <1>2, <1>3, DocAtPath
  <1>5. DocUnder(s, k) # Nowhere
    BY <1>2, <1>4, DocThere
  <1>6. Grip(DocUnder(s, ROOT), p) = DocUnder(s, k)
    BY <1>1, <1>4, <1>5, ThroughFront
  <1>7. Fits(DocUnder(s, ROOT), p) <=> Takes(DocUnder(s, k), Last(p))
    BY <1>1, <1>4, <1>6, WithSnoc
  <1>8. k \in Nat /\ Live(s, ROOT)
    BY <1>2, <1>4, ReachedType, RootLive DEF Tree
  <1> QED  BY <1>2, <1>3, <1>4, <1>6, <1>7, <1>8

(* A write at p under a container that is there: it succeeds if it fits,   *)
(* and then the document is the one with part at p; if not the document    *)
(* stays.                                                                  *)
Lands(s, p, part, r) ==
  /\ r.ok \in BOOLEAN
  /\ Tree(r.s)
  /\ r.ok <=> Fits(DocUnder(s, ROOT), p)
  /\ r.ok => DocUnder(r.s, ROOT) = With(DocUnder(s, ROOT), p, part)
  /\ ~r.ok => DocUnder(r.s, ROOT) = DocUnder(s, ROOT)

(* A node that could not be linked changes nothing.                        *)
LEMMA AddChildFails ==
  ASSUME NEW s, Tree(s), NEW k, NEW seg \in Segment, Holder(s, k, seg),
         ChildKey(s, k, seg) = NoKey, NEW n, Bare(n), ~AddChild(s, k, seg, n).ok
  PROVE  \A m \in DOMAIN s.node : SameNode(s, AddChild(s, k, seg, n).s, m)
  <1> DEFINE new == Generate(s)
             t == WriteNode(s, new, n)
  <1>1. k \in Nat /\ k \in DOMAIN s.node /\ Shape(s) /\ DOMAIN s.node \in SUBSET Nat
    BY DEF Tree, Sound, Shape, Holder, HasKind, Live
  <1>2. new \in Nat \ {ROOT} /\ new \notin DOMAIN s.node
    <2>1. TreeBut(s, k, seg)
      BY TreeIsTreeBut
    <2> QED  BY <2>1, GenerateNew
  <1> HIDE DEF new
  <1>3. Shape(t) /\ Wrote(s, t, new, n)
    BY <1>1, <1>2, WriteNodeEffect DEF Bare
  <1> HIDE DEF t
  <1>4. Holder(t, k, seg)
    BY <1>1, <1>2, <1>3 DEF Wrote, Holder
  <1>5. AddChild(s, k, seg, n) = AttachChild(t, k, seg, new)
    BY DEF AddChild, AddUnder, new, t
  <1>6. AddChild(s, k, seg, n).s = t
    BY <1>1, <1>2, <1>3, <1>4, <1>5, AttachEffect
  <1>7. ASSUME NEW m \in DOMAIN s.node PROVE SameNode(s, t, m)
    BY <1>2, <1>3 DEF Wrote, SameNode
  <1> QED  BY <1>6, <1>7

(* A new child in the place of the old one, or nothing.                    *)
LEMMA ReplaceLands ==
  ASSUME NowhereApart, NEW s, Tree(s), NEW p, NEW k, Parent(s, p, k),
         NEW n, Bare(n), NEW parent, parent.ok, parent.s = s, parent.key = k
  PROVE  LET r == ReplaceChild(parent, Last(p), n)
         IN  /\ Lands(s, p, BareDoc(n), r)
             /\ r.ok => /\ Replaced(s, r.s, k, Last(p), r.key, n, Dropped(s, k, Last(p)))
                        /\ Reached(r.s, r.key)
                        /\ Parent(r.s, p, k) /\ ResolveFrom(r.s, ROOT, p) = r.key
  <1> DEFINE seg == Last(p)
             r == ReplaceChild(parent, seg, n)
             D == DocUnder(s, ROOT)
  <1>1. /\ Reached(s, k) /\ Live(s, k) /\ k \in Nat /\ Front(p) \in Seq(Segment)
        /\ seg \in Segment
        /\ Grip(D, p) = DocUnder(s, k)
        /\ Fits(D, p) <=> Takes(DocUnder(s, k), seg)
        /\ Live(s, ROOT)
    BY ParentFits
  <1>2. Holder(s, k, seg) /\ p \in Seq(Segment) /\ p # <<>> /\ k # NoKey
        /\ ResolveFrom(s, ROOT, Front(p)) = k
    BY DEF Parent
  <1> HIDE DEF seg
  <1>3. /\ r.ok \in BOOLEAN /\ Tree(r.s)
        /\ r.ok => /\ Replaced(s, r.s, k, seg, r.key, n, Dropped(s, k, seg))
                   /\ Reached(r.s, r.key)
    BY <1>1, <1>2, ReplaceChildEffect
  <1> HIDE DEF r
  <1>4. ASSUME r.ok
        PROVE  /\ Fits(D, p) /\ DocUnder(r.s, ROOT) = With(D, p, BareDoc(n))
               /\ Parent(r.s, p, k) /\ ResolveFrom(r.s, ROOT, p) = r.key
    <2>1. /\ Takes(DocUnder(s, k), seg)
          /\ DocUnder(r.s, k) = SetKid(DocUnder(s, k), seg, BareDoc(n))
          /\ Holder(r.s, k, seg)
      BY <1>1, <1>2, <1>3, <1>4, SlotDoc
    <2>2. Confined(s, r.s, k)
      BY <1>1, <1>3, <1>4, ReplacedConfined
    <2>3. DocUnder(r.s, ROOT) = With(D, Front(p), DocUnder(r.s, k))
      BY <1>1, <1>2, <1>3, <2>2, Lift
    <2>4. With(D, p, BareDoc(n)) = With(D, Front(p), SetKid(Grip(D, p), seg, BareDoc(n)))
      BY <1>2, WithSnoc DEF seg
    <2>5. ResolveFrom(r.s, ROOT, Front(p)) = k
      BY <1>1, <1>2, <1>3, <2>2, StillLeads
    <2>6. Parent(r.s, p, k)
      BY <1>2, <2>1, <2>5 DEF Parent, seg
    <2>7. ResolveFrom(r.s, ROOT, p) = r.key
      <3>1. ResolveFrom(r.s, ROOT, p) = ChildKey(r.s, k, seg)
        BY <1>2, <2>5, ResolveLast DEF seg
      <3>2. ChildKey(r.s, k, seg) = r.key
        BY <1>1, <1>3, <1>4 DEF Replaced
      <3> QED  BY <3>1, <3>2
    <2> QED  BY <1>1, <2>1, <2>3, <2>4, <2>6, <2>7
  <1>5. ASSUME ~r.ok PROVE ~Fits(D, p) /\ DocUnder(r.s, ROOT) = D
    <2> DEFINE t == DropChild(s, k, seg)
    <2>1. r = AddChild(t, k, seg, n)
      BY DEF ReplaceChild, r
    <2>2. CASE ChildKey(s, k, seg) = NoKey
      <3>1. t = s
        BY <2>2 DEF DropChild, DropNode
      <3> HIDE DEF t
      <3>2. \A m \in DOMAIN s.node : SameNode(s, r.s, m)
        BY <1>2, <1>1, <1>5, <2>1, <2>2, <3>1, AddChildFails
      <3>3. DocUnder(r.s, ROOT) = D
        BY <1>1, <1>3, <3>2, SameDocs
      <3>4. TreeBut(s, k, seg)
        BY <2>2, TreeIsTreeBut
      <3>5. ~Fitting(s, k, seg)
        BY <1>1, <1>2, <1>5, <2>1, <3>1, <3>4, AddChildEffect
      <3>6. ~Takes(DocUnder(s, k), seg)
        BY <1>1, <1>2, <3>5, FittingTakes
      <3> QED  BY <1>1, <3>3, <3>6
    <2>3. CASE ChildKey(s, k, seg) # NoKey
      <3>1. t = CascadeDelete(s, ChildKey(s, k, seg))
        BY <2>3 DEF DropChild, DropNode
      <3> HIDE DEF t
      <3>2. /\ k \notin Visited(s, {ChildKey(s, k, seg)})
            /\ Pruned(s, t, Visited(s, {ChildKey(s, k, seg)}))
            /\ TreeBut(t, k, seg)
        BY <1>1, <2>3, <3>1, DeleteChildEffect
      <3>3. ChildKey(t, k, seg) = ChildKey(s, k, seg) /\ Holder(t, k, seg)
        BY <1>1, <1>2, <3>2 DEF Pruned, Holder
      <3>4. ChildKey(t, k, seg) = NoKey
        BY <1>1, <1>5, <2>1, <3>2, <3>3, AddChildEffect
      <3> QED  BY <2>3, <3>3, <3>4
    <2> QED  BY <2>2, <2>3
  <1>6. Lands(s, p, BareDoc(n), r)
    BY <1>3, <1>4, <1>5 DEF Lands
  <1> QED  BY <1>3, <1>4, <1>6 DEF r, seg

(* A node without children that is written over, or a new one in its       *)
(* place.                                                                  *)
LEMMA OverwriteDoc ==
  ASSUME NowhereApart, NEW s, Tree(s), NEW k \in Nat, Reached(s, k), NEW n, Bare(n),
         k = ROOT => n.kind # "packed", \A tag \in Segment : ChildKey(s, k, tag) = NoKey
  PROVE  LET t == WriteNode(s, k, n)
         IN  /\ Tree(t) /\ Confined(s, t, k) /\ Reached(t, k) /\ Live(t, k)
             /\ DocUnder(t, k) = BareDoc(n)
             /\ \A tag \in Segment : ChildKey(t, k, tag) = NoKey
             /\ \A kind : HasKind(t, k, kind) <=> n.kind = kind
  <1> DEFINE t == WriteNode(s, k, n)
  <1>1. Tree(t) /\ Overwrote(s, t, k, n)
    BY OverwriteEffect
  <1> HIDE DEF t
  <1>2. Sound(s) /\ Sound(t) /\ DOMAIN s.node \in SUBSET Nat
    BY <1>1 DEF Tree, Sound, Shape
  <1>3. /\ Reached(t, k) /\ Live(t, k) /\ t.node[k] = n
        /\ \A tag \in Segment : ChildKey(t, k, tag) = NoKey
        /\ \A kind : HasKind(t, k, kind) <=> n.kind = kind
    BY <1>1 DEF Overwrote, Live
  <1>4. DocUnder(t, k) = BareDoc(n)
    BY <1>1, <1>3, BareDocIs
  <1>5. k \in Visited(s, {k})
    BY <1>2, VisitedFrom DEF Sound
  <1>6. ASSUME NEW m \in DOMAIN s.node, m \notin Visited(s, {k}) PROVE SameNode(s, t, m)
    <2>1. m # k /\ m \in Nat
      BY <1>2, <1>5, <1>6
    <2> QED  BY <1>1, <2>1 DEF Overwrote, SameNode
  <1>7. Visited(t, {k}) \subseteq {k}
    BY <1>2, <1>3, VisitedWithin
  <1>8. Confined(s, t, k)
    BY <1>5, <1>6, <1>7 DEF Confined
  <1> QED  BY <1>1, <1>3, <1>4, <1>8 DEF t

(* An entity stored under a parent that is there.                          *)
LEMMA StorePackedLands ==
  ASSUME NowhereApart, NEW s, Tree(s), NEW p, NEW k, Parent(s, p, k),
         NEW parent, parent.ok, parent.s = s, parent.key = k, NEW d, Flat(d)
  PROVE  Lands(s, p, d, StorePackedUnder(parent, Last(p), d))
  <1> DEFINE seg == Last(p)
             old == ChildKey(s, k, seg)
             n == PackedNode(d)
             r == StorePackedUnder(parent, seg, d)
             D == DocUnder(s, ROOT)
  <1>1. Bare(n) /\ n.kind = "packed" /\ BareDoc(n) = d
    BY PackedNodeBare DEF BareDoc, PackedNode
  <1>2. CASE HasKind(s, old, "packed")
    <2> DEFINE t == WriteNode(s, old, n)
    <2>1. r = Done(t, old)
      BY <1>2 DEF StorePackedUnder
    <2>2. /\ old \in Nat \ {ROOT} /\ old # NoKey
          /\ \A tag \in Segment : ChildKey(s, old, tag) = NoKey
      <3>1. old \in Nat \ {ROOT} /\ \A tag \in Segment : ChildKey(s, old, tag) = NoKey
        BY <1>2, PackedIsBare
      <3> QED  BY <3>1 DEF NoKey
    <2>3. p \in Seq(Segment) /\ p # <<>> /\ k # NoKey /\ ResolveFrom(s, ROOT, Front(p)) = k
      BY DEF Parent
    <2>4. ResolveFrom(s, ROOT, p) = old
      BY <2>3, ResolveLast
    <2>5. Reached(s, old) /\ Fits(D, p)
      <3>1. Reached(s, k) /\ Sound(s) /\ seg \in Segment
        BY ParentFits DEF Tree
      <3>2. Reached(s, old)
        BY <2>2, <3>1, ReachedChild
      <3>3. Confined(s, s, old)
        BY ConfinedSelf
      <3> HIDE DEF old
      <3>4. Fits(D, p)
        BY <2>2, <2>3, <2>4, <3>3, Lift
      <3> QED  BY <3>2, <3>4
    <2> HIDE DEF old, n
    <2>6. Tree(t) /\ Confined(s, t, old) /\ DocUnder(t, old) = d
      BY <1>1, <2>2, <2>5, OverwriteDoc
    <2> HIDE DEF t
    <2>7. DocUnder(t, ROOT) = With(D, p, d)
      BY <2>2, <2>3, <2>4, <2>6, Lift
    <2>8. r.ok = TRUE /\ r.s = t
      BY <2>1 DEF Done
    <2> HIDE DEF r
    <2>9. Lands(s, p, d, r)
      BY <2>5, <2>6, <2>7, <2>8 DEF Lands
    <2> QED  BY <2>9 DEF r
  <1>3. CASE ~HasKind(s, old, "packed")
    <2>1. r = ReplaceChild(parent, seg, n)
      BY <1>3 DEF StorePackedUnder
    <2> HIDE DEF n
    <2> QED  BY <1>1, <2>1, ReplaceLands
  <1> QED  BY <1>2, <1>3

(* The sequence of a set has all of it.                                    *)
LEMMA SetSequenceAll ==
  ASSUME NEW S, IsFiniteSet(S)
  PROVE  LET f == SetToSeq(S)
         IN  /\ Cardinality(S) \in Nat /\ f \in [1..Cardinality(S) -> S]
             /\ \A x \in S : \E i \in 1..Cardinality(S) : f[i] = x
             /\ \A i, j \in 1..Cardinality(S) : f[i] = f[j] => i = j
  <1> DEFINE N == Cardinality(S)
             f == SetToSeq(S)
  <1>1. N \in Nat /\ f \in [1..N -> S] /\ IsInjective(f)
    <2>1. N \in Nat /\ \E g : g \in Bijection(1..N, S)
      BY FS_CardinalityType DEF ExistsBijection
    <2>2. \E g \in [1..N -> S] : IsInjective(g)
      BY <2>1 DEF Bijection, Injection, IsInjective
    <2> QED  BY <2>1, <2>2 DEF SetToSeq
  <1> HIDE DEF f
  <1>2. f \in Injection(1..N, S)
    BY <1>1 DEF Injection, IsInjective
  <1>3. Cardinality(1..N) = N
    BY <1>1, FS_Interval
  <1>4. f \in Surjection(1..N, S)
    <2> HIDE DEF N
    <2>1. Cardinality(1..N) = Cardinality(S)
      BY <1>3 DEF N
    <2> QED  BY <1>2, <2>1, FS_Injection
  <1>5. \A x \in S : \E i \in 1..N : f[i] = x
    BY <1>4 DEF Surjection
  <1>6. \A i, j \in 1..N : f[i] = f[j] => i = j
    BY <1>1 DEF IsInjective
  <1> QED  BY <1>1, <1>5, <1>6 DEF f

(* The segments of a container name all its parts.                         *)
LEMMA SegmentsAll ==
  ASSUME NowhereApart, NEW d, Flat(d), NEW tag \in Segment, Kid(d, tag) # Nowhere
  PROVE  \E j \in 1..Len(Segments(d)) : Segments(d)[j] = tag
  <1>1. CASE Is(d, "list")
    <2>1. d.items \in Seq(Leaves) /\ Segments(d) = [x \in DOMAIN d.items |-> Index(x - 1)]
      BY <1>1, FlatIs DEF Segments
    <2>2. IsIndex(tag) /\ tag.index < Len(d.items)
      BY <1>1 DEF Kid, Is
    <2>3. tag.index \in Nat /\ tag = Index(tag.index)
      BY <2>2, SegmentKinds
    <2> DEFINE j == tag.index + 1
    <2>4. /\ DOMAIN d.items = 1..Len(d.items) /\ Len(d.items) \in Nat
          /\ j \in 1..Len(d.items) /\ j - 1 = tag.index
      BY <2>1, <2>2, <2>3, LenProperties
    <2> HIDE DEF j
    <2>5. Segments(d)[j] = tag
      BY <2>1, <2>3, <2>4
    <2>6. Len(Segments(d)) = Len(d.items)
      <3>1. Segments(d) \in Seq(Segment)
        BY LeafParts
      <3>2. DOMAIN Segments(d) = 1..Len(d.items) /\ DOMAIN Segments(d) = 1..Len(Segments(d))
            /\ Len(Segments(d)) \in Nat
        BY <2>1, <2>4, <3>1, LenProperties
      <3> QED  BY <2>4, <3>2
    <2> QED  BY <2>4, <2>5, <2>6
  <1>2. CASE ~Is(d, "list")
    <2> DEFINE F == DOMAIN d.fields
               S == {Name(n) : n \in F}
    <2>1. Is(d, "object") /\ IsName(tag) /\ tag.name \in F
      BY <1>2 DEF Kid
    <2>2. F \subseteq Names /\ Segments(d) = SetToSeq(S)
      BY <1>2, <2>1, FlatIs DEF Segments
    <2>3. IsFiniteSet(S)
      <3>1. IsFiniteSet(F)
        BY <2>2, TreeAssumption, FS_Subset
      <3> DEFINE f == [n \in F |-> Name(n)]
      <3>2. f \in Surjection(F, S)
        BY DEF Surjection
      <3> HIDE DEF f
      <3> QED  BY <3>1, <3>2, FS_Surjection
    <2>4. tag \in S
      BY <2>1, SegmentKinds
    <2> HIDE DEF S
    <2>5. /\ Cardinality(S) \in Nat /\ Segments(d) \in [1..Cardinality(S) -> S]
          /\ \E i \in 1..Cardinality(S) : Segments(d)[i] = tag
      BY <2>2, <2>3, <2>4, SetSequenceAll
    <2>6. Len(Segments(d)) = Cardinality(S)
      <3>1. Segments(d) \in Seq(Segment)
        BY LeafParts
      <3>2. DOMAIN Segments(d) = 1..Cardinality(S) /\ DOMAIN Segments(d) = 1..Len(Segments(d))
            /\ Len(Segments(d)) \in Nat
        BY <2>5, <3>1, LenProperties
      <3> QED  BY <2>5, <3>2
    <2> QED  BY <2>5, <2>6
  <1> QED  BY <1>1, <1>2

------------------------------------------------------------------------------
(* The parts of a document one by one                                      *)


(* A part of the document of a container is there where a child is.        *)
LEMMA KidThere ==
  ASSUME NowhereApart, NEW s, Tree(s), NEW k, Reached(s, k), ~HasKind(s, k, "packed"),
         NEW tag \in Segment
  PROVE  Kid(DocUnder(s, k), tag) # Nowhere <=> ChildKey(s, k, tag) # NoKey
  <1>1. Sound(s) /\ Shape(s) /\ k \in Nat
    BY ReachedType DEF Tree, Sound
  <1>2. Kid(DocUnder(s, k), tag) = DocUnder(s, ChildKey(s, k, tag))
    BY KidOf
  <1>3. CASE ChildKey(s, k, tag) = NoKey
    BY <1>1, <1>2, <1>3, NoDoc
  <1>4. CASE ChildKey(s, k, tag) # NoKey
    <2>1. Reached(s, ChildKey(s, k, tag)) /\ Live(s, ChildKey(s, k, tag))
      BY <1>1, <1>4, ReachedChild DEF Tree, Live
    <2> QED  BY <1>2, <1>4, <2>1, DocThere
  <1> QED  BY <1>3, <1>4

(* Each segment of a flat document names a leaf.                           *)
LEMMA SegmentKid ==
  ASSUME NowhereApart, NEW d, Flat(d), NEW i \in 1..Len(Segments(d))
  PROVE  LET x == Kid(d, Segments(d)[i])
         IN  /\ Segments(d)[i] \in Segment
             /\ x \in Leaves /\ x # Nowhere /\ x = Leaf(x.val) /\ x.val \in Values
  <1> DEFINE x == Kid(d, Segments(d)[i])
  <1>1. Segments(d) \in Seq(Segment) /\ Segments(d)[i] \in Segment /\ x.val \in Values
    BY LeafParts, ElementOfSeq
  <1>0. \A y \in Leaves : y # Nowhere /\ y = Leaf(y.val)
    BY DEF Leaves, Leaf, NowhereApart
  <1>2. CASE Is(d, "list")
    <2>1. d.items \in Seq(Leaves) /\ Segments(d) = [y \in DOMAIN d.items |-> Index(y - 1)]
      BY <1>2, FlatIs DEF Segments
    <2>2. Len(Segments(d)) = Len(d.items) /\ Len(d.items) \in Nat /\ DOMAIN d.items = 1..Len(d.items)
      <3>1. DOMAIN d.items = 1..Len(d.items) /\ Len(d.items) \in Nat
        BY <2>1, LenProperties
      <3>2. DOMAIN Segments(d) = 1..Len(d.items) /\ DOMAIN Segments(d) = 1..Len(Segments(d))
            /\ Len(Segments(d)) \in Nat
        BY <1>1, <2>1, <3>1, LenProperties
      <3> QED  BY <3>1, <3>2
    <2>3. Segments(d)[i] = Index(i - 1) /\ i - 1 \in Nat /\ (i - 1) + 1 = i /\ i - 1 < Len(d.items)
      BY <2>1, <2>2
    <2>4. Index(i - 1).index = i - 1 /\ IsIndex(Index(i - 1)) /\ ~IsName(Index(i - 1))
      BY <2>3, IndexSegment
    <2>5. x = d.items[i]
      BY <1>2, <2>3, <2>4 DEF Kid
    <2>6. x \in Leaves
      <3>1. i \in 1..Len(d.items)
        BY <2>2
      <3> QED  BY <2>1, <2>5, <3>1, ElementOfSeq
    <2> QED  BY <1>0, <1>1, <2>6
  <1>3. CASE ~Is(d, "list") /\ Is(d, "object")
    <2> DEFINE F == DOMAIN d.fields
               S == {Name(n) : n \in F}
    <2>1. F \subseteq Names /\ Segments(d) = SetToSeq(S) /\ \A n \in F : d.fields[n] \in Leaves
      BY <1>3, FlatIs DEF Segments
    <2>2. IsFiniteSet(S)
      <3>1. IsFiniteSet(F)
        BY <2>1, TreeAssumption, FS_Subset
      <3> DEFINE f == [n \in F |-> Name(n)]
      <3>2. f \in Surjection(F, S)
        BY DEF Surjection
      <3> HIDE DEF f
      <3> QED  BY <3>1, <3>2, FS_Surjection
    <2>3. Segments(d)[i] \in S
      <3> HIDE DEF S
      <3>1. Cardinality(S) \in Nat /\ Segments(d) \in [1..Cardinality(S) -> S]
        BY <2>1, <2>2, SetSequenceAll
      <3>2. DOMAIN Segments(d) = 1..Len(Segments(d))
        BY <1>1, LenProperties
      <3> QED  BY <3>1, <3>2
    <2>4. PICK n \in F : Segments(d)[i] = Name(n)
      BY <2>3
    <2>5. IsName(Name(n)) /\ Name(n).name = n
      BY <2>1, <2>4, NameSegment
    <2>6. x = d.fields[n]
      BY <1>3, <2>4, <2>5 DEF Kid
    <2>7. x \in Leaves
      BY <2>1, <2>6
    <2> QED  BY <1>0, <1>1, <2>7
  <1>4. CASE ~Is(d, "list") /\ ~Is(d, "object")
    <2>1. Segments(d) = <<>>
      BY <1>4 DEF Segments
    <2> QED  BY <2>1, EmptySeq
  <1> QED  BY <1>2, <1>3, <1>4

(* The first i parts of d are children of k, and nothing else is.          *)
Poured(s, k, d, i, u) ==
  /\ Tree(u) /\ Confined(s, u, k) /\ Reached(u, k)
  /\ HasKind(u, k, ContainerKind(Is(d, "list")))
  /\ \A tag \in Segment :
       Kid(DocUnder(u, k), tag) =
         IF \E j \in 1..i : Segments(d)[j] = tag THEN Kid(d, tag) ELSE Nowhere

(* One part more under the container.                                      *)
LEMMA PourStep ==
  ASSUME NowhereApart, NEW s, NEW k \in Nat, NEW d, Flat(d), NEW i \in Nat,
         i + 1 <= Len(Segments(d)), NEW u, Poured(s, k, d, i, u)
  PROVE  LET seg == Segments(d)[i + 1]
             a   == AddChild(u, k, seg, LeafNode(Kid(d, seg).val))
         IN  /\ a.ok = TRUE /\ Poured(s, k, d, i + 1, a.s)
             /\ ChildKey(u, k, seg) = NoKey /\ Holder(u, k, seg)
             /\ Extends(u, a.s)
  <1> DEFINE segs == Segments(d)
             seg == segs[i + 1]
             n == LeafNode(Kid(d, seg).val)
             a == AddChild(u, k, seg, n)
             e == DocUnder(u, k)
  <1>1. /\ segs \in Seq(Segment) /\ Len(segs) \in Nat
        /\ \A j \in 1..Len(segs) : IsIndex(segs[j]) = Is(d, "list")
        /\ \A x, y \in 1..Len(segs) : segs[x] = segs[y] => x = y
        /\ Is(d, "list") => \A j \in 1..Len(segs) : segs[j] = Index(j - 1)
    BY LeafParts, LenProperties
  <1>2. i + 1 \in 1..Len(segs) /\ 1..i \subseteq 1..Len(segs) /\ i + 1 \notin 1..i
        /\ 1..i + 1 = 1..i \cup {i + 1} /\ i + 1 - 1 = i
    BY <1>1
  <1>3. /\ seg \in Segment /\ Kid(d, seg) \in Leaves /\ Kid(d, seg) # Nowhere
        /\ Kid(d, seg) = Leaf(Kid(d, seg).val) /\ Kid(d, seg).val \in Values
    BY <1>2, SegmentKid
  <1>4. /\ Tree(u) /\ Confined(s, u, k) /\ Reached(u, k)
        /\ HasKind(u, k, ContainerKind(Is(d, "list")))
        /\ \A tag \in Segment :
             Kid(e, tag) = IF \E j \in 1..i : segs[j] = tag THEN Kid(d, tag) ELSE Nowhere
    BY DEF Poured
  <1>5. Holder(u, k, seg) /\ ~HasKind(u, k, "packed") /\ Live(u, k) /\ k \in DOMAIN u.node
    BY <1>1, <1>2, <1>4 DEF Holder, ContainerKind, HasKind, Live
  <1>6. Proper(e) /\ (Is(e, "object") <=> HasKind(u, k, "object")) /\ (Is(e, "list") <=> HasKind(u, k, "list"))
    BY <1>4, <1>5, DocIs
  <1>7. Kid(e, seg) = Nowhere
    BY <1>1, <1>2, <1>3, <1>4
  <1>8. ChildKey(u, k, seg) = NoKey
    BY <1>3, <1>4, <1>5, <1>7, KidThere
  <1>9. Takes(e, seg)
    <2>1. Opens(e, seg)
      BY <1>5, <1>6 DEF Opens, Holder
    <2>2. IsName(seg) \/ seg.index = 0 \/ Kid(e, Index(seg.index - 1)) # Nowhere
      <3>1. SUFFICES ASSUME ~IsName(seg), seg.index # 0 PROVE Kid(e, Index(seg.index - 1)) # Nowhere
        OBVIOUS
      <3>2. Is(d, "list")
        BY <1>1, <1>2, <3>1 DEF IsName
      <3>3. seg = Index(i)
        BY <1>1, <1>2, <3>2
      <3>4. seg.index = i /\ i \in 1..i /\ i \in 1..Len(segs)
        BY <1>2, <3>1, <3>3, IndexSegment
      <3>5. segs[i] = Index(i - 1)
        BY <1>1, <3>2, <3>4
      <3>6. Kid(d, segs[i]) # Nowhere /\ segs[i] \in Segment
        BY <3>4, SegmentKid
      <3>7. Kid(e, segs[i]) = Kid(d, segs[i])
        BY <1>4, <3>4, <3>6
      <3> QED  BY <3>4, <3>5, <3>6, <3>7
    <2> HIDE DEF e, seg
    <2> QED  BY <1>3, <1>6, <2>1, <2>2, TakesIs
  <1>10. Fitting(u, k, seg)
    BY <1>3, <1>4, <1>5, <1>9, FittingTakes
  <1>11. Bare(n) /\ n.kind = "leaf" /\ BareDoc(n) = Kid(d, seg)
    BY <1>3, LeafNodeBare DEF BareDoc, LeafNode
  <1> HIDE DEF seg, n, e, segs
  <1>12. a.ok /\ Tree(a.s) /\ Grown(u, a.s, k, seg, a.key, n) /\ a.ok = TRUE
    <2>1. TreeBut(u, k, seg)
      BY <1>4, <1>8, TreeIsTreeBut
    <2>2. /\ a.ok \in BOOLEAN /\ Tree(a.s) /\ (~a.ok => ~Fitting(u, k, seg))
          /\ a.ok => Grown(u, a.s, k, seg, a.key, n)
      BY <1>3, <1>5, <1>11, <2>1, AddChildEffect
    <2> QED  BY <1>10, <2>2
  <1> HIDE DEF a
  <1>13. Extends(u, a.s) /\ Reached(a.s, a.key)
    BY <1>3, <1>4, <1>5, <1>8, <1>12, GrownExtends
  <1>14. Replaced(u, a.s, k, seg, a.key, n, Dropped(u, k, seg))
    <2>1. Dropped(u, k, seg) = {}
      BY <1>8 DEF Dropped
    <2>2. \A m \in DOMAIN u.node : Reached(u, m) => Reached(a.s, m)
      BY <1>13 DEF Extends
    <2> QED  BY <1>5, <1>12, <2>1, <2>2 DEF Grown, Replaced
  <1>15. DocUnder(a.s, k) = SetKid(e, seg, Kid(d, seg)) /\ Reached(a.s, k)
    BY <1>3, <1>4, <1>5, <1>11, <1>12, <1>13, <1>14, SlotDoc DEF e
  <1>16. Confined(u, a.s, k)
    BY <1>3, <1>4, <1>12, <1>14, ReplacedConfined
  <1>17. Confined(s, a.s, k)
    BY <1>4, <1>16, ConfinedOn
  <1>18. HasKind(a.s, k, ContainerKind(Is(d, "list")))
    BY <1>4, <1>5, <1>13 DEF Extends
  <1>19. ASSUME NEW tag \in Segment
         PROVE  Kid(DocUnder(a.s, k), tag) =
                  IF \E j \in 1..i + 1 : segs[j] = tag THEN Kid(d, tag) ELSE Nowhere
    <2>1. Kid(DocUnder(a.s, k), tag) = IF tag = seg THEN Kid(d, seg) ELSE Kid(e, tag)
      BY <1>3, <1>6, <1>9, <1>15, KidSet
    <2>2. (\E j \in 1..i + 1 : segs[j] = tag) <=> tag = seg \/ \E j \in 1..i : segs[j] = tag
      BY <1>2 DEF seg
    <2> QED  BY <1>4, <2>1, <2>2
  <1>20. Poured(s, k, d, i + 1, a.s)
    BY <1>12, <1>15, <1>17, <1>18, <1>19 DEF Poured, segs
  <1> QED  BY <1>5, <1>8, <1>12, <1>13, <1>20 DEF a, seg, n, segs

(* With all its parts k stands for d.                                      *)
LEMMA PouredWhole ==
  ASSUME NowhereApart, NEW s, NEW k, NEW d, Flat(d), Is(d, "list") \/ Is(d, "object"),
         NEW u, Poured(s, k, d, Len(Segments(d)), u)
  PROVE  DocUnder(u, k) = d
  <1> DEFINE e == DocUnder(u, k)
  <1>1. /\ Tree(u) /\ Reached(u, k)
        /\ HasKind(u, k, ContainerKind(Is(d, "list")))
        /\ \A tag \in Segment :
             Kid(e, tag) = IF \E j \in 1..Len(Segments(d)) : Segments(d)[j] = tag
                           THEN Kid(d, tag) ELSE Nowhere
    BY DEF Poured
  <1>2. Live(u, k) /\ ~HasKind(u, k, "packed")
    BY <1>1 DEF HasKind, ContainerKind
  <1>3. Proper(e) /\ (Is(e, "object") <=> HasKind(u, k, "object")) /\ (Is(e, "list") <=> HasKind(u, k, "list"))
    BY <1>1, <1>2, DocIs
  <1>4. Proper(d)
    BY FlatProper
  <1>5. (Is(d, "object") /\ Is(e, "object")) \/ (Is(d, "list") /\ Is(e, "list"))
    BY <1>1, <1>3 DEF ContainerKind
  <1>6. \A tag \in Segment : Kid(d, tag) = Kid(e, tag)
    BY <1>1, SegmentsAll
  <1> HIDE DEF e
  <1>7. d = e
    BY <1>3, <1>4, <1>5, <1>6, SameKids
  <1> QED  BY <1>7 DEF e

(* Before the first part.                                                  *)
LEMMA PourFirst ==
  ASSUME NowhereApart, NEW s, Tree(s), NEW k, Reached(s, k), NEW d,
         HasKind(s, k, ContainerKind(Is(d, "list"))),
         \A tag \in Segment : ChildKey(s, k, tag) = NoKey
  PROVE  Poured(s, k, d, 0, s)
  <1>1. ~HasKind(s, k, "packed")
    BY DEF HasKind, ContainerKind
  <1>2. \A tag \in Segment : Kid(DocUnder(s, k), tag) = Nowhere
    BY <1>1, KidThere
  <1>3. ~\E j \in 1..0 : Segments(d)[j] = Segments(d)[j]
    OBVIOUS
  <1>4. \A tag \in Segment :
          Kid(DocUnder(s, k), tag) =
            IF \E j \in 1..0 : Segments(d)[j] = tag THEN Kid(d, tag) ELSE Nowhere
    BY <1>2, <1>3
  <1> QED  BY <1>4, ConfinedSelf DEF Poured

(* All parts of d under an empty container: it stands for d.               *)
LEMMA SpillDoc ==
  ASSUME NowhereApart, NEW s, Tree(s), NEW k, Reached(s, k), NEW d, Flat(d),
         Is(d, "list") \/ Is(d, "object"),
         HasKind(s, k, ContainerKind(Is(d, "list"))),
         \A tag \in Segment : ChildKey(s, k, tag) = NoKey
  PROVE  LET u == SpillAll(s, k, d)
         IN  Tree(u) /\ Confined(s, u, k) /\ DocUnder(u, k) = d /\ Reached(u, k)
  <1> DEFINE segs == Segments(d)
  <1>1. segs \in Seq(Segment) /\ Len(segs) \in Nat /\ k \in Nat
    BY LeafParts, LenProperties, ReachedType DEF Tree
  <1>2. PICK g : Spills(g, s, k, d, segs) /\ Spill(s, k, d, segs)[Len(segs)] = g[Len(segs)]
    BY <1>1, SpillSteps
  <1> DEFINE P(i) == Poured(s, k, d, i, g[i])
             S == {i \in Nat : i <= Len(segs) => P(i)}
  <1>3. 0 \in S
    BY <1>2, PourFirst DEF Spills
  <1>4. ASSUME NEW i \in Nat, i \in S PROVE i + 1 \in S
    <2>1. SUFFICES ASSUME i + 1 <= Len(segs) PROVE P(i + 1)
      OBVIOUS
    <2>2. i + 1 \in 1..Len(segs) /\ i + 1 - 1 = i /\ i <= Len(segs)
      BY <1>1, <2>1
    <2>3. P(i)
      BY <1>4, <2>2
    <2>4. g[i + 1] = AddChild(g[i], k, segs[i + 1], LeafNode(Kid(d, segs[i + 1]).val)).s
      BY <1>2, <2>2 DEF Spills
    <2> QED  BY <1>1, <2>1, <2>3, <2>4, PourStep
  <1>5. Nat \subseteq S
    <2> HIDE DEF S
    <2> QED  BY <1>3, <1>4, SetInduction
  <1>6. P(Len(segs))
    <2>1. Len(segs) <= Len(segs)
      BY <1>1
    <2> HIDE DEF P
    <2> QED  BY <1>1, <1>5, <2>1
  <1>7. DocUnder(g[Len(segs)], k) = d
    BY <1>6, PouredWhole
  <1>8. SpillAll(s, k, d) = g[Len(segs)]
    BY <1>2 DEF SpillAll
  <1> QED  BY <1>6, <1>7, <1>8 DEF Poured

------------------------------------------------------------------------------
(* Containers made on the way                                              *)


(* g[i] is what ensure_container has done after i segments of p.           *)
Ensures(g, s, base, p, isList) ==
  /\ g[0] = EnsureFirst(s, base, p, isList)
  /\ \A i \in 1..Len(p) : g[i] = EnsureOn(s, base, p, isList, g[i - 1], i)

(* ensure_container goes segment by segment.                               *)
LEMMA EnsureRuns ==
  ASSUME NEW s, NEW base, NEW p \in Seq(Segment), NEW isList
  PROVE  \E g : EnsureContainer(s, base, p, isList) = g[Len(p)] /\ Ensures(g, s, base, p, isList)
  BY EnsureSteps DEF Ensures

(* A container that is there is verified.                                  *)
LEMMA EnsureVerifies ==
  ASSUME NEW s, NEW base, NEW q \in Seq(Segment), NEW isList \in BOOLEAN, NEW m,
         ResolveFrom(s, base, q) = m, m # NoKey, q # <<>> \/ Live(s, base)
  PROVE  EnsureContainer(s, base, q, isList) = VerifyContainer(s, m, isList)
  <1> DEFINE n == Len(q)
  <1>1. n \in Nat /\ Walk(s, base, q)[0] = base /\ Walk(s, base, q)[n] = m
    BY WalkSteps DEF ResolveFrom
  <1>0. PICK g : EnsureContainer(s, base, q, isList) = g[Len(q)] /\ Ensures(g, s, base, q, isList)
    BY EnsureRuns
  <1>2. /\ EnsureContainer(s, base, q, isList) = g[n]
        /\ g[0] = EnsureFirst(s, base, q, isList)
        /\ \A i \in 1..n : g[i] = EnsureOn(s, base, q, isList, g[i - 1], i)
    BY <1>0 DEF Ensures
  <1>3. Wanted(q, isList, n) = isList
    BY DEF Wanted
  <1>5. CASE q = <<>>
    <2>1. n = 0 /\ m = base /\ Live(s, base)
      BY <1>1, <1>5
    <2> HIDE DEF n
    <2> QED  BY <1>2, <1>3, <2>1 DEF EnsureFirst
  <1>6. CASE q # <<>>
    <2>1. n \in 1..n
      BY <1>1, <1>6, EmptySeq, PathFront
    <2> HIDE DEF n
    <2> QED  BY <1>1, <1>2, <1>3, <2>1 DEF EnsureOn
  <1> QED  BY <1>5, <1>6

(* A container that is there is found.                                     *)
LEMMA EnsureThere ==
  ASSUME NEW s, NEW base, NEW q \in Seq(Segment), NEW isList \in BOOLEAN, NEW m,
         ResolveFrom(s, base, q) = m, m # NoKey, q # <<>> \/ Live(s, base),
         HasKind(s, m, ContainerKind(isList))
  PROVE  EnsureContainer(s, base, q, isList) = Done(s, m)
  <1>1. VerifyContainer(s, m, isList) = Done(s, m)
    BY DEF VerifyContainer, Kind, HasKind, ContainerKind
  <1> QED  BY <1>1, EnsureVerifies

(* On a path and on a longer one that starts with it, the containers up to *)
(* the end of the shorter are ensured alike.                               *)
LEMMA EnsureAlike ==
  ASSUME NEW s, NEW base, NEW p \in Seq(Segment), NEW q \in Seq(Segment),
         NEW n \in Nat, Len(q) = n, n + 1 <= Len(p), \A i \in 1..n : p[i] = q[i],
         \A i \in 0..n : Walk(s, base, q)[i] = Walk(s, base, p)[i],
         NEW isList, NEW kind, kind = IsIndex(p[n + 1]),
         NEW g, Ensures(g, s, base, p, isList), NEW h, Ensures(h, s, base, q, kind)
  PROVE  g[n] = h[n]
  <1>1. Len(p) \in Nat /\ n \in 0..Len(p) /\ n <= Len(q) /\ n # Len(p)
    BY LenProperties
  <1>2. /\ g[0] = EnsureFirst(s, base, p, isList)
        /\ \A i \in 1..Len(p) : g[i] = EnsureOn(s, base, p, isList, g[i - 1], i)
        /\ h[0] = EnsureFirst(s, base, q, kind)
        /\ \A i \in 1..Len(q) : h[i] = EnsureOn(s, base, q, kind, h[i - 1], i)
    BY DEF Ensures
  <1>3. ASSUME NEW i \in 0..n PROVE Wanted(p, isList, i) = Wanted(q, kind, i)
    <2>1. CASE i = n
      BY <1>1, <2>1 DEF Wanted
    <2>2. CASE i # n
      <3>1. i + 1 \in 1..n /\ i # Len(p) /\ i # Len(q)
        BY <1>1, <2>2
      <3>2. q[i + 1] = p[i + 1]
        BY <3>1
      <3> QED  BY <3>1, <3>2 DEF Wanted
    <2> QED  BY <2>1, <2>2
  <1> DEFINE P(i) == g[i] = h[i]
             S == {i \in Nat : i <= n => P(i)}
  <1>4. 0 \in S
    <2>1. 0 \in 0..n
      BY <1>1
    <2>2. Wanted(p, isList, 0) = Wanted(q, kind, 0)
      BY <1>3, <2>1
    <2> QED  BY <1>2, <2>2 DEF EnsureFirst
  <1>5. ASSUME NEW i \in Nat, i \in S PROVE i + 1 \in S
    <2>1. SUFFICES ASSUME i + 1 <= n PROVE P(i + 1)
      OBVIOUS
    <2>2. i + 1 \in 1..n /\ i + 1 \in 1..Len(p) /\ i + 1 \in 1..Len(q) /\ i + 1 - 1 = i /\ i <= n
          /\ i + 1 \in 0..n
      BY <1>1, <2>1
    <2>3. g[i] = h[i]
      BY <1>5, <2>2
    <2>5. g[i + 1] = EnsureOn(s, base, p, isList, g[i], i + 1)
      BY <1>2, <2>2
    <2>6. h[i + 1] = EnsureOn(s, base, q, kind, h[i], i + 1)
      BY <1>2, <2>2
    <2> DEFINE j == i + 1
    <2>7. Wanted(p, isList, j) = Wanted(q, kind, j) /\ Walk(s, base, q)[j] = Walk(s, base, p)[j]
          /\ p[j] = q[j]
      BY <1>3, <2>2
    <2> HIDE DEF j
    <2>8. EnsureOn(s, base, p, isList, g[i], j) = EnsureOn(s, base, q, kind, h[i], j)
      BY <2>3, <2>7 DEF EnsureOn
    <2> QED  BY <2>5, <2>6, <2>8 DEF j
  <1>6. Nat \subseteq S
    <2> HIDE DEF S
    <2> QED  BY <1>4, <1>5, SetInduction
  <1>7. n \in S /\ n <= n
    BY <1>6
  <1> QED  BY <1>7

(* The last container of a path is added under the parent.                 *)
LEMMA EnsureSplit ==
  ASSUME NEW s, NEW base, NEW p \in Seq(Segment), p # <<>>, NEW isList \in BOOLEAN,
         ResolveFrom(s, base, p) = NoKey
  PROVE  LET up == EnsureParent(s, base, p)
         IN  EnsureContainer(s, base, p, isList) =
               IF up.ok THEN AddChild(up.s, up.key, Last(p), EmptyNode(isList)) ELSE up
  <1>1. /\ Front(p) \in Seq(Segment) /\ Len(Front(p)) = Len(p) - 1 /\ Len(p) \in Nat \ {0}
        /\ \A i \in 1..Len(p) - 1 : Front(p)[i] = p[i]
        /\ Last(p) = p[Len(p)]
    BY PathFront
  <1>2. PICK g : EnsureContainer(s, base, p, isList) = g[Len(p)] /\ Ensures(g, s, base, p, isList)
    BY EnsureRuns
  <1>10. \A i \in 0..Len(p) - 1 : Walk(s, base, Front(p))[i] = Walk(s, base, p)[i]
    BY ResolveLast
  <1> DEFINE n == Len(p) - 1
             q == Front(p)
             kind == IsIndex(Last(p))
  <1>4. n \in Nat /\ n + 1 = Len(p) /\ n + 1 <= Len(p) /\ n + 1 - 1 = n /\ n + 1 \in 1..Len(p)
    BY <1>1
  <1>5. /\ q \in Seq(Segment) /\ Len(q) = n /\ \A i \in 1..n : p[i] = q[i]
        /\ kind = IsIndex(p[n + 1]) /\ p[n + 1] = Last(p)
    BY <1>1, <1>4
  <1>6. EnsureParent(s, base, p) = EnsureContainer(s, base, q, kind)
    BY DEF EnsureParent
  <1> HIDE DEF n, q, kind
  <1>7. PICK h : EnsureContainer(s, base, q, kind) = h[Len(q)] /\ Ensures(h, s, base, q, kind)
    BY <1>5, EnsureRuns
  <1>8. g[n] = h[n]
    <2>1. \A i \in 0..n : Walk(s, base, q)[i] = Walk(s, base, p)[i]
      BY <1>10 DEF n, q
    <2> QED  BY <1>2, <1>4, <1>5, <1>7, <2>1, EnsureAlike
  <1>9. g[n] = EnsureParent(s, base, p)
    BY <1>5, <1>6, <1>7, <1>8
  <1>11. g[n + 1] = EnsureOn(s, base, p, isList, g[n], n + 1)
    BY <1>2, <1>4 DEF Ensures
  <1>12. Walk(s, base, p)[n + 1] = NoKey /\ Wanted(p, isList, n + 1) = isList
    BY <1>4 DEF ResolveFrom, Wanted
  <1>13. EnsureContainer(s, base, p, isList) = g[n + 1]
    BY <1>2, <1>4
  <1> QED  BY <1>5, <1>9, <1>11, <1>12, <1>13 DEF EnsureOn

(* The parts of a container just made: all of them, and it is in place.    *)
LEMMA PartsLand ==
  ASSUME NowhereApart, NEW a, a.ok, Tree(a.s), NEW new, Reached(a.s, new), new # NoKey,
         NEW base \in Nat, NEW path \in Seq(Segment),
         ResolveFrom(a.s, base, path) = new,
         NEW d, Flat(d), Is(d, "list") \/ Is(d, "object"),
         HasKind(a.s, new, ContainerKind(Is(d, "list"))),
         \A tag \in Segment : ChildKey(a.s, new, tag) = NoKey
  PROVE  LET r == WriteParts(a, base, path, d, Segments(d))[Len(Segments(d))]
         IN  r.ok /\ Tree(r.s) /\ Confined(a.s, r.s, new) /\ DocUnder(r.s, new) = d
  <1> DEFINE segs == Segments(d)
  <1>1. segs \in Seq(Segment) /\ Len(segs) \in Nat /\ new \in Nat
    BY LeafParts, LenProperties, ReachedType DEF Tree
  <1>2. PICK g : /\ WriteParts(a, base, path, d, segs)[Len(segs)] = g[Len(segs)]
                 /\ g[0] = a
                 /\ \A i \in 1..Len(segs) :
                      g[i] = WritePart(g[i - 1], base, Append(path, segs[i]), Kid(d, segs[i]))
    BY <1>1, PartsSteps
  <1> DEFINE P(i) == /\ g[i].ok /\ Poured(a.s, new, d, i, g[i].s)
                     /\ ResolveFrom(g[i].s, base, path) = new
             S == {i \in Nat : i <= Len(segs) => P(i)}
  <1>3. 0 \in S
    BY <1>2, PourFirst
  <1>4. ASSUME NEW i \in Nat, i \in S PROVE i + 1 \in S
    <2>1. SUFFICES ASSUME i + 1 <= Len(segs) PROVE P(i + 1)
      OBVIOUS
    <2>2. i + 1 \in 1..Len(segs) /\ i + 1 - 1 = i /\ i <= Len(segs)
      BY <1>1, <2>1
    <2> DEFINE u == g[i].s
               seg == segs[i + 1]
               n == LeafNode(Kid(d, seg).val)
               x == AddChild(u, new, seg, n)
               q == Append(path, seg)
    <2>3. g[i].ok /\ Poured(a.s, new, d, i, u) /\ ResolveFrom(u, base, path) = new
      BY <1>4, <2>2
    <2>4. /\ x.ok = TRUE /\ Poured(a.s, new, d, i + 1, x.s)
          /\ ChildKey(u, new, seg) = NoKey /\ Holder(u, new, seg)
          /\ Extends(u, x.s)
      BY <1>1, <2>1, <2>3, PourStep
    <2>5. seg \in Segment /\ IsIndex(seg) \in BOOLEAN
      BY <1>1, <2>2, ElementOfSeq, IsIndexType
    <2>6. g[i + 1] = WritePart(g[i], base, q, Kid(d, seg))
      BY <1>2, <2>2
    <2>7. g[i + 1] = PutScalar(u, base, q, Kid(d, seg).val)
      BY <2>3, <2>6 DEF WritePart
    <2> HIDE DEF x, n, u, seg
    <2>8. q # <<>> /\ Front(q) = path /\ Last(q) = seg
      BY <2>5, PathAppend
    <2> HIDE DEF q
    <2>9. EnsureParent(u, base, q) = Done(u, new)
      <3>1. HasKind(u, new, ContainerKind(IsIndex(seg)))
        BY <2>4 DEF Holder, ContainerKind
      <3>2. path # <<>> \/ Live(u, base)
        <4>1. ASSUME path = <<>> PROVE base = new
          <5>1. Len(path) = 0
            BY <4>1, EmptySeq
          <5>2. Walk(u, base, path)[0] = base
            BY WalkSteps
          <5>3. Walk(u, base, path)[Len(path)] = new
            BY <2>3 DEF ResolveFrom
          <5> QED  BY <5>1, <5>2, <5>3
        <4> QED  BY <3>1, <4>1 DEF HasKind
      <3>3. EnsureContainer(u, base, path, IsIndex(seg)) = Done(u, new)
        BY <2>3, <2>5, <3>1, <3>2, EnsureThere
      <3> QED  BY <2>8, <3>3 DEF EnsureParent
    <2>10. g[i + 1] = x
      <3>1. g[i + 1] = ReplaceChild(Done(u, new), seg, n)
        BY <2>7, <2>8, <2>9 DEF PutScalar, n
      <3>2. DropChild(u, new, seg) = u
        BY <2>4 DEF DropChild, DropNode
      <3> QED  BY <3>1, <3>2 DEF ReplaceChild, Done, x
    <2>11. ResolveFrom(x.s, base, path) = new
      <3>1. Sound(u)
        BY <2>3 DEF Poured, Tree
      <3>2. Walk(u, base, path)[Len(path)] = new /\ Len(path) \in 0..Len(path)
        BY <2>3, LenProperties DEF ResolveFrom
      <3>3. Walk(x.s, base, path)[Len(path)] = new
        BY <2>4, <3>1, <3>2, ExtendsWalk
      <3> QED  BY <3>3 DEF ResolveFrom
    <2> QED  BY <2>4, <2>10, <2>11
  <1>5. Nat \subseteq S
    <2> HIDE DEF S
    <2> QED  BY <1>3, <1>4, SetInduction
  <1>6. P(Len(segs))
    <2>1. Len(segs) <= Len(segs)
      BY <1>1
    <2> HIDE DEF P
    <2> QED  BY <1>1, <1>5, <2>1
  <1>7. DocUnder(g[Len(segs)].s, new) = d
    BY <1>6, PouredWhole
  <1> QED  BY <1>2, <1>6, <1>7 DEF Poured

(* After a failure no part is written.                                     *)
LEMMA PartsStop ==
  ASSUME NEW a, ~a.ok, NEW base, NEW path, NEW d, NEW segs \in Seq(Segment)
  PROVE  WriteParts(a, base, path, d, segs)[Len(segs)] = a
  <1>1. PICK g : /\ WriteParts(a, base, path, d, segs)[Len(segs)] = g[Len(segs)]
                 /\ g[0] = a
                 /\ \A i \in 1..Len(segs) :
                      g[i] = WritePart(g[i - 1], base, Append(path, segs[i]), Kid(d, segs[i]))
    BY PartsSteps
  <1>2. Len(segs) \in Nat
    BY LenProperties
  <1> DEFINE S == {i \in Nat : i <= Len(segs) => g[i] = a}
  <1>3. 0 \in S
    BY <1>1
  <1>4. ASSUME NEW i \in Nat, i \in S PROVE i + 1 \in S
    <2>1. SUFFICES ASSUME i + 1 <= Len(segs) PROVE g[i + 1] = a
      OBVIOUS
    <2>2. i + 1 \in 1..Len(segs) /\ i + 1 - 1 = i /\ i <= Len(segs)
      BY <1>2, <2>1
    <2>3. g[i] = a
      BY <1>4, <2>2
    <2>4. g[i + 1] = WritePart(g[i], base, Append(path, segs[i + 1]), Kid(d, segs[i + 1]))
      BY <1>1, <2>2
    <2> QED  BY <2>3, <2>4 DEF WritePart
  <1>5. Nat \subseteq S
    <2> HIDE DEF S
    <2> QED  BY <1>3, <1>4, SetInduction
  <1> QED  BY <1>1, <1>2, <1>5

(* A document is a leaf, a list or an object, and one of them.             *)
LEMMA FlatKinds ==
  ASSUME NowhereApart, NEW d, Flat(d)
  PROVE  /\ Is(d, "leaf") \/ Is(d, "list") \/ Is(d, "object")
         /\ Is(d, "leaf") => d = Leaf(d.val) /\ d.val \in Values
         /\ d # Nowhere
  BY DEF Flat, Leaves, Leaf, List, Object, Is, NowhereApart

(* A leaf written in the place of a part.                                  *)
LEMMA LeafLands ==
  ASSUME NowhereApart, NEW s, NEW base, NEW path, path # <<>>, NEW p,
         Last(path) = Last(p),
         NEW par, par = EnsureParent(s, base, path), par.ok, Tree(par.s),
         Parent(par.s, p, par.key), NEW v \in Values
  PROVE  Lands(par.s, p, Leaf(v), PutScalar(s, base, path, v))
  <1>1. Bare(LeafNode(v)) /\ BareDoc(LeafNode(v)) = Leaf(v)
    BY LeafNodeBare DEF BareDoc, LeafNode
  <1>2. PutScalar(s, base, path, v) = ReplaceChild(par, Last(p), LeafNode(v))
    BY DEF PutScalar
  <1> QED  BY <1>1, <1>2, ReplaceLands

(* A container and its parts written where nothing is.                     *)
LEMMA ContainerLands ==
  ASSUME NowhereApart, NEW s, NEW base \in Nat, NEW path \in Seq(Segment), path # <<>>, NEW p,
         Last(path) = Last(p),
         NEW par, par = EnsureParent(s, base, path), par.ok, Tree(par.s),
         Parent(par.s, p, par.key),
         ResolveFrom(s, base, path) = NoKey, ChildKey(par.s, par.key, Last(p)) = NoKey,
         (base = ROOT /\ path = p) \/ (base = par.key /\ path = <<Last(p)>>),
         NEW d, Flat(d), ~Is(d, "leaf")
  PROVE  Lands(par.s, p, d, WriteValue(s, base, path, d))
  <1> DEFINE isList == Is(d, "list")
             n == EmptyNode(isList)
             k == par.key
             a == AddChild(par.s, k, Last(p), n)
             segs == Segments(d)
             r == WriteParts(a, base, path, d, segs)[Len(segs)]
  <1>1. /\ isList \in BOOLEAN /\ Bare(n) /\ BareDoc(n) = Container(isList)
        /\ Container(isList) # Nowhere
    <2>1. isList \in BOOLEAN
      BY DEF Is
    <2>2. Bare(n) /\ n.kind = ContainerKind(isList)
      BY <2>1, EmptyNodeBare
    <2>3. BareDoc(n) = Container(isList)
      BY <2>1, <2>2 DEF BareDoc, ContainerKind
    <2> QED  BY <2>1, <2>2, <2>3 DEF Container, EmptyList, EmptyObject, NowhereApart
  <1>2. Is(d, "list") \/ Is(d, "object")
    BY FlatKinds
  <1>3. segs \in Seq(Segment)
    BY LeafParts
  <1>4. WriteValue(s, base, path, d) = r
    <2>1. EnsureContainer(s, base, path, isList) = a
      BY <1>1, EnsureSplit
    <2> QED  BY <2>1 DEF WriteValue
  <1>5. a = ReplaceChild(par, Last(p), n)
    BY DEF ReplaceChild, DropChild, DropNode
  <1> HIDE DEF a, n, isList, r, segs
  <1>6. /\ Lands(par.s, p, Container(isList), a)
        /\ a.ok => /\ Replaced(par.s, a.s, k, Last(p), a.key, n, Dropped(par.s, k, Last(p)))
                   /\ Reached(a.s, a.key)
                   /\ Parent(a.s, p, k) /\ ResolveFrom(a.s, ROOT, p) = a.key
    <2> DEFINE x == ReplaceChild(par, Last(p), n)
    <2>1. /\ Lands(par.s, p, BareDoc(n), x)
          /\ x.ok => /\ Replaced(par.s, x.s, k, Last(p), x.key, n, Dropped(par.s, k, Last(p)))
                     /\ Reached(x.s, x.key)
                     /\ Parent(x.s, p, k) /\ ResolveFrom(x.s, ROOT, p) = x.key
      BY <1>1, ReplaceLands
    <2> QED  BY <1>1, <1>5, <2>1
  <1>7. CASE ~a.ok
    <2>1. r = a
      BY <1>3, <1>7, PartsStop DEF r
    <2> QED  BY <1>4, <1>6, <1>7, <2>1 DEF Lands
  <1>8. CASE a.ok
    <2>1. Tree(a.s) /\ Fits(DocUnder(par.s, ROOT), p)
          /\ DocUnder(a.s, ROOT) = With(DocUnder(par.s, ROOT), p, Container(isList))
      BY <1>6, <1>8 DEF Lands
    <2>2. p \in Seq(Segment) /\ Reached(par.s, k) /\ Last(p) \in Segment
      BY ParentFits DEF Parent
    <2>3. \A tag \in Segment : ChildKey(a.s, a.key, tag) = NoKey
      BY <1>6, <1>8, <2>1, <2>2, ReplacedConfined
    <2>4. HasKind(a.s, a.key, ContainerKind(isList)) /\ a.key \in Nat /\ a.key # NoKey
      <3>1. n.kind = ContainerKind(isList)
        BY <1>1, EmptyNodeBare DEF n
      <3> QED  BY <1>6, <1>8, <3>1 DEF Replaced, HasKind, Live, NoKey
    <2>5. ResolveFrom(a.s, base, path) = a.key
      <3>1. CASE base = ROOT /\ path = p
        BY <1>6, <1>8, <3>1
      <3>2. CASE base = k /\ path = <<Last(p)>>
        <4>1. Len(path) = 1 /\ path[1] = Last(p)
          BY <3>2
        <4>2. /\ Walk(a.s, base, path)[0] = base
              /\ Walk(a.s, base, path)[1] =
                   IF Walk(a.s, base, path)[0] = NoKey THEN NoKey
                   ELSE ChildKey(a.s, Walk(a.s, base, path)[0], path[1])
          BY <4>1, WalkSteps
        <4>3. ChildKey(a.s, k, Last(p)) = a.key
          BY <1>6, <1>8, <2>2, <3>2 DEF Replaced
        <4>4. base # NoKey
          BY DEF NoKey
        <4> QED  BY <3>2, <4>1, <4>2, <4>3, <4>4 DEF ResolveFrom
      <3> QED  BY <3>1, <3>2
    <2> DEFINE new == a.key
    <2>6. new = a.key /\ Reached(a.s, new)
      BY <1>6, <1>8
    <2> HIDE DEF new
    <2>7. r.ok /\ Tree(r.s) /\ Confined(a.s, r.s, new) /\ DocUnder(r.s, new) = d
      <3> DEFINE R == WriteParts(a, base, path, d, Segments(d))[Len(Segments(d))]
      <3>1. /\ Is(d, "list") \/ Is(d, "object")
            /\ HasKind(a.s, new, ContainerKind(Is(d, "list")))
            /\ \A tag \in Segment : ChildKey(a.s, new, tag) = NoKey
            /\ new # NoKey /\ ResolveFrom(a.s, base, path) = new
        BY <1>2, <2>3, <2>4, <2>5, <2>6 DEF isList
      <3>2. R.ok /\ Tree(R.s) /\ Confined(a.s, R.s, new) /\ DocUnder(R.s, new) = d
        <4>1. /\ a.ok /\ Tree(a.s) /\ Reached(a.s, new) /\ base \in Nat /\ path \in Seq(Segment)
              /\ Flat(d)
          BY <1>8, <2>1, <2>6
        <4> QED  BY <3>1, <4>1, PartsLand
      <3> QED  BY <3>2 DEF r, segs
    <2>8. DocUnder(r.s, ROOT) = With(DocUnder(a.s, ROOT), p, DocUnder(r.s, new))
      <3> DEFINE t == r.s
                 u == a.s
      <3>1. Tree(t) /\ Tree(u) /\ new # NoKey /\ ResolveFrom(u, ROOT, p) = new /\ Confined(u, t, new)
        BY <1>6, <1>8, <2>1, <2>4, <2>6, <2>7
      <3> HIDE DEF t, u
      <3>2. DocUnder(t, ROOT) = With(DocUnder(u, ROOT), p, DocUnder(t, new))
        BY <2>2, <3>1, Lift
      <3> QED  BY <3>2 DEF t, u
    <2>9. With(DocUnder(a.s, ROOT), p, d) = With(DocUnder(par.s, ROOT), p, d)
      <3> DEFINE S0 == DocUnder(par.s, ROOT)
                 c == Container(isList)
      <3>1. Sane(S0, p) /\ Fits(S0, p) /\ d # Nowhere /\ c # Nowhere
        BY <1>1, <2>1, <2>2, DocSane, FlatKinds
      <3> HIDE DEF S0, c
      <3>2. With(With(S0, p, c), p, d) = With(S0, p, d)
        BY <2>2, <3>1, WithWith
      <3> QED  BY <2>1, <3>2 DEF S0, c
    <2> QED  BY <1>4, <2>1, <2>7, <2>8, <2>9 DEF Lands
  <1>9. a.ok \in BOOLEAN
    BY <1>6 DEF Lands
  <1> QED  BY <1>7, <1>8

(* A write that cannot find its parent has failed.                         *)
LEMMA ValueStops ==
  ASSUME NowhereApart, NEW s, NEW base, NEW path \in Seq(Segment), path # <<>>,
         ~EnsureParent(s, base, path).ok, ResolveFrom(s, base, path) = NoKey, NEW d, Flat(d)
  PROVE  WriteValue(s, base, path, d) = EnsureParent(s, base, path)
  <1> DEFINE par == EnsureParent(s, base, path)
  <1>1. CASE Is(d, "leaf")
    BY <1>1 DEF WriteValue, PutScalar, ReplaceChild
  <1>2. CASE ~Is(d, "leaf")
    <2>1. Is(d, "list") \in BOOLEAN
      BY DEF Is
    <2>2. EnsureContainer(s, base, path, Is(d, "list")) = par
      BY <2>1, EnsureSplit
    <2>3. Segments(d) \in Seq(Segment)
      BY LeafParts
    <2> HIDE DEF par
    <2>4. WriteParts(par, base, path, d, Segments(d))[Len(Segments(d))] = par
      BY <2>3, PartsStop DEF par
    <2> QED  BY <1>2, <2>2, <2>4 DEF WriteValue, par
  <1> QED  BY <1>1, <1>2

(* A document written where nothing is, its parent there.                  *)
LEMMA ValueLands ==
  ASSUME NowhereApart, NEW s, NEW base \in Nat, NEW path \in Seq(Segment), path # <<>>, NEW p,
         Last(path) = Last(p),
         NEW par, par = EnsureParent(s, base, path), par.ok, Tree(par.s),
         Parent(par.s, p, par.key),
         ResolveFrom(s, base, path) = NoKey, ChildKey(par.s, par.key, Last(p)) = NoKey,
         (base = ROOT /\ path = p) \/ (base = par.key /\ path = <<Last(p)>>),
         NEW d, Flat(d)
  PROVE  Lands(par.s, p, d, WriteValue(s, base, path, d))
  <1>1. CASE Is(d, "leaf")
    <2>1. d = Leaf(d.val) /\ d.val \in Values
      BY <1>1, FlatKinds
    <2>2. Lands(par.s, p, Leaf(d.val), PutScalar(s, base, path, d.val))
      BY <2>1, LeafLands
    <2> QED  BY <1>1, <2>1, <2>2 DEF WriteValue
  <1>2. CASE ~Is(d, "leaf")
    BY <1>2, ContainerLands
  <1> QED  BY <1>1, <1>2

(* Making sure of a container at the end of the empty path.                *)
LEMMA EnsureNone ==
  ASSUME NEW s, NEW base, NEW q \in Seq(Segment), NEW isList
  PROVE  Len(q) = 0 =>
           EnsureContainer(s, base, q, isList) =
             IF Live(s, base) THEN VerifyContainer(s, base, isList)
             ELSE Done(WriteNode(s, base, EmptyNode(isList)), base)
  <1>1. PICK g : EnsureContainer(s, base, q, isList) = g[Len(q)] /\ Ensures(g, s, base, q, isList)
    BY EnsureRuns
  <1>2. SUFFICES ASSUME Len(q) = 0
        PROVE  EnsureContainer(s, base, q, isList) =
                 IF Live(s, base) THEN VerifyContainer(s, base, isList)
                 ELSE Done(WriteNode(s, base, EmptyNode(isList)), base)
    OBVIOUS
  <1>3. Wanted(q, isList, 0) = isList
    BY <1>2 DEF Wanted
  <1> QED  BY <1>1, <1>2, <1>3 DEF Ensures, EnsureFirst

(* A document written as the whole of an empty table.                      *)
LEMMA ValueRoot ==
  ASSUME NowhereApart, NEW s, Tree(s), ~Live(s, ROOT), NEW d, Flat(d)
  PROVE  LET r == WriteValue(s, ROOT, <<>>, d)
         IN  r.ok = TRUE /\ Tree(r.s) /\ DocUnder(r.s, ROOT) = d
  <1>1. /\ \A tag \in Segment : ChildKey(s, ROOT, tag) = NoKey
        /\ ROOT \in Nat /\ Reached(s, ROOT) /\ ROOT # NoKey
    BY RootIsBase DEF Tree, Sound, Holder, HasKind
  <1>2. <<>> \in Seq(Segment) /\ ResolveFrom(s, ROOT, <<>>) = ROOT /\ Len(<<>>) = 0
    BY EmptyPath
  <1>3. CASE Is(d, "leaf")
    <2>1. d = Leaf(d.val) /\ d.val \in Values
      BY <1>3, FlatKinds
    <2> DEFINE n == LeafNode(d.val)
    <2>2. Bare(n) /\ n.kind # "packed" /\ BareDoc(n) = d
      BY <2>1, LeafNodeBare DEF BareDoc, LeafNode
    <2>3. CascadeDelete(s, ROOT) = CascadeDelete(s, ROOT)
      OBVIOUS
    <2> DEFINE u == CascadeDelete(s, ROOT)
               t == WriteNode(u, ROOT, n)
    <2>4. Tree(u) /\ ~Live(u, ROOT)
      BY DeleteRootEffect
    <2>5. /\ \A tag \in Segment : ChildKey(u, ROOT, tag) = NoKey
          /\ Reached(u, ROOT)
      BY <2>4, RootIsBase DEF Tree, Sound, Holder, HasKind
    <2>6. WriteValue(s, ROOT, <<>>, d) = Done(t, ROOT)
      BY <1>3 DEF WriteValue, PutScalar
    <2> HIDE DEF u, n
    <2>7. Tree(t) /\ DocUnder(t, ROOT) = BareDoc(n)
      BY <1>1, <2>2, <2>4, <2>5, OverwriteDoc
    <2> QED  BY <2>2, <2>6, <2>7 DEF Done
  <1>4. CASE ~Is(d, "leaf")
    <2> DEFINE isList == Is(d, "list")
               n == EmptyNode(isList)
               t == WriteNode(s, ROOT, n)
               a == Done(t, ROOT)
    <2>1. isList \in BOOLEAN /\ (Is(d, "list") \/ Is(d, "object"))
      BY <1>4, FlatKinds DEF Is
    <2>2. Bare(n) /\ n.kind # "packed" /\ n.kind = ContainerKind(isList)
      BY <2>1, EmptyNodeBare
    <2>3. EnsureContainer(s, ROOT, <<>>, isList) = a
      <3> HIDE DEF isList
      <3> DEFINE q == <<>>
      <3>1. q \in Seq(Segment) /\ Len(q) = 0
        BY <1>2
      <3> HIDE DEF q
      <3>2. EnsureContainer(s, ROOT, q, isList) = a
        BY <3>1, EnsureNone
      <3> QED  BY <3>2 DEF q
    <2> HIDE DEF n, isList
    <2>4. /\ Tree(t) /\ Reached(t, ROOT)
          /\ \A tag \in Segment : ChildKey(t, ROOT, tag) = NoKey
          /\ HasKind(t, ROOT, ContainerKind(isList))
      BY <1>1, <2>2, OverwriteDoc
    <2>5. ResolveFrom(t, ROOT, <<>>) = ROOT
      BY <2>4, EmptyPath
    <2>6. a.ok /\ a.s = t
      BY DEF Done
    <2> HIDE DEF a, t
    <2> DEFINE R == WriteParts(a, ROOT, <<>>, d, Segments(d))[Len(Segments(d))]
    <2>7. R.ok /\ Tree(R.s) /\ Confined(a.s, R.s, ROOT) /\ DocUnder(R.s, ROOT) = d
      <3>1. /\ Tree(a.s) /\ Reached(a.s, ROOT) /\ ResolveFrom(a.s, ROOT, <<>>) = ROOT
            /\ \A tag \in Segment : ChildKey(a.s, ROOT, tag) = NoKey
            /\ HasKind(a.s, ROOT, ContainerKind(Is(d, "list")))
        BY <2>4, <2>5, <2>6 DEF isList
      <3> DEFINE root == ROOT
                 path == <<>>
      <3>2. root = ROOT /\ root \in Nat /\ root # NoKey /\ path \in Seq(Segment) /\ path = <<>>
        BY <1>1, <1>2
      <3>3. ResolveFrom(a.s, root, path) = root
        BY <3>1
      <3> HIDE DEF root, path
      <3> DEFINE Q == WriteParts(a, root, path, d, Segments(d))[Len(Segments(d))]
      <3>4. Q.ok /\ Tree(Q.s) /\ Confined(a.s, Q.s, root) /\ DocUnder(Q.s, root) = d
        <4>1. Is(d, "list") \/ Is(d, "object")
          BY <2>1
        <4>2. /\ HasKind(a.s, root, ContainerKind(Is(d, "list"))) /\ Reached(a.s, root)
              /\ \A tag \in Segment : ChildKey(a.s, root, tag) = NoKey
          BY <3>1, <3>2
        <4>3. a.ok /\ Tree(a.s)
          BY <2>6, <3>1
        <4>6. root \in Nat /\ root # NoKey /\ path \in Seq(Segment)
          BY <3>2
        <4> HIDE DEF Q, R
        <4>4. Q = WriteParts(a, root, path, d, Segments(d))[Len(Segments(d))]
          BY DEF Q
        <4>5. LET r == WriteParts(a, root, path, d, Segments(d))[Len(Segments(d))]
              IN  r.ok /\ Tree(r.s) /\ Confined(a.s, r.s, root) /\ DocUnder(r.s, root) = d
          BY <3>3, <4>1, <4>2, <4>3, <4>6, PartsLand
        <4> QED  BY <4>4, <4>5
      <3> QED  BY <3>4 DEF root, path
    <2>8. WriteValue(s, ROOT, <<>>, d) = R
      BY <1>4, <2>3 DEF WriteValue, isList
    <2>9. R.ok = TRUE
      <3>1. Base(s, ROOT) /\ Unpacked(s, ROOT, <<>>)
        BY RootIsBase, EmptyPath
      <3>2. ValueDone(s, ROOT, <<>>, WriteValue(s, ROOT, <<>>, d))
        BY <1>2, <3>1, WriteValueEffect
      <3> QED  BY <2>7, <2>8, <3>2 DEF ValueDone, Good
    <2> QED  BY <2>7, <2>8, <2>9
  <1> QED  BY <1>3, <1>4

------------------------------------------------------------------------------

(* What a document may be after a write at p that does not fit, as in      *)
(* DocumentStore.                                                          *)
Stopped(d, p) ==
  {d} \cup {With(d, Prefix(p, i), Container(IsIndex(p[i + 1]))) :
              i \in {x \in 0..Len(p) - 1 : At(d, Prefix(p, x)) = Nowhere
                                            /\ Fits(d, Prefix(p, x))}}

(* A document in which a container at q has been made sure of.             *)
Made(d, q, isList) == IF At(d, q) = Nowhere THEN With(d, q, Container(isList)) ELSE d

(* What is possible after a write stopped above p's parent is possible     *)
(* after one stopped at p.                                                 *)
LEMMA StoppedFront ==
  ASSUME NEW d, NEW p \in Seq(Segment), p # <<>>
  PROVE  /\ Stopped(d, Front(p)) \subseteq Stopped(d, p)
         /\ d \in Stopped(d, p)
         /\ Fits(d, Front(p)) => Made(d, Front(p), IsIndex(Last(p))) \in Stopped(d, p)
  <1>1. /\ Front(p) \in Seq(Segment) /\ Len(Front(p)) = Len(p) - 1 /\ Len(p) \in Nat \ {0}
        /\ \A i \in 1..Len(p) - 1 : Front(p)[i] = p[i]
        /\ Last(p) = p[Len(p)]
    BY PathFront
  <1>2. d \in Stopped(d, p)
    BY DEF Stopped
  <1>3. ASSUME NEW i \in 0..Len(p) - 2 PROVE Prefix(Front(p), i) = Prefix(p, i)
    BY <1>1, <1>3 DEF Prefix
  <1>4. ASSUME NEW i \in 0..Len(Front(p)) - 1
        PROVE  i \in 0..Len(p) - 1 /\ Prefix(Front(p), i) = Prefix(p, i) /\ Front(p)[i + 1] = p[i + 1]
    <2>1. i \in 0..Len(p) - 2 /\ i + 1 \in 1..Len(p) - 1
      BY <1>1
    <2> QED  BY <1>1, <1>3, <2>1
  <1>5. Stopped(d, Front(p)) \subseteq Stopped(d, p)
    BY <1>4 DEF Stopped
  <1>6. ASSUME Fits(d, Front(p)), At(d, Front(p)) = Nowhere
        PROVE  With(d, Front(p), Container(IsIndex(Last(p)))) \in Stopped(d, p)
    <2> DEFINE i == Len(p) - 1
    <2>1. i \in 0..Len(p) - 1 /\ p[i + 1] = Last(p)
      BY <1>1
    <2>2. Prefix(p, i) = Front(p)
      BY DEF Prefix, Front
    <2> HIDE DEF i
    <2> QED  BY <1>6, <2>1, <2>2 DEF Stopped
  <1> QED  BY <1>2, <1>5, <1>6 DEF Made

(* Writing at p after its parent container has been made sure of is        *)
(* writing at p.                                                           *)
LEMMA MadeWith ==
  ASSUME NowhereApart, NEW d, NEW p \in Seq(Segment), p # <<>>, Sane(d, Front(p)),
         Fits(d, Front(p))
  PROVE  LET e == Made(d, Front(p), IsIndex(Last(p)))
         IN  /\ \A part : With(e, p, part) = With(d, p, part)
             /\ Fits(e, p) <=> Fits(d, p)
  <1> DEFINE q == Front(p)
             c == Container(IsIndex(Last(p)))
             e == With(d, q, c)
  <1>1. q \in Seq(Segment) /\ Last(p) \in Segment
    BY PathFront
  <1>2. CASE At(d, q) # Nowhere
    BY <1>2 DEF Made
  <1>3. CASE At(d, q) = Nowhere
    <2>1. c # Nowhere
      BY DEF Container, EmptyList, EmptyObject, NowhereApart
    <2>2. Grip(d, p) = c
      BY <1>3, ThroughFront
    <2>3. At(e, q) = c /\ Fits(e, q)
      <3> HIDE DEF c, q
      <3> QED  BY <1>1, <2>1, WithWith DEF q
    <2>4. Grip(e, p) = c
      <3> HIDE DEF e, c
      <3>1. Grip(e, p) = IF At(e, Front(p)) = Nowhere THEN Container(IsIndex(Last(p)))
                         ELSE At(e, Front(p))
        BY ThroughFront
      <3> QED  BY <2>1, <2>3, <3>1
    <2>5. ASSUME NEW part PROVE With(e, p, part) = With(d, p, part)
      <3> DEFINE y == SetKid(c, Last(p), part)
      <3>1. y # Nowhere
        BY DEF SetKid, NowhereApart
      <3>2. With(d, p, part) = With(d, q, y)
        BY <2>2, WithSnoc
      <3>3. With(e, p, part) = With(e, q, y)
        <4> HIDE DEF e, c
        <4>1. With(e, p, part) = With(e, Front(p), SetKid(Grip(e, p), Last(p), part))
          BY WithSnoc
        <4> QED  BY <2>4, <4>1
      <3>4. With(e, q, y) = With(d, q, y)
        <4> HIDE DEF c, q, y
        <4> QED  BY <1>1, <2>1, <3>1, WithWith DEF q
      <3> QED  BY <3>2, <3>3, <3>4
    <2>6. Fits(e, p) <=> Fits(d, p)
      <3>1. Fits(d, p) <=> Takes(c, Last(p))
        BY <2>2, WithSnoc
      <3>2. Fits(e, p) <=> Fits(e, q) /\ Takes(Grip(e, p), Last(p))
        <4> HIDE DEF e, c
        <4>1. Fits(e, p) <=> Fits(e, Front(p)) /\ Takes(Grip(e, p), Last(p))
          BY WithSnoc
        <4> QED  BY <4>1
      <3> QED  BY <2>3, <2>4, <3>1, <3>2
    <2>7. Made(d, q, IsIndex(Last(p))) = e
      BY <1>3 DEF Made
    <2> QED  BY <2>5, <2>6, <2>7
  <1> QED  BY <1>2, <1>3

(* What a write of part at p makes of the document: the old one with the   *)
(* part at p if it fits there, and otherwise what may be when it stops.    *)
Writes(s, p, part, r) ==
  /\ r.ok \in BOOLEAN /\ Tree(r.s)
  /\ r.ok <=> Fits(DocUnder(s, ROOT), p)
  /\ r.ok => DocUnder(r.s, ROOT) = With(DocUnder(s, ROOT), p, part)
  /\ ~r.ok => DocUnder(r.s, ROOT) \in Stopped(DocUnder(s, ROOT), p)

(* What making sure of a container at q does to the document.              *)
Makes(s, q, isList, u) ==
  LET d == DocUnder(s, ROOT)
  IN  /\ u.ok \in BOOLEAN /\ Tree(u.s)
      /\ u.ok => Fits(d, q) /\ DocUnder(u.s, ROOT) = Made(d, q, isList)
      /\ ~u.ok => /\ DocUnder(u.s, ROOT) \in Stopped(d, q)
                  /\ Fits(d, q) => /\ At(d, q) # Nowhere
                                   /\ ~Is(At(d, q), ContainerKind(isList))

(* A write below a parent just made sure of.                               *)
LEMMA WritesOn ==
  ASSUME NowhereApart, NEW s, Tree(s), NEW p \in Seq(Segment), p # <<>>,
         NEW up, Makes(s, Front(p), IsIndex(Last(p)), up),
         NEW part, NEW r, up.ok => Lands(up.s, p, part, r), ~up.ok => r = up
  PROVE  Writes(s, p, part, r)
  <1> DEFINE d == DocUnder(s, ROOT)
             q == Front(p)
  <1>1. q \in Seq(Segment) /\ Last(p) \in Segment
    BY PathFront
  <1>2. Sane(d, q)
    BY <1>1, DocSane
  <1>3. up.ok \in BOOLEAN
    BY DEF Makes
  <1>4. CASE up.ok
    <2> DEFINE e == Made(d, Front(p), IsIndex(Last(p)))
    <2>1. Fits(d, q) /\ DocUnder(up.s, ROOT) = e
      BY <1>4 DEF Makes
    <2>2. With(e, p, part) = With(d, p, part) /\ (Fits(e, p) <=> Fits(d, p)) /\ e \in Stopped(d, p)
      <3> HIDE DEF d
      <3> QED  BY <1>2, <2>1, MadeWith, StoppedFront
    <2> HIDE DEF e
    <2>3. Lands(up.s, p, part, r)
      BY <1>4
    <2> QED  BY <2>1, <2>2, <2>3 DEF Lands, Writes
  <1>5. CASE ~up.ok
    <2>1. /\ r = up /\ r.ok \in BOOLEAN /\ Tree(r.s) /\ DocUnder(r.s, ROOT) \in Stopped(d, q)
          /\ Fits(d, q) => /\ At(d, q) # Nowhere
                           /\ ~Is(At(d, q), ContainerKind(IsIndex(Last(p))))
      BY <1>5 DEF Makes
    <2> HIDE DEF d
    <2>2. DocUnder(r.s, ROOT) \in Stopped(d, p)
      BY <2>1, StoppedFront
    <2>3. ~Fits(d, p)
      <3>1. Fits(d, p) <=> Fits(d, Front(p)) /\ Takes(Grip(d, p), Last(p))
        BY WithSnoc
      <3>2. Grip(d, p) = IF At(d, Front(p)) = Nowhere THEN Container(IsIndex(Last(p)))
                         ELSE At(d, Front(p))
        BY ThroughFront
      <3> QED  BY <2>1, <3>1, <3>2 DEF Takes, ContainerKind, IsName
    <2> QED  BY <1>5, <2>1, <2>2, <2>3 DEF Writes, d
  <1> QED  BY <1>3, <1>4, <1>5

(* The document at an empty path, and a document written there.            *)
LEMMA AtNone ==
  ASSUME NEW d, NEW x
  PROVE  At(d, <<>>) = d /\ With(d, <<>>, x) = x /\ Fits(d, <<>>)
  <1> DEFINE p == <<>>
  <1>1. p \in Seq(Segment) /\ Len(p) = 0 /\ Len(p) <= 1 /\ p = <<>>
    BY EmptySeq
  <1> HIDE DEF p
  <1>2. At(d, p) = d
    BY <1>1, AlongShort DEF At
  <1>3. With(d, p, x) = x
    BY <1>1, WithShort
  <1>4. Fits(d, p)
    BY <1>1 DEF Fits
  <1> QED  BY <1>1, <1>2, <1>3, <1>4

(* The container is there: it is of the kind that is asked for, or not.    *)
LEMMA MakesThere ==
  ASSUME NowhereApart, NEW s, Tree(s), NEW q \in Seq(Segment), Unpacked(s, ROOT, q),
         NEW isList \in BOOLEAN, NEW m, ResolveFrom(s, ROOT, q) = m, m # NoKey, Live(s, m)
  PROVE  Makes(s, q, isList, EnsureContainer(s, ROOT, q, isList))
  <1> DEFINE u == EnsureContainer(s, ROOT, q, isList)
             d == DocUnder(s, ROOT)
  <1>1. q # <<>> \/ Live(s, ROOT)
    BY EmptyPath
  <1>2. u = VerifyContainer(s, m, isList)
    BY <1>1, EnsureVerifies
  <1>3. ~HasKind(s, m, "packed")
    <2>1. Len(q) \in 0..Len(q)
      BY LenProperties
    <2> QED  BY <2>1 DEF Unpacked, ResolveFrom
  <1>4. At(d, q) = DocUnder(s, m) /\ Reached(s, m) /\ Fits(d, q)
    BY <1>3, DocAtPath
  <1>5. At(d, q) # Nowhere
    BY <1>4, DocThere
  <1>6. /\ u.ok \in BOOLEAN /\ u.s = s
        /\ u.ok <=> HasKind(s, m, ContainerKind(isList))
    BY <1>2, <1>3 DEF VerifyContainer, Kind, HasKind, ContainerKind, Done, Error
  <1>7. Is(At(d, q), ContainerKind(isList)) <=> HasKind(s, m, ContainerKind(isList))
    BY <1>3, <1>4, DocIs DEF ContainerKind
  <1>8. d \in Stopped(d, q)
    BY DEF Stopped
  <1>9. Made(d, q, isList) = d
    BY <1>5 DEF Made
  <1> HIDE DEF u, d
  <1> QED  BY <1>4, <1>5, <1>6, <1>7, <1>8, <1>9 DEF Makes, d, u

(* The root of a table without one is made.                                *)
LEMMA MakesRoot ==
  ASSUME NowhereApart, NEW s, Tree(s), ~Live(s, ROOT), NEW q, q = <<>>, NEW isList \in BOOLEAN
  PROVE  Makes(s, q, isList, EnsureContainer(s, ROOT, q, isList))
  <1> DEFINE n == EmptyNode(isList)
             t == WriteNode(s, ROOT, n)
             c == Container(isList)
  <1>1. /\ \A tag \in Segment : ChildKey(s, ROOT, tag) = NoKey
        /\ ROOT \in Nat /\ Reached(s, ROOT)
    BY RootIsBase DEF Tree, Sound, Holder, HasKind
  <1>2. q \in Seq(Segment) /\ Len(q) = 0
    BY EmptyPath
  <1>3. EnsureContainer(s, ROOT, q, isList) = Done(t, ROOT)
    BY <1>2, EnsureNone
  <1>4. Bare(n) /\ n.kind # "packed" /\ BareDoc(n) = c
    <2>1. Bare(n) /\ n.kind = ContainerKind(isList)
      BY EmptyNodeBare
    <2> QED  BY <2>1 DEF BareDoc, ContainerKind
  <1>5. DocUnder(s, ROOT) = Nowhere
    BY DEF DocUnder
  <1>6. At(Nowhere, q) = Nowhere /\ With(Nowhere, q, c) = c /\ Fits(Nowhere, q)
    BY AtNone
  <1> HIDE DEF n, c
  <1>7. Tree(t) /\ DocUnder(t, ROOT) = c
    BY <1>1, <1>4, OverwriteDoc
  <1> HIDE DEF t
  <1>8. Made(Nowhere, q, isList) = c
    BY <1>6 DEF Made, c
  <1> DEFINE u == EnsureContainer(s, ROOT, q, isList)
  <1>9. u.ok = TRUE /\ u.s = t
    BY <1>3 DEF Done
  <1> HIDE DEF u
  <1>10. Fits(Nowhere, q) /\ DocUnder(u.s, ROOT) = Made(Nowhere, q, isList) /\ Tree(u.s)
    BY <1>6, <1>7, <1>8, <1>9
  <1>11. Makes(s, q, isList, u)
    BY <1>5, <1>9, <1>10 DEF Makes
  <1> QED  BY <1>11 DEF u

(* Nothing is at a path that leads to no key.                              *)
LEMMA NothingAt ==
  ASSUME NowhereApart, NEW s, Tree(s), NEW q \in Seq(Segment), Unpacked(s, ROOT, q),
         ResolveFrom(s, ROOT, q) = NoKey
  PROVE  At(DocUnder(s, ROOT), q) = Nowhere
  <1>1. Len(q) \in 0..Len(q) /\ \A i \in 0..Len(q) - 1 : i \in 0..Len(q)
    BY LenProperties
  <1>2. Along(DocUnder(s, ROOT), q)[Len(q)] = DocUnder(s, Walk(s, ROOT, q)[Len(q)])
    BY <1>1, WalkKeepsToDocument DEF Unpacked
  <1>3. DocUnder(s, NoKey) = Nowhere
    BY NoDoc DEF Tree, Sound
  <1> QED  BY <1>2, <1>3 DEF At, ResolveFrom

(* The parent a write has made sure of.                                    *)
LEMMA ParentEnsured ==
  ASSUME NEW s, Tree(s), NEW p \in Seq(Segment), p # <<>>, Unpacked(s, ROOT, Front(p)),
         EnsureParent(s, ROOT, p).ok
  PROVE  LET up == EnsureParent(s, ROOT, p)
         IN  /\ Tree(up.s) /\ Parent(up.s, p, up.key) /\ Extends(s, up.s)
             /\ ChildKey(up.s, up.key, Last(p)) = ResolveFrom(s, ROOT, p)
  <1> DEFINE up == EnsureParent(s, ROOT, p)
  <1>1. /\ Tree(up.s)
        /\ Holder(up.s, up.key, Last(p)) /\ Extends(s, up.s)
        /\ ResolveFrom(up.s, ROOT, Front(p)) = up.key
        /\ ChildKey(up.s, up.key, Last(p)) = ResolveFrom(s, ROOT, p)
    BY EnsureParentEffect DEF Good
  <1> HIDE DEF up
  <1>2. up.key # NoKey
    BY <1>1, HolderIsKey
  <1> QED  BY <1>1, <1>2 DEF Parent, up

(* The container is not there: it is added to the parent that is made sure *)
(* of first.                                                               *)
LEMMA MakesBelow ==
  ASSUME NowhereApart, NEW s, Tree(s), NEW q \in Seq(Segment), Unpacked(s, ROOT, q),
         NEW isList \in BOOLEAN, ResolveFrom(s, ROOT, q) = NoKey, q # <<>>,
         Makes(s, Front(q), IsIndex(Last(q)), EnsureParent(s, ROOT, q))
  PROVE  Makes(s, q, isList, EnsureContainer(s, ROOT, q, isList))
  <1> DEFINE up == EnsureParent(s, ROOT, q)
             n == EmptyNode(isList)
             a == EnsureContainer(s, ROOT, q, isList)
             d == DocUnder(s, ROOT)
             c == Container(isList)
  <1>1. a = IF up.ok THEN AddChild(up.s, up.key, Last(q), n) ELSE up
    BY EnsureSplit
  <1>2. Bare(n) /\ BareDoc(n) = c
    <2>1. Bare(n) /\ n.kind = ContainerKind(isList)
      BY EmptyNodeBare
    <2> QED  BY <2>1 DEF BareDoc, ContainerKind
  <1>3. ASSUME up.ok PROVE Lands(up.s, q, c, a)
    <2>1. Unpacked(s, ROOT, Front(q))
      BY UnpackedFront, RootIsBase
    <2>2. Tree(up.s) /\ Parent(up.s, q, up.key) /\ ChildKey(up.s, up.key, Last(q)) = NoKey
      BY <1>3, <2>1, ParentEnsured
    <2>3. a = ReplaceChild(up, Last(q), n)
      BY <1>1, <1>3, <2>2 DEF ReplaceChild, DropChild, DropNode
    <2> HIDE DEF up, n, a, c
    <2> DEFINE k == up.key
               t == up.s
    <2>4. Tree(t) /\ Parent(t, q, k) /\ up.s = t /\ up.key = k /\ up.ok
      BY <1>3, <2>2
    <2> HIDE DEF k, t
    <2>5. Lands(t, q, BareDoc(n), ReplaceChild(up, Last(q), n))
      BY <1>2, <2>4, ReplaceLands
    <2> QED  BY <1>2, <2>3, <2>4, <2>5
  <1>4. ~up.ok => a = up
    BY <1>1
  <1>5. Makes(s, Front(q), IsIndex(Last(q)), up)
    OBVIOUS
  <1> HIDE DEF up, a
  <1>6. Writes(s, q, c, a)
    BY <1>3, <1>4, <1>5, WritesOn
  <1>7. At(d, q) = Nowhere
    BY NothingAt
  <1>8. Made(d, q, isList) = With(d, q, c)
    BY <1>7 DEF Made
  <1> HIDE DEF d, c
  <1> QED  BY <1>6, <1>7, <1>8 DEF Writes, Makes, a, d

(* Making sure of a container, at a path of any length.                    *)
LEMMA EnsureMakes ==
  ASSUME NowhereApart, NEW s, Tree(s)
  PROVE  \A q \in Seq(Segment), isList \in BOOLEAN :
           Unpacked(s, ROOT, q) => Makes(s, q, isList, EnsureContainer(s, ROOT, q, isList))
  <1> DEFINE P(n) == \A q \in Seq(Segment), isList \in BOOLEAN :
                       Len(q) = n /\ Unpacked(s, ROOT, q) =>
                         Makes(s, q, isList, EnsureContainer(s, ROOT, q, isList))
             S == {n \in Nat : P(n)}
  <1>1. ASSUME NEW q \in Seq(Segment), NEW isList \in BOOLEAN, Unpacked(s, ROOT, q),
               ResolveFrom(s, ROOT, q) # NoKey
        PROVE  Makes(s, q, isList, EnsureContainer(s, ROOT, q, isList))
    <2> DEFINE m == ResolveFrom(s, ROOT, q)
    <2>1. m = ResolveFrom(s, ROOT, q) /\ m # NoKey /\ Unpacked(s, ROOT, q)
      BY <1>1
    <2> HIDE DEF m
    <2>2. CASE Live(s, m)
      BY <2>1, <2>2, MakesThere
    <2>3. CASE ~Live(s, m)
      <3>1. q = <<>>
        <4>1. SUFFICES ASSUME q # <<>> PROVE FALSE
          OBVIOUS
        <4>2. m = ChildKey(s, ResolveFrom(s, ROOT, Front(q)), Last(q))
              /\ ResolveFrom(s, ROOT, Front(q)) # NoKey
          BY <2>1, <4>1, ResolveLast
        <4>3. Front(q) \in Seq(Segment) /\ Last(q) \in Segment
          BY <4>1, PathFront
        <4>4. ResolveFrom(s, ROOT, Front(q)) \in Nat
          <5>1. Sound(s) /\ ROOT \in Nat
            BY RootIsBase
          <5>2. Len(Front(q)) \in 0..Len(Front(q))
            BY <4>3, LenProperties
          <5> QED  BY <4>2, <4>3, <5>1, <5>2, WalkType DEF ResolveFrom
        <4> QED  BY <2>1, <2>3, <4>2, <4>3, <4>4 DEF Tree, Live
      <3>2. m = ROOT
        BY <2>1, <3>1, EmptyPath
      <3> QED  BY <2>3, <3>1, <3>2, MakesRoot
    <2> QED  BY <2>2, <2>3
  <1>2. 0 \in S
    <2>1. ASSUME NEW q \in Seq(Segment), NEW isList \in BOOLEAN, Len(q) = 0, Unpacked(s, ROOT, q)
          PROVE  Makes(s, q, isList, EnsureContainer(s, ROOT, q, isList))
      <3>1. q = <<>>
        BY <2>1, EmptySeq
      <3>2. ResolveFrom(s, ROOT, q) # NoKey
        BY <3>1, EmptyPath, RootIsBase
      <3> QED  BY <1>1, <2>1, <3>2
    <2> QED  BY <2>1
  <1>3. ASSUME NEW n \in Nat, n \in S PROVE n + 1 \in S
    <2>1. ASSUME NEW q \in Seq(Segment), NEW isList \in BOOLEAN, Len(q) = n + 1,
                 Unpacked(s, ROOT, q)
          PROVE  Makes(s, q, isList, EnsureContainer(s, ROOT, q, isList))
      <3>1. CASE ResolveFrom(s, ROOT, q) # NoKey
        BY <1>1, <2>1, <3>1
      <3>2. CASE ResolveFrom(s, ROOT, q) = NoKey
        <4>1. q # <<>>
          BY <2>1, LenProperties, EmptySeq
        <4>2. /\ Front(q) \in Seq(Segment) /\ Len(Front(q)) = n /\ Unpacked(s, ROOT, Front(q))
              /\ IsIndex(Last(q)) \in BOOLEAN
          BY <2>1, <4>1, PathFront, UnpackedFront, RootIsBase, IsIndexType
        <4>3. Makes(s, Front(q), IsIndex(Last(q)), EnsureParent(s, ROOT, q))
          <5>1. P(n)
            BY <1>3
          <5> HIDE DEF S
          <5>2. Makes(s, Front(q), IsIndex(Last(q)),
                      EnsureContainer(s, ROOT, Front(q), IsIndex(Last(q))))
            BY <4>2, <5>1
          <5> QED  BY <5>2 DEF EnsureParent
        <4> QED  BY <2>1, <3>2, <4>1, <4>3, MakesBelow
      <3> QED  BY <3>1, <3>2
    <2> QED  BY <2>1
  <1>4. Nat \subseteq S
    <2> HIDE DEF S
    <2> QED  BY <1>2, <1>3, SetInduction
  <1>5. ASSUME NEW q \in Seq(Segment), NEW isList \in BOOLEAN, Unpacked(s, ROOT, q)
        PROVE  Makes(s, q, isList, EnsureContainer(s, ROOT, q, isList))
    <2>1. Len(q) \in Nat
      BY LenProperties
    <2>2. P(Len(q))
      <3> HIDE DEF P
      <3> QED  BY <1>4, <2>1
    <2> QED  BY <1>5, <2>2
  <1> QED  BY <1>5

(* The table with the child of k at seg, and all below it, removed.        *)
Cut(s, u, k, seg, gone) ==
  /\ k \in Nat /\ k \notin gone
  /\ DOMAIN u.node = DOMAIN s.node \ gone
  /\ \A m \in DOMAIN u.node : m # k => u.node[m] = s.node[m]
  /\ \A m, kind : m \notin gone => (HasKind(u, m, kind) <=> HasKind(s, m, kind))
  /\ \A m \in Nat, tag \in Segment :
       m # k => ChildKey(u, m, tag) = IF m \in gone THEN NoKey ELSE ChildKey(s, m, tag)
  /\ \A tag \in Segment :
       ChildKey(u, k, tag) =
         IF IsName(seg) THEN IF tag = seg THEN NoKey ELSE ChildKey(s, k, tag)
         ELSE IF IsIndex(tag) /\ tag.index >= seg.index
              THEN ChildKey(s, k, Index(tag.index + 1)) ELSE ChildKey(s, k, tag)
  /\ \A m \in DOMAIN s.node : Reached(s, m) /\ m \notin gone => Reached(u, m)

(* Removing what is at a path cuts it from its parent.                     *)
LEMMA RemoveCut ==
  ASSUME NEW s, Tree(s), NEW p \in Seq(Segment), p # <<>>,
         ResolveFrom(s, ROOT, p) # NoKey
  PROVE  LET r == RemovePath(s, p)
             k == ResolveFrom(s, ROOT, Front(p))
         IN  /\ r.ok = TRUE /\ Tree(r.s) /\ Parent(s, p, k)
             /\ ChildKey(s, k, Last(p)) = ResolveFrom(s, ROOT, p)
             /\ Cut(s, r.s, k, Last(p), Visited(s, {ChildKey(s, k, Last(p))}))
  <1> DEFINE r == RemovePath(s, p)
             k == ResolveFrom(s, ROOT, Front(p))
             seg == Last(p)
             c == ResolveFrom(s, ROOT, p)
             t == CascadeDelete(s, ChildKey(s, k, seg))
             gone == Visited(s, {ChildKey(s, k, seg)})
  <1>1. Sound(s) /\ Shape(s) /\ ROOT \in Nat /\ Reached(s, ROOT)
    BY RootIsBase
  <1>2. Front(p) \in Seq(Segment) /\ seg \in Segment /\ k # NoKey /\ c = ChildKey(s, k, seg)
    BY PathFront, ResolveLast
  <1>3. Reached(s, k)
    <2>1. Len(Front(p)) \in 0..Len(Front(p)) /\ Walk(s, ROOT, Front(p))[Len(Front(p))] = k
      BY <1>2, LenProperties DEF ResolveFrom
    <2> QED  BY <1>1, <1>2, <2>1, WalkReached
  <1>4. /\ k \in Nat /\ k \notin gone
        /\ Pruned(s, t, gone)
        /\ TreeBut(t, k, seg)
        /\ \A m : Reached(s, m) /\ m \notin gone => Reached(t, m)
    BY <1>2, <1>3, DeleteChildEffect
  <1>5. Holder(s, k, seg)
    BY <1>1, <1>2, <1>4 DEF Sound
  <1>6. Holder(t, k, seg)
    BY <1>4, <1>5 DEF Pruned, Holder
  <1>7. ResolveFrom(t, ROOT, Front(p)) = k
    <2>1. Len(Front(p)) \in 0..Len(Front(p))
      BY <1>2, LenProperties
    <2>2. \A i \in 0..Len(Front(p)) : Walk(t, ROOT, Front(p))[i] = Walk(s, ROOT, Front(p))[i]
      BY <1>1, <1>2, <1>4, WayKept
    <2> QED  BY <2>1, <2>2 DEF ResolveFrom
  <1>8. r = DetachChild(t, k, seg)
    <2>1. r = CutAt(t, p)
      BY <1>2 DEF RemovePath
    <2> HIDE DEF t, r
    <2> QED  BY <1>2, <1>7, <2>1 DEF CutAt, Unlinked
  <1> HIDE DEF t, gone, r
  <1>9. Shape(t)
    BY <1>4 DEF TreeBut, Sound
  <1>10. r.ok /\ Shape(r.s) /\ Unhooked(t, r.s, k, seg)
    BY <1>2, <1>4, <1>6, <1>8, <1>9, DetachEffect
  <1>11. Tree(r.s) /\ \A m \in DOMAIN t.node : Reached(t, m) => Reached(r.s, m)
    BY <1>2, <1>4, <1>6, <1>10, UnhookedTree
  <1>12. r.ok = TRUE
    BY RemoveEffect DEF r
  <1>13. Cut(s, r.s, k, seg, gone)
    <2>1. /\ DOMAIN r.s.node = DOMAIN s.node \ gone
          /\ \A m \in DOMAIN r.s.node : m # k => r.s.node[m] = s.node[m]
          /\ \A m, kind : m \notin gone => (HasKind(r.s, m, kind) <=> HasKind(s, m, kind))
      BY <1>4, <1>10 DEF Pruned, Unhooked
    <2>2. \A m \in Nat, tag \in Segment :
            m # k => ChildKey(r.s, m, tag) = IF m \in gone THEN NoKey ELSE ChildKey(s, m, tag)
      BY <1>4, <1>10 DEF Pruned, Unhooked
    <2>3. \A tag \in Segment : ChildKey(t, k, tag) = ChildKey(s, k, tag)
      BY <1>4 DEF Pruned
    <2>4. ASSUME NEW tag \in Segment
          PROVE  ChildKey(r.s, k, tag) =
                   IF IsName(seg) THEN IF tag = seg THEN NoKey ELSE ChildKey(s, k, tag)
                   ELSE IF IsIndex(tag) /\ tag.index >= seg.index
                        THEN ChildKey(s, k, Index(tag.index + 1)) ELSE ChildKey(s, k, tag)
      <3>1. ChildKey(r.s, k, tag) =
              IF IsName(seg) THEN IF tag = seg THEN NoKey ELSE ChildKey(t, k, tag)
              ELSE IF IsIndex(tag) /\ tag.index >= seg.index
                   THEN ChildKey(t, k, Index(tag.index + 1)) ELSE ChildKey(t, k, tag)
        BY <1>10 DEF Unhooked
      <3>2. IsIndex(tag) => Index(tag.index + 1) \in Segment
        BY SegmentKinds, IndexSegment
      <3> QED  BY <2>3, <3>1, <3>2
    <2>5. \A m \in DOMAIN s.node : Reached(s, m) /\ m \notin gone => Reached(r.s, m)
      BY <1>4, <1>11 DEF Pruned
    <2> QED  BY <1>4, <2>1, <2>2, <2>4, <2>5 DEF Cut
  <1>14. Parent(s, p, k)
    BY <1>2, <1>5 DEF Parent
  <1> QED  BY <1>2, <1>11, <1>12, <1>13, <1>14 DEF r, gone

(* It changes nothing outside what is at and below the parent.             *)
LEMMA CutConfined ==
  ASSUME NEW s, Tree(s), NEW u, Tree(u), NEW k, Reached(s, k), NEW seg \in Segment,
         ChildKey(s, k, seg) # NoKey,
         NEW gone, gone = Visited(s, {ChildKey(s, k, seg)}), Cut(s, u, k, seg, gone)
  PROVE  Confined(s, u, k)
  <1> DEFINE V == Visited(s, {k})
  <1>1. Sound(s) /\ Sound(u) /\ k \in Nat /\ Shape(s)
    BY ReachedType DEF Tree, Sound
  <1>2. V \in SUBSET Nat /\ k \in V
    BY <1>1, VisitedType, VisitedFrom
  <1>3. gone \subseteq V
    <2>1. ChildKey(s, k, seg) \in V
      BY <1>1, <1>2, VisitedChild
    <2>2. {k} \in SUBSET Nat /\ {ChildKey(s, k, seg)} \subseteq Visited(s, {k})
      BY <1>1, <2>1
    <2> QED  BY <1>1, <2>2, VisitedNested
  <1>4. ASSUME NEW tag \in Segment, ChildKey(u, k, tag) # NoKey
        PROVE  \E x \in Segment : ChildKey(u, k, tag) = ChildKey(s, k, x)
    <2>1. IsIndex(tag) => Index(tag.index + 1) \in Segment
      BY SegmentKinds, IndexSegment
    <2> QED  BY <1>4, <2>1 DEF Cut
  <1> HIDE DEF V
  <1>5. ASSUME NEW m \in DOMAIN s.node, m \notin V PROVE SameNode(s, u, m)
    <2>1. m # k /\ m \notin gone /\ m \in Nat
      BY <1>1, <1>2, <1>3, <1>5 DEF Shape
    <2> QED  BY <2>1 DEF SameNode, Cut
  <1>6. Visited(u, {k}) \subseteq V
    <2>1. ASSUME NEW y \in V, NEW tag \in Segment, ChildKey(u, y, tag) # NoKey
          PROVE  ChildKey(u, y, tag) \in V
      <3>1. y \in Nat
        BY <1>2
      <3>2. CASE y = k
        <4>1. PICK x \in Segment : ChildKey(u, k, tag) = ChildKey(s, k, x)
          BY <1>4, <2>1, <3>2
        <4> QED  BY <1>1, <1>2, <2>1, <3>2, <4>1, VisitedChild DEF V
      <3>3. CASE y # k
        <4>1. ChildKey(u, y, tag) = ChildKey(s, y, tag)
          BY <2>1, <3>1, <3>3 DEF Cut
        <4> QED  BY <1>1, <2>1, <3>1, <4>1, VisitedChild DEF V
      <3> QED  BY <3>2, <3>3
    <2>2. V \in SUBSET Nat /\ {k} \subseteq V
      BY <1>2
    <2> QED  BY <1>1, <2>1, <2>2, VisitedWithin
  <1> QED  BY <1>5, <1>6 DEF Confined, V

(* What stays a child of k keeps its document.                             *)
LEMMA CutBeside ==
  ASSUME NowhereApart, NEW s, Tree(s), NEW u, Tree(u), NEW k, Reached(s, k), NEW seg \in Segment,
         ChildKey(s, k, seg) # NoKey,
         NEW gone, gone = Visited(s, {ChildKey(s, k, seg)}), Cut(s, u, k, seg, gone),
         NEW tag \in Segment, tag # seg
  PROVE  DocUnder(u, ChildKey(s, k, tag)) = DocUnder(s, ChildKey(s, k, tag))
  <1> DEFINE c == ChildKey(s, k, tag)
  <1>1. Sound(s) /\ Sound(u) /\ Shape(s) /\ Shape(u) /\ k \in Nat
    BY ReachedType DEF Tree, Sound
  <1>2. CASE c = NoKey
    BY <1>1, <1>2, NoDoc
  <1>3. CASE c # NoKey
    <2>1. Reached(s, c) /\ c \in DOMAIN s.node /\ c \in Nat
      BY <1>1, <1>3, ReachedChild, ReachedType DEF Tree
    <2>2. Visited(s, {c}) \cap gone = {}
      BY <1>1, <1>3, SiblingsApart
    <2>3. k \notin Visited(s, {c}) /\ c \in Visited(s, {c})
      BY <1>1, <1>3, NoCycle, VisitedFrom
    <2>4. Reached(u, c)
      BY <2>1, <2>2, <2>3 DEF Cut
    <2>5. Visited(s, {c}) \subseteq DOMAIN s.node
      <3>1. DOMAIN s.node \in SUBSET Nat /\ {c} \subseteq DOMAIN s.node
        BY <1>1, <2>1 DEF Shape
      <3> HIDE DEF c
      <3> QED  BY <1>1, <3>1, VisitedWithin DEF Tree
    <2>6. \A m \in Visited(s, {c}) : SameNode(s, u, m)
      <3>1. SUFFICES ASSUME NEW m \in Visited(s, {c}) PROVE SameNode(s, u, m)
        OBVIOUS
      <3>2. m # k /\ m \notin gone /\ m \in DOMAIN s.node /\ m \in Nat
        BY <1>1, <2>2, <2>3, <2>5 DEF Shape
      <3> QED  BY <3>2 DEF SameNode, Cut
    <2> HIDE DEF c
    <2>7. DocUnder(u, c) = DocUnder(s, c)
      BY <2>1, <2>4, <2>6, FrameDocs
    <2> QED  BY <2>7 DEF c
  <1> QED  BY <1>2, <1>3

(* The document of the parent loses that part.                             *)
LEMMA CutDoc ==
  ASSUME NowhereApart, NEW s, Tree(s), NEW u, Tree(u), NEW k, Reached(s, k), NEW seg \in Segment,
         Holder(s, k, seg), ChildKey(s, k, seg) # NoKey,
         NEW gone, gone = Visited(s, {ChildKey(s, k, seg)}), Cut(s, u, k, seg, gone)
  PROVE  /\ DocUnder(u, k) = DropKid(DocUnder(s, k), seg)
         /\ Reached(u, k) /\ Holder(u, k, seg)
  <1> DEFINE a == DocUnder(u, k)
             b == DocUnder(s, k)
             e == DropKid(b, seg)
  <1>1. Shape(s) /\ Shape(u) /\ k \in DOMAIN s.node /\ k \in Nat
    BY ReachedType DEF Tree, Sound, Holder, HasKind, Live
  <1>2. /\ Reached(u, k) /\ Holder(u, k, seg) /\ Live(s, k) /\ Live(u, k)
        /\ ~HasKind(s, k, "packed") /\ ~HasKind(u, k, "packed")
    <2>1. Reached(u, k) /\ Live(s, k) /\ Live(u, k)
      BY <1>1 DEF Cut, Live
    <2>2. Holder(u, k, seg)
      BY DEF Cut, Holder
    <2> QED  BY <2>1, <2>2 DEF Holder, HasKind
  <1>3. /\ Proper(a) /\ Proper(b)
        /\ Is(a, "object") <=> HasKind(u, k, "object")
        /\ Is(a, "list") <=> HasKind(u, k, "list")
        /\ Is(b, "object") <=> HasKind(s, k, "object")
        /\ Is(b, "list") <=> HasKind(s, k, "list")
    BY <1>2, DocIs
  <1>4. \A tag \in Segment : Kid(a, tag) = DocUnder(u, ChildKey(u, k, tag))
    BY <1>2, KidOf
  <1>5. \A tag \in Segment : Kid(b, tag) = DocUnder(s, ChildKey(s, k, tag))
    BY <1>2, KidOf
  <1>6. Kid(b, seg) # Nowhere
    BY ChildTaken
  <1> HIDE DEF a, b
  <1>7. /\ Proper(e) /\ SameKind(b, e)
        /\ \A tag \in Segment :
             Kid(e, tag) =
               IF IsName(seg) THEN IF tag = seg THEN Nowhere ELSE Kid(b, tag)
               ELSE IF IsIndex(tag) /\ tag.index >= seg.index
                    THEN Kid(b, Index(tag.index + 1)) ELSE Kid(b, tag)
    BY <1>3, <1>6, KidDrop
  <1> HIDE DEF e
  <1>8. SameKind(b, a) /\ (Is(a, "object") \/ Is(a, "list"))
    <2>1. HasKind(u, k, "object") <=> HasKind(s, k, "object")
      BY DEF Cut
    <2>2. HasKind(u, k, "list") <=> HasKind(s, k, "list")
      BY DEF Cut
    <2> QED  BY <1>2, <1>3, <2>1, <2>2 DEF SameKind, Holder
  <1>9. ASSUME NEW tag \in Segment PROVE Kid(a, tag) = Kid(e, tag)
    <2>1. \A x \in Segment : x # seg => DocUnder(u, ChildKey(s, k, x)) = Kid(b, x)
      BY <1>5, CutBeside
    <2>2. DocUnder(u, NoKey) = Nowhere
      BY <1>1, NoDoc
    <2>3. CASE IsName(seg)
      BY <1>4, <1>7, <2>1, <2>2, <2>3 DEF Cut
    <2>4. CASE ~IsName(seg)
      <3>1. IsIndex(seg) /\ seg.index \in Nat /\ seg = Index(seg.index)
        BY <2>4, SegmentKinds DEF IsName
      <3>2. CASE IsIndex(tag) /\ tag.index >= seg.index
        <4> DEFINE x == Index(tag.index + 1)
        <4>1. tag.index \in Nat /\ tag.index + 1 \in Nat /\ tag.index + 1 # seg.index
          BY <3>1, <3>2, SegmentKinds
        <4>2. x \in Segment /\ x.index = tag.index + 1
          BY <4>1, IndexSegment
        <4>3. x # seg
          BY <4>1, <4>2
        <4>4. ChildKey(u, k, tag) = ChildKey(s, k, x) /\ Kid(e, tag) = Kid(b, x)
          BY <1>7, <2>4, <3>2 DEF Cut
        <4> QED  BY <1>4, <2>1, <4>2, <4>3, <4>4
      <3>3. CASE ~(IsIndex(tag) /\ tag.index >= seg.index)
        <4>1. tag # seg
          BY <3>1, <3>3
        <4>2. ChildKey(u, k, tag) = ChildKey(s, k, tag) /\ Kid(e, tag) = Kid(b, tag)
          BY <1>7, <2>4, <3>3 DEF Cut
        <4> QED  BY <1>4, <2>1, <4>1, <4>2
      <3> QED  BY <3>2, <3>3
    <2> QED  BY <2>3, <2>4
  <1>10. a = e
    <2>1. (Is(a, "object") /\ Is(e, "object")) \/ (Is(a, "list") /\ Is(e, "list"))
      BY <1>7, <1>8 DEF SameKind
    <2> QED  BY <1>3, <1>7, <1>9, <2>1, SameKids
  <1> QED  BY <1>2, <1>10 DEF a, b, e

(* A part removed and one put back in its place, where none moves up.      *)
LEMMA DropSet ==
  ASSUME NowhereApart, NEW d, Proper(d), NEW seg \in Segment, Kid(d, seg) # Nowhere,
         IsIndex(seg) => Kid(d, Index(seg.index + 1)) = Nowhere, NEW x, x # Nowhere
  PROVE  LET e == DropKid(d, seg)
         IN  /\ Takes(e, seg) /\ Takes(d, seg)
             /\ SetKid(e, seg, x) = SetKid(d, seg, x)
  <1> DEFINE e == DropKid(d, seg)
  <1>1. /\ Proper(e) /\ SameKind(d, e)
        /\ \A tag \in Segment :
             Kid(e, tag) =
               IF IsName(seg) THEN IF tag = seg THEN Nowhere ELSE Kid(d, tag)
               ELSE IF IsIndex(tag) /\ tag.index >= seg.index
                    THEN Kid(d, Index(tag.index + 1)) ELSE Kid(d, tag)
    BY KidDrop
  <1> HIDE DEF e
  <1>2. CASE IsName(seg)
    <2>1. Opens(d, seg)
      BY <1>2 DEF Kid, Opens, IsName
    <2>2. Takes(d, seg) /\ Takes(e, seg)
      BY <1>1, <1>2, <2>1 DEF Takes, Opens, SameKind, IsName
    <2>3. Is(d, "object") /\ Is(e, "object")
      BY <1>2, <2>2 DEF Takes
    <2>4. SetKid(e, seg, x) = SetKid(d, seg, x)
      <3> DEFINE f == SetKid(e, seg, x)
                 g == SetKid(d, seg, x)
      <3>1. /\ Proper(f) /\ SameKind(e, f)
            /\ \A tag \in Segment : Kid(f, tag) = IF tag = seg THEN x ELSE Kid(e, tag)
        BY <1>1, <2>2, KidSet
      <3>2. /\ Proper(g) /\ SameKind(d, g)
            /\ \A tag \in Segment : Kid(g, tag) = IF tag = seg THEN x ELSE Kid(d, tag)
        BY <2>2, KidSet
      <3> HIDE DEF f, g
      <3>3. \A tag \in Segment : Kid(f, tag) = Kid(g, tag)
        BY <1>1, <1>2, <3>1, <3>2
      <3>4. Is(f, "object") /\ Is(g, "object")
        BY <2>3, <3>1, <3>2 DEF SameKind
      <3> QED  BY <3>1, <3>2, <3>3, <3>4, SameKids DEF f, g
    <2> QED  BY <2>2, <2>4 DEF e
  <1>3. CASE ~IsName(seg)
    <2>1. IsIndex(seg) /\ seg.index \in Nat /\ seg = Index(seg.index)
      BY <1>3, SegmentKinds DEF IsName
    <2>2. Is(d, "list") /\ seg.index < Len(d.items)
      BY <1>3, <2>1 DEF Kid
    <2>3. PICK S : \E f \in Seq(S) : Nowhere \notin S /\ d = List(f) /\ f = d.items
      BY <2>2, ProperIs
    <2>4. PICK f \in Seq(S) : Nowhere \notin S /\ d = List(f) /\ f = d.items
      BY <2>3
    <2>5. /\ Len(f) \in Nat
          /\ \A tag \in Segment :
               Kid(d, tag) = IF IsIndex(tag) /\ tag.index < Len(f) THEN f[tag.index + 1]
                             ELSE Nowhere
      BY <2>4, ProperList, LenProperties
    <2>6. ASSUME NEW i \in Nat PROVE Index(i) \in Segment /\ IsIndex(Index(i)) /\ Index(i).index = i
      BY IndexSegment
    <2>7. \A i \in Nat : Kid(d, Index(i)) # Nowhere <=> i < Len(f)
      <3>1. ASSUME NEW i \in Nat PROVE Kid(d, Index(i)) # Nowhere <=> i < Len(f)
        <4>1. Kid(d, Index(i)) = IF i < Len(f) THEN f[i + 1] ELSE Nowhere
          BY <2>5, <2>6
        <4>2. i < Len(f) => f[i + 1] \in S
          <5>1. i < Len(f) => i + 1 \in 1..Len(f)
            BY <2>5
          <5> QED  BY <2>4, <5>1, ElementOfSeq
        <4> QED  BY <2>4, <4>1, <4>2
      <3> QED  BY <3>1
    <2>8. Len(f) = seg.index + 1
      BY <2>1, <2>2, <2>4, <2>5, <2>7
    <2>9. ASSUME NEW tag \in Segment, IsIndex(tag), tag.index >= seg.index
          PROVE  Kid(e, tag) = Nowhere /\ (tag # seg => Kid(d, tag) = Nowhere)
      <3>1. tag.index \in Nat /\ tag = Index(tag.index) /\ tag.index + 1 \in Nat
        BY <2>9, SegmentKinds
      <3>2. Kid(e, tag) = Kid(d, Index(tag.index + 1))
        BY <1>1, <1>3, <2>9
      <3>3. Kid(d, Index(tag.index + 1)) = Nowhere
        BY <2>1, <2>7, <2>8, <2>9, <3>1
      <3>4. tag # seg => tag.index > seg.index
        BY <2>1, <2>9, <3>1
      <3>5. tag # seg => Kid(d, Index(tag.index)) = Nowhere
        BY <2>1, <2>7, <2>8, <3>1, <3>4
      <3> QED  BY <3>1, <3>2, <3>3, <3>5
    <2>10. Is(e, "list")
      BY <1>1, <2>2 DEF SameKind
    <2>11. Takes(d, seg)
      BY <1>3, <2>1, <2>2, <2>4, <2>5 DEF Takes
    <2>12. Takes(e, seg)
      <3>1. seg.index = 0 \/ Kid(e, Index(seg.index - 1)) # Nowhere
        <4>1. CASE seg.index # 0
          <5> DEFINE j == seg.index - 1
          <5>1. j \in Nat /\ j < Len(f) /\ ~(j >= seg.index)
            BY <2>1, <2>8, <4>1
          <5> HIDE DEF j
          <5>2. Kid(e, Index(j)) = Kid(d, Index(j))
            BY <1>1, <1>3, <2>6, <5>1
          <5> QED  BY <2>7, <5>1, <5>2 DEF j
        <4> QED  BY <4>1
      <3>2. Opens(e, seg)
        BY <2>1, <2>10 DEF Opens
      <3> QED  BY <1>1, <3>1, <3>2, TakesIs
    <2>13. SetKid(e, seg, x) = SetKid(d, seg, x)
      <3> DEFINE a == SetKid(e, seg, x)
                 g == SetKid(d, seg, x)
      <3>1. /\ Proper(a) /\ SameKind(e, a)
            /\ \A tag \in Segment : Kid(a, tag) = IF tag = seg THEN x ELSE Kid(e, tag)
        BY <1>1, <2>12, KidSet
      <3>2. /\ Proper(g) /\ SameKind(d, g)
            /\ \A tag \in Segment : Kid(g, tag) = IF tag = seg THEN x ELSE Kid(d, tag)
        BY <2>11, KidSet
      <3> HIDE DEF a, g
      <3>3. ASSUME NEW tag \in Segment PROVE Kid(a, tag) = Kid(g, tag)
        <4>1. CASE IsIndex(tag) /\ tag.index >= seg.index
          BY <2>9, <3>1, <3>2, <4>1
        <4>2. CASE ~(IsIndex(tag) /\ tag.index >= seg.index)
          BY <1>1, <1>3, <3>1, <3>2, <4>2
        <4> QED  BY <4>1, <4>2
      <3>4. Is(a, "list") /\ Is(g, "list")
        BY <2>2, <2>10, <3>1, <3>2 DEF SameKind
      <3> QED  BY <3>1, <3>2, <3>3, <3>4, SameKids DEF a, g
    <2> QED  BY <2>11, <2>12, <2>13 DEF e
  <1> QED  BY <1>2, <1>3

(* Writing where something was removed, and nothing moved up, is writing   *)
(* over it.                                                                *)
LEMMA WithWithout ==
  ASSUME NowhereApart, NEW d, NEW p \in Seq(Segment), Sane(d, p),
         p # <<>> => Fits(d, Front(p)),
         p # <<>> /\ IsIndex(Last(p)) =>
           Kid(At(d, Front(p)), Index(Last(p).index + 1)) = Nowhere,
         NEW x, x # Nowhere
  PROVE  LET e == Without(d, p)
         IN  /\ With(e, p, x) = With(d, p, x)
             /\ Fits(e, p) <=> Fits(d, p)
  <1> DEFINE e == Without(d, p)
  <1>1. CASE At(d, p) = Nowhere
    BY <1>1 DEF Without
  <1>2. CASE p = <<>>
    BY <1>2, AtNone
  <1>3. CASE At(d, p) # Nowhere /\ p # <<>>
    <2> DEFINE q == Front(p)
               seg == Last(p)
               part == At(d, q)
               y == DropKid(part, seg)
    <2>1. q \in Seq(Segment) /\ seg \in Segment /\ Len(q) = Len(p) - 1 /\ Len(p) \in Nat \ {0}
          /\ seg = p[Len(p)] /\ \A i \in 1..Len(p) - 1 : q[i] = p[i]
      BY <1>3, PathFront
    <2>2. \A i \in 0..Len(q) : Along(d, q)[i] = Along(d, p)[i]
      <3>1. Len(q) \in 0..Len(p) /\ Len(q) <= Len(q) /\ \A i \in 1..Len(q) : p[i] = q[i]
        BY <2>1
      <3> HIDE DEF q
      <3>2. \A i \in 0..Len(q) : Along(d, p)[i] = Along(d, q)[i]
        BY <2>1, <3>1, AlongFront
      <3> QED  BY <3>2
    <2>3. Sane(d, q)
      BY <2>1, <2>2 DEF Sane
    <2>4. At(d, p) = Kid(part, seg)
      <3>1. Along(d, p)[Len(p)] = Kid(Along(d, p)[Len(p) - 1], p[Len(p)])
        BY <2>1, AlongSteps
      <3>2. Along(d, q)[Len(q)] = Along(d, p)[Len(p) - 1]
        BY <2>1, <2>2
      <3> QED  BY <2>1, <3>1, <3>2 DEF At
    <2>5. part # Nowhere
      <3>1. Kid(Nowhere, seg) = Nowhere
        BY NowhereBelow
      <3> QED  BY <1>3, <2>4, <3>1
    <2>6. Proper(part)
      <3>1. Len(q) \in 0..Len(q)
        BY <2>1
      <3> QED  BY <2>3, <2>5, <3>1 DEF Sane, At
    <2>7. y # Nowhere
      BY DEF DropKid, NowhereApart
    <2>8. e = With(d, q, y)
      BY <1>3 DEF Without
    <2>9. IsIndex(seg) => Kid(part, Index(seg.index + 1)) = Nowhere
      BY <1>3
    <2>10. Fits(d, q)
      BY <1>3
    <2>11. /\ Takes(y, seg) /\ Takes(part, seg)
           /\ SetKid(y, seg, x) = SetKid(part, seg, x)
      <3> HIDE DEF part, seg
      <3> QED  BY <1>3, <2>1, <2>4, <2>6, <2>9, DropSet
    <2> DEFINE z == SetKid(part, seg, x)
    <2>12. z # Nowhere
      BY DEF SetKid, NowhereApart
    <2>13. Grip(d, p) = part
      BY <1>3, <2>5, ThroughFront
    <2>14. /\ With(d, p, x) = With(d, q, z)
           /\ Fits(d, p) <=> Fits(d, q) /\ Takes(part, seg)
      BY <1>3, <2>13, WithSnoc
    <2>15. /\ At(e, q) = y /\ Fits(e, q)
           /\ With(e, q, z) = With(d, q, z)
      <3> HIDE DEF e, q, y, z
      <3> QED  BY <2>1, <2>3, <2>7, <2>8, <2>10, <2>12, WithWith
    <2> HIDE DEF e
    <2>16. Grip(e, p) = y
      <3>1. Grip(e, p) = IF At(e, Front(p)) = Nowhere THEN Container(IsIndex(Last(p)))
                         ELSE At(e, Front(p))
        BY <1>3, ThroughFront
      <3> QED  BY <2>7, <2>15, <3>1
    <2>17. /\ With(e, p, x) = With(e, Front(p), SetKid(Grip(e, p), Last(p), x))
           /\ Fits(e, p) <=> Fits(e, Front(p)) /\ Takes(Grip(e, p), Last(p))
      BY <1>3, WithSnoc
    <2>18. With(e, p, x) = With(d, p, x)
      BY <2>11, <2>14, <2>15, <2>16, <2>17
    <2>19. Fits(e, p) <=> Fits(d, p)
      BY <2>10, <2>11, <2>14, <2>15, <2>16, <2>17
    <2> QED  BY <2>18, <2>19 DEF e
  <1> QED  BY <1>1, <1>2, <1>3

(* The last step of reading at a path.                                     *)
LEMMA AtSnoc ==
  ASSUME NEW d, NEW p \in Seq(Segment), p # <<>>
  PROVE  At(d, p) = Kid(At(d, Front(p)), Last(p))
  <1> DEFINE q == Front(p)
             n == Len(p)
  <1>1. q \in Seq(Segment) /\ Len(q) = n - 1 /\ n \in Nat \ {0} /\ Last(p) = p[n]
        /\ \A i \in 1..n - 1 : p[i] = q[i]
    BY PathFront
  <1>2. Along(d, p)[n] = Kid(Along(d, p)[n - 1], p[n])
    BY <1>1, AlongSteps
  <1> DEFINE m == n - 1
  <1>3. m \in 0..Len(p) /\ m <= Len(q) /\ \A i \in 1..m : p[i] = q[i]
    BY <1>1
  <1>4. m \in 0..m
    BY <1>1
  <1> HIDE DEF m, q
  <1>5. Along(d, p)[m] = Along(d, q)[m]
    BY <1>1, <1>3, <1>4, AlongFront
  <1> QED  BY <1>1, <1>2, <1>5 DEF At, m, q

(* What is at a path that leads to a key fits there.                       *)
LEMMA LeadsFits ==
  ASSUME NowhereApart, NEW s, Tree(s), NEW p \in Seq(Segment), ResolveFrom(s, ROOT, p) # NoKey
  PROVE  Fits(DocUnder(s, ROOT), p)
  <1> DEFINE k == ResolveFrom(s, ROOT, p)
  <1>1. k # NoKey /\ ResolveFrom(s, ROOT, p) = k /\ Confined(s, s, k)
    BY ConfinedSelf
  <1> HIDE DEF k
  <1> QED  BY <1>1, Lift

(* What is below a parent is at the path that leads there.                 *)
LEMMA KidAtPath ==
  ASSUME NowhereApart, NEW s, Tree(s), NEW p, NEW k, Parent(s, p, k)
  PROVE  /\ At(DocUnder(s, ROOT), Front(p)) = DocUnder(s, k)
         /\ At(DocUnder(s, ROOT), p) = Kid(DocUnder(s, k), Last(p))
         /\ Fits(DocUnder(s, ROOT), Front(p))
  <1>1. /\ p \in Seq(Segment) /\ p # <<>> /\ Front(p) \in Seq(Segment)
        /\ k # NoKey /\ ResolveFrom(s, ROOT, Front(p)) = k /\ ~HasKind(s, k, "packed")
    BY ParentFits DEF Parent
  <1> DEFINE q == Front(p)
  <1>2. q \in Seq(Segment) /\ ResolveFrom(s, ROOT, q) = k
    BY <1>1
  <1> HIDE DEF q
  <1>3. At(DocUnder(s, ROOT), q) = DocUnder(s, k) /\ Fits(DocUnder(s, ROOT), q)
    BY <1>1, <1>2, DocAtPath
  <1>4. At(DocUnder(s, ROOT), p) = Kid(At(DocUnder(s, ROOT), Front(p)), Last(p))
    BY <1>1, AtSnoc
  <1> QED  BY <1>3, <1>4 DEF q

(* A removal below a parent: the part is dropped from the parent, and the  *)
(* way to it is as it was.                                                 *)
LEMMA RemoveBelow ==
  ASSUME NowhereApart, NEW s, Tree(s), NEW p \in Seq(Segment), p # <<>>,
         ResolveFrom(s, ROOT, p) # NoKey
  PROVE  LET r == RemovePath(s, p)
             d == DocUnder(s, ROOT)
             k == ResolveFrom(s, ROOT, Front(p))
         IN  /\ r.ok = TRUE /\ Tree(r.s) /\ Parent(s, p, k) /\ Parent(r.s, p, k)
             /\ At(d, p) # Nowhere
             /\ DocUnder(r.s, ROOT) = Without(d, p)
             /\ Fits(d, Front(p))
             /\ ResolveFrom(r.s, ROOT, p) =
                  IF IsName(Last(p)) THEN NoKey
                  ELSE ChildKey(s, k, Index(Last(p).index + 1))
  <1> DEFINE r == RemovePath(s, p)
             d == DocUnder(s, ROOT)
             k == ResolveFrom(s, ROOT, Front(p))
             seg == Last(p)
             q == Front(p)
             t == r.s
             gone == Visited(s, {ChildKey(s, k, seg)})
  <1>1. /\ r.ok = TRUE /\ Tree(t) /\ Parent(s, p, k)
        /\ ChildKey(s, k, seg) = ResolveFrom(s, ROOT, p)
        /\ Cut(s, t, k, seg, gone)
    BY RemoveCut
  <1>2. k # NoKey /\ ResolveFrom(s, ROOT, q) = k /\ Holder(s, k, seg)
    BY <1>1 DEF Parent
  <1>3. ChildKey(s, k, seg) # NoKey
    BY <1>1
  <1>4. gone = Visited(s, {ChildKey(s, k, seg)})
    OBVIOUS
  <1> HIDE DEF r, k, t, gone
  <1>5. Reached(s, k) /\ k \in Nat /\ seg \in Segment /\ q \in Seq(Segment)
    BY <1>1, ParentFits
  <1> HIDE DEF seg, q
  <1>6. Confined(s, t, k)
    BY <1>1, <1>3, <1>4, <1>5, CutConfined
  <1>7. /\ DocUnder(t, k) = DropKid(DocUnder(s, k), seg)
        /\ Reached(t, k) /\ Holder(t, k, seg)
    BY <1>1, <1>2, <1>3, <1>4, <1>5, CutDoc
  <1>8. DocUnder(t, ROOT) = With(d, q, DropKid(DocUnder(s, k), seg)) /\ Fits(d, q)
    BY <1>1, <1>2, <1>5, <1>6, <1>7, Lift
  <1>9. At(d, q) = DocUnder(s, k) /\ At(d, p) = Kid(DocUnder(s, k), seg)
    BY <1>1, KidAtPath DEF q, seg
  <1>10. Kid(DocUnder(s, k), seg) # Nowhere
    BY <1>3, <1>5, ChildTaken
  <1>11. DocUnder(t, ROOT) = Without(d, p)
    <2> HIDE DEF d
    <2>1. Without(d, p) = With(d, Front(p), DropKid(At(d, Front(p)), Last(p)))
      BY <1>9, <1>10 DEF Without
    <2> QED  BY <1>8, <1>9, <2>1 DEF q, seg
  <1>12. ResolveFrom(t, ROOT, q) = k
    BY <1>1, <1>2, <1>5, <1>6, StillLeads
  <1>13. Parent(t, p, k)
    BY <1>2, <1>7, <1>12 DEF Parent, q, seg
  <1>14. ResolveFrom(t, ROOT, p) = ChildKey(t, k, seg)
    BY <1>2, <1>12, ResolveLast DEF q, seg
  <1>15. ChildKey(t, k, seg) = IF IsName(seg) THEN NoKey ELSE ChildKey(s, k, Index(seg.index + 1))
    <2>1. seg.index \in Nat \/ IsName(seg)
      BY <1>5, SegmentKinds DEF IsName
    <2>2. ChildKey(t, k, seg) =
            IF IsName(seg) THEN IF seg = seg THEN NoKey ELSE ChildKey(s, k, seg)
            ELSE IF IsIndex(seg) /\ seg.index >= seg.index
                 THEN ChildKey(s, k, Index(seg.index + 1)) ELSE ChildKey(s, k, seg)
      BY <1>1, <1>5 DEF Cut
    <2> QED  BY <2>1, <2>2 DEF IsName
  <1> QED  BY <1>1, <1>8, <1>9, <1>10, <1>11, <1>13, <1>14, <1>15 DEF r, t, k, q, seg, d

(* The root removed.                                                       *)
LEMMA RemoveRoot ==
  ASSUME NEW s, Tree(s), NEW p, p = <<>>
  PROVE  LET r == RemovePath(s, p)
         IN  r.ok = TRUE /\ Tree(r.s) /\ ~Live(r.s, ROOT) /\ DocUnder(r.s, ROOT) = Nowhere
  <1> DEFINE t == CascadeDelete(s, ROOT)
  <1>1. ResolveFrom(s, ROOT, p) = ROOT /\ ROOT # NoKey
    BY EmptyPath, RootIsBase
  <1>2. RemovePath(s, p) = Done(t, NoKey)
    BY <1>1 DEF RemovePath, CutAt, Unlinked
  <1>3. Tree(t) /\ ~Live(t, ROOT)
    BY DeleteRootEffect
  <1> HIDE DEF t
  <1>4. DocUnder(t, ROOT) = Nowhere
    BY <1>3 DEF DocUnder
  <1> QED  BY <1>2, <1>3, <1>4 DEF Done

(* Nothing is removed where nothing is.                                    *)
LEMMA RemoveNothing ==
  ASSUME NowhereApart, NEW s, Tree(s), NEW p \in Seq(Segment), WayClear(s, p),
         ResolveFrom(s, ROOT, p) = NoKey
  PROVE  /\ RemovePath(s, p) = Done(s, NoKey)
         /\ At(DocUnder(s, ROOT), p) = Nowhere
         /\ Without(DocUnder(s, ROOT), p) = DocUnder(s, ROOT)
         /\ Unpacked(s, ROOT, p) /\ p # <<>>
  <1>1. p # <<>>
    BY EmptyPath, RootIsBase
  <1>2. Unpacked(s, ROOT, p)
    <2>1. Unpacked(s, ROOT, Front(p)) /\ ~HasKind(s, NoKey, "packed")
      BY <1>1, NoKeyIsNoNode, RootIsBase DEF WayClear
    <2> QED  BY <1>1, <2>1, UnpackedFront, RootIsBase
  <1>3. At(DocUnder(s, ROOT), p) = Nowhere
    BY <1>2, NothingAt
  <1> QED  BY <1>1, <1>2, <1>3 DEF Without, RemovePath

(* A removal does to the document what its path says.                      *)
LEMMA RemoveDoc ==
  ASSUME NowhereApart, NEW s, Tree(s), NEW p \in Seq(Segment), WayClear(s, p)
  PROVE  LET r == RemovePath(s, p)
         IN  /\ r.ok = TRUE /\ Tree(r.s)
             /\ DocUnder(r.s, ROOT) = Without(DocUnder(s, ROOT), p)
  <1> DEFINE d == DocUnder(s, ROOT)
  <1>1. CASE ResolveFrom(s, ROOT, p) = NoKey
    BY <1>1, RemoveNothing DEF Done
  <1>2. CASE p = <<>>
    <2>1. At(d, p) = d
      BY <1>2, AtNone
    <2>2. Without(d, p) = Nowhere
      <3> HIDE DEF d
      <3> QED  BY <1>2, <2>1 DEF Without
    <2> QED  BY <1>2, <2>2, RemoveRoot
  <1>3. CASE p # <<>> /\ ResolveFrom(s, ROOT, p) # NoKey
    BY <1>3, RemoveBelow
  <1> QED  BY <1>1, <1>2, <1>3

(* The table after a removal that makes room: nothing is at the path, and  *)
(* a write there comes to what it would have come to before.               *)
Wiped(s, p, t) ==
  /\ Tree(t) /\ Unpacked(t, ROOT, p)
  /\ p # <<>> => ResolveFrom(t, ROOT, p) = NoKey
  /\ p = <<>> => ~Live(t, ROOT)
  /\ \A x : x # Nowhere => With(DocUnder(t, ROOT), p, x) = With(DocUnder(s, ROOT), p, x)
  /\ Fits(DocUnder(t, ROOT), p) <=> Fits(DocUnder(s, ROOT), p)
  /\ ~Fits(DocUnder(s, ROOT), p) => DocUnder(t, ROOT) = DocUnder(s, ROOT)

(* A removal of what shifts nothing makes room.                            *)
LEMMA RemoveWipes ==
  ASSUME NowhereApart, NEW s, Tree(s), NEW p \in Seq(Segment), WayClear(s, p), Unshifted(s, p)
  PROVE  Wiped(s, p, RemovePath(s, p).s)
  <1> DEFINE r == RemovePath(s, p)
             t == r.s
             d == DocUnder(s, ROOT)
             e == DocUnder(t, ROOT)
  <1>1. Unpacked(t, ROOT, p) /\ Tree(t)
    BY RemoveEffect DEF Good
  <1>2. CASE ResolveFrom(s, ROOT, p) = NoKey
    <2>1. r = Done(s, NoKey) /\ p # <<>>
      BY <1>2, RemoveNothing
    <2>2. t = s
      BY <2>1 DEF Done
    <2> HIDE DEF t
    <2> QED  BY <1>1, <1>2, <2>1, <2>2 DEF Wiped, t
  <1>3. CASE p = <<>>
    <2>1. ~Live(t, ROOT) /\ e = Nowhere
      BY <1>3, RemoveRoot
    <2>2. \A f, x : With(f, p, x) = x /\ Fits(f, p)
      BY <1>3, AtNone
    <2> HIDE DEF t
    <2> QED  BY <1>1, <1>3, <2>1, <2>2 DEF Wiped, t
  <1>4. CASE p # <<>> /\ ResolveFrom(s, ROOT, p) # NoKey
    <2> DEFINE k == ResolveFrom(s, ROOT, Front(p))
               seg == Last(p)
    <2>1. /\ Parent(s, p, k) /\ e = Without(d, p) /\ Fits(d, Front(p))
          /\ ResolveFrom(t, ROOT, p) = IF IsName(seg) THEN NoKey
                                       ELSE ChildKey(s, k, Index(seg.index + 1))
      BY <1>4, RemoveBelow
    <2>2. IsIndex(seg) => ChildKey(s, k, Index(seg.index + 1)) = NoKey
      BY <1>4 DEF Unshifted
    <2>3. ResolveFrom(t, ROOT, p) = NoKey
      BY <2>1, <2>2 DEF IsName
    <2>4. seg \in Segment /\ Reached(s, k) /\ ~HasKind(s, k, "packed")
      BY <2>1, ParentFits
    <2>5. At(d, Front(p)) = DocUnder(s, k)
      BY <2>1, KidAtPath
    <2>6. ASSUME IsIndex(seg) PROVE Kid(At(d, Front(p)), Index(seg.index + 1)) = Nowhere
      <3>1. seg.index \in Nat
        BY <2>4, <2>6, SegmentKinds
      <3> DEFINE tag == Index(seg.index + 1)
      <3>2. tag \in Segment
        BY <3>1, IndexSegment
      <3>3. ChildKey(s, k, tag) = NoKey
        BY <2>2, <2>6
      <3> HIDE DEF tag, k, d
      <3>4. Kid(DocUnder(s, k), tag) = DocUnder(s, ChildKey(s, k, tag))
        BY <2>4, <3>2, KidOf
      <3>5. DocUnder(s, NoKey) = Nowhere
        BY NoDoc DEF Tree, Sound
      <3> QED  BY <2>5, <3>3, <3>4, <3>5 DEF tag
    <2>7. Sane(d, p)
      BY DocSane
    <2>8. Fits(d, p)
      BY <1>4, LeadsFits
    <2>9. /\ \A x : x # Nowhere => With(e, p, x) = With(d, p, x)
          /\ Fits(e, p) <=> Fits(d, p)
      <3> HIDE DEF d, e, k
      <3>1. \A x : x # Nowhere => With(Without(d, p), p, x) = With(d, p, x)
                                  /\ (Fits(Without(d, p), p) <=> Fits(d, p))
        BY <2>1, <2>6, <2>7, WithWithout DEF seg
      <3>2. Leaf(0) # Nowhere
        BY DEF NowhereApart
      <3>3. Fits(Without(d, p), p) <=> Fits(d, p)
        BY <3>1, <3>2
      <3>4. e = Without(d, p)
        BY <2>1
      <3>5. \A x : x # Nowhere => With(Without(d, p), p, x) = With(d, p, x)
        BY <3>1
      <3> QED  BY <3>3, <3>4, <3>5
    <2> HIDE DEF t, k
    <2> QED  BY <1>1, <1>4, <2>3, <2>8, <2>9 DEF Wiped, t
  <1> QED  BY <1>2, <1>3, <1>4

(* A write below the parent that it makes sure of: what is left to show is *)
(* what it does under that parent.                                         *)
LEMMA WritesUnder ==
  ASSUME NowhereApart, NEW s, Tree(s), NEW p \in Seq(Segment), p # <<>>, WayClear(s, p),
         NEW up, up = EnsureParent(s, ROOT, p), NEW part, NEW r, ~up.ok => r = up,
         up.ok /\ Tree(up.s) /\ Parent(up.s, p, up.key)
           /\ ChildKey(up.s, up.key, Last(p)) = ResolveFrom(s, ROOT, p)
           => Lands(up.s, p, part, r)
  PROVE  Writes(s, p, part, r)
  <1>1. /\ Front(p) \in Seq(Segment) /\ IsIndex(Last(p)) \in BOOLEAN
        /\ Unpacked(s, ROOT, Front(p))
    BY PathFront, IsIndexType DEF WayClear
  <1>2. Makes(s, Front(p), IsIndex(Last(p)), up)
    <2>1. Makes(s, Front(p), IsIndex(Last(p)),
                EnsureContainer(s, ROOT, Front(p), IsIndex(Last(p))))
      BY <1>1, EnsureMakes
    <2> QED  BY <2>1 DEF EnsureParent
  <1>3. ASSUME up.ok PROVE Lands(up.s, p, part, r)
    <2>1. EnsureParent(s, ROOT, p).ok
      BY <1>3
    <2>2. /\ Tree(up.s) /\ Parent(up.s, p, up.key)
          /\ ChildKey(up.s, up.key, Last(p)) = ResolveFrom(s, ROOT, p)
      BY <1>1, <2>1, ParentEnsured
    <2> QED  BY <1>3, <2>2
  <1> QED  BY <1>2, <1>3, WritesOn

(* A leaf put at the root, whatever was there.                             *)
LEMMA RootWritten ==
  ASSUME NowhereApart, NEW s, Tree(s), NEW p, p = <<>>, NEW v \in Values
  PROVE  Writes(s, p, Leaf(v), PutScalar(s, ROOT, p, v))
  <1> DEFINE t == CascadeDelete(s, ROOT)
             n == LeafNode(v)
             u == WriteNode(t, ROOT, n)
  <1>1. Tree(t) /\ ~Live(t, ROOT)
    BY DeleteRootEffect
  <1>2. PutScalar(s, ROOT, p, v) = Done(u, ROOT)
    BY DEF PutScalar
  <1>3. Bare(n) /\ n.kind # "packed" /\ BareDoc(n) = Leaf(v)
    BY LeafNodeBare DEF BareDoc, LeafNode
  <1> HIDE DEF t, n
  <1>4. /\ \A tag \in Segment : ChildKey(t, ROOT, tag) = NoKey
        /\ ROOT \in Nat /\ Reached(t, ROOT)
    BY <1>1, RootIsBase DEF Tree, Sound, Holder, HasKind
  <1>5. Tree(u) /\ DocUnder(u, ROOT) = Leaf(v)
    BY <1>1, <1>3, <1>4, OverwriteDoc
  <1> HIDE DEF u
  <1> DEFINE d == DocUnder(s, ROOT)
  <1>6. With(d, p, Leaf(v)) = Leaf(v) /\ Fits(d, p)
    BY AtNone
  <1> HIDE DEF d
  <1> DEFINE r == PutScalar(s, ROOT, p, v)
  <1>7. r.ok = TRUE /\ r.s = u
    BY <1>2 DEF Done
  <1> HIDE DEF r
  <1>8. Writes(s, p, Leaf(v), r)
    BY <1>5, <1>6, <1>7 DEF Writes, d
  <1> QED  BY <1>8 DEF r

(* tree::put_scalar_rel writes a leaf.                                     *)
LEMMA PutWrites ==
  ASSUME NowhereApart, NEW s, Tree(s), NEW p \in Seq(Segment), WayClear(s, p), NEW v \in Values
  PROVE  Writes(s, p, Leaf(v), PutScalar(s, ROOT, p, v))
  <1>1. CASE p = <<>>
    BY <1>1, RootWritten
  <1>2. CASE p # <<>>
    <2> DEFINE up == EnsureParent(s, ROOT, p)
               r == PutScalar(s, ROOT, p, v)
    <2>1. r = ReplaceChild(up, Last(p), LeafNode(v))
      BY <1>2 DEF PutScalar
    <2>2. ~up.ok => r = up
      BY <2>1 DEF ReplaceChild
    <2>3. up = EnsureParent(s, ROOT, p)
      OBVIOUS
    <2>4. ASSUME up.ok, Tree(up.s), Parent(up.s, p, up.key)
          PROVE  Lands(up.s, p, Leaf(v), r)
      <3> HIDE DEF up
      <3> QED  BY <1>2, <2>3, <2>4, LeafLands
    <2> HIDE DEF up, r
    <2>5. Writes(s, p, Leaf(v), r)
      BY <1>2, <2>2, <2>3, <2>4, WritesUnder
    <2> QED  BY <2>5 DEF r
  <1> QED  BY <1>1, <1>2

(* tree::store_packed writes a packed entity.                              *)
LEMMA StorePackedWrites ==
  ASSUME NowhereApart, NEW s, Tree(s), NEW p \in Seq(Segment), p # <<>>, WayClear(s, p),
         NEW d, Flat(d)
  PROVE  Writes(s, p, d, StorePacked(s, p, d))
  <1> DEFINE up == EnsureParent(s, ROOT, p)
             r == StorePackedUnder(up, Last(p), d)
  <1>1. StorePacked(s, p, d) = r
    BY DEF StorePacked
  <1>2. ~up.ok => r = up
    BY DEF StorePackedUnder, ReplaceChild
  <1>3. up = EnsureParent(s, ROOT, p)
    OBVIOUS
  <1> HIDE DEF up
  <1>4. ASSUME up.ok, Tree(up.s), Parent(up.s, p, up.key)
        PROVE  Lands(up.s, p, d, r)
    <2> DEFINE t == up.s
               k == up.key
    <2>1. Tree(t) /\ Parent(t, p, k) /\ up.ok /\ up.s = t /\ up.key = k
      BY <1>4
    <2> HIDE DEF t, k, r
    <2>2. Lands(t, p, d, r)
      BY <2>1, StorePackedLands DEF r
    <2> QED  BY <2>1, <2>2
  <1> HIDE DEF r
  <1>5. Writes(s, p, d, r)
    BY <1>2, <1>3, <1>4, WritesUnder
  <1> QED  BY <1>1, <1>5

(* write_value where nothing is, below the root.                           *)
LEMMA ValueWrites ==
  ASSUME NowhereApart, NEW s, Tree(s), NEW p \in Seq(Segment), p # <<>>, Unpacked(s, ROOT, p),
         ResolveFrom(s, ROOT, p) = NoKey, NEW d, Flat(d)
  PROVE  Writes(s, p, d, WriteValue(s, ROOT, p, d))
  <1> DEFINE up == EnsureParent(s, ROOT, p)
             r == WriteValue(s, ROOT, p, d)
  <1>1. WayClear(s, p)
    BY UnpackedFront, RootIsBase DEF WayClear
  <1>2. ~up.ok => r = up
    BY ValueStops
  <1>3. up = EnsureParent(s, ROOT, p)
    OBVIOUS
  <1> HIDE DEF up
  <1>4. ASSUME up.ok, Tree(up.s), Parent(up.s, p, up.key),
               ChildKey(up.s, up.key, Last(p)) = ResolveFrom(s, ROOT, p)
        PROVE  Lands(up.s, p, d, r)
    <2>1. ChildKey(up.s, up.key, Last(p)) = NoKey /\ ROOT \in Nat
      BY <1>4, RootIsBase
    <2>2. (ROOT = ROOT /\ p = p) \/ (ROOT = up.key /\ p = <<Last(p)>>)
      OBVIOUS
    <2> HIDE DEF r
    <2> QED  BY <1>3, <1>4, <2>1, <2>2, ValueLands DEF r
  <1> HIDE DEF r
  <1>5. Writes(s, p, d, r)
    BY <1>1, <1>2, <1>3, <1>4, WritesUnder
  <1> QED  BY <1>5 DEF r

(* write_value at the root of a table without one.                         *)
LEMMA ValueAtRoot ==
  ASSUME NowhereApart, NEW s, Tree(s), ~Live(s, ROOT), NEW p, p = <<>>, NEW d, Flat(d)
  PROVE  Writes(s, p, d, WriteValue(s, ROOT, p, d))
  <1> DEFINE r == WriteValue(s, ROOT, p, d)
             e == DocUnder(s, ROOT)
  <1>1. r.ok = TRUE /\ Tree(r.s) /\ DocUnder(r.s, ROOT) = d
    <2>1. LET q == WriteValue(s, ROOT, <<>>, d)
          IN  q.ok = TRUE /\ Tree(q.s) /\ DocUnder(q.s, ROOT) = d
      BY ValueRoot
    <2> QED  BY <2>1
  <1>2. With(e, p, d) = d /\ Fits(e, p)
    BY AtNone
  <1> HIDE DEF r, e
  <1>3. Writes(s, p, d, r)
    BY <1>1, <1>2 DEF Writes, e
  <1> QED  BY <1>3 DEF r

(* A path of one segment.                                                  *)
LEMMA OneSegment ==
  ASSUME NEW S, NEW x \in S
  PROVE  LET q == <<x>>
         IN  q \in Seq(S) /\ q # <<>> /\ Len(q) = 1 /\ Front(q) = <<>> /\ Last(q) = x
  <1> DEFINE q == <<x>>
  <1>1. q \in Seq(S) /\ Len(q) = 1 /\ q # <<>> /\ q[1] = x
    OBVIOUS
  <1>a. q \in Seq(S) /\ q # <<>>
    OBVIOUS
  <1> HIDE DEF q
  <1>b. Front(q) \in Seq(S) /\ Len(Front(q)) = Len(q) - 1 /\ Last(q) = q[Len(q)]
    BY <1>a, PathFront
  <1>2. Front(q) \in Seq(S) /\ Len(Front(q)) = 0 /\ Last(q) = x
    BY <1>1, <1>b
  <1>3. Front(q) = <<>>
    BY <1>2, EmptySeq
  <1> QED  BY <1>1, <1>2, <1>3 DEF q

(* The parent that is there is made sure of once more.                     *)
LEMMA ParentAgain ==
  ASSUME NEW s, Tree(s), NEW k \in Nat, NEW seg \in Segment, Holder(s, k, seg)
  PROVE  LET q == <<seg>>
         IN  /\ EnsureParent(s, k, q) = Done(s, k)
             /\ ResolveFrom(s, k, q) = ChildKey(s, k, seg)
  <1> DEFINE q == <<seg>>
             e == <<>>
  <1>1. q \in Seq(Segment) /\ q # <<>> /\ Front(q) = e /\ Last(q) = seg
    BY OneSegment
  <1>2. e \in Seq(Segment) /\ Len(e) = 0 /\ IsIndex(seg) \in BOOLEAN
    BY EmptySeq, IsIndexType
  <1>3. k # NoKey /\ Live(s, k) /\ HasKind(s, k, ContainerKind(IsIndex(seg)))
    BY HolderIsKey DEF Holder, ContainerKind, HasKind, Live
  <1> HIDE DEF q, e
  <1>4. ResolveFrom(s, k, e) = k
    <2>1. e \in Seq(Segment)
      BY <1>2
    <2>2. Walk(s, k, e)[0] = k
      BY <2>1, WalkSteps
    <2> QED  BY <1>2, <2>2 DEF ResolveFrom
  <1>5. EnsureContainer(s, k, e, IsIndex(seg)) = Done(s, k)
    BY <1>2, <1>3, <1>4, EnsureThere
  <1>6. ResolveFrom(s, k, q) = ChildKey(s, k, seg)
    BY <1>1, <1>3, <1>4, ResolveLast
  <1> QED  BY <1>1, <1>5, <1>6 DEF EnsureParent, q

(* A document written node by node under a parent that is made sure of.    *)
LEMMA BelowWrites ==
  ASSUME NowhereApart, NEW s, Tree(s), NEW p \in Seq(Segment), p # <<>>, WayClear(s, p),
         ResolveFrom(s, ROOT, p) = NoKey, NEW d, Flat(d)
  PROVE  Writes(s, p, d, WriteBelow(EnsureParent(s, ROOT, p), Last(p), d))
  <1> DEFINE up == EnsureParent(s, ROOT, p)
             r == WriteBelow(up, Last(p), d)
  <1>2. ~up.ok => r = up
    BY DEF WriteBelow
  <1>3. up = EnsureParent(s, ROOT, p)
    OBVIOUS
  <1> HIDE DEF up
  <1>4. ASSUME up.ok, Tree(up.s), Parent(up.s, p, up.key),
               ChildKey(up.s, up.key, Last(p)) = ResolveFrom(s, ROOT, p)
        PROVE  Lands(up.s, p, d, r)
    <2> DEFINE t == up.s
               k == up.key
               seg == Last(p)
               q == <<seg>>
               par == EnsureParent(t, k, q)
    <2>1. r = WriteValue(t, k, q, d)
      BY <1>4 DEF WriteBelow
    <2>2. Tree(t) /\ Parent(t, p, k) /\ ChildKey(t, k, Last(p)) = NoKey
      BY <1>4
    <2> HIDE DEF t, k, r
    <2>3. k \in Nat /\ seg \in Segment /\ Holder(t, k, seg)
      BY <2>2, ParentFits DEF Parent
    <2> HIDE DEF seg
    <2>4. par = Done(t, k) /\ ResolveFrom(t, k, q) = ChildKey(t, k, seg)
      BY <2>2, <2>3, ParentAgain
    <2>5. q \in Seq(Segment) /\ q # <<>> /\ Last(q) = seg
      BY <2>3, OneSegment
    <2>6. par = EnsureParent(t, k, q) /\ par.ok /\ par.s = t /\ par.key = k
      BY <2>4 DEF Done
    <2>7. q = <<Last(p)>> /\ Last(q) = Last(p) /\ ResolveFrom(t, k, q) = NoKey
      BY <2>2, <2>4, <2>5 DEF seg
    <2> HIDE DEF q, par
    <2>8. Lands(par.s, p, d, WriteValue(t, k, q, d))
      <3>1. Tree(par.s) /\ Parent(par.s, p, par.key) /\ ChildKey(par.s, par.key, Last(p)) = NoKey
            /\ ((k = ROOT /\ q = p) \/ (k = par.key /\ q = <<Last(p)>>))
        BY <2>2, <2>6, <2>7
      <3> QED  BY <2>3, <2>5, <2>6, <2>7, <3>1, ValueLands
    <2> QED  BY <2>1, <2>6, <2>8 DEF t
  <1> HIDE DEF r
  <1>5. Writes(s, p, d, r)
    BY <1>2, <1>3, <1>4, WritesUnder
  <1> QED  BY <1>5 DEF r, up

(* A write after a removal that made room is a write.                      *)
LEMMA WipedWrites ==
  ASSUME NEW s, NEW p, NEW t, Wiped(s, p, t), NEW d, d # Nowhere, NEW r, Writes(t, p, d, r)
  PROVE  Writes(s, p, d, r)
  <1>1. CASE Fits(DocUnder(s, ROOT), p)
    BY <1>1 DEF Wiped, Writes
  <1>2. CASE ~Fits(DocUnder(s, ROOT), p)
    BY <1>2 DEF Wiped, Writes
  <1> QED  BY <1>1, <1>2

(* WriteTxn::store where nothing is.                                       *)
LEMMA FreshWrites ==
  ASSUME NowhereApart, NEW s, Tree(s), NEW p \in Seq(Segment), Unpacked(s, ROOT, p),
         p # <<>> => ResolveFrom(s, ROOT, p) = NoKey, p = <<>> => ~Live(s, ROOT),
         NEW d, Flat(d)
  PROVE  Writes(s, p, d, StoreFresh(s, p, d))
  <1>1. p # <<>> => WayClear(s, p)
    BY UnpackedFront, RootIsBase DEF WayClear
  <1>2. CASE p = <<>>
    BY <1>2, ValueAtRoot DEF StoreFresh
  <1>3. CASE p # <<>> /\ p \notin shredded
    BY <1>1, <1>3, StorePackedWrites DEF StoreFresh
  <1>4. CASE p # <<>> /\ p \in shredded
    BY <1>1, <1>4, BelowWrites DEF StoreFresh
  <1> QED  BY <1>2, <1>3, <1>4

(* The old subtree removed and the new one stored: tree::remove_path and   *)
(* WriteTxn::store_new together write.                                     *)
LEMMA ReplaceWrites ==
  ASSUME NowhereApart, NEW s, Tree(s), NEW p \in Seq(Segment), WayClear(s, p),
         Unshifted(s, p), NEW d, Flat(d)
  PROVE  Writes(s, p, d, ReplaceIn(s, p, d))
  <1> DEFINE t == RemovePath(s, p).s
  <1>1. Wiped(s, p, t)
    BY RemoveWipes
  <1> HIDE DEF t
  <1>2. Writes(t, p, d, StoreFresh(t, p, d))
    BY <1>1, FreshWrites DEF Wiped
  <1>3. d # Nowhere
    BY FlatKinds
  <1>4. Writes(s, p, d, StoreFresh(t, p, d))
    BY <1>1, <1>2, <1>3, WipedWrites
  <1> QED  BY <1>4 DEF ReplaceIn, t

(* The same where the document is written node by node.                    *)
LEMMA ReplaceValueWrites ==
  ASSUME NowhereApart, NEW s, Tree(s), NEW p \in Seq(Segment), WayClear(s, p),
         Unshifted(s, p), NEW d, Flat(d)
  PROVE  Writes(s, p, d, WriteValue(RemovePath(s, p).s, ROOT, p, d))
  <1> DEFINE t == RemovePath(s, p).s
  <1>1. Wiped(s, p, t)
    BY RemoveWipes
  <1> HIDE DEF t
  <1>2. Writes(t, p, d, WriteValue(t, ROOT, p, d))
    <2>1. CASE p = <<>>
      BY <1>1, <2>1, ValueAtRoot DEF Wiped
    <2>2. CASE p # <<>>
      BY <1>1, <2>2, ValueWrites DEF Wiped
    <2> QED  BY <2>1, <2>2
  <1>3. d # Nowhere
    BY FlatKinds
  <1>4. Writes(s, p, d, WriteValue(t, ROOT, p, d))
    BY <1>1, <1>2, <1>3, WipedWrites
  <1> QED  BY <1>4 DEF t
=============================================================================
