------------------------- MODULE IndexedTree_frames -------------------------
(***************************************************************************)
(* What the calls of a table do to the entities of its indexes: which      *)
(* entries there are on the line of a path, and that a change at a path    *)
(* leaves the paths off its line, and the entries there, as they were.     *)
(***************************************************************************)
EXTENDS IndexedTree, NodeTree_refinement

------------------------------------------------------------------------------
(* Sequences                                                               *)

(* What a sequence holds is at its positions.                              *)
LEMMA SeqHolds ==
  ASSUME NEW S, NEW q \in Seq(S)
  PROVE  /\ ToSet(q) \subseteq S
         /\ \A x : x \in ToSet(q) <=> \E i \in 1..Len(q) : x = q[i]
         /\ \A i \in 1..Len(q) : q[i] \in ToSet(q)
  <1>1. DOMAIN q = 1..Len(q) /\ q \in [1..Len(q) -> S]
    BY LenProperties
  <1> QED  BY <1>1 DEF ToSet

(* A function on 1..n is a sequence of n.                                  *)
LEMMA FunLen ==
  ASSUME NEW n \in Nat, NEW S, NEW f \in [1..n -> S]
  PROVE  f \in Seq(S) /\ Len(f) = n
  <1>1. DOMAIN f = 1..n /\ (\A x \in 1..n : f[x] \in S) /\ f = [x \in 1..n |-> f[x]]
    OBVIOUS
  <1> QED  BY <1>1, MapLen

(* Two sequences in a row hold what either holds.                          *)
LEMMA ConcatHolds ==
  ASSUME NEW S, NEW p \in Seq(S), NEW q \in Seq(S)
  PROVE  p \o q \in Seq(S) /\ ToSet(p \o q) = ToSet(p) \cup ToSet(q)
  <1>1. /\ p \o q \in Seq(S)
        /\ Len(p \o q) = Len(p) + Len(q)
        /\ \A i \in 1..Len(p) + Len(q) :
             (p \o q)[i] = IF i <= Len(p) THEN p[i] ELSE q[i - Len(p)]
    BY ConcatProperties
  <1>2. Len(p) \in Nat /\ Len(q) \in Nat
    BY LenProperties
  <1> DEFINE r == p \o q
  <1>3. /\ r \in Seq(S) /\ Len(r) = Len(p) + Len(q)
        /\ \A i \in 1..Len(p) + Len(q) : r[i] = IF i <= Len(p) THEN p[i] ELSE q[i - Len(p)]
    BY <1>1
  <1> HIDE DEF r
  <1>4. ASSUME NEW x PROVE x \in ToSet(r) <=> x \in ToSet(p) \/ x \in ToSet(q)
    <2>1. x \in ToSet(r) <=> \E i \in 1..Len(r) : x = r[i]
      BY <1>3, SeqHolds
    <2>2. x \in ToSet(p) <=> \E i \in 1..Len(p) : x = p[i]
      BY SeqHolds
    <2>3. x \in ToSet(q) <=> \E i \in 1..Len(q) : x = q[i]
      BY SeqHolds
    <2>4. ASSUME NEW i \in 1..Len(r), x = r[i] PROVE x \in ToSet(p) \/ x \in ToSet(q)
      <3>1. CASE i <= Len(p)
        BY <3>1, <2>4, <2>2, <1>3, <1>2
      <3>2. CASE ~(i <= Len(p))
        <4>1. i - Len(p) \in 1..Len(q)
          BY <3>2, <1>3, <1>2
        <4>2. x = q[i - Len(p)]
          BY <3>2, <2>4, <1>3, <1>2
        <4> QED  BY <4>1, <4>2, <2>3
      <3> QED  BY <3>1, <3>2
    <2>5. ASSUME NEW i \in 1..Len(p), x = p[i] PROVE x \in ToSet(r)
      <3>1. i \in 1..Len(r) /\ r[i] = p[i]
        BY <1>3, <1>2
      <3> QED  BY <3>1, <2>5, <2>1
    <2>6. ASSUME NEW i \in 1..Len(q), x = q[i] PROVE x \in ToSet(r)
      <3>1. Len(p) + i \in 1..Len(r) /\ ~(Len(p) + i <= Len(p)) /\ (Len(p) + i) - Len(p) = i
        BY <1>3, <1>2
      <3>2. r[Len(p) + i] = q[i]
        BY <3>1, <1>3, <1>2
      <3> QED  BY <3>1, <3>2, <2>6, <2>1
    <2> QED  BY <2>1, <2>2, <2>3, <2>4, <2>5, <2>6
  <1> QED  BY <1>3, <1>4 DEF r

(* g[i] is the first i sequences in a row.                                 *)
IsRow(g, seqs, n) ==
  g = [i \in 1..n |-> IF i = 1 THEN seqs[i] ELSE g[i - 1] \o seqs[i]]

(* The function that FlattenSeq defines exists.                            *)
LEMMA RowsExist ==
  ASSUME NEW seqs
  PROVE  \A n \in Nat : \E g : IsRow(g, seqs, n)
  <1> DEFINE S == {n \in Nat : \E g : IsRow(g, seqs, n)}
  <1>1. 0 \in S
    <2> DEFINE g == [i \in 1..0 |-> seqs]
    <2>1. IsRow(g, seqs, 0)
      BY DEF IsRow
    <2> QED  BY <2>1
  <1>2. ASSUME NEW n \in Nat, n \in S PROVE n + 1 \in S
    <2>1. PICK g : IsRow(g, seqs, n)
      BY <1>2
    <2> DEFINE h == [i \in 1..n + 1 |-> IF i = n + 1
                                        THEN IF i = 1 THEN seqs[i] ELSE g[n] \o seqs[i]
                                        ELSE g[i]]
    <2>2. \A i \in 1..n : h[i] = g[i]
      OBVIOUS
    <2>3. ASSUME NEW i \in 1..n + 1
          PROVE  h[i] = IF i = 1 THEN seqs[i] ELSE h[i - 1] \o seqs[i]
      <3>1. CASE i = n + 1
        <4>1. i = 1 \/ (n \in 1..n /\ i - 1 = n /\ h[n] = g[n])
          BY <3>1, <2>2
        <4> QED  BY <3>1, <4>1
      <3>2. CASE i # n + 1
        <4>1. i \in 1..n /\ (i = 1 \/ i - 1 \in 1..n)
          BY <3>2
        <4>2. g[i] = IF i = 1 THEN seqs[i] ELSE g[i - 1] \o seqs[i]
          BY <4>1, <2>1 DEF IsRow
        <4>3. h[i] = g[i] /\ (i = 1 \/ h[i - 1] = g[i - 1])
          BY <4>1, <2>2
        <4> QED  BY <4>2, <4>3
      <3> QED  BY <3>1, <3>2
    <2>4. IsRow(h, seqs, n + 1)
      <3>1. h = [i \in 1..n + 1 |-> h[i]]
        OBVIOUS
      <3> HIDE DEF h
      <3> QED  BY <3>1, <2>3 DEF IsRow
    <2> QED  BY <2>4
  <1> HIDE DEF S
  <1>3. Nat \subseteq S
    BY <1>1, <1>2, SetInduction
  <1> QED  BY <1>3 DEF S

(* Sequences in a row hold what any of them holds.                         *)
LEMMA FlattenHolds ==
  ASSUME NEW S, NEW seqs \in Seq(Seq(S))
  PROVE  /\ FlattenSeq(seqs) \in Seq(S)
         /\ \A x : x \in ToSet(FlattenSeq(seqs)) <=> \E i \in 1..Len(seqs) : x \in ToSet(seqs[i])
  <1> DEFINE n == Len(seqs)
  <1>1. n \in Nat /\ \A i \in 1..n : seqs[i] \in Seq(S)
    BY LenProperties, ElementOfSeq
  <1>2. CASE n = 0
    <2>1. FlattenSeq(seqs) = <<>>
      BY <1>2, EmptySeq DEF FlattenSeq
    <2>2. \A x : x \notin ToSet(<<>>)
      BY DEF ToSet
    <2> QED  BY <2>1, <2>2, <1>2, EmptySeq
  <1>3. CASE n # 0
    <2> DEFINE f == CHOOSE g : IsRow(g, seqs, n)
    <2>1. FlattenSeq(seqs) = f[n]
      BY <1>3 DEF FlattenSeq, IsRow
    <2>2. IsRow(f, seqs, n)
      BY <1>1, RowsExist
    <2> HIDE DEF f, n
    <2>3. \A i \in 1..n : f[i] = IF i = 1 THEN seqs[i] ELSE f[i - 1] \o seqs[i]
      BY <2>2 DEF IsRow
    <2> DEFINE T == {m \in Nat : m \in 1..n =>
                       /\ f[m] \in Seq(S)
                       /\ \A x : x \in ToSet(f[m]) <=> \E i \in 1..m : x \in ToSet(seqs[i])}
    <2>4. 0 \in T
      OBVIOUS
    <2>5. ASSUME NEW m \in Nat, m \in T PROVE m + 1 \in T
      <3> SUFFICES ASSUME m + 1 \in 1..n
                   PROVE  /\ f[m + 1] \in Seq(S)
                          /\ \A x : x \in ToSet(f[m + 1]) <=>
                               \E i \in 1..m + 1 : x \in ToSet(seqs[i])
        OBVIOUS
      <3>1. CASE m = 0
        <4>1. f[m + 1] = seqs[1] /\ seqs[1] \in Seq(S) /\ \A i : i \in 1..m + 1 <=> i = 1
          BY <3>1, <2>3, <1>1
        <4> QED  BY <4>1
      <3>2. CASE m # 0
        <4>1. m \in 1..n /\ (m + 1) - 1 = m /\ m + 1 # 1
          BY <3>2, <1>1
        <4>2. f[m + 1] = f[m] \o seqs[m + 1]
          BY <4>1, <2>3
        <4>3. /\ f[m] \in Seq(S)
              /\ \A x : x \in ToSet(f[m]) <=> \E i \in 1..m : x \in ToSet(seqs[i])
          BY <4>1, <2>5
        <4>4. seqs[m + 1] \in Seq(S)
          BY <1>1
        <4>5. f[m + 1] \in Seq(S) /\ ToSet(f[m + 1]) = ToSet(f[m]) \cup ToSet(seqs[m + 1])
          BY <4>2, <4>3, <4>4, ConcatHolds
        <4>6. \A i : i \in 1..m + 1 <=> i \in 1..m \/ i = m + 1
          OBVIOUS
        <4> QED  BY <4>3, <4>5, <4>6
      <3> QED  BY <3>1, <3>2
    <2> HIDE DEF T
    <2>6. Nat \subseteq T
      BY <2>4, <2>5, SetInduction
    <2>7. n \in T /\ n \in 1..n
      BY <2>6, <1>1, <1>3
    <2> QED  BY <2>7, <2>1 DEF T, n
  <1> QED  BY <1>2, <1>3

------------------------------------------------------------------------------
(* Patterns                                                                *)

(* Where a path leads from the root, and what patterns are made of.        *)
Res(s, r) == ResolveFrom(s, ROOT, r)

Parts        == {Star} \cup Segment
PatternParts == {Star} \cup {Name(n) : n \in Names}

(* A segment in a pattern is matched by itself, a star by all.             *)
LEMMA AnyPartIs ==
  ASSUME NEW pat \in Parts
  PROVE  \/ IsStar(pat) /\ \A seg : MatchesSegment(pat, seg)
         \/ /\ ~IsStar(pat) /\ pat \in Segment
            /\ \A seg : MatchesSegment(pat, seg) <=> seg = pat
  <1>1. CASE pat = Star
    BY <1>1 DEF Star, IsStar, MatchesSegment
  <1>2. CASE pat \in Segment
    <2>1. ~IsStar(pat)
      BY <1>2 DEF IsStar, Segment
    <2> QED  BY <1>2, <2>1 DEF MatchesSegment
  <1> QED  BY <1>1, <1>2 DEF Parts

(* Names and stars are such parts.                                         *)
LEMMA PlainParts ==
  ASSUME NEW pattern \in Seq(PatternParts)
  PROVE  pattern \in Seq(Parts)
  <1>1. ASSUME NEW n \in Names
        PROVE  Name(n) \in Segment
    BY NameSegment
  <1>2. PatternParts \subseteq Parts
    BY <1>1 DEF PatternParts, Parts
  <1>3. Len(pattern) \in Nat /\ pattern \in [1..Len(pattern) -> PatternParts]
    BY LenProperties
  <1>4. pattern \in [1..Len(pattern) -> Parts]
    BY <1>2, <1>3
  <1> QED  BY <1>3, <1>4, FunLen

(* A name in a pattern is a segment, a star is none.                       *)
LEMMA PartIs ==
  ASSUME NEW pat \in PatternParts
  PROVE  \/ IsStar(pat) /\ \A seg : MatchesSegment(pat, seg)
         \/ /\ ~IsStar(pat) /\ pat \in Segment /\ IsName(pat)
            /\ \A seg : MatchesSegment(pat, seg) <=> seg = pat
  <1>1. CASE pat = Star
    BY <1>1 DEF Star, IsStar, MatchesSegment
  <1>2. CASE \E n \in Names : pat = Name(n)
    <2>1. PICK n \in Names : pat = Name(n)
      BY <1>2
    <2>2. pat \in Segment /\ IsName(pat)
      BY <2>1, NameSegment
    <2>3. ~IsStar(pat)
      BY <2>1 DEF IsStar, Name
    <2> QED  BY <2>2, <2>3 DEF MatchesSegment
  <1> QED  BY <1>1, <1>2 DEF PatternParts

(* What is a child of k.                                                   *)
ChildOf(s, k, c) == c # NoKey /\ \E seg \in Segment : c = ChildKey(s, k, seg)

(* tree::children yields the children.                                     *)
LEMMA ChildrenAre ==
  ASSUME NEW s, Tree(s), NEW k \in Nat
  PROVE  /\ Children(s, k) \in Seq(Nat)
         /\ \A c : c \in ToSet(Children(s, k)) <=> ChildOf(s, k, c)
  <1>1. Sound(s) /\ Shape(s)
    BY DEF Tree, Sound
  <1>2. \A c : c \in Below(s, k) <=> ChildOf(s, k, c)
    BY <1>1, BelowAreChildren DEF ChildOf
  <1>3. CASE HasKind(s, k, "list")
    <2> DEFINE items == s.node[k].items
    <2>1. items \in Seq(Nat \ {ROOT}) /\ Children(s, k) = items
      BY <1>1, <1>3, ListItems DEF Children
    <2>2. items \in Seq(Nat) /\ Len(items) \in Nat
      <3>1. Len(items) \in Nat /\ items \in [1..Len(items) -> Nat \ {ROOT}]
        BY <2>1, LenProperties
      <3>2. items \in [1..Len(items) -> Nat]
        BY <3>1
      <3> QED  BY <3>1, <3>2
    <2>3. ASSUME NEW c PROVE c \in ToSet(items) <=> ChildOf(s, k, c)
      <3>1. c \in ToSet(items) <=> \E i \in 1..Len(items) : c = items[i]
        BY <2>1, SeqHolds, SMTT(30)
      <3>2. ASSUME NEW i \in 1..Len(items), c = items[i] PROVE ChildOf(s, k, c)
        <4>1. i - 1 \in Nat /\ (i - 1) + 1 = i /\ i - 1 < Len(items)
          BY <2>2
        <4>2. /\ Index(i - 1) \in Segment /\ ~IsName(Index(i - 1))
              /\ Index(i - 1).index = i - 1
          BY <4>1, IndexSegment
        <4>3. ChildKey(s, k, Index(i - 1)) = items[i]
          BY <4>1, <4>2, <1>3 DEF ChildKey
        <4>4. c # NoKey
          <5>1. c \in Nat
            BY <3>2, <2>2, ElementOfSeq
          <5> QED  BY <5>1 DEF NoKey
        <4> QED  BY <3>2, <4>2, <4>3, <4>4 DEF ChildOf
      <3>3. ASSUME ChildOf(s, k, c) PROVE c \in ToSet(items)
        <4>1. PICK seg \in Segment : c = ChildKey(s, k, seg)
          BY <3>3 DEF ChildOf
        <4>2. c # NoKey /\ ChildKey(s, k, seg) # NoKey
          BY <3>3, <4>1 DEF ChildOf
        <4>3. Holder(s, k, seg)
          BY <4>2, <1>1 DEF Sound
        <4>4. IsIndex(seg)
          <5>1. ~HasKind(s, k, "object")
            BY <1>3 DEF HasKind
          <5> QED  BY <5>1, <4>3 DEF Holder
        <4>5. seg.index \in Nat /\ ~IsName(seg)
          BY <4>4, SegmentKinds DEF IsName
        <4>6. seg.index < Len(items) /\ c = items[seg.index + 1]
          BY <4>1, <4>2, <4>5 DEF ChildKey
        <4>7. seg.index + 1 \in 1..Len(items)
          BY <4>5, <4>6, <2>2
        <4> QED  BY <4>6, <4>7, <3>1
      <3> QED  BY <3>1, <3>2, <3>3
    <2> HIDE DEF items
    <2> QED  BY <2>1, <2>2, <2>3
  <1>4. CASE HasKind(s, k, "object")
    <2> DEFINE S == {s.link[l] : l \in {x \in DOMAIN s.link : x[1] = k}}
    <2>1. ~HasKind(s, k, "list")
      BY <1>4 DEF HasKind
    <2>2. Children(s, k) = SetToSeq(S) /\ Below(s, k) = S
      BY <1>4, <2>1 DEF Children, Below, Refs
    <2> HIDE DEF S
    <2>3. S \subseteq DOMAIN s.node
      <3>1. ASSUME NEW c \in S PROVE c \in DOMAIN s.node
        <4>1. ChildOf(s, k, c)
          BY <1>2, <2>2
        <4> QED  BY <4>1 DEF ChildOf, Tree
      <3> QED  BY <3>1
    <2>4. DOMAIN s.node \subseteq Nat /\ IsFiniteSet(DOMAIN s.node)
      BY <1>1 DEF Shape
    <2>5. IsFiniteSet(S)
      BY <2>3, <2>4, FS_Subset
    <2> DEFINE f == SetToSeq(S)
    <2>6. /\ Cardinality(S) \in Nat /\ f \in [1..Cardinality(S) -> S]
          /\ \A x \in S : \E i \in 1..Cardinality(S) : f[i] = x
      BY <2>5, SetSequenceAll
    <2> HIDE DEF f
    <2>7. f \in Seq(S) /\ Len(f) = Cardinality(S)
      <3>1. f \in Seq(S)
        BY <2>6
      <3>2. Len(f) \in Nat /\ DOMAIN f = 1..Len(f) /\ DOMAIN f = 1..Cardinality(S)
        BY <3>1, <2>6, LenProperties
      <3> QED  BY <3>1, <3>2, <2>6
    <2>8. f \in Seq(Nat)
      <3>1. f \in [1..Len(f) -> Nat]
        BY <2>6, <2>7, <2>3, <2>4
      <3> QED  BY <3>1, <2>6, <2>7
    <2>9. \A c : c \in ToSet(f) <=> c \in S
      <3>1. \A c : c \in ToSet(f) <=> \E i \in 1..Len(f) : c = f[i]
        BY <2>7, SeqHolds
      <3> QED  BY <3>1, <2>6, <2>7
    <2> QED  BY <2>8, <2>9, <2>2, <1>2 DEF f
  <1>5. CASE ~HasKind(s, k, "list") /\ ~HasKind(s, k, "object")
    <2>1. Children(s, k) = <<>>
      BY <1>5 DEF Children
    <2>2. <<>> \in Seq(Nat) /\ \A c : c \notin ToSet(<<>>)
      BY EmptySeq DEF ToSet
    <2>3. \A c : ~ChildOf(s, k, c)
      BY <1>5, <1>1 DEF ChildOf, Sound, Holder
    <2> QED  BY <2>1, <2>2, <2>3
  <1> QED  BY <1>3, <1>4, <1>5

(* Whether segment seg may be taken at position i of a pattern, on the     *)
(* line of scope.                                                          *)
Takeable(pattern, scope, i, seg) ==
  MatchesSegment(pattern[i], seg) /\ (i <= Len(scope) => seg = scope[i])

(* NextOnLine yields the children that the pattern and the scope allow.    *)
LEMMA NextIs ==
  ASSUME NEW s, Tree(s), NEW k \in Nat, NEW pattern \in Seq(Parts),
         NEW scope \in Seq(Segment), NEW i \in 1..Len(pattern)
  PROVE  /\ NextOnLine(s, pattern, scope, i, k) \in Seq(Nat)
         /\ \A c : c \in ToSet(NextOnLine(s, pattern, scope, i, k)) <=>
              c # NoKey /\ \E seg \in Segment :
                             c = ChildKey(s, k, seg) /\ Takeable(pattern, scope, i, seg)
  <1> DEFINE kid(seg) == IF ChildKey(s, k, seg) = NoKey THEN <<>> ELSE <<ChildKey(s, k, seg)>>
             N == NextOnLine(s, pattern, scope, i, k)
  <1>1. Shape(s) /\ Len(scope) \in Nat /\ Len(pattern) \in Nat
    BY LenProperties DEF Tree, Sound
  <1>2. pattern[i] \in Parts
    BY ElementOfSeq
  <1>3. ASSUME NEW seg \in Segment
        PROVE  /\ kid(seg) \in Seq(Nat)
               /\ \A c : c \in ToSet(kid(seg)) <=> c # NoKey /\ c = ChildKey(s, k, seg)
    <2>1. CASE ChildKey(s, k, seg) = NoKey
      <3>1. <<>> \in Seq(Nat) /\ \A c : c \notin ToSet(<<>>)
        BY EmptySeq DEF ToSet
      <3> QED  BY <3>1, <2>1
    <2>2. CASE ChildKey(s, k, seg) # NoKey
      <3>1. ChildKey(s, k, seg) \in Nat
        BY <2>2, <1>1, ChildKeyType
      <3> DEFINE c0 == ChildKey(s, k, seg)
                 q == <<c0>>
      <3> HIDE DEF c0
      <3>2. q \in Seq(Nat) /\ Len(q) = 1 /\ q[1] = c0
        BY <3>1 DEF c0
      <3> HIDE DEF q
      <3>3. \A c : c \in ToSet(q) <=> \E j \in 1..Len(q) : c = q[j]
        BY <3>2, SeqHolds
      <3>4. \A c : c \in ToSet(q) <=> c = c0
        BY <3>3, <3>2
      <3> QED  BY <3>2, <3>4, <2>2 DEF q, c0
    <2> QED  BY <2>1, <2>2
  <1>4. N = IF i > Len(scope)
            THEN IF IsStar(pattern[i]) THEN Children(s, k) ELSE kid(pattern[i])
            ELSE IF MatchesSegment(pattern[i], scope[i]) THEN kid(scope[i]) ELSE <<>>
    BY DEF NextOnLine
  <1> HIDE DEF kid, N
  <1>5. CASE i > Len(scope)
    <2>1. ~(i <= Len(scope))
      BY <1>5, <1>1
    <2>2. CASE IsStar(pattern[i])
      <3>1. N = Children(s, k)
        BY <1>4, <1>5, <2>2
      <3>2. \A seg \in Segment : Takeable(pattern, scope, i, seg)
        BY <2>1, <2>2 DEF Takeable, MatchesSegment
      <3> QED  BY <3>1, <3>2, ChildrenAre, SMTT(30) DEF N, ChildOf
    <2>3. CASE ~IsStar(pattern[i])
      <3>1. N = kid(pattern[i])
        BY <1>4, <1>5, <2>3
      <3>2. pattern[i] \in Segment /\ \A seg : MatchesSegment(pattern[i], seg) <=> seg = pattern[i]
        BY <2>3, <1>2, AnyPartIs
      <3>3. \A seg : Takeable(pattern, scope, i, seg) <=> seg = pattern[i]
        BY <3>2, <2>1 DEF Takeable
      <3> QED  BY <3>1, <3>2, <3>3, <1>3 DEF N
    <2> QED  BY <2>2, <2>3
  <1>6. CASE ~(i > Len(scope))
    <2>1. i <= Len(scope) /\ i \in 1..Len(scope)
      BY <1>6, <1>1
    <2>2. scope[i] \in Segment
      BY <2>1, ElementOfSeq
    <2>3. CASE MatchesSegment(pattern[i], scope[i])
      <3>1. N = kid(scope[i])
        BY <1>4, <1>6, <2>3
      <3>2. \A seg : Takeable(pattern, scope, i, seg) <=> seg = scope[i]
        BY <2>3, <2>1 DEF Takeable
      <3> QED  BY <3>1, <3>2, <2>2, <1>3 DEF N
    <2>4. CASE ~MatchesSegment(pattern[i], scope[i])
      <3>1. N = <<>>
        BY <1>4, <1>6, <2>4
      <3>2. \A seg : ~Takeable(pattern, scope, i, seg)
        BY <2>4, <2>1 DEF Takeable
      <3>3. <<>> \in Seq(Nat) /\ \A c : c \notin ToSet(<<>>)
        BY EmptySeq DEF ToSet
      <3> QED  BY <3>1, <3>2, <3>3 DEF N
    <2> QED  BY <2>3, <2>4
  <1> QED  BY <1>5, <1>6

------------------------------------------------------------------------------
(* Entities and their entries                                              *)

(* r leads to a node of the table, and follows pattern and scope for its   *)
(* i segments.                                                             *)
Reach(s, pattern, scope, i, r) ==
  /\ r \in Seq(Segment) /\ Len(r) = i /\ Res(s, r) # NoKey
  /\ \A j \in 1..i : Takeable(pattern, scope, j, r[j])

(* k is reached that way.                                                  *)
ReachedBy(s, pattern, scope, i, k) ==
  \E r : Reach(s, pattern, scope, i, r) /\ k = Res(s, r)

(* c is a child of k that may be taken at position i.                      *)
TakenAt(s, pattern, scope, i, k, c) ==
  c # NoKey /\ \E seg \in Segment : c = ChildKey(s, k, seg) /\ Takeable(pattern, scope, i, seg)

(* One level further.                                                      *)
LEMMA ReachNext ==
  ASSUME NEW s, Tree(s), NEW pattern, NEW scope, NEW i \in Nat \ {0}, NEW c
  PROVE  ReachedBy(s, pattern, scope, i, c) <=>
           \E k : ReachedBy(s, pattern, scope, i - 1, k) /\ TakenAt(s, pattern, scope, i, k, c)
  <1>1. ASSUME NEW r, Reach(s, pattern, scope, i, r), c = Res(s, r)
        PROVE  \E k : ReachedBy(s, pattern, scope, i - 1, k) /\ TakenAt(s, pattern, scope, i, k, c)
    <2>1. r \in Seq(Segment) /\ Len(r) = i /\ c # NoKey
          /\ \A j \in 1..i : Takeable(pattern, scope, j, r[j])
      BY <1>1 DEF Reach
    <2>2. r # <<>>
      BY <2>1, EmptySeq
    <2>3. /\ Front(r) \in Seq(Segment) /\ Len(Front(r)) = i - 1
          /\ \A j \in 1..i - 1 : Front(r)[j] = r[j]
          /\ Last(r) \in Segment /\ Last(r) = r[i]
      BY <2>1, <2>2, PathFront
    <2>4. c = IF Res(s, Front(r)) = NoKey THEN NoKey ELSE ChildKey(s, Res(s, Front(r)), Last(r))
      BY <2>1, <2>2, <1>1, ResolveLast DEF Res
    <2>5. Res(s, Front(r)) # NoKey /\ c = ChildKey(s, Res(s, Front(r)), Last(r))
      BY <2>4, <2>1
    <2>6. \A j \in 1..i - 1 : Takeable(pattern, scope, j, Front(r)[j])
      BY <2>1, <2>3
    <2>7. Reach(s, pattern, scope, i - 1, Front(r))
      BY <2>3, <2>5, <2>6 DEF Reach
    <2>8. Takeable(pattern, scope, i, Last(r))
      BY <2>1, <2>3
    <2>9. TakenAt(s, pattern, scope, i, Res(s, Front(r)), c)
      BY <2>1, <2>3, <2>5, <2>8 DEF TakenAt
    <2> QED  BY <2>7, <2>9 DEF ReachedBy
  <1>2. ASSUME NEW k, ReachedBy(s, pattern, scope, i - 1, k), TakenAt(s, pattern, scope, i, k, c)
        PROVE  ReachedBy(s, pattern, scope, i, c)
    <2>8. PICK seg \in Segment : c = ChildKey(s, k, seg) /\ Takeable(pattern, scope, i, seg)
      BY <1>2 DEF TakenAt
    <2>9. c # NoKey
      BY <1>2 DEF TakenAt
    <2>1. PICK q : Reach(s, pattern, scope, i - 1, q) /\ k = Res(s, q)
      BY <1>2 DEF ReachedBy
    <2>2. q \in Seq(Segment) /\ Len(q) = i - 1 /\ k # NoKey
          /\ \A j \in 1..i - 1 : Takeable(pattern, scope, j, q[j])
      BY <2>1 DEF Reach
    <2> DEFINE r == Append(q, seg)
    <2>3. r \in Seq(Segment) /\ r # <<>> /\ Len(r) = i /\ Front(r) = q /\ Last(r) = seg
      BY <2>2, PathAppend
    <2> HIDE DEF r
    <2>4. Res(s, r) = c
      BY <2>3, <2>1, <2>2, <2>8, ResolveLast DEF Res
    <2>5. (\A j \in 1..i - 1 : q[j] = r[j]) /\ r[i] = seg
      BY <2>3, PathFront
    <2>6. \A j \in 1..i : Takeable(pattern, scope, j, r[j])
      <3>1. \A j \in 1..i : j = i \/ j \in 1..i - 1
        OBVIOUS
      <3> QED  BY <3>1, <2>5, <2>2, <2>8
    <2>7. Reach(s, pattern, scope, i, r)
      BY <2>3, <2>4, <2>6, <2>9 DEF Reach
    <2> QED  BY <2>4, <2>7 DEF ReachedBy
  <1> QED  BY <1>1, <1>2 DEF ReachedBy

(* The step of AffectedEntities, and the function that it defines.         *)
NextLevel(s, pattern, scope, i, level) ==
  FlattenSeq([x \in DOMAIN level |-> NextOnLine(s, pattern, scope, i, level[x])])

IsAffected(g, s, pattern, scope, n) ==
  g = [i \in 0..n |-> IF i = 0 THEN <<ROOT>> ELSE NextLevel(s, pattern, scope, i, g[i - 1])]

(* The function that AffectedEntities defines exists.                      *)
LEMMA AffectedExist ==
  ASSUME NEW s, NEW pattern, NEW scope
  PROVE  \A n \in Nat : \E g : IsAffected(g, s, pattern, scope, n)
  <1> DEFINE S == {n \in Nat : \E g : IsAffected(g, s, pattern, scope, n)}
  <1>1. 0 \in S
    <2> DEFINE g == [i \in 0..0 |-> <<ROOT>>]
    <2>1. IsAffected(g, s, pattern, scope, 0)
      BY DEF IsAffected
    <2> QED  BY <2>1
  <1>2. ASSUME NEW n \in Nat, n \in S PROVE n + 1 \in S
    <2>1. PICK g : IsAffected(g, s, pattern, scope, n)
      BY <1>2
    <2> DEFINE h == [i \in 0..n + 1 |-> IF i = n + 1
                                        THEN NextLevel(s, pattern, scope, n + 1, g[n]) ELSE g[i]]
    <2>2. \A i \in 0..n : h[i] = g[i]
      OBVIOUS
    <2>3. ASSUME NEW i \in 0..n + 1
          PROVE  h[i] = IF i = 0 THEN <<ROOT>> ELSE NextLevel(s, pattern, scope, i, h[i - 1])
      <3>1. CASE i = n + 1
        <4>1. i # 0 /\ i - 1 = n /\ n \in 0..n /\ h[n] = g[n]
          BY <3>1, <2>2
        <4> QED  BY <3>1, <4>1
      <3>2. CASE i # n + 1
        <4>1. i \in 0..n /\ (i = 0 \/ i - 1 \in 0..n)
          BY <3>2
        <4>2. g[i] = IF i = 0 THEN <<ROOT>> ELSE NextLevel(s, pattern, scope, i, g[i - 1])
          BY <4>1, <2>1 DEF IsAffected
        <4>3. h[i] = g[i] /\ (i = 0 \/ h[i - 1] = g[i - 1])
          BY <4>1, <2>2
        <4> QED  BY <4>2, <4>3
      <3> QED  BY <3>1, <3>2
    <2>4. IsAffected(h, s, pattern, scope, n + 1)
      <3>1. h = [i \in 0..n + 1 |-> h[i]]
        OBVIOUS
      <3> HIDE DEF h
      <3> QED  BY <3>1, <2>3 DEF IsAffected
    <2> QED  BY <2>4
  <1> HIDE DEF S
  <1>3. Nat \subseteq S
    BY <1>1, <1>2, SetInduction
  <1> QED  BY <1>3 DEF S

(* Pattern::affected_entities yields the nodes that the pattern and the    *)
(* scope lead to.                                                          *)
LEMMA AffectedAre ==
  ASSUME NEW s, Tree(s), NEW pattern \in Seq(Parts), NEW scope \in Seq(Segment)
  PROVE  /\ AffectedEntities(s, pattern, scope) \in Seq(Nat)
         /\ \A k : k \in ToSet(AffectedEntities(s, pattern, scope)) <=>
                     ReachedBy(s, pattern, scope, Len(pattern), k)
  <1> DEFINE n == Len(pattern)
             g == CHOOSE h : IsAffected(h, s, pattern, scope, n)
  <1>1. n \in Nat
    BY LenProperties
  <1>2. AffectedEntities(s, pattern, scope) = g[n]
    BY DEF AffectedEntities, IsAffected, NextLevel
  <1>3. IsAffected(g, s, pattern, scope, n)
    BY <1>1, AffectedExist
  <1> HIDE DEF g
  <1>4. /\ g[0] = <<ROOT>>
        /\ \A i \in 1..n : g[i] = NextLevel(s, pattern, scope, i, g[i - 1])
    <2>1. \A i \in 0..n : g[i] = IF i = 0 THEN <<ROOT>> ELSE NextLevel(s, pattern, scope, i, g[i - 1])
      BY <1>3 DEF IsAffected
    <2>2. 0 \in 0..n /\ \A i \in 1..n : i \in 0..n /\ i # 0
      BY <1>1
    <2> QED  BY <2>1, <2>2
  <1>9. ASSUME NEW i \in Nat, NEW c
        PROVE  ReachedBy(s, pattern, scope, i + 1, c) <=>
                 \E k : ReachedBy(s, pattern, scope, i, k) /\ TakenAt(s, pattern, scope, i + 1, k, c)
    <2>1. i + 1 \in Nat \ {0} /\ (i + 1) - 1 = i
      OBVIOUS
    <2>2. ReachedBy(s, pattern, scope, i + 1, c) <=>
            \E k : ReachedBy(s, pattern, scope, (i + 1) - 1, k)
                     /\ TakenAt(s, pattern, scope, i + 1, k, c)
      BY <2>1, ReachNext
    <2> QED  BY <2>1, <2>2
  <1> DEFINE Right(i) == /\ g[i] \in Seq(Nat)
                         /\ \A k : k \in ToSet(g[i]) <=> ReachedBy(s, pattern, scope, i, k)
             T == {i \in Nat : i \in 0..n => Right(i)}
  <1>5. 0 \in T
    <2>1. <<ROOT>> \in Seq(Nat) /\ Len(<<ROOT>>) = 1 /\ <<ROOT>>[1] = ROOT
      BY DEF ROOT
    <2>2. \A k : k \in ToSet(<<ROOT>>) <=> k = ROOT
      <3>1. \A k : k \in ToSet(<<ROOT>>) <=> \E i \in 1..Len(<<ROOT>>) : k = <<ROOT>>[i]
        BY <2>1, SeqHolds
      <3> QED  BY <3>1, <2>1
    <2>3. <<>> \in Seq(Segment) /\ Len(<<>>) = 0 /\ Res(s, <<>>) = ROOT /\ ROOT # NoKey
      BY EmptyPath, RootIsBase DEF Res
    <2>4. \A r : Reach(s, pattern, scope, 0, r) <=> r = <<>>
      <3>1. \A r : Reach(s, pattern, scope, 0, r) => r = <<>>
        BY EmptySeq DEF Reach
      <3>2. Reach(s, pattern, scope, 0, <<>>)
        BY <2>3 DEF Reach
      <3> QED  BY <3>1, <3>2
    <2>5. \A k : ReachedBy(s, pattern, scope, 0, k) <=> k = ROOT
      BY <2>3, <2>4 DEF ReachedBy
    <2>6. g[0] \in Seq(Nat)
      BY <2>1, <1>4
    <2>7. \A k : k \in ToSet(g[0]) <=> ReachedBy(s, pattern, scope, 0, k)
      BY <2>2, <2>5, <1>4
    <2> QED  BY <2>6, <2>7
  <1>6. ASSUME NEW i \in Nat, i \in T PROVE i + 1 \in T
    <2> SUFFICES ASSUME i + 1 \in 0..n PROVE Right(i + 1)
      OBVIOUS
    <2>1. i \in 0..n /\ i + 1 \in 1..n /\ (i + 1) - 1 = i
      BY <1>1
    <2>2. Right(i)
      BY <1>6, <2>1
    <2> DEFINE level == g[i]
               seqs == [x \in DOMAIN level |-> NextOnLine(s, pattern, scope, i + 1, level[x])]
    <2>3. g[i + 1] = FlattenSeq(seqs)
      BY <1>4, <2>1 DEF NextLevel
    <2>4. level \in Seq(Nat) /\ \A k : k \in ToSet(level) <=> ReachedBy(s, pattern, scope, i, k)
      BY <2>2
    <2> HIDE DEF level
    <2>5. Len(level) \in Nat /\ DOMAIN level = 1..Len(level)
          /\ \A x \in 1..Len(level) : level[x] \in Nat
      BY <2>4, LenProperties, ElementOfSeq
    <2>6. \A x \in 1..Len(level) :
            /\ seqs[x] \in Seq(Nat)
            /\ \A c : c \in ToSet(seqs[x]) <=> TakenAt(s, pattern, scope, i + 1, level[x], c)
      BY <2>5, <2>1, NextIs DEF TakenAt
    <2>7. seqs \in Seq(Seq(Nat)) /\ Len(seqs) = Len(level)
      <3>1. seqs \in [1..Len(level) -> Seq(Nat)]
        BY <2>5, <2>6
      <3> HIDE DEF seqs
      <3> QED  BY <3>1, <2>5, FunLen
    <2> HIDE DEF seqs
    <2>8. /\ FlattenSeq(seqs) \in Seq(Nat)
          /\ \A c : c \in ToSet(FlattenSeq(seqs)) <=> \E x \in 1..Len(level) : c \in ToSet(seqs[x])
      BY <2>7, FlattenHolds
    <2>9. ASSUME NEW c
          PROVE  c \in ToSet(g[i + 1]) <=> ReachedBy(s, pattern, scope, i + 1, c)
      <3>1. ReachedBy(s, pattern, scope, i + 1, c) <=>
              \E k : ReachedBy(s, pattern, scope, i, k) /\ TakenAt(s, pattern, scope, i + 1, k, c)
        BY <1>9, <2>1
      <3>2. \A k : ReachedBy(s, pattern, scope, i, k) <=> \E x \in 1..Len(level) : k = level[x]
        BY <2>4, SeqHolds
      <3>3. c \in ToSet(g[i + 1]) <=> \E x \in 1..Len(level) : c \in ToSet(seqs[x])
        BY <2>8, <2>3
      <3>4. \A x \in 1..Len(level) :
              c \in ToSet(seqs[x]) <=> TakenAt(s, pattern, scope, i + 1, level[x], c)
        BY <2>6
      <3>5. c \in ToSet(g[i + 1]) =>
              \E k : ReachedBy(s, pattern, scope, i, k) /\ TakenAt(s, pattern, scope, i + 1, k, c)
        BY <3>2, <3>3, <3>4
      <3>6. ASSUME NEW k, ReachedBy(s, pattern, scope, i, k), TakenAt(s, pattern, scope, i + 1, k, c)
            PROVE  c \in ToSet(g[i + 1])
        <4>1. PICK x \in 1..Len(level) : k = level[x]
          BY <3>6, <3>2
        <4> QED  BY <4>1, <3>6, <3>3, <3>4
      <3> QED  BY <3>1, <3>5, <3>6
    <2> QED  BY <2>8, <2>3, <2>9
  <1> HIDE DEF T
  <1>7. Nat \subseteq T
    BY <1>5, <1>6, SetInduction
  <1>8. n \in T /\ n \in 0..n
    BY <1>7, <1>1
  <1> QED  BY <1>8, <1>2 DEF T

(* A path that the pattern matches, segment by segment.                    *)
Matches(pattern, r) ==
  /\ r \in Seq(Segment) /\ Len(r) = Len(pattern)
  /\ \A i \in 1..Len(pattern) : MatchesSegment(pattern[i], r[i])

(* One of two paths leads on to the other.                                 *)
OneLine(p, q) == Leads(p, q) \/ Leads(q, p)

(* k is an entity of the pattern, at r.                                    *)
EntityAt(s, pattern, r, k) == Matches(pattern, r) /\ k = Res(s, r) /\ k # NoKey

AnyEntity(s, pattern, k) == \E r : EntityAt(s, pattern, r, k)

LineEntity(s, pattern, scope, k) == \E r : EntityAt(s, pattern, r, k) /\ OneLine(r, scope)

(* The affected entities are those on the line of the scope.               *)
LEMMA AffectedOnLine ==
  ASSUME NEW s, Tree(s), NEW pattern \in Seq(Parts), NEW scope \in Seq(Segment)
  PROVE  \A k : k \in ToSet(AffectedEntities(s, pattern, scope)) <=>
                  LineEntity(s, pattern, scope, k)
  <1>1. Len(pattern) \in Nat /\ Len(scope) \in Nat
    BY LenProperties
  <1>2. ASSUME NEW r \in Seq(Segment), Len(r) = Len(pattern)
        PROVE  (\A j \in 1..Len(pattern) : j <= Len(scope) => r[j] = scope[j]) <=> OneLine(r, scope)
    <2>1. CASE Len(pattern) <= Len(scope)
      <3>1. Leads(r, scope) <=> \A j \in 1..Len(pattern) : r[j] = scope[j]
        BY <2>1, <1>2 DEF Leads
      <3>2. Leads(scope, r) => Leads(r, scope)
        BY <2>1, <1>1, <1>2 DEF Leads
      <3>3. \A j \in 1..Len(pattern) : j <= Len(scope)
        BY <2>1, <1>1
      <3> QED  BY <3>1, <3>2, <3>3 DEF OneLine
    <2>2. CASE ~(Len(pattern) <= Len(scope))
      <3>1. Len(scope) <= Len(pattern)
        BY <2>2, <1>1
      <3>2. Leads(scope, r) <=> \A j \in 1..Len(scope) : scope[j] = r[j]
        BY <3>1, <1>2 DEF Leads
      <3>3. ~Leads(r, scope)
        BY <2>2, <1>2 DEF Leads
      <3>4. \A j : j \in 1..Len(scope) <=> j \in 1..Len(pattern) /\ j <= Len(scope)
        BY <3>1, <1>1
      <3> QED  BY <3>2, <3>3, <3>4 DEF OneLine
    <2> QED  BY <2>1, <2>2
  <1>3. \A r : Reach(s, pattern, scope, Len(pattern), r) <=>
                 Matches(pattern, r) /\ Res(s, r) # NoKey /\ OneLine(r, scope)
    <2>1. ASSUME NEW r PROVE Reach(s, pattern, scope, Len(pattern), r) <=>
                 Matches(pattern, r) /\ Res(s, r) # NoKey /\ OneLine(r, scope)
      <3>1. CASE r \in Seq(Segment) /\ Len(r) = Len(pattern)
        BY <3>1, <1>2 DEF Reach, Matches, Takeable
      <3>2. CASE ~(r \in Seq(Segment) /\ Len(r) = Len(pattern))
        BY <3>2 DEF Reach, Matches
      <3> QED  BY <3>1, <3>2
    <2> QED  BY <2>1
  <1>4. \A k : k \in ToSet(AffectedEntities(s, pattern, scope)) <=>
                     ReachedBy(s, pattern, scope, Len(pattern), k)
    BY AffectedAre
  <1> QED  BY <1>3, <1>4 DEF ReachedBy, LineEntity, EntityAt

(* From the root, all are.                                                 *)
LEMMA AffectedAll ==
  ASSUME NEW s, Tree(s), NEW pattern \in Seq(Parts)
  PROVE  \A k : k \in ToSet(AffectedEntities(s, pattern, <<>>)) <=> AnyEntity(s, pattern, k)
  <1>1. <<>> \in Seq(Segment) /\ Len(<<>>) = 0
    BY EmptyPath
  <1>2. \A r \in Seq(Segment) : OneLine(r, <<>>)
    <2>1. \A r \in Seq(Segment) : Len(r) \in Nat
      BY LenProperties
    <2> QED  BY <2>1, <1>1 DEF OneLine, Leads
  <1>3. \A k : k \in ToSet(AffectedEntities(s, pattern, <<>>)) <=> LineEntity(s, pattern, <<>>, k)
    BY <1>1, AffectedOnLine
  <1> QED  BY <1>2, <1>3 DEF LineEntity, AnyEntity, EntityAt, Matches

(* An entity is a node of the tree, or the root.                           *)
LEMMA EntityReached ==
  ASSUME NEW s, Tree(s), NEW pattern, NEW r, NEW k, EntityAt(s, pattern, r, k)
  PROVE  k \in Nat /\ Reached(s, k) /\ r \in Seq(Segment) /\ k # NoKey
  <1>1. r \in Seq(Segment) /\ k = ResolveFrom(s, ROOT, r) /\ k # NoKey
    BY DEF EntityAt, Matches, Res
  <1>2. Len(r) \in 0..Len(r) /\ Walk(s, ROOT, r)[Len(r)] # NoKey
    <2>1. Len(r) \in Nat
      BY <1>1, LenProperties
    <2> QED  BY <2>1, <1>1 DEF ResolveFrom
  <1>3. Reached(s, k)
    BY <1>1, <1>2, RootIsBase, WalkReached DEF ResolveFrom
  <1>4. k \in Nat
    BY <1>3, RootIsBase, ReachedType
  <1> QED  BY <1>1, <1>3, <1>4

(* The entry of an entity: key and value.                                  *)
Pair(s, def, k) == <<IndexKey(s, def, k), k>>

(* x is the entry of an entity of def on the line of scope.                *)
LineEntry(s, def, scope, x) ==
  \E k : LineEntity(s, def.pattern, scope, k) /\ x = Pair(s, def, k)

(* maintenance::entries_for yields the entries of the entities on the line *)
(* of the scope.                                                           *)
LEMMA EntriesAre ==
  ASSUME NEW s, Tree(s), NEW D, \A def \in D : def.pattern \in Seq(Parts),
         NEW defs \in Seq(D), NEW scope \in Seq(Segment)
  PROVE  \E S : /\ EntriesFor(s, defs, scope) \in Seq(S)
                /\ \A x : x \in ToSet(EntriesFor(s, defs, scope)) <=>
                     \E def \in ToSet(defs) : LineEntry(s, def, scope, x)
  <1> DEFINE S == {Pair(s, def, k) : def \in D, k \in Nat}
             ents(d) == AffectedEntities(s, defs[d].pattern, scope)
             seqs == [d \in DOMAIN defs |-> EntriesOf(s, defs[d], ents(d))]
  <1>1. EntriesFor(s, defs, scope) = FlattenSeq(seqs)
    BY DEF EntriesFor
  <1>2. Len(defs) \in Nat /\ DOMAIN defs = 1..Len(defs) /\ \A d \in 1..Len(defs) : defs[d] \in D
    BY LenProperties, ElementOfSeq
  <1>3. ASSUME NEW d \in 1..Len(defs)
        PROVE  /\ seqs[d] \in Seq(S)
               /\ \A x : x \in ToSet(seqs[d]) <=> LineEntry(s, defs[d], scope, x)
    <2> DEFINE e == ents(d)
    <2>1. /\ e \in Seq(Nat)
          /\ \A k : k \in ToSet(e) <=> LineEntity(s, defs[d].pattern, scope, k)
      BY <1>2, AffectedAre, AffectedOnLine
    <2>2. seqs[d] = [x \in DOMAIN e |-> Pair(s, defs[d], e[x])]
      BY <1>2 DEF EntriesOf, Pair
    <2> HIDE DEF e
    <2>3. Len(e) \in Nat /\ DOMAIN e = 1..Len(e) /\ \A x \in 1..Len(e) : e[x] \in Nat
      BY <2>1, LenProperties, ElementOfSeq
    <2> DEFINE f == seqs[d]
    <2>4. f \in [1..Len(e) -> S] /\ \A x \in 1..Len(e) : f[x] = Pair(s, defs[d], e[x])
      BY <2>2, <2>3, <1>2
    <2> HIDE DEF f, S
    <2>5. f \in Seq(S) /\ Len(f) = Len(e)
      BY <2>4, <2>3, FunLen
    <2>6. \A x : x \in ToSet(f) <=> \E i \in 1..Len(e) : x = Pair(s, defs[d], e[i])
      <3>1. \A x : x \in ToSet(f) <=> \E i \in 1..Len(f) : x = f[i]
        BY <2>5, SeqHolds
      <3> QED  BY <3>1, <2>4, <2>5
    <2>7. \A k : LineEntity(s, defs[d].pattern, scope, k) <=> \E i \in 1..Len(e) : k = e[i]
      BY <2>1, SeqHolds
    <2> QED  BY <2>5, <2>6, <2>7 DEF f, LineEntry
  <1>4. seqs \in Seq(Seq(S)) /\ Len(seqs) = Len(defs)
    <2>1. seqs \in [1..Len(defs) -> Seq(S)]
      BY <1>2, <1>3
    <2> HIDE DEF seqs, S
    <2> QED  BY <2>1, <1>2, FunLen
  <1> HIDE DEF seqs, S
  <1>5. /\ FlattenSeq(seqs) \in Seq(S)
        /\ \A x : x \in ToSet(FlattenSeq(seqs)) <=> \E d \in 1..Len(defs) : x \in ToSet(seqs[d])
    BY <1>4, FlattenHolds
  <1>6. \A def : def \in ToSet(defs) <=> \E d \in 1..Len(defs) : def = defs[d]
    BY SeqHolds
  <1>7. \A x : x \in ToSet(EntriesFor(s, defs, scope)) <=>
                \E def \in ToSet(defs) : LineEntry(s, def, scope, x)
    <2>1. \A x : x \in ToSet(EntriesFor(s, defs, scope)) <=>
                  \E d \in 1..Len(defs) : LineEntry(s, defs[d], scope, x)
      BY <1>1, <1>3, <1>5
    <2> QED  BY <2>1, <1>6
  <1>8. EntriesFor(s, defs, scope) \in Seq(S)
    BY <1>1, <1>5
  <1> QED  BY <1>7, <1>8

------------------------------------------------------------------------------
(* Entries put in and taken out                                            *)

(* key holds e among the entries.                                          *)
Posts(post, key, e) == key \in DOMAIN post /\ post[key] = e

(* A key that names its entity holds it.                                   *)
WellKept(post) == \A key \in DOMAIN post : key.entity # NoKey => post[key] = key.entity

(* A table with its entries.                                               *)
IsState(t) == t = [ok |-> t.ok, s |-> t.s, post |-> t.post] /\ t.ok \in BOOLEAN

(* The key of an entry names its entity or, in a unique index, none.       *)
WellFormed(x) == x[1].entity # NoKey => x[2] = x[1].entity

(* An entry put in is added to those there are, unless it is refused.      *)
LEMMA InsertedEffect ==
  ASSUME NEW t, IsState(t), WellKept(t.post), NEW key, NEW e, key.entity # NoKey => e = key.entity
  PROVE  LET u == Inserted(t, key, e)
         IN  /\ IsState(u) /\ u.s = t.s /\ WellKept(u.post)
             /\ u.ok => t.ok /\ Posts(u.post, key, e)
             /\ \A x, y : Posts(t.post, x, y) => Posts(u.post, x, y)
             /\ \A x, y : Posts(u.post, x, y) => Posts(t.post, x, y) \/ (x = key /\ y = e)
  <1> DEFINE u == Inserted(t, key, e)
  <1>1. CASE t.ok /\ GuardUnique(t.post, key, e)
    <2> DEFINE post == [x \in DOMAIN t.post \cup {key} |-> IF x = key THEN e ELSE t.post[x]]
    <2>1. u = [t EXCEPT !.post = post]
      BY <1>1 DEF Inserted
    <2>2. u = [ok |-> t.ok, s |-> t.s, post |-> post]
      BY <2>1 DEF IsState
    <2>3. u.ok = t.ok /\ u.s = t.s /\ u.post = post
      BY <2>2
    <2>4. IsState(u)
      BY <2>2, <2>3 DEF IsState
    <2>5. key \in DOMAIN t.post => t.post[key] = e
      BY <1>1 DEF GuardUnique, WellKept
    <2>6. /\ DOMAIN post = DOMAIN t.post \cup {key} /\ post[key] = e
          /\ \A x \in DOMAIN t.post : post[x] = t.post[x]
      BY <2>5
    <2> HIDE DEF post, u
    <2>7. WellKept(post)
      BY <2>6 DEF WellKept
    <2> QED  BY <2>3, <2>4, <2>6, <2>7, <1>1 DEF Posts, u
  <1>2. CASE ~(t.ok /\ GuardUnique(t.post, key, e))
    <2>1. u = [t EXCEPT !.ok = FALSE]
      BY <1>2 DEF Inserted
    <2>2. u = [ok |-> FALSE, s |-> t.s, post |-> t.post]
      BY <2>1 DEF IsState
    <2>3. u.ok = FALSE /\ u.s = t.s /\ u.post = t.post
      BY <2>2
    <2>4. IsState(u)
      BY <2>2, <2>3 DEF IsState
    <2> HIDE DEF u
    <2> QED  BY <2>3, <2>4 DEF u
  <1> QED  BY <1>1, <1>2

(* g[i] is the state after i entries.                                      *)
IsInserting(g, t, new, n) ==
  g = [i \in 0..n |-> IF i = 0 THEN t ELSE Inserted(g[i - 1], new[i][1], new[i][2])]

(* The function that Reindexed defines exists.                             *)
LEMMA InsertingExist ==
  ASSUME NEW t, NEW new
  PROVE  \A n \in Nat : \E g : IsInserting(g, t, new, n)
  <1> DEFINE S == {n \in Nat : \E g : IsInserting(g, t, new, n)}
  <1>1. 0 \in S
    <2> DEFINE g == [i \in 0..0 |-> t]
    <2>1. IsInserting(g, t, new, 0)
      BY DEF IsInserting
    <2> QED  BY <2>1
  <1>2. ASSUME NEW n \in Nat, n \in S PROVE n + 1 \in S
    <2>1. PICK g : IsInserting(g, t, new, n)
      BY <1>2
    <2> DEFINE h == [i \in 0..n + 1 |-> IF i = n + 1
                                        THEN Inserted(g[n], new[n + 1][1], new[n + 1][2]) ELSE g[i]]
    <2>2. \A i \in 0..n : h[i] = g[i]
      OBVIOUS
    <2>3. ASSUME NEW i \in 0..n + 1
          PROVE  h[i] = IF i = 0 THEN t ELSE Inserted(h[i - 1], new[i][1], new[i][2])
      <3>1. CASE i = n + 1
        <4>1. i # 0 /\ i - 1 = n /\ n \in 0..n /\ h[n] = g[n]
          BY <3>1, <2>2
        <4> QED  BY <3>1, <4>1
      <3>2. CASE i # n + 1
        <4>1. i \in 0..n /\ (i = 0 \/ i - 1 \in 0..n)
          BY <3>2
        <4>2. g[i] = IF i = 0 THEN t ELSE Inserted(g[i - 1], new[i][1], new[i][2])
          BY <4>1, <2>1 DEF IsInserting
        <4>3. h[i] = g[i] /\ (i = 0 \/ h[i - 1] = g[i - 1])
          BY <4>1, <2>2
        <4> QED  BY <4>2, <4>3
      <3> QED  BY <3>1, <3>2
    <2>4. IsInserting(h, t, new, n + 1)
      <3>1. h = [i \in 0..n + 1 |-> h[i]]
        OBVIOUS
      <3> HIDE DEF h
      <3> QED  BY <3>1, <2>3 DEF IsInserting
    <2> QED  BY <2>4
  <1> HIDE DEF S
  <1>3. Nat \subseteq S
    BY <1>1, <1>2, SetInduction
  <1> QED  BY <1>3 DEF S

(* u is t with entries of new put in.                                      *)
Filled(t, u, new) ==
  /\ IsState(u) /\ u.s = t.s /\ WellKept(u.post)
  /\ u.ok => t.ok
  /\ u.ok => \A x, y : <<x, y>> \in new => Posts(u.post, x, y)
  /\ \A x, y : Posts(t.post, x, y) => Posts(u.post, x, y)
  /\ \A x, y : Posts(u.post, x, y) => Posts(t.post, x, y) \/ <<x, y>> \in new

(* maintenance::insert puts in the entries it is given, up to the first    *)
(* one that is refused.                                                    *)
LEMMA ReindexedFills ==
  ASSUME NEW t, IsState(t), WellKept(t.post), NEW defs, NEW scope,
         NEW S, EntriesFor(t.s, defs, scope) \in Seq(S),
         \A x \in ToSet(EntriesFor(t.s, defs, scope)) : WellFormed(x) /\ x = <<x[1], x[2]>>
  PROVE  Filled(t, Reindexed(t, defs, scope), ToSet(EntriesFor(t.s, defs, scope)))
  <1> DEFINE new == EntriesFor(t.s, defs, scope)
             n == Len(new)
             g == CHOOSE h : IsInserting(h, t, new, n)
  <1>1. Reindexed(t, defs, scope) = g[n]
    BY DEF Reindexed, IsInserting
  <1>2. new \in Seq(S) /\ \A x \in ToSet(new) : WellFormed(x) /\ x = <<x[1], x[2]>>
    OBVIOUS
  <1> HIDE DEF new
  <1>3. n \in Nat /\ \A i \in 1..n : new[i] \in ToSet(new)
    BY <1>2, LenProperties, SeqHolds
  <1>4. IsInserting(g, t, new, n)
    BY <1>3, InsertingExist
  <1> HIDE DEF g, n
  <1>5. /\ g[0] = t
        /\ \A i \in 1..n : g[i] = Inserted(g[i - 1], new[i][1], new[i][2])
    <2>1. \A i \in 0..n : g[i] = IF i = 0 THEN t ELSE Inserted(g[i - 1], new[i][1], new[i][2])
      BY <1>4 DEF IsInserting
    <2>2. 0 \in 0..n /\ \A i \in 1..n : i \in 0..n /\ i # 0
      BY <1>3
    <2> QED  BY <2>1, <2>2
  <1> DEFINE Some(i) == {new[j] : j \in 1..i}
             T == {i \in Nat : i \in 0..n => Filled(t, g[i], Some(i))}
  <1>6. 0 \in T
    <2>1. Some(0) = {}
      OBVIOUS
    <2>2. Filled(t, t, {})
      BY DEF Filled
    <2> QED  BY <2>1, <2>2, <1>5
  <1>7. ASSUME NEW i \in Nat, i \in T PROVE i + 1 \in T
    <2> SUFFICES ASSUME i + 1 \in 0..n PROVE Filled(t, g[i + 1], Some(i + 1))
      OBVIOUS
    <2>1. i \in 0..n /\ i + 1 \in 1..n /\ (i + 1) - 1 = i
      BY <1>3
    <2>2. Filled(t, g[i], Some(i))
      BY <1>7, <2>1
    <2> DEFINE v == g[i]
               x == new[i + 1]
               key == x[1]
               e == x[2]
               u == Inserted(v, key, e)
    <2>3. g[i + 1] = u
      BY <1>5, <2>1
    <2>4. x \in ToSet(new)
      BY <1>3, <2>1
    <2>5. WellFormed(x) /\ x = <<x[1], x[2]>>
      BY <2>4, <1>2
    <2>6. Some(i + 1) = Some(i) \cup {x}
      <3>1. \A j : j \in 1..i + 1 <=> j \in 1..i \/ j = i + 1
        OBVIOUS
      <3> QED  BY <3>1
    <2> HIDE DEF v, Some
    <2>7. Filled(t, v, Some(i))
      BY <2>2 DEF v
    <2>8. /\ IsState(u) /\ u.s = v.s /\ WellKept(u.post)
          /\ u.ok => v.ok /\ Posts(u.post, key, e)
          /\ \A y, z : Posts(v.post, y, z) => Posts(u.post, y, z)
          /\ \A y, z : Posts(u.post, y, z) => Posts(v.post, y, z) \/ (y = key /\ z = e)
      <3>1. IsState(v) /\ WellKept(v.post)
        BY <2>7 DEF Filled
      <3>2. key.entity # NoKey => e = key.entity
        BY <2>5 DEF WellFormed
      <3> HIDE DEF key, e, x
      <3> QED  BY <3>1, <3>2, InsertedEffect
    <2> HIDE DEF u, key, e, x
    <2>9. \A y, z : <<y, z>> = x <=> y = key /\ z = e
      BY <2>5 DEF key, e
    <2>10. Filled(t, u, Some(i) \cup {x})
      <3>1. IsState(u) /\ u.s = t.s /\ WellKept(u.post) /\ (u.ok => t.ok)
        BY <2>7, <2>8 DEF Filled
      <3>2. ASSUME u.ok, NEW y, NEW z, <<y, z>> \in Some(i) \cup {x} PROVE Posts(u.post, y, z)
        BY <3>2, <2>7, <2>8, <2>9 DEF Filled
      <3>3. ASSUME NEW y, NEW z, Posts(t.post, y, z) PROVE Posts(u.post, y, z)
        BY <3>3, <2>7, <2>8 DEF Filled
      <3>4. ASSUME NEW y, NEW z, Posts(u.post, y, z)
            PROVE  Posts(t.post, y, z) \/ <<y, z>> \in Some(i) \cup {x}
        BY <3>4, <2>7, <2>8, <2>9 DEF Filled
      <3> QED  BY <3>1, <3>2, <3>3, <3>4 DEF Filled
    <2> QED  BY <2>3, <2>6, <2>10
  <1>8. Some(n) = ToSet(new)
    <2>1. \A x : x \in ToSet(new) <=> \E j \in 1..Len(new) : x = new[j]
      BY <1>2, SeqHolds
    <2> QED  BY <2>1 DEF n
  <1> HIDE DEF T, Some
  <1>9. Nat \subseteq T
    BY <1>6, <1>7, SetInduction
  <1>10. n \in T /\ n \in 0..n
    BY <1>9, <1>3
  <1> QED  BY <1>10, <1>8, <1>1 DEF T, new

------------------------------------------------------------------------------
(* Index maintenance around a change                                       *)

(* What columns are made of: names.                                        *)
NamePaths == Seq({Name(n) : n \in Names})

(* Patterns and columns name fields and stars, not list positions.         *)
PlainDef(def) ==
  /\ def.pattern \in Seq(PatternParts)
  /\ \A c \in DOMAIN def.columns : def.columns[c].path \in NamePaths

PlainDefs(D) == \A def \in D : PlainDef(def)

(* But any registered index may name list positions.                       *)
WellDef(def) ==
  /\ def.pattern \in Seq(Parts)
  /\ def.columns \in Seq([path : Seq(Segment), desc : BOOLEAN])

WellDefs(D) == \A def \in D : WellDef(def)

OwnNames(D) == \A d, e \in D : d.name = e.name => d = e

(* x is the entry of some entity of def.                                   *)
Entry(s, def, x) == \E k : AnyEntity(s, def.pattern, k) /\ x = Pair(s, def, k)

(* Every entry was right once, in some tree.                               *)
Once(post, D) ==
  \A x, y : Posts(post, x, y) => \E def \in D : \E s : Tree(s) /\ Entry(s, def, <<x, y>>)

(* Of the indexes D, no entry is wrong, none is missing.                   *)
NoneWrong(post, s, D) ==
  \A def \in D : \A x, y : Posts(post, x, y) /\ x.index = def.name => Entry(s, def, <<x, y>>)
NoneMissing(post, s, D) == \A def \in D : \A x, y : Entry(s, def, <<x, y>>) => Posts(post, x, y)

(* An entry is a pair of a key and the entity it is about.                 *)
LEMMA PairIs ==
  ASSUME NEW s, NEW def, NEW k, NEW x, x = Pair(s, def, k)
  PROVE  /\ WellFormed(x) /\ x = <<x[1], x[2]>>
         /\ x[1].index = def.name /\ x[2] = k
         /\ x[1].entity = IF def.unique THEN NoKey ELSE k
         /\ x[1].cols = Columns(s, def, k)
  <1> DEFINE key == IndexKey(s, def, k)
  <1>1. /\ key.index = def.name /\ key.entity = IF def.unique THEN NoKey ELSE k
        /\ key.cols = Columns(s, def, k)
    BY DEF IndexKey
  <1> HIDE DEF key
  <1>2. x = <<key, k>>
    BY DEF Pair, key
  <1>3. x[1] = key /\ x[2] = k /\ x = <<x[1], x[2]>>
    BY <1>2
  <1>4. WellFormed(x)
    BY <1>1, <1>3 DEF WellFormed
  <1> QED  BY <1>1, <1>3, <1>4

(* maintenance::insert, of all entries on the line of scope.               *)
LEMMA ReindexedEffect ==
  ASSUME NEW t, IsState(t), WellKept(t.post), Tree(t.s), NEW D, WellDefs(D),
         NEW defs \in Seq(D), NEW scope \in Seq(Segment)
  PROVE  LET u == Reindexed(t, defs, scope)
         IN  /\ IsState(u) /\ u.s = t.s /\ WellKept(u.post)
             /\ u.ok => t.ok
             /\ u.ok => \A def \in ToSet(defs) : \A x, y :
                          LineEntry(t.s, def, scope, <<x, y>>) => Posts(u.post, x, y)
             /\ \A x, y : Posts(t.post, x, y) => Posts(u.post, x, y)
             /\ \A x, y : Posts(u.post, x, y) =>
                  Posts(t.post, x, y)
                    \/ \E def \in ToSet(defs) : LineEntry(t.s, def, scope, <<x, y>>)
  <1>1. \A def \in D : def.pattern \in Seq(Parts)
    BY DEF WellDefs, WellDef
  <1> DEFINE new == ToSet(EntriesFor(t.s, defs, scope))
  <1>2. PICK S : /\ EntriesFor(t.s, defs, scope) \in Seq(S)
                 /\ \A x : x \in new <=> \E def \in ToSet(defs) : LineEntry(t.s, def, scope, x)
    BY <1>1, EntriesAre
  <1>3. \A x \in new : WellFormed(x) /\ x = <<x[1], x[2]>>
    BY <1>2, PairIs DEF LineEntry
  <1>4. Filled(t, Reindexed(t, defs, scope), new)
    BY <1>2, <1>3, ReindexedFills
  <1> HIDE DEF new
  <1> QED  BY <1>2, <1>4 DEF Filled

(* maintenance::delete takes out the keys of the entities on the line of   *)
(* scope.                                                                  *)
LEMMA DeindexedEffect ==
  ASSUME NEW post, WellKept(post), NEW s, Tree(s), NEW D, WellDefs(D),
         NEW defs \in Seq(D), NEW scope \in Seq(Segment)
  PROVE  LET less == Deindexed(post, s, defs, scope)
         IN  /\ WellKept(less)
             /\ \A x, y : Posts(less, x, y) <=>
                  /\ Posts(post, x, y)
                  /\ ~\E def \in ToSet(defs) : \E z : LineEntry(s, def, scope, <<x, z>>)
  <1>1. \A def \in D : def.pattern \in Seq(Parts)
    BY DEF WellDefs, WellDef
  <1> DEFINE new == ToSet(EntriesFor(s, defs, scope))
             gone == {x[1] : x \in new}
             less == Deindexed(post, s, defs, scope)
  <1>2. PICK S : /\ EntriesFor(s, defs, scope) \in Seq(S)
                 /\ \A x : x \in new <=> \E def \in ToSet(defs) : LineEntry(s, def, scope, x)
    BY <1>1, EntriesAre
  <1>3. less = [key \in DOMAIN post \ gone |-> post[key]]
    BY DEF Deindexed
  <1>4. \A x : x \in gone <=> \E def \in ToSet(defs) : \E z : LineEntry(s, def, scope, <<x, z>>)
    <2>1. ASSUME NEW x, x \in gone
          PROVE  \E def \in ToSet(defs) : \E z : LineEntry(s, def, scope, <<x, z>>)
      <3>1. PICK y \in new : x = y[1]
        BY <2>1
      <3>2. PICK def \in ToSet(defs) : LineEntry(s, def, scope, y)
        BY <1>2
      <3>3. y = <<y[1], y[2]>>
        BY <3>2, PairIs DEF LineEntry
      <3>4. LineEntry(s, def, scope, <<x, y[2]>>)
        BY <3>1, <3>2, <3>3
      <3> QED  BY <3>4
    <2>2. ASSUME NEW x, NEW def \in ToSet(defs), NEW z, LineEntry(s, def, scope, <<x, z>>)
          PROVE  x \in gone
      <3>1. <<x, z>> \in new
        BY <2>2, <1>2
      <3>2. <<x, z>>[1] = x
        OBVIOUS
      <3> QED  BY <3>1, <3>2
    <2> QED  BY <2>1, <2>2
  <1> HIDE DEF less, gone, new
  <1>5. \A x, y : Posts(less, x, y) <=> Posts(post, x, y) /\ x \notin gone
    BY <1>3 DEF Posts
  <1>6. WellKept(less)
    BY <1>3 DEF WellKept
  <1> QED  BY <1>4, <1>5, <1>6 DEF less

(* The registered indexes.                                                 *)
LEMMA RegisteredAre ==
  ASSUME IsFiniteSet(indexes)
  PROVE  Registered \in Seq(indexes) /\ ToSet(Registered) = indexes
  <1> DEFINE f == SetToSeq(indexes)
  <1>1. /\ Cardinality(indexes) \in Nat /\ f \in [1..Cardinality(indexes) -> indexes]
        /\ \A x \in indexes : \E i \in 1..Cardinality(indexes) : f[i] = x
    BY SetSequenceAll
  <1> HIDE DEF f
  <1>2. f \in Seq(indexes) /\ Len(f) = Cardinality(indexes)
    BY <1>1, FunLen
  <1>3. \A x : x \in ToSet(f) <=> \E i \in 1..Len(f) : x = f[i]
    BY <1>2, SeqHolds
  <1>4. ToSet(f) = indexes
    <2>1. \A x : x \in ToSet(f) <=> x \in indexes
      BY <1>1, <1>2, <1>3
    <2> QED  BY <2>1
  <1> QED  BY <1>2, <1>4 DEF f, Registered

(* An entity that is not on the line of p before a change is still one     *)
(* after it, with the same key.                                            *)
EntitiesStay(s, u, p, def) ==
  \A k : AnyEntity(s, def.pattern, k) /\ ~LineEntity(s, def.pattern, p, k) =>
           AnyEntity(u, def.pattern, k) /\ IndexKey(u, def, k) = IndexKey(s, def, k)

(* An entity that is not on the line of p after a change was none before   *)
(* it either, with the same key.                                           *)
NoneAppear(s, u, p, def) ==
  \A k : AnyEntity(u, def.pattern, k) /\ ~LineEntity(u, def.pattern, p, k) =>
           /\ AnyEntity(s, def.pattern, k) /\ ~LineEntity(s, def.pattern, p, k)
           /\ IndexKey(u, def, k) = IndexKey(s, def, k)

(* "Remove entries before the change, insert them after it": when only     *)
(* entities on the line of p change, the entries stay right.               *)
LEMMA BracketKeeps ==
  ASSUME IsFiniteSet(indexes), WellDefs(indexes), OwnNames(indexes), tracked \subseteq indexes,
         NEW t, IsState(t), WellKept(t.post), Tree(t.s), Once(t.post, indexes),
         NoneWrong(t.post, t.s, tracked),
         NEW p \in Seq(Segment), NEW r, r.ok \in BOOLEAN, Tree(r.s), t.ok,
         \A def \in tracked : EntitiesStay(t.s, r.s, p, def)
  PROVE  LET u == ReindexAround(t, p, r)
         IN  /\ IsState(u) /\ u.s = r.s /\ WellKept(u.post)
             /\ u.ok => r.ok
             /\ Once(u.post, indexes)
             /\ NoneWrong(u.post, u.s, tracked)
             /\ u.ok /\ NoneMissing(t.post, t.s, tracked)
                  /\ (\A def \in tracked : NoneAppear(t.s, r.s, p, def))
                  => NoneMissing(u.post, u.s, tracked)
  <1> DEFINE less == Deindexed(t.post, t.s, Registered, p)
             v == [ok |-> r.ok, s |-> r.s, post |-> less]
             u == Reindexed(v, Registered, p)
  <1>1. ReindexAround(t, p, r) = u
    BY DEF ReindexAround
  <1>2. Registered \in Seq(indexes) /\ ToSet(Registered) = indexes
    BY RegisteredAre
  <1>3. /\ WellKept(less)
        /\ \A x, y : Posts(less, x, y) <=>
             /\ Posts(t.post, x, y)
             /\ ~\E def \in indexes : \E z : LineEntry(t.s, def, p, <<x, z>>)
    BY <1>2, DeindexedEffect
  <1>4. v.ok = r.ok /\ v.s = r.s /\ v.post = less /\ IsState(v)
    BY DEF IsState
  <1> HIDE DEF less, v
  <1>5. /\ IsState(u) /\ u.s = v.s /\ WellKept(u.post)
        /\ u.ok => v.ok
        /\ u.ok => \A def \in indexes : \A x, y :
                     LineEntry(v.s, def, p, <<x, y>>) => Posts(u.post, x, y)
        /\ \A x, y : Posts(v.post, x, y) => Posts(u.post, x, y)
        /\ \A x, y : Posts(u.post, x, y) =>
             Posts(v.post, x, y) \/ \E def \in indexes : LineEntry(v.s, def, p, <<x, y>>)
    <2>1. WellKept(v.post) /\ Tree(v.s)
      BY <1>3, <1>4
    <2> QED  BY <2>1, <1>4, <1>2, ReindexedEffect
  <1> HIDE DEF u
  <1>6. \A s, def, x : LineEntry(s, def, p, x) => Entry(s, def, x)
    BY DEF LineEntry, Entry, LineEntity, AnyEntity
  <1>7. NoneWrong(u.post, u.s, tracked)
    <2> SUFFICES ASSUME NEW def \in tracked, NEW x, NEW y, Posts(u.post, x, y), x.index = def.name
                 PROVE  Entry(r.s, def, <<x, y>>)
      BY <1>4, <1>5 DEF NoneWrong
    <2>1. CASE \E other \in indexes : LineEntry(r.s, other, p, <<x, y>>)
      <3>1. PICK other \in indexes : LineEntry(r.s, other, p, <<x, y>>)
        BY <2>1
      <3>2. PICK m : <<x, y>> = Pair(r.s, other, m)
        BY <3>1 DEF LineEntry
      <3>3. <<x, y>>[1] = x
        OBVIOUS
      <3>4. x.index = other.name
        BY <3>2, <3>3, PairIs
      <3>5. other = def
        BY <3>4 DEF OwnNames
      <3> QED  BY <3>1, <3>5, <1>6
    <2>2. CASE ~\E other \in indexes : LineEntry(r.s, other, p, <<x, y>>)
      <3>1. Posts(less, x, y)
        BY <2>2, <1>4, <1>5
      <3>2. Posts(t.post, x, y) /\ ~\E other \in indexes : \E z : LineEntry(t.s, other, p, <<x, z>>)
        BY <3>1, <1>3
      <3>3. Entry(t.s, def, <<x, y>>)
        BY <3>2 DEF NoneWrong
      <3>4. PICK k : AnyEntity(t.s, def.pattern, k) /\ <<x, y>> = Pair(t.s, def, k)
        BY <3>3 DEF Entry
      <3>5. ~LineEntity(t.s, def.pattern, p, k)
        BY <3>2, <3>4 DEF LineEntry
      <3>6. AnyEntity(r.s, def.pattern, k) /\ IndexKey(r.s, def, k) = IndexKey(t.s, def, k)
        BY <3>4, <3>5 DEF EntitiesStay
      <3>7. <<x, y>> = Pair(r.s, def, k)
        BY <3>4, <3>6 DEF Pair
      <3> QED  BY <3>6, <3>7 DEF Entry
    <2> QED  BY <2>1, <2>2
  <1>8. ASSUME u.ok, NoneMissing(t.post, t.s, tracked),
               \A def \in tracked : NoneAppear(t.s, r.s, p, def)
        PROVE  NoneMissing(u.post, u.s, tracked)
    <2> SUFFICES ASSUME NEW def \in tracked, NEW x, NEW y, Entry(r.s, def, <<x, y>>)
                 PROVE  Posts(u.post, x, y)
      BY <1>4, <1>5 DEF NoneMissing
    <2>1. PICK k : AnyEntity(r.s, def.pattern, k) /\ <<x, y>> = Pair(r.s, def, k)
      BY DEF Entry
    <2>2. CASE LineEntity(r.s, def.pattern, p, k)
      <3>1. LineEntry(r.s, def, p, <<x, y>>)
        BY <2>1, <2>2 DEF LineEntry
      <3> QED  BY <3>1, <1>4, <1>5, <1>8
    <2>3. CASE ~LineEntity(r.s, def.pattern, p, k)
      <3>1. /\ AnyEntity(t.s, def.pattern, k) /\ ~LineEntity(t.s, def.pattern, p, k)
            /\ IndexKey(r.s, def, k) = IndexKey(t.s, def, k)
        BY <2>1, <2>3, <1>8 DEF NoneAppear
      <3>2. <<x, y>> = Pair(t.s, def, k)
        BY <2>1, <3>1 DEF Pair
      <3>3. Posts(t.post, x, y)
        BY <3>1, <3>2, <1>8 DEF NoneMissing, Entry
      <3>4. ASSUME NEW other \in indexes, NEW z, LineEntry(t.s, other, p, <<x, z>>)
            PROVE  FALSE
        <4>1. PICK m : LineEntity(t.s, other.pattern, p, m) /\ <<x, z>> = Pair(t.s, other, m)
          BY <3>4 DEF LineEntry
        <4>2. <<x, z>>[1] = x /\ <<x, z>>[2] = z /\ <<x, y>>[1] = x /\ <<x, y>>[2] = y
          OBVIOUS
        <4>3. x.index = other.name /\ z = m
          BY <4>1, <4>2, PairIs
        <4>4. x.index = def.name /\ y = k
          BY <3>2, <4>2, PairIs
        <4>5. other = def
          BY <4>3, <4>4 DEF OwnNames
        <4>6. Posts(t.post, x, z)
          <5>1. Entry(t.s, other, <<x, z>>)
            BY <3>4, <1>6
          <5> QED  BY <5>1, <4>5, <1>8 DEF NoneMissing
        <4>7. z = y
          BY <4>6, <3>3 DEF Posts
        <4> QED  BY <4>1, <4>3, <4>4, <4>5, <4>7, <3>1
      <3>5. Posts(less, x, y)
        BY <3>3, <3>4, <1>3
      <3> QED  BY <3>5, <1>4, <1>5
    <2> QED  BY <2>2, <2>3
  <1>9. Once(u.post, indexes)
    <2> SUFFICES ASSUME NEW x, NEW y, Posts(u.post, x, y)
                 PROVE  \E def \in indexes : \E s : Tree(s) /\ Entry(s, def, <<x, y>>)
      BY DEF Once
    <2>1. CASE \E def \in indexes : LineEntry(r.s, def, p, <<x, y>>)
      BY <2>1, <1>6
    <2>2. CASE ~\E def \in indexes : LineEntry(r.s, def, p, <<x, y>>)
      <3>1. Posts(t.post, x, y)
        BY <2>2, <1>3, <1>4, <1>5
      <3> QED  BY <3>1 DEF Once
    <2> QED  BY <2>1, <2>2
  <1> QED  BY <1>1, <1>4, <1>5, <1>7, <1>8, <1>9

------------------------------------------------------------------------------
(* Paths that differ in list positions only                                *)

(* Segments that are the same, or both positions; paths of such segments.  *)
Alike(seg, tag) == IsName(seg) \/ IsName(tag) => seg = tag

Similar(r, q) ==
  /\ r \in Seq(Segment) /\ q \in Seq(Segment) /\ Len(r) = Len(q)
  /\ \A i \in 1..Len(r) : Alike(r[i], q[i])

(* Every path is similar to itself.                                        *)
LEMMA SimilarSelf ==
  ASSUME NEW r \in Seq(Segment)
  PROVE  Similar(r, r)
  BY DEF Similar, Alike

(* Similarity goes both ways.                                              *)
LEMMA SimilarBack ==
  ASSUME NEW r, NEW q, Similar(r, q)
  PROVE  Similar(q, r)
  BY DEF Similar, Alike

(* Similarity is transitive.                                               *)
LEMMA SimilarOn ==
  ASSUME NEW r, NEW q, NEW p, Similar(r, q), Similar(q, p)
  PROVE  Similar(r, p)
  <1>1. ASSUME NEW i \in 1..Len(r)
        PROVE  Alike(r[i], p[i])
    <2>1. Alike(r[i], q[i]) /\ Alike(q[i], p[i])
      BY DEF Similar
    <2> QED  BY <2>1 DEF Alike
  <1> QED  BY <1>1 DEF Similar

(* A path one segment longer.                                              *)
LEMMA SimilarAppend ==
  ASSUME NEW r \in Seq(Segment), r # <<>>, NEW q, Similar(Front(r), q),
         NEW tag \in Segment, Alike(Last(r), tag)
  PROVE  Similar(r, Append(q, tag))
  <1>1. q \in Seq(Segment) /\ Len(q) = Len(Front(r))
    BY DEF Similar
  <1>2. Append(q, tag) \in Seq(Segment) /\ Len(Append(q, tag)) = Len(q) + 1
    BY <1>1
  <1>3. Len(Front(r)) = Len(r) - 1 /\ Last(r) = r[Len(r)] /\ Len(r) \in Nat \ {0}
        /\ \A i \in 1..Len(r) - 1 : Front(r)[i] = r[i]
    BY PathFront
  <1>4. ASSUME NEW i \in 1..Len(r)
        PROVE  Alike(r[i], Append(q, tag)[i])
    <2>1. CASE i = Len(r)
      BY <2>1, <1>1, <1>3
    <2>2. CASE i # Len(r)
      <3>1. i \in 1..Len(r) - 1 /\ i \in 1..Len(q) /\ i \in 1..Len(Front(r))
        BY <2>2, <1>1, <1>3
      <3>2. Append(q, tag)[i] = q[i] /\ Front(r)[i] = r[i]
        BY <3>1, <1>1, <1>3
      <3>3. Alike(Front(r)[i], q[i])
        BY <3>1 DEF Similar
      <3> QED  BY <3>2, <3>3
    <2> QED  BY <2>1, <2>2
  <1> QED  BY <1>1, <1>2, <1>3, <1>4 DEF Similar

(* A pattern of names and wildcards does not tell similar paths apart.     *)
LEMMA MatchesSimilar ==
  ASSUME NEW pattern \in Seq(PatternParts), NEW r, Matches(pattern, r), NEW q, Similar(r, q)
  PROVE  Matches(pattern, q)
  <1>1. ASSUME NEW i \in 1..Len(pattern)
        PROVE  MatchesSegment(pattern[i], q[i])
    <2>1. pattern[i] \in PatternParts /\ MatchesSegment(pattern[i], r[i])
          /\ i \in 1..Len(r) /\ Alike(r[i], q[i])
      <3>1. pattern[i] \in PatternParts
        OBVIOUS
      <3>2. MatchesSegment(pattern[i], r[i]) /\ i \in 1..Len(r)
        BY DEF Matches
      <3>3. Alike(r[i], q[i])
        BY <3>2 DEF Similar
      <3> QED  BY <3>1, <3>2, <3>3
    <2> DEFINE pat == pattern[i]
    <2> HIDE DEF pat
    <2>2. \/ IsStar(pat) /\ \A seg : MatchesSegment(pat, seg)
          \/ /\ ~IsStar(pat) /\ pat \in Segment /\ IsName(pat)
             /\ \A seg : MatchesSegment(pat, seg) <=> seg = pat
      BY <2>1, PartIs DEF pat
    <2> QED  BY <2>1, <2>2 DEF Alike, pat
  <1> QED  BY <1>1 DEF Matches, Similar

(* t's children are those of s, the position of a list element aside,      *)
(* but for the keys in N, which have nothing but keys in N below them.     *)
CameFrom(s, m, seg, c) ==
  \E tag \in Segment : Alike(seg, tag) /\ ChildKey(s, m, tag) = c

ComesFrom(s, t, N) ==
  /\ ROOT \notin N
  /\ \A m \in Nat, seg \in Segment :
       ChildKey(t, m, seg) # NoKey /\ ChildKey(t, m, seg) \notin N =>
         m \notin N /\ CameFrom(s, m, seg, ChildKey(t, m, seg))

HasWay(s, r, k) == \E q : Similar(r, q) /\ Res(s, q) = k

(* The empty path leads to the root.                                       *)
LEMMA ResNone ==
  ASSUME NEW s, NEW r \in Seq(Segment)
  PROVE  Len(r) = 0 => Res(s, r) = ROOT
  <1>1. Walk(s, ROOT, r)[0] = ROOT
    BY WalkSteps
  <1> QED  BY <1>1 DEF Res, ResolveFrom

(* What a path leads to, a similar path has led to.                        *)
LEMMA WalkComes ==
  ASSUME NEW s, NEW t, Tree(t), NEW N, ComesFrom(s, t, N)
  PROVE  \A r \in Seq(Segment) :
           Res(t, r) # NoKey /\ Res(t, r) \notin N => HasWay(s, r, Res(t, r))
  <1> DEFINE P(n) == \A r \in Seq(Segment) :
                       Len(r) = n /\ Res(t, r) # NoKey /\ Res(t, r) \notin N
                         => HasWay(s, r, Res(t, r))
             S == {n \in Nat : P(n)}
  <1>1. P(0)
    <2> SUFFICES ASSUME NEW r \in Seq(Segment), Len(r) = 0 PROVE HasWay(s, r, Res(t, r))
      OBVIOUS
    <2>1. r = <<>>
      OBVIOUS
    <2>2. Res(s, r) = ROOT /\ Res(t, r) = ROOT
      BY ResNone
    <2>3. Similar(r, r)
      BY SimilarSelf
    <2> QED  BY <2>2, <2>3 DEF HasWay
  <1>2. ASSUME NEW n \in Nat, P(n)
        PROVE  P(n + 1)
    <2> SUFFICES ASSUME NEW r \in Seq(Segment), Len(r) = n + 1,
                        Res(t, r) # NoKey, Res(t, r) \notin N
                 PROVE  HasWay(s, r, Res(t, r))
      OBVIOUS
    <2> DEFINE q == Front(r)
               m == Res(t, q)
               c == Res(t, r)
    <2>1. r # <<>>
      OBVIOUS
    <2>2. q \in Seq(Segment) /\ Len(q) = n /\ Last(r) \in Segment
      BY <2>1, PathFront
    <2>3. m # NoKey /\ c = ChildKey(t, m, Last(r))
      BY <2>1, ResolveLast, RootIsBase DEF Res
    <2>4. m \in Nat
      <3>1. Sound(t) /\ ROOT \in Nat /\ Len(q) \in 0..Len(q) /\ m = Walk(t, ROOT, q)[Len(q)]
        BY <2>2, RootIsBase DEF Res, ResolveFrom
      <3> QED  BY <3>1, <2>2, <2>3, WalkType
    <2> HIDE DEF q, m, c
    <2>5. m \notin N /\ CameFrom(s, m, Last(r), c)
      BY <2>2, <2>3, <2>4 DEF ComesFrom, c
    <2>6. PICK tag \in Segment : Alike(Last(r), tag) /\ ChildKey(s, m, tag) = c
      BY <2>5 DEF CameFrom
    <2>7. HasWay(s, q, m)
      BY <1>2, <2>2, <2>3, <2>5 DEF m
    <2>8. PICK x : Similar(q, x) /\ Res(s, x) = m
      BY <2>7 DEF HasWay
    <2>9. Similar(r, Append(x, tag))
      BY <2>1, <2>6, <2>8, SimilarAppend DEF q
    <2>10. x \in Seq(Segment)
      BY <2>8 DEF Similar
    <2>11. Res(s, Append(x, tag)) = c
      <3> DEFINE y == Append(x, tag)
      <3>1. y \in Seq(Segment) /\ y # <<>> /\ Front(y) = x /\ Last(y) = tag
        BY <2>10, PathAppend
      <3> HIDE DEF y
      <3>2. ResolveFrom(s, ROOT, y) = IF ResolveFrom(s, ROOT, Front(y)) = NoKey THEN NoKey
              ELSE ChildKey(s, ResolveFrom(s, ROOT, Front(y)), Last(y))
        BY <3>1, ResolveLast
      <3> QED  BY <3>1, <3>2, <2>3, <2>6, <2>8 DEF Res, y
    <2> QED  BY <2>9, <2>11 DEF HasWay, c
  <1> HIDE DEF P
  <1>3. Nat \subseteq S
    <2>1. 0 \in S /\ \A n \in Nat : n \in S => n + 1 \in S
      BY <1>1, <1>2
    <2> QED  BY <2>1, SetInduction
  <1> QED
    <2> SUFFICES ASSUME NEW r \in Seq(Segment), Res(t, r) # NoKey, Res(t, r) \notin N
                 PROVE  HasWay(s, r, Res(t, r))
      OBVIOUS
    <2>1. Len(r) \in Nat /\ P(Len(r))
      BY <1>3
    <2> QED  BY <2>1 DEF P

------------------------------------------------------------------------------
(* Changes on the line of a path                                           *)

(* The concatenation of two paths.                                         *)
LEMMA ConcatPath ==
  ASSUME NEW r \in Seq(Segment), NEW c \in Seq(Segment)
  PROVE  /\ r \o c \in Seq(Segment) /\ Len(r \o c) = Len(r) + Len(c)
         /\ \A i \in 1..Len(r) : (r \o c)[i] = r[i]
         /\ \A i \in 1..Len(c) : (r \o c)[Len(r) + i] = c[i]
  OBVIOUS

(* The concatenation with a path, one segment shorter.                     *)
LEMMA ConcatFront ==
  ASSUME NEW r \in Seq(Segment), NEW c \in Seq(Segment), c # <<>>
  PROVE  r \o c # <<>> /\ Front(r \o c) = r \o Front(c) /\ Last(r \o c) = Last(c)
  <1> DEFINE x == r \o c
             y == r \o Front(c)
  <1>1. /\ Front(c) \in Seq(Segment) /\ Len(Front(c)) = Len(c) - 1 /\ Len(c) \in Nat \ {0}
        /\ \A i \in 1..Len(c) - 1 : Front(c)[i] = c[i]
        /\ Last(c) = c[Len(c)]
    BY PathFront
  <1>2. /\ x \in Seq(Segment) /\ Len(x) = Len(r) + Len(c)
        /\ \A i \in 1..Len(r) : x[i] = r[i]
        /\ \A i \in 1..Len(c) : x[Len(r) + i] = c[i]
    BY ConcatPath
  <1>3. /\ y \in Seq(Segment) /\ Len(y) = Len(r) + Len(c) - 1
        /\ \A i \in 1..Len(r) : y[i] = r[i]
        /\ \A i \in 1..Len(c) - 1 : y[Len(r) + i] = Front(c)[i]
    <2>1. /\ y \in Seq(Segment) /\ Len(y) = Len(r) + Len(Front(c))
          /\ \A i \in 1..Len(r) : y[i] = r[i]
          /\ \A i \in 1..Len(Front(c)) : y[Len(r) + i] = Front(c)[i]
      BY <1>1, ConcatPath
    <2> QED  BY <2>1, <1>1
  <1> HIDE DEF x, y
  <1>4. Len(r) \in Nat
    OBVIOUS
  <1>5. x # <<>>
    BY <1>1, <1>2, <1>4
  <1>6. /\ Front(x) \in Seq(Segment) /\ Len(Front(x)) = Len(x) - 1
        /\ \A i \in 1..Len(x) - 1 : Front(x)[i] = x[i]
        /\ Last(x) = x[Len(x)]
    BY <1>2, <1>5, PathFront
  <1>7. Last(x) = Last(c)
    <2>1. Len(c) \in 1..Len(c)
      BY <1>1
    <2> QED  BY <2>1, <1>1, <1>2, <1>6
  <1>8. ASSUME NEW i \in 1..Len(y)
        PROVE  Front(x)[i] = y[i]
    <2>1. i \in 1..Len(x) - 1 /\ Front(x)[i] = x[i]
      BY <1>1, <1>2, <1>3, <1>4, <1>6
    <2>2. CASE i \in 1..Len(r)
      BY <2>1, <2>2, <1>2, <1>3
    <2>3. CASE i \notin 1..Len(r)
      <3> DEFINE j == i - Len(r)
      <3>1. j \in 1..Len(c) - 1 /\ j \in 1..Len(c) /\ i = Len(r) + j
        BY <2>3, <1>1, <1>3, <1>4
      <3> HIDE DEF j
      <3>2. x[i] = c[j] /\ y[i] = Front(c)[j] /\ Front(c)[j] = c[j]
        BY <3>1, <1>1, <1>2, <1>3
      <3> QED  BY <3>2, <2>1
    <2> QED  BY <2>2, <2>3
  <1>9. Front(x) = y
    <2>1. Len(Front(x)) = Len(y)
      BY <1>2, <1>3, <1>6
    <2> QED  BY <2>1, <1>3, <1>6, <1>8, SeqEqual
  <1> QED  BY <1>5, <1>7, <1>9 DEF x, y

(* An empty path leads nowhere else.                                       *)
LEMMA FromNone ==
  ASSUME NEW s, NEW base, NEW c \in Seq(Segment)
  PROVE  Len(c) = 0 => ResolveFrom(s, base, c) = base
  <1>1. Walk(s, base, c)[0] = base
    BY WalkSteps
  <1> QED  BY <1>1 DEF ResolveFrom

(* A path followed from where another one leads.                           *)
LEMMA ResOn ==
  ASSUME NEW s, NEW r \in Seq(Segment)
  PROVE  \A c \in Seq(Segment) : ResolveFrom(s, Res(s, r), c) = Res(s, r \o c)
  <1> DEFINE P(n) == \A c \in Seq(Segment) :
                       Len(c) = n => ResolveFrom(s, Res(s, r), c) = Res(s, r \o c)
             S == {n \in Nat : P(n)}
  <1>1. P(0)
    <2> SUFFICES ASSUME NEW c \in Seq(Segment), Len(c) = 0
                 PROVE  ResolveFrom(s, Res(s, r), c) = Res(s, r \o c)
      OBVIOUS
    <2>1. r \o c = r
      <3>1. c = <<>>
        OBVIOUS
      <3> QED  BY <3>1
    <2>2. ResolveFrom(s, Res(s, r), c) = Res(s, r)
      BY FromNone
    <2> QED  BY <2>1, <2>2
  <1>2. ASSUME NEW n \in Nat, P(n)
        PROVE  P(n + 1)
    <2> SUFFICES ASSUME NEW c \in Seq(Segment), Len(c) = n + 1
                 PROVE  ResolveFrom(s, Res(s, r), c) = Res(s, r \o c)
      OBVIOUS
    <2> DEFINE b == Res(s, r)
               x == r \o c
    <2>1. c # <<>>
      OBVIOUS
    <2>2. Front(c) \in Seq(Segment) /\ Len(Front(c)) = n
      BY <2>1, PathFront
    <2>3. ResolveFrom(s, b, Front(c)) = Res(s, r \o Front(c))
      BY <1>2, <2>2
    <2>4. x \in Seq(Segment) /\ x # <<>> /\ Front(x) = r \o Front(c) /\ Last(x) = Last(c)
      BY <2>1, ConcatPath, ConcatFront
    <2> HIDE DEF x, b, P
    <2>5. ResolveFrom(s, b, c) =
              IF ResolveFrom(s, b, Front(c)) = NoKey THEN NoKey
              ELSE ChildKey(s, ResolveFrom(s, b, Front(c)), Last(c))
      BY <2>1, ResolveLast
    <2>6. ResolveFrom(s, ROOT, x) =
              IF ResolveFrom(s, ROOT, Front(x)) = NoKey THEN NoKey
              ELSE ChildKey(s, ResolveFrom(s, ROOT, Front(x)), Last(x))
      BY <2>4, ResolveLast
    <2>7. ResolveFrom(s, b, c) = Res(s, x)
      BY <2>3, <2>4, <2>5, <2>6 DEF Res
    <2> QED  BY <2>7 DEF x, b
  <1> HIDE DEF P
  <1>3. Nat \subseteq S
    <2>1. 0 \in S /\ \A n \in Nat : n \in S => n + 1 \in S
      BY <1>1, <1>2
    <2> QED  BY <2>1, SetInduction
  <1> QED
    <2> SUFFICES ASSUME NEW c \in Seq(Segment)
                 PROVE  ResolveFrom(s, Res(s, r), c) = Res(s, r \o c)
      OBVIOUS
    <2>1. Len(c) \in Nat /\ P(Len(c))
      BY <1>3
    <2> QED  BY <2>1 DEF P

(* One of two paths that lead to the same path leads to the other.         *)
LEMMA LeadsBoth ==
  ASSUME NEW p \in Seq(Segment), NEW q \in Seq(Segment), NEW r \in Seq(Segment),
         Leads(p, r), Leads(q, r)
  PROVE  OneLine(p, q)
  BY DEF Leads, OneLine

(* Leading to is transitive.                                               *)
LEMMA LeadsOn ==
  ASSUME NEW p \in Seq(Segment), NEW q \in Seq(Segment), NEW r \in Seq(Segment),
         Leads(p, q), Leads(q, r)
  PROVE  Leads(p, r)
  BY DEF Leads

(* What goes on from a path off the line of p is off it, too.              *)
LEMMA OffLine ==
  ASSUME NEW p \in Seq(Segment), NEW r \in Seq(Segment), ~OneLine(p, r), NEW c \in Seq(Segment)
  PROVE  ~OneLine(p, r \o c)
  <1>1. r \o c \in Seq(Segment) /\ Leads(r, r \o c)
    BY ConcatPath DEF Leads
  <1>2. ~Leads(p, r \o c)
    BY <1>1, LeadsBoth
  <1>3. ~Leads(r \o c, p)
    BY <1>1, LeadsOn DEF OneLine
  <1> QED  BY <1>2, <1>3 DEF OneLine

(* What a key has that the columns of an index read.                       *)
SameHeld(s, t, m) ==
  /\ HasKind(t, m, "leaf") <=> HasKind(s, m, "leaf")
  /\ HasKind(t, m, "packed") <=> HasKind(s, m, "packed")
  /\ HasKind(s, m, "leaf") \/ HasKind(s, m, "packed") => t.node[m] = s.node[m]

(* An entity whose columns lead to the same nodes has the same entry.      *)
LEMMA SameKey ==
  ASSUME NEW s, NEW t, NEW def, NEW k, SameHeld(s, t, k),
         \A c \in DOMAIN def.columns :
           /\ ResolveFrom(t, k, def.columns[c].path) = ResolveFrom(s, k, def.columns[c].path)
           /\ SameHeld(s, t, ResolveFrom(s, k, def.columns[c].path))
  PROVE  IndexKey(t, def, k) = IndexKey(s, def, k)
  <1>1. ASSUME NEW c \in DOMAIN def.columns
        PROVE  ColumnScalar(t, k, def.columns[c].path) = ColumnScalar(s, k, def.columns[c].path)
    <2> DEFINE col == def.columns[c].path
    <2>1. /\ ResolveFrom(t, k, col) = ResolveFrom(s, k, col)
          /\ SameHeld(s, t, ResolveFrom(s, k, col))
      OBVIOUS
    <2> HIDE DEF col
    <2>2. ColumnScalar(t, k, col) = ColumnScalar(s, k, col)
      BY <2>1 DEF ColumnScalar, SameHeld
    <2> QED  BY <2>2 DEF col
  <1>2. Columns(t, def, k) = Columns(s, def, k)
    BY <1>1 DEF Columns
  <1> QED  BY <1>2 DEF IndexKey

(* A key that has the same node has the same scalar.                       *)
LEMMA SameNodeHeld ==
  ASSUME NEW s, NEW t, NEW m, SameNode(s, t, m)
  PROVE  SameHeld(s, t, m)
  BY DEF SameNode, SameHeld

(* No node is the same as none.                                            *)
LEMMA NoneHeld ==
  ASSUME NEW s, Tree(s), NEW t, Tree(t)
  PROVE  SameHeld(s, t, NoKey)
  <1>1. Shape(s) /\ Shape(t)
    BY DEF Tree, Sound
  <1> QED  BY <1>1, NoKeyIsNoNode DEF SameHeld

(* Beside the line of p everything is as it was: every path leads to the   *)
(* same node.                                                              *)
SameAt(s, t, r) == Res(t, r) = Res(s, r) /\ (Res(s, r) # NoKey => SameNode(s, t, Res(s, r)))

(* Beside the line of p everything is as it was.                           *)
Loc(s, t, p) == \A r \in Seq(Segment) : ~OneLine(p, r) => SameAt(s, t, r)

(* On the way to q there may be new containers; everything else is as it   *)
(* was.                                                                    *)
OnlyWay(s, t, q) == \A r \in Seq(Segment) : ~Leads(r, q) => SameAt(s, t, r)

(* Two changes, one after the other.                                       *)
LEMMA SameAtOn ==
  ASSUME NEW s, NEW t, NEW u, NEW r, SameAt(s, t, r), SameAt(t, u, r)
  PROVE  SameAt(s, u, r)
  BY SameNodeOn DEF SameAt

(* Two changes beside which everything is as it was are one.               *)
LEMMA LocOn ==
  ASSUME NEW s, NEW t, NEW u, NEW p, Loc(s, t, p), Loc(t, u, p)
  PROVE  Loc(s, u, p)
  BY SameAtOn DEF Loc

(* So are two that make containers on the way only.                        *)
LEMMA OnlyWayOn ==
  ASSUME NEW s, NEW t, NEW u, NEW q, OnlyWay(s, t, q), OnlyWay(t, u, q)
  PROVE  OnlyWay(s, u, q)
  BY SameAtOn DEF OnlyWay

(* No change.                                                              *)
LEMMA SameAtSelf ==
  ASSUME NEW s, Tree(s), NEW r \in Seq(Segment)
  PROVE  r # <<>> => SameAt(s, s, r)
  <1> SUFFICES ASSUME r # <<>>, Res(s, r) # NoKey
               PROVE  SameNode(s, s, Res(s, r))
    BY DEF SameAt
  <1>1. Live(s, Res(s, r))
    <2>1. Len(r) \in 0..Len(r) /\ Len(r) # 0
      OBVIOUS
    <2>2. Walk(s, ROOT, r)[Len(r)] # NoKey /\ Res(s, r) = Walk(s, ROOT, r)[Len(r)]
      BY DEF Res, ResolveFrom
    <2> QED  BY <2>1, <2>2, WalkLive
  <1> QED  BY <1>1, SameNodeSelf DEF Live

(* No change.                                                              *)
LEMMA OnlyWaySelf ==
  ASSUME NEW s, Tree(s), NEW q \in Seq(Segment)
  PROVE  OnlyWay(s, s, q)
  <1>1. ASSUME NEW r \in Seq(Segment), ~Leads(r, q)
        PROVE  r # <<>>
    BY <1>1 DEF Leads
  <1> QED  BY <1>1, SameAtSelf DEF OnlyWay

(* The way to a path is on the line of every path it leads to.             *)
LEMMA WayIsLoc ==
  ASSUME NEW s, NEW t, NEW q \in Seq(Segment), OnlyWay(s, t, q),
         NEW p \in Seq(Segment), Leads(q, p)
  PROVE  Loc(s, t, p)
  <1> SUFFICES ASSUME NEW r \in Seq(Segment), ~OneLine(p, r) PROVE SameAt(s, t, r)
    BY DEF Loc
  <1>1. ~Leads(r, q)
    BY LeadsOn DEF OneLine
  <1> QED  BY <1>1 DEF OnlyWay

(* The way to a path is part of the way to every path it leads to.         *)
LEMMA WayIsLonger ==
  ASSUME NEW s, NEW t, NEW q \in Seq(Segment), OnlyWay(s, t, q),
         NEW p \in Seq(Segment), Leads(q, p)
  PROVE  OnlyWay(s, t, p)
  <1> SUFFICES ASSUME NEW r \in Seq(Segment), ~Leads(r, p) PROVE SameAt(s, t, r)
    BY DEF OnlyWay
  <1>1. ~Leads(r, q)
    BY LeadsOn
  <1> QED  BY <1>1 DEF OnlyWay

(* A change on the line of a path is on that of every path above it.       *)
LEMMA LocAbove ==
  ASSUME NEW s, NEW t, NEW q \in Seq(Segment), Loc(s, t, q),
         NEW p \in Seq(Segment), Leads(p, q)
  PROVE  Loc(s, t, p)
  <1> SUFFICES ASSUME NEW r \in Seq(Segment), ~OneLine(p, r) PROVE SameAt(s, t, r)
    BY DEF Loc
  <1>1. ~OneLine(q, r)
    BY LeadsOn, LeadsBoth DEF OneLine
  <1> QED  BY <1>1 DEF Loc

(* Names are segments.                                                     *)
LEMMA NamePathIs ==
  ASSUME NEW c \in NamePaths
  PROVE  c \in Seq(Segment) /\ \A i \in 1..Len(c) : IsName(c[i]) /\ c[i] \in Segment
  <1>1. {Name(n) : n \in Names} \subseteq Segment
        /\ \A x \in {Name(n) : n \in Names} : IsName(x)
    BY NameSegment
  <1> QED  BY <1>1 DEF NamePaths

(* When everything beside the line of p is as it was, so are the entities  *)
(* there and their entries.                                                *)
LEMMA LocKey ==
  ASSUME NEW s, Tree(s), NEW t, Tree(t), NEW p \in Seq(Segment), Loc(s, t, p),
         NEW def, PlainDef(def), NEW r, NEW k, EntityAt(s, def.pattern, r, k), ~OneLine(p, r)
  PROVE  EntityAt(t, def.pattern, r, k) /\ IndexKey(t, def, k) = IndexKey(s, def, k)
  <1>1. r \in Seq(Segment) /\ Res(s, r) = k /\ k # NoKey
    BY DEF EntityAt, Matches
  <1>2. SameAt(s, t, r)
    BY <1>1 DEF Loc
  <1>3. EntityAt(t, def.pattern, r, k)
    BY <1>1, <1>2 DEF EntityAt, SameAt
  <1>4. SameHeld(s, t, k)
    BY <1>1, <1>2, SameNodeHeld DEF SameAt
  <1>5. ASSUME NEW c \in DOMAIN def.columns
        PROVE  /\ ResolveFrom(t, k, def.columns[c].path) = ResolveFrom(s, k, def.columns[c].path)
               /\ SameHeld(s, t, ResolveFrom(s, k, def.columns[c].path))
    <2> DEFINE col == def.columns[c].path
    <2>1. col \in Seq(Segment)
      BY NamePathIs DEF PlainDef
    <2> HIDE DEF col
    <2>2. ~OneLine(p, r \o col) /\ r \o col \in Seq(Segment)
      BY <1>1, <2>1, OffLine, ConcatPath
    <2>3. SameAt(s, t, r \o col)
      BY <2>2 DEF Loc
    <2>4. ResolveFrom(s, k, col) = Res(s, r \o col) /\ ResolveFrom(t, k, col) = Res(t, r \o col)
      <3>1. Res(t, r) = k
        BY <1>1, <1>2 DEF SameAt
      <3> QED  BY <1>1, <2>1, <3>1, ResOn
    <2>5. SameHeld(s, t, ResolveFrom(s, k, col))
      BY <2>3, <2>4, NoneHeld, SameNodeHeld DEF SameAt
    <2> QED  BY <2>3, <2>4, <2>5 DEF SameAt, col
  <1>6. IndexKey(t, def, k) = IndexKey(s, def, k)
    BY <1>4, <1>5, SameKey
  <1> QED  BY <1>3, <1>6

(* A key is led to by one path.                                            *)
LEMMA OnePath ==
  ASSUME NEW s, Tree(s), NEW r \in Seq(Segment), NEW q \in Seq(Segment),
         Res(s, r) = Res(s, q), Res(s, r) # NoKey
  PROVE  r = q
  <1>1. Len(r) \in 0..Len(r) /\ Len(q) \in 0..Len(q)
    OBVIOUS
  <1>2. Walk(s, ROOT, r)[Len(r)] = Res(s, r) /\ Walk(s, ROOT, q)[Len(q)] = Res(s, q)
    BY DEF Res, ResolveFrom
  <1>3. Len(r) = Len(q) /\ \A x \in 1..Len(r) : r[x] = q[x]
    BY <1>1, <1>2, WalkUnique
  <1> QED  BY <1>3, SeqEqual

(* So they keep their place, and no other one appears.                     *)
LEMMA LocSteady ==
  ASSUME NEW s, Tree(s), NEW t, Tree(t), NEW p \in Seq(Segment), Loc(s, t, p),
         NEW def, PlainDef(def)
  PROVE  EntitiesStay(s, t, p, def) /\ NoneAppear(s, t, p, def)
  <1>1. ASSUME NEW k, AnyEntity(s, def.pattern, k), ~LineEntity(s, def.pattern, p, k)
        PROVE  AnyEntity(t, def.pattern, k) /\ IndexKey(t, def, k) = IndexKey(s, def, k)
    <2>1. PICK r : EntityAt(s, def.pattern, r, k)
      BY <1>1 DEF AnyEntity
    <2>2. ~OneLine(p, r)
      BY <1>1, <2>1 DEF LineEntity, OneLine
    <2>3. EntityAt(t, def.pattern, r, k) /\ IndexKey(t, def, k) = IndexKey(s, def, k)
      BY <2>1, <2>2, LocKey
    <2> QED  BY <2>3 DEF AnyEntity
  <1>2. ASSUME NEW k, AnyEntity(t, def.pattern, k), ~LineEntity(t, def.pattern, p, k)
        PROVE  /\ AnyEntity(s, def.pattern, k) /\ ~LineEntity(s, def.pattern, p, k)
               /\ IndexKey(t, def, k) = IndexKey(s, def, k)
    <2>1. PICK r : EntityAt(t, def.pattern, r, k)
      BY <1>2 DEF AnyEntity
    <2>2. ~OneLine(p, r) /\ r \in Seq(Segment)
      BY <1>2, <2>1 DEF LineEntity, OneLine, EntityAt, Matches
    <2>3. EntityAt(s, def.pattern, r, k)
      <3>1. SameAt(s, t, r)
        BY <2>2 DEF Loc
      <3> QED  BY <2>1, <3>1 DEF EntityAt, SameAt
    <2>4. IndexKey(t, def, k) = IndexKey(s, def, k)
      BY <2>2, <2>3, LocKey
    <2>5. ~LineEntity(s, def.pattern, p, k)
      <3> SUFFICES ASSUME NEW q, EntityAt(s, def.pattern, q, k), OneLine(q, p) PROVE FALSE
        BY DEF LineEntity
      <3>1. q \in Seq(Segment) /\ Res(s, q) = k /\ Res(s, r) = k /\ k # NoKey
        BY <2>3 DEF EntityAt, Matches
      <3>2. r = q
        BY <3>1, <2>2, OnePath
      <3> QED  BY <3>2, <2>2 DEF OneLine
    <2> QED  BY <2>3, <2>4, <2>5 DEF AnyEntity
  <1> QED  BY <1>1, <1>2 DEF EntitiesStay, NoneAppear

------------------------------------------------------------------------------
(* Packed entities that a change brings                                    *)

(* A packed entity at a path.                                              *)
PackedAt(s, q) == q \in Seq(Segment) /\ HasKind(s, Res(s, q), "packed")

(* The packed entities of t are at paths where s has one, up to positions  *)
(* in lists, and at the paths A.                                           *)
Fresh(q, A)     == \E a \in A : Similar(q, a)
Was(s, q)       == \E r : Similar(q, r) /\ PackedAt(s, r)
Brings(s, t, A) == \A q : PackedAt(t, q) => Fresh(q, A) \/ Was(s, q)

(* No change brings nothing.                                               *)
LEMMA BringsSelf ==
  ASSUME NEW s, NEW A
  PROVE  Brings(s, s, A)
  <1> SUFFICES ASSUME NEW q, PackedAt(s, q) PROVE Was(s, q)
    BY DEF Brings
  <1>1. Similar(q, q)
    BY SimilarSelf DEF PackedAt
  <1> QED  BY <1>1 DEF Was

(* Two changes bring what each of them brings.                             *)
LEMMA BringsOn ==
  ASSUME NEW C, NEW s, NEW t, NEW A, Brings(s, t, A), A \subseteq C,
         NEW u, NEW B, Brings(t, u, B), B \subseteq C
  PROVE  Brings(s, u, C)
  <1> SUFFICES ASSUME NEW q, PackedAt(u, q) PROVE Fresh(q, C) \/ Was(s, q)
    BY DEF Brings
  <1>1. CASE Fresh(q, B)
    BY <1>1 DEF Fresh
  <1>2. CASE Was(t, q)
    <2>1. PICK r : Similar(q, r) /\ PackedAt(t, r)
      BY <1>2 DEF Was
    <2>2. CASE Fresh(r, A)
      <3>1. PICK a \in A : Similar(r, a)
        BY <2>2 DEF Fresh
      <3>2. Similar(q, a)
        BY <2>1, <3>1, SimilarOn
      <3> QED  BY <3>2 DEF Fresh
    <2>3. CASE Was(s, r)
      <3>1. PICK x : Similar(r, x) /\ PackedAt(s, x)
        BY <2>3 DEF Was
      <3>2. Similar(q, x)
        BY <2>1, <3>1, SimilarOn
      <3> QED  BY <3>1, <3>2 DEF Was
    <2> QED  BY <2>1, <2>2, <2>3 DEF Brings
  <1> QED  BY <1>1, <1>2 DEF Brings

(* A packed entity lies at a path that leads somewhere else than the root. *)
LEMMA PackedKey ==
  ASSUME NEW s, Tree(s), NEW q, PackedAt(s, q)
  PROVE  /\ q \in Seq(Segment) /\ Res(s, q) # NoKey /\ Res(s, q) # ROOT
         /\ Res(s, q) \in DOMAIN s.node /\ q # <<>>
  <1>1. Shape(s) /\ q \in Seq(Segment) /\ HasKind(s, Res(s, q), "packed")
    BY DEF Tree, Sound, PackedAt
  <1>2. Res(s, q) # NoKey
    BY <1>1, NoKeyIsNoNode
  <1>3. Res(s, q) # ROOT
    BY <1>1 DEF Shape
  <1>4. Len(q) # 0
    BY <1>1, <1>3, ResNone
  <1> QED  BY <1>1, <1>2, <1>3, <1>4 DEF HasKind, Live

(* A change that takes children from the table and packs nothing.          *)
LEMMA BringsFrom ==
  ASSUME NEW s, NEW t, Tree(t), NEW N, ComesFrom(s, t, N),
         \A m \in N : ~HasKind(t, m, "packed"),
         \A m : m \notin N /\ HasKind(t, m, "packed") => HasKind(s, m, "packed")
  PROVE  \A A : Brings(s, t, A)
  <1> SUFFICES ASSUME NEW q, PackedAt(t, q) PROVE Was(s, q)
    BY DEF Brings
  <1>1. q \in Seq(Segment) /\ Res(t, q) # NoKey /\ HasKind(t, Res(t, q), "packed")
    BY PackedKey DEF PackedAt
  <1>2. Res(t, q) \notin N /\ HasKind(s, Res(t, q), "packed")
    BY <1>1
  <1>3. HasWay(s, q, Res(t, q))
    BY <1>1, <1>2, WalkComes
  <1>4. PICK r : Similar(q, r) /\ Res(s, r) = Res(t, q)
    BY <1>3 DEF HasWay
  <1>5. PackedAt(s, r)
    BY <1>2, <1>4 DEF PackedAt, Similar
  <1> QED  BY <1>4, <1>5 DEF Was

(* A change that packs one entity at p.                                    *)
LEMMA BringsNew ==
  ASSUME NEW s, NEW t, Tree(t), NEW new, ComesFrom(s, t, {new}),
         NEW p \in Seq(Segment), Res(t, p) = new,
         \A m : m # new /\ HasKind(t, m, "packed") => HasKind(s, m, "packed")
  PROVE  Brings(s, t, {p})
  <1> SUFFICES ASSUME NEW q, PackedAt(t, q) PROVE Fresh(q, {p}) \/ Was(s, q)
    BY DEF Brings
  <1>1. q \in Seq(Segment) /\ Res(t, q) # NoKey /\ HasKind(t, Res(t, q), "packed")
    BY PackedKey DEF PackedAt
  <1>2. CASE Res(t, q) = new
    <2>1. q = p
      BY <1>1, <1>2, OnePath
    <2> QED  BY <2>1, SimilarSelf DEF Fresh
  <1>3. CASE Res(t, q) # new
    <2> DEFINE N == {new}
    <2>0. ComesFrom(s, t, N) /\ Res(t, q) \notin N
      BY <1>3
    <2> HIDE DEF N
    <2>1. HasWay(s, q, Res(t, q))
      BY <1>1, <2>0, WalkComes
    <2>2. PICK r : Similar(q, r) /\ Res(s, r) = Res(t, q)
      BY <2>1 DEF HasWay
    <2>3. PackedAt(s, r)
      BY <1>1, <1>3, <2>2 DEF PackedAt, Similar
    <2> QED  BY <2>2, <2>3 DEF Was
  <1> QED  BY <1>2, <1>3

(* Patterns that no path of a packed entity may match.                     *)
ClearOf(s, W) == \A w \in W : \A q : Matches(w, q) => ~PackedAt(s, q)

(* A table stays clear of patterns when what is brought is.                *)
LEMMA StaysClear ==
  ASSUME NEW W, W \subseteq Seq(PatternParts), NEW s, ClearOf(s, W), NEW t, NEW A,
         Brings(s, t, A), \A w \in W, a \in A : ~Matches(w, a)
  PROVE  ClearOf(t, W)
  <1> SUFFICES ASSUME NEW w \in W, NEW q, Matches(w, q), PackedAt(t, q) PROVE FALSE
    BY DEF ClearOf
  <1>1. CASE Fresh(q, A)
    <2>1. PICK a \in A : Similar(q, a)
      BY <1>1 DEF Fresh
    <2> QED  BY <2>1, MatchesSimilar
  <1>2. CASE Was(s, q)
    <2>1. PICK r : Similar(q, r) /\ PackedAt(s, r)
      BY <1>2 DEF Was
    <2>2. Matches(w, r)
      BY <2>1, MatchesSimilar
    <2> QED  BY <2>1, <2>2 DEF ClearOf
  <1> QED  BY <1>1, <1>2 DEF Brings

(* A path to p that led somewhere leads there still.                       *)
Way(s, t, p) ==
  \A r \in Seq(Segment) : Leads(r, p) /\ r # p /\ Res(s, r) # NoKey => Res(t, r) = Res(s, r)

WayTo(s, t, q) ==
  \A r \in Seq(Segment) : Leads(r, q) /\ Res(s, r) # NoKey => Res(t, r) = Res(s, r)

(* A change at p that packs entities at A at most; a change that makes     *)
(* containers on the way to q only.                                        *)
Frame(s, t, p, A) == Loc(s, t, p) /\ Way(s, t, p) /\ Brings(s, t, A)
Grows(s, t, q)    == OnlyWay(s, t, q) /\ WayTo(s, t, q) /\ Brings(s, t, {})

(* Two changes at the same path.                                           *)
LEMMA FrameOn ==
  ASSUME NEW s, NEW t, NEW u, NEW p, NEW A, Frame(s, t, p, A), Frame(t, u, p, A)
  PROVE  Frame(s, u, p, A)
  <1>1. Loc(s, u, p)
    BY LocOn DEF Frame
  <1>2. Way(s, u, p)
    BY DEF Frame, Way
  <1>3. Brings(s, u, A)
    BY BringsOn DEF Frame
  <1> QED  BY <1>1, <1>2, <1>3 DEF Frame

(* A change that packs less.                                               *)
LEMMA FrameMore ==
  ASSUME NEW s, NEW t, NEW p, NEW A, Frame(s, t, p, A), NEW B, A \subseteq B
  PROVE  Frame(s, t, p, B)
  BY DEF Frame, Brings, Fresh

(* No change.                                                              *)
LEMMA GrowsSelf ==
  ASSUME NEW s, Tree(s), NEW q \in Seq(Segment)
  PROVE  Grows(s, s, q)
  BY OnlyWaySelf, BringsSelf DEF Grows, WayTo

(* Containers made on the way to q are made on the way to what is below.   *)
LEMMA GrowsLonger ==
  ASSUME NEW s, NEW t, NEW q \in Seq(Segment), Grows(s, t, q),
         NEW p \in Seq(Segment), Leads(q, p)
  PROVE  Grows(s, t, p)
  <1>1. OnlyWay(s, t, p)
    BY WayIsLonger DEF Grows
  <1>2. WayTo(s, t, p)
    <2> SUFFICES ASSUME NEW r \in Seq(Segment), Leads(r, p), Res(s, r) # NoKey
                 PROVE  Res(t, r) = Res(s, r)
      BY DEF WayTo
    <2>1. CASE Leads(r, q)
      BY <2>1 DEF Grows, WayTo
    <2>2. CASE ~Leads(r, q)
      BY <2>2 DEF Grows, OnlyWay, SameAt
    <2> QED  BY <2>1, <2>2
  <1> QED  BY <1>1, <1>2 DEF Grows

(* Containers made on one way in two steps.                                *)
LEMMA GrowsOn ==
  ASSUME NEW s, NEW t, NEW u, NEW q, Grows(s, t, q), Grows(t, u, q)
  PROVE  Grows(s, u, q)
  <1>1. OnlyWay(s, u, q)
    BY OnlyWayOn DEF Grows
  <1>2. WayTo(s, u, q)
    BY DEF Grows, WayTo
  <1>3. Brings(s, u, {})
    BY BringsOn DEF Grows
  <1> QED  BY <1>1, <1>2, <1>3 DEF Grows

(* To make containers on the way to q is a change at every path below.     *)
LEMMA GrowsFrame ==
  ASSUME NEW s, NEW t, NEW q \in Seq(Segment), Grows(s, t, q),
         NEW p \in Seq(Segment), Leads(q, p), NEW A
  PROVE  Frame(s, t, p, A)
  <1>1. Grows(s, t, p)
    BY GrowsLonger
  <1>2. Leads(p, p)
    BY DEF Leads
  <1>3. Loc(s, t, p)
    BY <1>1, <1>2, WayIsLoc DEF Grows
  <1>4. Way(s, t, p)
    BY <1>1 DEF Way, Grows, WayTo
  <1>5. Brings(s, t, A)
    BY <1>1 DEF Grows, Brings, Fresh
  <1> QED  BY <1>3, <1>4, <1>5 DEF Frame

(* A change at q is a change at what q is below.                           *)
LEMMA FrameAbove ==
  ASSUME NEW s, NEW t, NEW q \in Seq(Segment), NEW A, Frame(s, t, q, A),
         NEW p \in Seq(Segment), Leads(p, q)
  PROVE  Frame(s, t, p, A)
  <1>1. Loc(s, t, p)
    BY LocAbove DEF Frame
  <1>2. Way(s, t, p)
    <2> SUFFICES ASSUME NEW r \in Seq(Segment), Leads(r, p), r # p, Res(s, r) # NoKey
                 PROVE  Res(t, r) = Res(s, r)
      BY DEF Way
    <2>1. Leads(r, q)
      BY LeadsOn
    <2>2. r # q
      <3>1. ASSUME r = q PROVE FALSE
        <4>1. Len(r) = Len(p) /\ \A i \in 1..Len(r) : r[i] = p[i]
          BY <3>1 DEF Leads
        <4> QED  BY <4>1, SeqEqual
      <3> QED  BY <3>1
    <2> QED  BY <2>1, <2>2 DEF Frame, Way
  <1> QED  BY <1>1, <1>2 DEF Frame

------------------------------------------------------------------------------
(* Single children                                                         *)

(* A path and its front.                                                   *)
LEMMA FrontLeads ==
  ASSUME NEW r \in Seq(Segment), r # <<>>
  PROVE  /\ Front(r) \in Seq(Segment) /\ Last(r) \in Segment
         /\ Leads(Front(r), r) /\ ~Leads(r, Front(r)) /\ Front(r) # r
         /\ Len(Front(r)) = Len(r) - 1
  <1>1. /\ Front(r) \in Seq(Segment) /\ Len(Front(r)) = Len(r) - 1 /\ Len(r) \in Nat \ {0}
        /\ \A i \in 1..Len(r) - 1 : Front(r)[i] = r[i]
        /\ Last(r) \in Segment
    BY PathFront
  <1>2. Leads(Front(r), r) /\ ~Leads(r, Front(r))
    BY <1>1 DEF Leads
  <1> QED  BY <1>1, <1>2

(* Two paths of one front and one last segment.                            *)
LEMMA SamePath ==
  ASSUME NEW r \in Seq(Segment), r # <<>>, NEW q \in Seq(Segment), q # <<>>,
         Front(r) = Front(q), Last(r) = Last(q)
  PROVE  r = q
  <1>1. /\ Len(Front(r)) = Len(r) - 1 /\ Len(r) \in Nat \ {0}
        /\ \A i \in 1..Len(r) - 1 : Front(r)[i] = r[i]
        /\ Last(r) = r[Len(r)]
    BY PathFront
  <1>2. /\ Len(Front(q)) = Len(q) - 1 /\ Len(q) \in Nat \ {0}
        /\ \A i \in 1..Len(q) - 1 : Front(q)[i] = q[i]
        /\ Last(q) = q[Len(q)]
    BY PathFront
  <1>3. Len(r) = Len(q)
    BY <1>1, <1>2
  <1>4. \A i \in 1..Len(r) : r[i] = q[i]
    <2> SUFFICES ASSUME NEW i \in 1..Len(r) PROVE r[i] = q[i]
      OBVIOUS
    <2>1. CASE i \in 1..Len(r) - 1
      BY <2>1, <1>1, <1>2, <1>3
    <2>2. CASE i = Len(r)
      BY <2>2, <1>1, <1>2, <1>3
    <2> QED  BY <2>1, <2>2, <1>1
  <1> QED  BY <1>3, <1>4, SeqEqual

(* Paths that lead to each other are equal.                                *)
LEMMA LeadsEqual ==
  ASSUME NEW r \in Seq(Segment), NEW q \in Seq(Segment), Leads(r, q), Leads(q, r)
  PROVE  r = q
  <1>1. Len(r) = Len(q) /\ \A i \in 1..Len(r) : r[i] = q[i]
    BY DEF Leads
  <1> QED  BY <1>1, SeqEqual

(* One step of a path from the root.                                       *)
LEMMA ResLast ==
  ASSUME NEW s, NEW r \in Seq(Segment), r # <<>>
  PROVE  Res(s, r) = IF Res(s, Front(r)) = NoKey THEN NoKey
                     ELSE ChildKey(s, Res(s, Front(r)), Last(r))
  BY ResolveLast DEF Res

(* Where a path leads there is a node, except at the root.                 *)
LEMMA ResLive ==
  ASSUME NEW s, Tree(s), NEW r \in Seq(Segment), Res(s, r) # NoKey
  PROVE  /\ Res(s, r) \in Nat /\ Reached(s, Res(s, r))
         /\ r # <<>> => Res(s, r) \in DOMAIN s.node /\ Res(s, r) # ROOT
         /\ r = <<>> => Res(s, r) = ROOT
  <1>1. /\ Sound(s) /\ Shape(s) /\ ROOT \in Nat /\ Reached(s, ROOT) /\ Len(r) \in 0..Len(r)
        /\ Res(s, r) = Walk(s, ROOT, r)[Len(r)]
    BY RootIsBase DEF Res, ResolveFrom
  <1>2. Res(s, r) \in Nat /\ Reached(s, Res(s, r))
    BY <1>1, WalkType, WalkReached
  <1>3. ASSUME r # <<>> PROVE Res(s, r) \in DOMAIN s.node /\ Res(s, r) # ROOT
    <2>1. /\ Res(s, Front(r)) # NoKey /\ Res(s, r) = ChildKey(s, Res(s, Front(r)), Last(r))
          /\ Front(r) \in Seq(Segment) /\ Last(r) \in Segment
      BY <1>3, ResLast, PathFront
    <2>2. Res(s, Front(r)) \in Nat
      <3> DEFINE f == Front(r)
      <3>1. f \in Seq(Segment) /\ Len(f) \in 0..Len(f) /\ Res(s, f) = Walk(s, ROOT, f)[Len(f)]
        BY <2>1 DEF Res, ResolveFrom
      <3> HIDE DEF f
      <3>2. Res(s, f) \in Nat
        BY <1>1, <2>1, <3>1, WalkType DEF f
      <3> QED  BY <3>2 DEF f
    <2> QED  BY <1>1, <2>1, <2>2, ChildKeyType DEF Tree
  <1>4. r = <<>> => Res(s, r) = ROOT
    BY ResNone
  <1> QED  BY <1>2, <1>3, <1>4

(* Only paths through p lead below the node at p.                          *)
LEMMA BelowLeads ==
  ASSUME NEW s, Tree(s), NEW p \in Seq(Segment), Res(s, p) # NoKey,
         NEW r \in Seq(Segment), Res(s, r) \in Visited(s, {Res(s, p)}), Res(s, r) # NoKey
  PROVE  Leads(p, r)
  <1> DEFINE A == {x \in Nat : \A q \in Seq(Segment) : Res(s, q) = x => Leads(p, q)}
             k == Res(s, p)
  <1>1. Sound(s) /\ Shape(s)
    BY DEF Tree, Sound
  <1>2. {k} \subseteq A
    <2>1. k \in Nat
      BY ResLive
    <2>2. ASSUME NEW q \in Seq(Segment), Res(s, q) = k PROVE Leads(p, q)
      <3>1. p = q
        BY <2>2, OnePath
      <3> QED  BY <3>1 DEF Leads
    <2> QED  BY <2>1, <2>2
  <1>3. ASSUME NEW m \in A, NEW seg \in Segment, ChildKey(s, m, seg) # NoKey
        PROVE  ChildKey(s, m, seg) \in A
    <2> DEFINE c == ChildKey(s, m, seg)
    <2>1. c \in Nat \ {ROOT}
      BY <1>1, <1>3, ChildKeyType
    <2>2. ASSUME NEW q \in Seq(Segment), Res(s, q) = c PROVE Leads(p, q)
      <3>1. q # <<>>
        BY <2>1, <2>2, ResNone
      <3>2. Front(q) \in Seq(Segment) /\ Last(q) \in Segment /\ Leads(Front(q), q)
        BY <3>1, FrontLeads
      <3>3. Res(s, Front(q)) # NoKey /\ c = ChildKey(s, Res(s, Front(q)), Last(q))
        BY <1>3, <2>2, <3>1, ResLast
      <3>4. Res(s, Front(q)) \in Nat
        BY <3>2, <3>3, ResLive
      <3>5. Res(s, Front(q)) = m
        BY <1>1, <1>3, <3>2, <3>3, <3>4 DEF Sound
      <3>6. Leads(p, Front(q))
        BY <1>3, <3>2, <3>5
      <3> QED  BY <3>2, <3>6, LeadsOn
    <2> QED  BY <2>1, <2>2
  <1>4. Visited(s, {k}) \subseteq A
    <2>1. A \in SUBSET Nat
      OBVIOUS
    <2> HIDE DEF A, k
    <2> QED  BY <1>1, <1>2, <1>3, <2>1, VisitedWithin
  <1> QED  BY <1>4

(* A change of the child at p, which may drop what is below it, leaves     *)
(* everything beside.                                                      *)
LEMMA SlotStays ==
  ASSUME NEW s, Tree(s), NEW t, NEW p, NEW k, Parent(s, p, k),
         \A m \in DOMAIN s.node :
           m # k /\ m \notin Dropped(s, k, Last(p)) => SameNode(s, t, m),
         \A tag \in Segment : tag # Last(p) => ChildKey(t, k, tag) = ChildKey(s, k, tag)
  PROVE  /\ \A r \in Seq(Segment) : ~Leads(p, r) => Res(t, r) = Res(s, r)
         /\ Loc(s, t, p) /\ Way(s, t, p)
  <1> DEFINE gone == Dropped(s, k, Last(p))
             P(n) == \A r \in Seq(Segment) :
                       Len(r) = n /\ ~Leads(p, r) => Res(t, r) = Res(s, r)
             S == {n \in Nat : P(n)}
  <1>1. /\ p \in Seq(Segment) /\ p # <<>> /\ k # NoKey /\ Res(s, Front(p)) = k
        /\ Front(p) \in Seq(Segment) /\ Last(p) \in Segment
    <2>1. p \in Seq(Segment) /\ p # <<>> /\ k # NoKey /\ Res(s, Front(p)) = k
      BY DEF Parent, Res
    <2> QED  BY <2>1, FrontLeads
  <1>2. Live(s, k) /\ Reached(s, k)
    <2>1. Live(s, k)
      BY DEF Parent, Holder, HasKind
    <2> QED  BY <1>1, <2>1, ResLive
  <1>3. Live(s, ROOT)
    BY <1>2, RootLive
  <1>4. ASSUME NEW r \in Seq(Segment), ~Leads(p, r), Res(s, r) # NoKey
        PROVE  /\ Res(s, r) \notin gone /\ Res(s, r) \in DOMAIN s.node
               /\ Res(s, r) = k => r = Front(p)
    <2>1. Res(s, r) \in DOMAIN s.node
      BY <1>3, <1>4, ResLive DEF Live
    <2>2. Res(s, r) \notin gone
      <3>1. SUFFICES ASSUME ChildKey(s, k, Last(p)) # NoKey,
                            Res(s, r) \in Visited(s, {ChildKey(s, k, Last(p))})
                     PROVE  FALSE
        BY DEF Dropped
      <3>2. Res(s, p) = ChildKey(s, k, Last(p))
        BY <1>1, ResLast
      <3> QED  BY <1>1, <1>4, <3>1, <3>2, BelowLeads
    <2>3. Res(s, r) = k => r = Front(p)
      BY <1>1, OnePath
    <2> QED  BY <2>1, <2>2, <2>3
  <1> HIDE DEF gone
  <1>5. P(0)
    BY ResNone
  <1>6. ASSUME NEW n \in Nat, P(n)
        PROVE  P(n + 1)
    <2> SUFFICES ASSUME NEW r \in Seq(Segment), Len(r) = n + 1, ~Leads(p, r)
                 PROVE  Res(t, r) = Res(s, r)
      OBVIOUS
    <2> DEFINE f == Front(r)
    <2>1. r # <<>>
      OBVIOUS
    <2>2. f \in Seq(Segment) /\ Last(r) \in Segment /\ Leads(f, r) /\ Len(f) = n
      BY <2>1, FrontLeads
    <2>3. ~Leads(p, f)
      BY <1>1, <2>2, LeadsOn
    <2>4. Res(t, f) = Res(s, f)
      BY <1>6, <2>2, <2>3
    <2> HIDE DEF P
    <2>5. ASSUME Res(s, f) # NoKey
          PROVE  ChildKey(t, Res(s, f), Last(r)) = ChildKey(s, Res(s, f), Last(r))
      <3>1. /\ Res(s, f) \notin gone /\ Res(s, f) \in DOMAIN s.node
            /\ Res(s, f) = k => f = Front(p)
        BY <1>4, <2>2, <2>3, <2>5
      <3>2. CASE Res(s, f) # k
        <4>1. SameNode(s, t, Res(s, f))
          BY <3>1, <3>2 DEF gone
        <4> QED  BY <4>1, <2>2 DEF SameNode
      <3>3. CASE Res(s, f) = k
        <4>1. Last(r) # Last(p)
          <5>1. ASSUME Last(r) = Last(p) PROVE FALSE
            <6>1. r = p
              BY <1>1, <2>1, <3>1, <3>3, <5>1, SamePath
            <6> QED  BY <6>1 DEF Leads
          <5> QED  BY <5>1
        <4> QED  BY <3>3, <4>1, <2>2
      <3> QED  BY <3>2, <3>3
    <2>6. Res(s, r) = IF Res(s, f) = NoKey THEN NoKey ELSE ChildKey(s, Res(s, f), Last(r))
      BY <2>1, ResLast
    <2>7. Res(t, r) = IF Res(t, f) = NoKey THEN NoKey ELSE ChildKey(t, Res(t, f), Last(r))
      BY <2>1, ResLast
    <2> QED  BY <2>4, <2>5, <2>6, <2>7
  <1> HIDE DEF P
  <1>7. Nat \subseteq S
    <2>1. 0 \in S /\ \A n \in Nat : n \in S => n + 1 \in S
      BY <1>5, <1>6
    <2> QED  BY <2>1, SetInduction
  <1>8. ASSUME NEW r \in Seq(Segment), ~Leads(p, r)
        PROVE  Res(t, r) = Res(s, r)
    <2>1. P(Len(r))
      BY <1>7
    <2> QED  BY <1>8, <2>1 DEF P
  <1>9. Loc(s, t, p)
    <2> SUFFICES ASSUME NEW r \in Seq(Segment), ~OneLine(p, r) PROVE SameAt(s, t, r)
      BY DEF Loc
    <2>1. ~Leads(p, r) /\ ~Leads(r, p)
      BY DEF OneLine
    <2>2. Res(t, r) = Res(s, r)
      BY <1>8, <2>1
    <2>3. ASSUME Res(s, r) # NoKey PROVE SameNode(s, t, Res(s, r))
      <3>1. /\ Res(s, r) \notin gone /\ Res(s, r) \in DOMAIN s.node
            /\ Res(s, r) = k => r = Front(p)
        BY <1>4, <2>1, <2>3
      <3>2. Res(s, r) # k
        BY <1>1, <2>1, <3>1, FrontLeads
      <3> QED  BY <3>1, <3>2 DEF gone
    <2> QED  BY <2>2, <2>3 DEF SameAt
  <1>10. Way(s, t, p)
    <2> SUFFICES ASSUME NEW r \in Seq(Segment), Leads(r, p), r # p, Res(s, r) # NoKey
                 PROVE  Res(t, r) = Res(s, r)
      BY DEF Way
    <2>1. ~Leads(p, r)
      BY <1>1, LeadsEqual
    <2> QED  BY <1>8, <2>1
  <1> QED  BY <1>8, <1>9, <1>10

(* What goes on from where a path leads nowhere, or to a node without      *)
(* children, leads nowhere.                                                *)
LEMMA ResBeyond ==
  ASSUME NEW s, NEW p \in Seq(Segment), NEW r \in Seq(Segment), Leads(p, r),
         Res(s, p) = NoKey \/ (r # p /\ \A tag \in Segment : ChildKey(s, Res(s, p), tag) = NoKey)
  PROVE  Res(s, r) = NoKey
  <1> DEFINE w == Walk(s, ROOT, r)
             n == Len(p)
  <1>1. n \in 0..n /\ n <= Len(r) /\ Len(r) \in 0..Len(r) /\ n \in 0..Len(r)
    BY DEF Leads
  <1>2. w[n] = Res(s, p)
    <2>1. \A i \in 0..n : Walk(s, ROOT, p)[i] = Walk(s, ROOT, r)[i]
      BY <1>1, WalksAlong DEF Leads
    <2> QED  BY <1>1, <2>1 DEF Res, ResolveFrom
  <1>3. SUFFICES ASSUME Res(s, r) # NoKey PROVE FALSE
    OBVIOUS
  <1>4. \A j \in 0..Len(r) : w[j] # NoKey
    BY <1>1, <1>3, WalkThrough DEF Res, ResolveFrom
  <1>5. Res(s, p) # NoKey
    BY <1>1, <1>2, <1>4
  <1>6. n # Len(r)
    <2>1. ASSUME n = Len(r) PROVE FALSE
      <3>1. Leads(r, p)
        BY <2>1 DEF Leads
      <3> QED  BY <1>5, <3>1, LeadsEqual
    <2> QED  BY <2>1
  <1>7. n + 1 \in 1..Len(r) /\ n + 1 \in 0..Len(r) /\ (n + 1) - 1 = n
    BY <1>1, <1>6
  <1>8. w[n + 1] = ChildKey(s, Res(s, p), r[n + 1]) /\ r[n + 1] \in Segment
    <2>1. w[n + 1] = IF w[n] = NoKey THEN NoKey ELSE ChildKey(s, w[n], r[n + 1])
      BY <1>7, WalkSteps
    <2> QED  BY <1>2, <1>5, <1>7, <2>1
  <1> QED  BY <1>4, <1>5, <1>7, <1>8

(* A table whose nodes are all as they were.                               *)
LEMMA AllSame ==
  ASSUME NEW s, Tree(s), NEW t, Tree(t), NEW p, NEW k, Parent(s, p, k),
         ChildKey(s, k, Last(p)) = NoKey,
         \A m \in DOMAIN s.node : SameNode(s, t, m)
  PROVE  Grows(s, t, p)
  <1>1. /\ p \in Seq(Segment) /\ p # <<>> /\ k # NoKey /\ Res(s, Front(p)) = k
        /\ Live(s, k) /\ Last(p) \in Segment /\ Front(p) \in Seq(Segment)
        /\ Leads(Front(p), p) /\ ~Leads(p, Front(p))
    <2>1. p \in Seq(Segment) /\ p # <<>> /\ k # NoKey /\ Res(s, Front(p)) = k /\ Live(s, k)
      BY DEF Parent, Res, Holder, HasKind
    <2> QED  BY <2>1, FrontLeads
  <1>2. SameNode(s, t, k)
    BY <1>1 DEF Live
  <1>3. /\ \A r \in Seq(Segment) : ~Leads(p, r) => Res(t, r) = Res(s, r)
        /\ Loc(s, t, p) /\ Way(s, t, p)
    <2>1. \A tag \in Segment : tag # Last(p) => ChildKey(t, k, tag) = ChildKey(s, k, tag)
      BY <1>2 DEF SameNode
    <2> QED  BY <2>1, SlotStays
  <1>4. Res(s, p) = NoKey /\ Res(t, p) = NoKey
    <2>1. Res(t, Front(p)) = k
      BY <1>1, <1>3
    <2>2. ChildKey(t, k, Last(p)) = NoKey
      BY <1>1, <1>2 DEF SameNode
    <2> QED  BY <1>1, <2>1, <2>2, ResLast
  <1>5. ASSUME NEW r \in Seq(Segment)
        PROVE  Res(t, r) = Res(s, r) /\ (Leads(p, r) => Res(s, r) = NoKey)
    <2>1. CASE Leads(p, r)
      BY <1>1, <1>4, <2>1, ResBeyond
    <2> QED  BY <2>1, <1>3
  <1>6. OnlyWay(s, t, p)
    <2> SUFFICES ASSUME NEW r \in Seq(Segment), ~Leads(r, p) PROVE SameAt(s, t, r)
      BY DEF OnlyWay
    <2>1. CASE Leads(p, r)
      BY <1>5, <2>1 DEF SameAt
    <2>2. CASE ~Leads(p, r)
      BY <1>3, <2>2 DEF Loc, OneLine
    <2> QED  BY <2>1, <2>2
  <1>7. WayTo(s, t, p)
    BY <1>5 DEF WayTo
  <1>8. Brings(s, t, {})
    <2> SUFFICES ASSUME NEW q, PackedAt(t, q) PROVE Was(s, q)
      BY DEF Brings
    <2>1. q \in Seq(Segment) /\ q # <<>> /\ Res(t, q) # NoKey /\ HasKind(t, Res(t, q), "packed")
      BY PackedKey DEF PackedAt
    <2>2. Res(s, q) = Res(t, q) /\ Res(s, q) \in DOMAIN s.node
      BY <1>5, <2>1, ResLive
    <2>3. PackedAt(s, q)
      BY <2>1, <2>2 DEF PackedAt, SameNode
    <2> QED  BY <2>1, <2>3, SimilarSelf DEF Was
  <1> QED  BY <1>6, <1>7, <1>8 DEF Grows

(* A child that comes from the table has come from the table.              *)
LEMMA CameSame ==
  ASSUME NEW s, NEW m, NEW seg \in Segment
  PROVE  CameFrom(s, m, seg, ChildKey(s, m, seg))
  BY DEF CameFrom, Alike

(* A new container or leaf where there was none.                           *)
LEMMA GrownGrows ==
  ASSUME NEW s, Tree(s), NEW t, Tree(t), NEW p, NEW k, Parent(s, p, k),
         ChildKey(s, k, Last(p)) = NoKey, NEW n, n.kind # "packed", NEW new,
         Grown(s, t, k, Last(p), new, n)
  PROVE  Grows(s, t, p)
  <1> DEFINE seg == Last(p)
  <1>1. /\ p \in Seq(Segment) /\ p # <<>> /\ k # NoKey /\ Res(s, Front(p)) = k
        /\ Live(s, k) /\ Last(p) \in Segment /\ Front(p) \in Seq(Segment)
        /\ Leads(Front(p), p) /\ ~Leads(p, Front(p))
    <2>1. p \in Seq(Segment) /\ p # <<>> /\ k # NoKey /\ Res(s, Front(p)) = k /\ Live(s, k)
      BY DEF Parent, Res, Holder, HasKind
    <2> QED  BY <2>1, FrontLeads
  <1>2. /\ new \in Nat \ {ROOT} /\ new \notin DOMAIN s.node /\ new # k
        /\ DOMAIN t.node = DOMAIN s.node \cup {new}
        /\ \A m \in DOMAIN s.node : m # k => t.node[m] = s.node[m]
        /\ \A m, kind : m # new => (HasKind(t, m, kind) <=> HasKind(s, m, kind))
        /\ \A kind : HasKind(t, new, kind) <=> n.kind = kind
        /\ \A m \in Nat, tag \in Segment :
             ChildKey(t, m, tag) = IF m = k /\ tag = seg THEN new ELSE ChildKey(s, m, tag)
    BY <1>1 DEF Grown, Live
  <1>3. k \in Nat /\ Sound(s) /\ DOMAIN s.node \subseteq Nat
    <2>1. k \in Nat
      BY <1>1, ResLive
    <2> QED  BY <2>1 DEF Tree, Sound, Shape
  <1>4. /\ \A r \in Seq(Segment) : ~Leads(p, r) => Res(t, r) = Res(s, r)
        /\ Loc(s, t, p) /\ Way(s, t, p)
    <2>1. ASSUME NEW m \in DOMAIN s.node, m # k
          PROVE  SameNode(s, t, m)
      <3>1. m # new /\ m \in Nat /\ m \in DOMAIN t.node /\ t.node[m] = s.node[m]
        BY <1>2, <1>3, <2>1
      <3>2. \A tag \in Segment : ChildKey(t, m, tag) = ChildKey(s, m, tag)
        BY <1>2, <2>1, <3>1
      <3>3. \A kind : HasKind(t, m, kind) <=> HasKind(s, m, kind)
        BY <1>2, <3>1
      <3> QED  BY <3>1, <3>2, <3>3 DEF SameNode
    <2>2. \A tag \in Segment : tag # Last(p) => ChildKey(t, k, tag) = ChildKey(s, k, tag)
      BY <1>2, <1>3
    <2> QED  BY <2>1, <2>2, SlotStays
  <1>5. \A tag \in Segment : ChildKey(t, new, tag) = NoKey
    <2> SUFFICES ASSUME NEW tag \in Segment, ChildKey(t, new, tag) # NoKey PROVE FALSE
      OBVIOUS
    <2>1. ChildKey(s, new, tag) # NoKey
      BY <1>2
    <2>2. Holder(s, new, tag)
      BY <1>2, <1>3, <2>1 DEF Sound
    <2> QED  BY <1>2, <2>2 DEF Holder, HasKind, Live
  <1>6. Res(s, p) = NoKey /\ Res(t, p) = new
    <2>1. Res(t, Front(p)) = k
      BY <1>1, <1>4
    <2>2. ChildKey(t, k, seg) = new
      BY <1>1, <1>2, <1>3
    <2> QED  BY <1>1, <2>1, <2>2, ResLast
  <1> HIDE DEF seg
  <1>7. OnlyWay(s, t, p)
    <2> SUFFICES ASSUME NEW r \in Seq(Segment), ~Leads(r, p) PROVE SameAt(s, t, r)
      BY DEF OnlyWay
    <2>1. CASE Leads(p, r)
      <3>1. r # p
        BY <2>1
      <3>2. Res(s, r) = NoKey
        BY <1>1, <1>6, <2>1, ResBeyond
      <3>3. Res(t, r) = NoKey
        BY <1>1, <1>5, <1>6, <2>1, <3>1, ResBeyond
      <3> QED  BY <3>2, <3>3 DEF SameAt
    <2>2. CASE ~Leads(p, r)
      BY <1>4, <2>2 DEF Loc, OneLine
    <2> QED  BY <2>1, <2>2
  <1>8. WayTo(s, t, p)
    BY <1>4, <1>6 DEF WayTo, Way
  <1>9. Brings(s, t, {})
    <2> DEFINE N == {new}
    <2>1. ComesFrom(s, t, N)
      <3>1. ROOT \notin N
        BY <1>2
      <3>2. ASSUME NEW m \in Nat, NEW tag \in Segment, ChildKey(t, m, tag) # NoKey,
                   ChildKey(t, m, tag) \notin N
            PROVE  m \notin N /\ CameFrom(s, m, tag, ChildKey(t, m, tag))
        <4>1. m # new
          BY <1>5, <3>2
        <4>2. ChildKey(t, m, tag) = ChildKey(s, m, tag)
          BY <1>2, <3>2
        <4> QED  BY <4>1, <4>2, CameSame
      <3> QED  BY <3>1, <3>2 DEF ComesFrom
    <2>2. /\ \A m \in N : ~HasKind(t, m, "packed")
          /\ \A m : m \notin N /\ HasKind(t, m, "packed") => HasKind(s, m, "packed")
      BY <1>2
    <2> HIDE DEF N
    <2> QED  BY <2>1, <2>2, BringsFrom
  <1> QED  BY <1>7, <1>8, <1>9 DEF Grows

(* A new child, or none when the parent is a list without the place.       *)
LEMMA AddGrows ==
  ASSUME NEW s, Tree(s), NEW p, NEW k, Parent(s, p, k),
         ChildKey(s, k, Last(p)) = NoKey, NEW n, Bare(n)
  PROVE  LET r == AddChild(s, k, Last(p), n)
         IN  /\ Tree(r.s) /\ r.ok \in BOOLEAN
             /\ ~r.ok \/ n.kind # "packed" => Grows(s, r.s, p)
  <1> DEFINE r == AddChild(s, k, Last(p), n)
  <1>1. /\ p \in Seq(Segment) /\ p # <<>> /\ k # NoKey /\ Res(s, Front(p)) = k
        /\ Holder(s, k, Last(p)) /\ Front(p) \in Seq(Segment) /\ Last(p) \in Segment
    <2>1. p \in Seq(Segment) /\ p # <<>> /\ k # NoKey /\ Res(s, Front(p)) = k
          /\ Holder(s, k, Last(p))
      BY DEF Parent, Res
    <2> QED  BY <2>1, FrontLeads
  <1>2. k \in Nat /\ TreeBut(s, k, Last(p))
    BY <1>1, ResLive, TreeIsTreeBut
  <1>3. /\ r.ok \in BOOLEAN /\ Tree(r.s)
        /\ r.ok => Grown(s, r.s, k, Last(p), r.key, n)
    BY <1>1, <1>2, AddChildEffect
  <1>4. ASSUME ~r.ok PROVE Grows(s, r.s, p)
    <2>1. \A m \in DOMAIN s.node : SameNode(s, r.s, m)
      BY <1>1, <1>4, AddChildFails
    <2> HIDE DEF r
    <2> QED  BY <1>3, <2>1, AllSame
  <1>5. ASSUME r.ok, n.kind # "packed" PROVE Grows(s, r.s, p)
    <2> HIDE DEF r
    <2> QED  BY <1>3, <1>5, GrownGrows
  <1> QED  BY <1>3, <1>4, <1>5

(* The place of a new child in the index's view: what it brings is itself, *)
(* when it is packed.                                                      *)
Newly(n, p) == IF n.kind = "packed" THEN {p} ELSE {}

(* A new child in the place of an old one: off its line nothing changes,   *)
(* the containers above it stay, and no other packed entity comes.         *)
LEMMA ReplacedFrame ==
  ASSUME NEW s, Tree(s), NEW t, Tree(t), NEW p, NEW k, Parent(s, p, k), NEW n, NEW new,
         Replaced(s, t, k, Last(p), new, n, Dropped(s, k, Last(p))), Res(t, p) = new
  PROVE  Frame(s, t, p, Newly(n, p))
  <1> DEFINE gone == Dropped(s, k, Last(p))
  <1>1. /\ p \in Seq(Segment) /\ p # <<>> /\ k # NoKey /\ Res(s, Front(p)) = k
        /\ Live(s, k) /\ Last(p) \in Segment /\ Front(p) \in Seq(Segment)
    <2>1. p \in Seq(Segment) /\ p # <<>> /\ k # NoKey /\ Res(s, Front(p)) = k /\ Live(s, k)
      BY DEF Parent, Res, Holder, HasKind
    <2> QED  BY <2>1, FrontLeads
  <1>2. k \in Nat /\ Reached(s, k) /\ DOMAIN s.node \subseteq Nat
    <2>1. k \in Nat /\ Reached(s, k)
      BY <1>1, ResLive
    <2> QED  BY <2>1 DEF Tree, Sound, Shape
  <1>3. /\ new \in Nat \ {ROOT} /\ new # k /\ new \notin DOMAIN s.node \ gone
        /\ k \notin gone
        /\ DOMAIN t.node = (DOMAIN s.node \ gone) \cup {new}
        /\ t.node[new] = n
        /\ \A m \in DOMAIN s.node \ gone : m # k => t.node[m] = s.node[m]
        /\ \A m, kind : m # new /\ m \notin gone => (HasKind(t, m, kind) <=> HasKind(s, m, kind))
        /\ \A m \in Nat, tag \in Segment :
             ChildKey(t, m, tag) = IF m = k /\ tag = Last(p) THEN new
                                   ELSE IF m \in gone THEN NoKey ELSE ChildKey(s, m, tag)
    BY DEF Replaced
  <1>4. \A tag \in Segment : ChildKey(t, new, tag) = NoKey
    BY <1>1, <1>2, ReplacedConfined
  <1> HIDE DEF gone
  <1>5. Loc(s, t, p) /\ Way(s, t, p)
    <2>1. ASSUME NEW m \in DOMAIN s.node, m # k, m \notin gone
          PROVE  SameNode(s, t, m)
      <3>1. m # new /\ m \in Nat /\ m \in DOMAIN t.node /\ t.node[m] = s.node[m]
        BY <1>2, <1>3, <2>1
      <3>2. \A tag \in Segment : ChildKey(t, m, tag) = ChildKey(s, m, tag)
        BY <1>3, <2>1, <3>1
      <3>3. \A kind : HasKind(t, m, kind) <=> HasKind(s, m, kind)
        BY <1>3, <2>1, <3>1
      <3> QED  BY <3>1, <3>2, <3>3 DEF SameNode
    <2>2. \A tag \in Segment : tag # Last(p) => ChildKey(t, k, tag) = ChildKey(s, k, tag)
      BY <1>2, <1>3
    <2> QED  BY <2>1, <2>2, SlotStays DEF gone
  <1> DEFINE N == {new}
  <1>6. ComesFrom(s, t, N)
    <2>1. ROOT \notin N
      BY <1>3
    <2>2. ASSUME NEW m \in Nat, NEW tag \in Segment, ChildKey(t, m, tag) # NoKey,
                 ChildKey(t, m, tag) \notin N
          PROVE  m \notin N /\ CameFrom(s, m, tag, ChildKey(t, m, tag))
      <3>1. m # new
        BY <1>4, <2>2
      <3>2. ChildKey(t, m, tag) = ChildKey(s, m, tag)
        BY <1>3, <2>2
      <3> QED  BY <3>1, <3>2, CameSame
    <2> QED  BY <2>1, <2>2 DEF ComesFrom
  <1>7. \A m : m # new /\ HasKind(t, m, "packed") => HasKind(s, m, "packed")
    <2> SUFFICES ASSUME NEW m, m # new, HasKind(t, m, "packed") PROVE HasKind(s, m, "packed")
      OBVIOUS
    <2>1. m \in DOMAIN t.node
      BY DEF HasKind, Live
    <2>2. m \notin gone
      BY <1>3, <2>1
    <2> QED  BY <1>3, <2>2
  <1>8. CASE n.kind = "packed"
    <2>1. ComesFrom(s, t, {new})
      BY <1>6
    <2>2. Brings(s, t, {p})
      BY <1>1, <1>7, <2>1, BringsNew
    <2> QED  BY <1>5, <1>8, <2>2 DEF Frame, Newly
  <1>9. CASE n.kind # "packed"
    <2>1. \A m \in N : ~HasKind(t, m, "packed")
      BY <1>3, <1>9 DEF HasKind
    <2>2. \A m : m \notin N /\ HasKind(t, m, "packed") => HasKind(s, m, "packed")
      BY <1>7
    <2> HIDE DEF N
    <2>3. Brings(s, t, {})
      BY <1>6, <2>1, <2>2, BringsFrom
    <2> QED  BY <1>5, <1>9, <2>3 DEF Frame, Newly
  <1> QED  BY <1>8, <1>9

(* A replacement that fails had nothing to replace.                        *)
LEMMA ReplaceFails ==
  ASSUME NEW s, Tree(s), NEW k, Reached(s, k), NEW seg \in Segment, Holder(s, k, seg),
         NEW n, Bare(n), NEW parent, parent.ok, parent.s = s, parent.key = k,
         ~ReplaceChild(parent, seg, n).ok
  PROVE  /\ ChildKey(s, k, seg) = NoKey
         /\ ReplaceChild(parent, seg, n) = AddChild(s, k, seg, n)
  <1> DEFINE t == DropChild(s, k, seg)
             r == ReplaceChild(parent, seg, n)
  <1>0. k \in Nat
    BY DEF Holder, HasKind, Live, Tree, Sound, Shape
  <1>1. r = AddChild(t, k, seg, n)
    BY DEF ReplaceChild
  <1>2. CASE ChildKey(s, k, seg) = NoKey
    BY <1>1, <1>2 DEF DropChild, DropNode
  <1>3. CASE ChildKey(s, k, seg) # NoKey
    <2>1. t = CascadeDelete(s, ChildKey(s, k, seg))
      BY <1>3 DEF DropChild, DropNode
    <2> HIDE DEF t
    <2>2. /\ k \notin Visited(s, {ChildKey(s, k, seg)})
          /\ Pruned(s, t, Visited(s, {ChildKey(s, k, seg)}))
          /\ TreeBut(t, k, seg)
      BY <1>3, <2>1, DeleteChildEffect
    <2>3. ChildKey(t, k, seg) = ChildKey(s, k, seg) /\ Holder(t, k, seg)
      BY <1>0, <2>2 DEF Pruned, Holder
    <2>4. ChildKey(t, k, seg) = NoKey
      BY <1>0, <1>1, <2>2, <2>3, AddChildEffect
    <2> QED  BY <1>3, <2>3, <2>4
  <1> QED  BY <1>2, <1>3

(* A replacement, whether it succeeds or fails, is a change at its path.   *)
LEMMA ReplaceFrame ==
  ASSUME NowhereApart, NEW s, Tree(s), NEW p, NEW k, Parent(s, p, k),
         NEW n, Bare(n), NEW parent, parent.ok, parent.s = s, parent.key = k
  PROVE  LET r == ReplaceChild(parent, Last(p), n)
         IN  /\ Tree(r.s) /\ r.ok \in BOOLEAN
             /\ Frame(s, r.s, p, Newly(n, p))
             /\ r.ok => Parent(r.s, p, k)
  <1> DEFINE r == ReplaceChild(parent, Last(p), n)
  <1>1. /\ p \in Seq(Segment) /\ p # <<>> /\ k # NoKey /\ Res(s, Front(p)) = k
        /\ Holder(s, k, Last(p)) /\ Last(p) \in Segment /\ Front(p) \in Seq(Segment)
    <2>1. p \in Seq(Segment) /\ p # <<>> /\ k # NoKey /\ Res(s, Front(p)) = k
          /\ Holder(s, k, Last(p))
      BY DEF Parent, Res
    <2> QED  BY <2>1, FrontLeads
  <1>2. Reached(s, k)
    BY <1>1, ResLive
  <1>3. r.ok \in BOOLEAN /\ Tree(r.s)
    BY <1>1, <1>2, ReplaceChildEffect
  <1>4. ASSUME r.ok
        PROVE  Parent(r.s, p, k) /\ Frame(s, r.s, p, Newly(n, p))
    <2>1. /\ Replaced(s, r.s, k, Last(p), r.key, n, Dropped(s, k, Last(p)))
          /\ Parent(r.s, p, k) /\ Res(r.s, p) = r.key
      BY <1>4, ReplaceLands DEF Res
    <2> HIDE DEF r
    <2> QED  BY <1>3, <2>1, ReplacedFrame
  <1>5. ASSUME ~r.ok PROVE Frame(s, r.s, p, Newly(n, p))
    <2>1. ChildKey(s, k, Last(p)) = NoKey /\ r = AddChild(s, k, Last(p), n)
      BY <1>1, <1>2, <1>5, ReplaceFails
    <2>2. Grows(s, r.s, p)
      BY <1>1, <1>5, <2>1, AddGrows
    <2> HIDE DEF r
    <2>3. Leads(p, p)
      BY <1>1 DEF Leads
    <2> QED  BY <1>1, <2>2, <2>3, GrowsFrame
  <1> QED  BY <1>3, <1>4, <1>5 DEF r

(* Where the children are the same the paths lead to the same keys.        *)
LEMMA SameWays ==
  ASSUME NEW s, Tree(s), NEW t,
         \A m \in Nat, tag \in Segment : ChildKey(t, m, tag) = ChildKey(s, m, tag)
  PROVE  \A r \in Seq(Segment) : Res(t, r) = Res(s, r)
  <1> SUFFICES ASSUME NEW r \in Seq(Segment) PROVE Res(t, r) = Res(s, r)
    OBVIOUS
  <1> DEFINE n == Len(r)
  <1>1. n \in Nat /\ n \in 0..n
    OBVIOUS
  <1>2. ASSUME NEW i \in 1..n, Walk(s, ROOT, r)[i - 1] # NoKey
        PROVE  ChildKey(t, Walk(s, ROOT, r)[i - 1], r[i]) = ChildKey(s, Walk(s, ROOT, r)[i - 1], r[i])
    <2>1. i - 1 \in 0..n /\ r[i] \in Segment
      OBVIOUS
    <2>2. Walk(s, ROOT, r)[i - 1] \in Nat
      BY <1>2, <2>1, RootIsBase, WalkType
    <2> QED  BY <2>1, <2>2
  <1>3. \A i \in 0..n : Walk(t, ROOT, r)[i] = Walk(s, ROOT, r)[i]
    BY <1>1, <1>2, WalksAgree
  <1> QED  BY <1>1, <1>3 DEF Res, ResolveFrom

(* A node without children that is written over.                           *)
LEMMA OverwroteGrows ==
  ASSUME NEW s, Tree(s), NEW t, NEW q \in Seq(Segment), NEW k, Res(s, q) = k, k # NoKey,
         NEW n, Overwrote(s, t, k, n), n.kind = "packed" => HasKind(s, k, "packed")
  PROVE  Grows(s, t, q)
  <1>0. DOMAIN s.node \subseteq Nat
    BY DEF Tree, Sound, Shape
  <1>1. /\ DOMAIN t.node = DOMAIN s.node \cup {k}
        /\ \A m \in DOMAIN s.node : m # k => t.node[m] = s.node[m]
        /\ \A m, kind : m # k => (HasKind(t, m, kind) <=> HasKind(s, m, kind))
        /\ \A kind : HasKind(t, k, kind) <=> n.kind = kind
        /\ \A m \in Nat, tag \in Segment : ChildKey(t, m, tag) = ChildKey(s, m, tag)
    BY DEF Overwrote
  <1>2. \A r \in Seq(Segment) : Res(t, r) = Res(s, r)
    BY <1>1, SameWays
  <1>3. OnlyWay(s, t, q)
    <2> SUFFICES ASSUME NEW r \in Seq(Segment), ~Leads(r, q) PROVE SameAt(s, t, r)
      BY DEF OnlyWay
    <2>1. ASSUME Res(s, r) # NoKey PROVE SameNode(s, t, Res(s, r))
      <3>1. r # <<>> /\ r # q
        BY DEF Leads
      <3>2. Res(s, r) \in DOMAIN s.node
        BY <2>1, <3>1, ResLive
      <3>3. Res(s, r) # k
        BY <2>1, <3>1, OnePath
      <3> HIDE DEF Res
      <3> QED  BY <1>0, <1>1, <3>2, <3>3 DEF SameNode
    <2> QED  BY <1>2, <2>1 DEF SameAt
  <1>4. WayTo(s, t, q)
    BY <1>2 DEF WayTo
  <1>5. Brings(s, t, {})
    <2> SUFFICES ASSUME NEW r, PackedAt(t, r) PROVE Was(s, r)
      BY DEF Brings
    <2>1. r \in Seq(Segment) /\ HasKind(t, Res(t, r), "packed")
      BY DEF PackedAt
    <2>2. HasKind(s, Res(s, r), "packed")
      BY <1>1, <1>2, <2>1
    <2> QED  BY <2>1, <2>2, SimilarSelf DEF Was, PackedAt
  <1> QED  BY <1>3, <1>4, <1>5 DEF Grows

(* After the last child of a list there is none.                           *)
LEMMA TailEnds ==
  ASSUME NEW s, Tree(s), NEW k, NEW i \in Nat, ChildKey(s, k, Index(i)) = NoKey,
         NEW j \in Nat, i <= j
  PROVE  ChildKey(s, k, Index(j)) = NoKey
  <1> SUFFICES ASSUME ChildKey(s, k, Index(j)) # NoKey PROVE FALSE
    OBVIOUS
  <1>1. /\ ~IsName(Index(i)) /\ Index(i).index = i
        /\ ~IsName(Index(j)) /\ Index(j).index = j
    BY IndexSegment
  <1>2. HasKind(s, k, "list") /\ j < Len(s.node[k].items)
    BY <1>1 DEF ChildKey
  <1>3. s.node[k].items \in Seq(Nat \ {ROOT})
    BY <1>2, ListItems DEF Tree, Sound
  <1>4. ChildKey(s, k, Index(i)) = s.node[k].items[i + 1] /\ i + 1 \in 1..Len(s.node[k].items)
    BY <1>1, <1>2, <1>3 DEF ChildKey
  <1> QED  BY <1>3, <1>4, SMTT(30) DEF NoKey

(* Taking a child away brings no packed entity to where there was none,    *)
(* shifted elements aside.                                                 *)
LEMMA CutBrings ==
  ASSUME NEW s, Tree(s), NEW u, Tree(u), NEW k, NEW seg \in Segment,
         NEW gone, Cut(s, u, k, seg, gone)
  PROVE  \A A : Brings(s, u, A)
  <1>1. /\ k \in Nat
        /\ DOMAIN u.node = DOMAIN s.node \ gone
        /\ \A m, kind : m \notin gone => (HasKind(u, m, kind) <=> HasKind(s, m, kind))
        /\ \A m \in Nat, tag \in Segment :
             m # k => ChildKey(u, m, tag) = IF m \in gone THEN NoKey ELSE ChildKey(s, m, tag)
        /\ \A tag \in Segment :
             ChildKey(u, k, tag) =
               IF IsName(seg) THEN IF tag = seg THEN NoKey ELSE ChildKey(s, k, tag)
               ELSE IF IsIndex(tag) /\ tag.index >= seg.index
                    THEN ChildKey(s, k, Index(tag.index + 1)) ELSE ChildKey(s, k, tag)
    BY DEF Cut
  <1> DEFINE N == {}
  <1>2. ComesFrom(s, u, N)
    <2>2. ASSUME NEW m \in Nat, NEW tag \in Segment, ChildKey(u, m, tag) # NoKey
          PROVE  CameFrom(s, m, tag, ChildKey(u, m, tag))
      <3>1. CASE ChildKey(u, m, tag) = ChildKey(s, m, tag)
        BY <3>1, CameSame
      <3>2. CASE ChildKey(u, m, tag) # ChildKey(s, m, tag)
        <4>1. m = k
          BY <1>1, <2>2, <3>2
        <4>2. IsIndex(tag) /\ ChildKey(u, m, tag) = ChildKey(s, m, Index(tag.index + 1))
          BY <1>1, <2>2, <3>2, <4>1
        <4>3. tag.index \in Nat
          BY <4>2, SegmentKinds
        <4>4. tag.index + 1 \in Nat
          BY <4>3
        <4>5. Index(tag.index + 1) \in Segment /\ ~IsName(Index(tag.index + 1))
          BY <4>4, IndexSegment
        <4>6. Alike(tag, Index(tag.index + 1))
          BY <4>2, <4>5 DEF Alike, IsName
        <4> QED  BY <4>2, <4>5, <4>6 DEF CameFrom
      <3> QED  BY <3>1, <3>2
    <2> QED  BY <2>2 DEF ComesFrom
  <1>3. \A m : HasKind(u, m, "packed") => HasKind(s, m, "packed")
    <2> SUFFICES ASSUME NEW m, HasKind(u, m, "packed") PROVE HasKind(s, m, "packed")
      OBVIOUS
    <2>1. m \notin gone
      BY <1>1 DEF HasKind, Live
    <2> QED  BY <1>1, <2>1
  <1>4. /\ \A m \in N : ~HasKind(u, m, "packed")
        /\ \A m : m \notin N /\ HasKind(u, m, "packed") => HasKind(s, m, "packed")
    BY <1>3
  <1> HIDE DEF N
  <1> QED  BY <1>2, <1>4, BringsFrom

(* Taking away a child after which none follows.                           *)
LEMMA CutFrame ==
  ASSUME NEW s, Tree(s), NEW u, Tree(u), NEW p, NEW k, Parent(s, p, k), Unshifted(s, p),
         ChildKey(s, k, Last(p)) # NoKey,
         Cut(s, u, k, Last(p), Visited(s, {ChildKey(s, k, Last(p))}))
  PROVE  Frame(s, u, p, {})
  <1> DEFINE gone == Visited(s, {ChildKey(s, k, Last(p))})
             seg == Last(p)
  <1>1. /\ p \in Seq(Segment) /\ p # <<>> /\ k # NoKey /\ Res(s, Front(p)) = k
        /\ Last(p) \in Segment /\ Front(p) \in Seq(Segment)
    <2>1. p \in Seq(Segment) /\ p # <<>> /\ k # NoKey /\ Res(s, Front(p)) = k
      BY DEF Parent, Res
    <2> QED  BY <2>1, FrontLeads
  <1>2. Res(s, p) # NoKey
    BY <1>1, ResLast
  <1>3. /\ DOMAIN u.node = DOMAIN s.node \ gone
        /\ \A m \in DOMAIN u.node : m # k => u.node[m] = s.node[m]
        /\ \A m, kind : m \notin gone => (HasKind(u, m, kind) <=> HasKind(s, m, kind))
        /\ \A m \in Nat, tag \in Segment :
             m # k => ChildKey(u, m, tag) = IF m \in gone THEN NoKey ELSE ChildKey(s, m, tag)
        /\ \A tag \in Segment :
             ChildKey(u, k, tag) =
               IF IsName(seg) THEN IF tag = seg THEN NoKey ELSE ChildKey(s, k, tag)
               ELSE IF IsIndex(tag) /\ tag.index >= seg.index
                    THEN ChildKey(s, k, Index(tag.index + 1)) ELSE ChildKey(s, k, tag)
    BY DEF Cut
  <1>4. ASSUME NEW tag \in Segment, tag # seg
        PROVE  ChildKey(u, k, tag) = ChildKey(s, k, tag)
    <2>1. CASE IsName(seg) \/ ~(IsIndex(tag) /\ tag.index >= seg.index)
      BY <1>3, <1>4, <2>1
    <2>2. CASE ~IsName(seg) /\ IsIndex(tag) /\ tag.index >= seg.index
      <3>1. /\ tag.index \in Nat /\ tag = Index(tag.index)
            /\ seg.index \in Nat /\ seg = Index(seg.index)
        BY <1>1, <2>2, SegmentKinds DEF IsName
      <3>2. ChildKey(s, k, Index(seg.index + 1)) = NoKey
        BY <1>1, <1>2, <2>2 DEF Unshifted, Res, IsName
      <3>3. seg.index + 1 \in Nat /\ tag.index + 1 \in Nat /\ seg.index + 1 <= tag.index
            /\ seg.index + 1 <= tag.index + 1
        BY <1>4, <2>2, <3>1
      <3>4. ChildKey(s, k, Index(tag.index)) = NoKey /\ ChildKey(s, k, Index(tag.index + 1)) = NoKey
        BY <3>1, <3>2, <3>3, TailEnds
      <3> QED  BY <1>3, <2>2, <3>1, <3>4
    <2> QED  BY <2>1, <2>2
  <1>5. Dropped(s, k, Last(p)) = gone
    BY DEF Dropped
  <1>6. ASSUME NEW m \in DOMAIN s.node, m # k, m \notin gone
        PROVE  SameNode(s, u, m)
    <2>1. m \in Nat /\ m \in DOMAIN u.node
      BY <1>3, <1>6 DEF Tree, Sound, Shape
    <2> QED  BY <1>3, <1>6, <2>1 DEF SameNode
  <1> HIDE DEF gone
  <1>7. Loc(s, u, p) /\ Way(s, u, p)
    BY <1>4, <1>5, <1>6, SlotStays DEF seg
  <1>8. Brings(s, u, {})
    BY <1>1, CutBrings
  <1> QED  BY <1>7, <1>8 DEF Frame

(* A table that has lost nodes brings no packed entity.                    *)
LEMMA PrunedBrings ==
  ASSUME NEW s, Tree(s), NEW t, Tree(t), NEW gone, Pruned(s, t, gone)
  PROVE  \A A : Brings(s, t, A)
  <1> DEFINE N == {}
  <1>1. /\ \A m, kind : HasKind(t, m, kind) <=> HasKind(s, m, kind) /\ m \notin gone
        /\ \A m \in Nat, tag \in Segment :
             ChildKey(t, m, tag) = IF m \in gone THEN NoKey ELSE ChildKey(s, m, tag)
    BY DEF Pruned
  <1>2. ASSUME NEW m \in Nat, NEW tag \in Segment, ChildKey(t, m, tag) # NoKey
        PROVE  CameFrom(s, m, tag, ChildKey(t, m, tag))
    <2>1. ChildKey(t, m, tag) = ChildKey(s, m, tag)
      BY <1>1, <1>2
    <2> QED  BY <2>1, CameSame
  <1>3. ComesFrom(s, t, N)
    BY <1>2 DEF ComesFrom
  <1>4. /\ \A m \in N : ~HasKind(t, m, "packed")
        /\ \A m : m \notin N /\ HasKind(t, m, "packed") => HasKind(s, m, "packed")
    BY <1>1
  <1> HIDE DEF N
  <1> QED  BY <1>3, <1>4, BringsFrom

(* Changes at the table root have every path on their line.                *)
LEMMA RootFrame ==
  ASSUME NEW s, NEW t, NEW A, Brings(s, t, A)
  PROVE  Frame(s, t, <<>>, A)
  <1>1. Loc(s, t, <<>>)
    BY DEF Loc, OneLine, Leads
  <1>2. Way(s, t, <<>>)
    BY DEF Way, Leads
  <1> QED  BY <1>1, <1>2 DEF Frame

(* The removal of a path.                                                  *)
LEMMA RemoveFrame ==
  ASSUME NEW s, Tree(s), NEW p \in Seq(Segment)
  PROVE  LET r == RemovePath(s, p)
         IN  /\ r.ok = TRUE /\ Tree(r.s) /\ Brings(s, r.s, {})
             /\ Unshifted(s, p) => Frame(s, r.s, p, {})
  <1> DEFINE r == RemovePath(s, p)
  <1>1. CASE Res(s, p) = NoKey
    <2>1. r = Done(s, NoKey)
      BY <1>1 DEF RemovePath, Res
    <2>2. r.ok = TRUE /\ r.s = s
      BY <2>1 DEF Done
    <2>3. Grows(s, s, p) /\ Leads(p, p)
      BY GrowsSelf DEF Leads
    <2>4. Frame(s, s, p, {})
      BY <2>3, GrowsFrame
    <2> QED  BY <2>2, <2>4 DEF Frame
  <1>2. CASE Res(s, p) # NoKey /\ p = <<>>
    <2> DEFINE t == CascadeDelete(s, ROOT)
    <2>1. Res(s, p) = ROOT
      BY <1>2, ResNone
    <2>2. r = Done(t, NoKey)
      BY <1>2, <2>1 DEF RemovePath, CutAt, Unlinked, Res
    <2>3. r.ok = TRUE /\ r.s = t
      BY <2>2 DEF Done
    <2>4. Tree(t)
      BY DeleteRootEffect
    <2>5. Pruned(s, t, Visited(s, {ROOT}))
      BY DeleteAllEffect DEF CascadeDelete, ROOT
    <2> HIDE DEF t
    <2>6. Brings(s, t, {})
      BY <2>4, <2>5, PrunedBrings
    <2> QED  BY <1>2, <2>3, <2>4, <2>6, RootFrame
  <1>3. CASE Res(s, p) # NoKey /\ p # <<>>
    <2> DEFINE k == Res(s, Front(p))
    <2>1. /\ r.ok = TRUE /\ Tree(r.s) /\ Parent(s, p, k)
          /\ ChildKey(s, k, Last(p)) = Res(s, p)
          /\ Cut(s, r.s, k, Last(p), Visited(s, {ChildKey(s, k, Last(p))}))
      BY <1>3, RemoveCut DEF Res
    <2>2. Last(p) \in Segment
      BY <1>3, FrontLeads
    <2> HIDE DEF r, k
    <2>3. Brings(s, r.s, {})
      BY <2>1, <2>2, CutBrings
    <2>4. Unshifted(s, p) => Frame(s, r.s, p, {})
      BY <1>3, <2>1, CutFrame
    <2> QED  BY <2>1, <2>3, <2>4 DEF r
  <1> QED  BY <1>1, <1>2, <1>3

------------------------------------------------------------------------------
(* Writes from a key                                                       *)

(* The way down a path, one prefix after the other.                        *)
LEMMA PrefixOn ==
  ASSUME NEW p \in Seq(Segment)
  PROVE  /\ Prefix(p, Len(p)) = p /\ Prefix(p, 0) = <<>>
         /\ \A i \in 1..Len(p) :
              /\ Prefix(p, i) \in Seq(Segment) /\ Prefix(p, i) # <<>>
              /\ Front(Prefix(p, i)) = Prefix(p, i - 1) /\ Last(Prefix(p, i)) = p[i]
              /\ Prefix(p, i - 1) \in Seq(Segment)
  <1>1. Len(p) \in Nat
    OBVIOUS
  <1>2. ASSUME NEW m \in 0..Len(p)
        PROVE  /\ Prefix(p, m) \in Seq(Segment) /\ Len(Prefix(p, m)) = m
               /\ \A i \in 1..m : Prefix(p, m)[i] = p[i]
    BY PrefixIs
  <1>3. Prefix(p, Len(p)) = p
    <2> DEFINE q == Prefix(p, Len(p))
    <2>0. Len(p) \in 0..Len(p)
      BY <1>1
    <2>1. q \in Seq(Segment) /\ Len(q) = Len(p) /\ \A i \in 1..Len(p) : q[i] = p[i]
      BY <1>2, <2>0
    <2> HIDE DEF q
    <2>2. \A i \in 1..Len(q) : q[i] = p[i]
      BY <2>1
    <2>3. q = p
      BY <2>1, <2>2, SeqEqual
    <2> QED  BY <2>3 DEF q
  <1>4. Prefix(p, 0) = <<>>
    <2> DEFINE q == Prefix(p, 0)
    <2>0. 0 \in 0..Len(p)
      BY <1>1
    <2>1. q \in Seq(Segment) /\ Len(q) = 0
      BY <1>2, <2>0
    <2> HIDE DEF q
    <2>2. q = <<>>
      BY <2>1
    <2> QED  BY <2>2 DEF q
  <1>5. ASSUME NEW i \in 1..Len(p)
        PROVE  /\ Prefix(p, i) \in Seq(Segment) /\ Prefix(p, i) # <<>>
               /\ Front(Prefix(p, i)) = Prefix(p, i - 1) /\ Last(Prefix(p, i)) = p[i]
               /\ Prefix(p, i - 1) \in Seq(Segment)
    <2> DEFINE q == Prefix(p, i)
               f == Prefix(p, i - 1)
    <2>1. /\ q \in Seq(Segment) /\ Len(q) = i /\ \A j \in 1..i : q[j] = p[j]
          /\ f \in Seq(Segment) /\ Len(f) = i - 1 /\ \A j \in 1..i - 1 : f[j] = p[j]
      <3>1. i \in 0..Len(p) /\ i - 1 \in 0..Len(p)
        OBVIOUS
      <3> QED  BY <1>2, <3>1
    <2> HIDE DEF q, f
    <2>2. q # <<>>
      BY <2>1
    <2>3. /\ Front(q) \in Seq(Segment) /\ Len(Front(q)) = i - 1
          /\ \A j \in 1..i - 1 : Front(q)[j] = q[j]
          /\ Last(q) = q[i]
      BY <2>1, <2>2, PathFront
    <2>4. Front(q) = f
      <3>1. Len(Front(q)) = Len(f) /\ \A j \in 1..Len(f) : Front(q)[j] = f[j]
        BY <2>1, <2>3, SMTT(30)
      <3> QED  BY <2>1, <2>3, <3>1, SeqEqual
    <2>5. Last(q) = p[i]
      BY <2>1, <2>3
    <2> QED  BY <2>1, <2>2, <2>4, <2>5 DEF q, f
  <1> QED  BY <1>3, <1>4, <1>5

(* A walk's keys are where its prefixes lead.                              *)
LEMMA WalkIs ==
  ASSUME NEW s, NEW base, NEW p \in Seq(Segment), NEW i \in 0..Len(p)
  PROVE  Walk(s, base, p)[i] = ResolveFrom(s, base, Prefix(p, i))
  <1> DEFINE q == Prefix(p, i)
  <1>1. q \in Seq(Segment) /\ Len(q) = i /\ \A j \in 1..i : q[j] = p[j]
    BY PrefixIs
  <1> HIDE DEF q
  <1>2. i \in 0..Len(q) /\ i <= Len(p) /\ i \in 0..i
    BY <1>1
  <1>3. \A j \in 0..i : Walk(s, base, q)[j] = Walk(s, base, p)[j]
    BY <1>1, <1>2, WalksAlong
  <1> QED  BY <1>1, <1>2, <1>3 DEF ResolveFrom, q

(* A path leads to what goes on from it.                                   *)
LEMMA ConcatLeads ==
  ASSUME NEW b \in Seq(Segment), NEW c \in Seq(Segment)
  PROVE  b \o c \in Seq(Segment) /\ Leads(b, b \o c)
  BY ConcatPath DEF Leads

(* The container that ensure_container starts from is made, if any.        *)
LEMMA FirstGrows ==
  ASSUME NEW s, Tree(s), NEW b \in Seq(Segment), NEW base, Res(s, b) = base,
         Base(s, base), NEW p \in Seq(Segment), NEW isList \in BOOLEAN
  PROVE  Grows(s, EnsureFirst(s, base, p, isList).s, b)
  <1> DEFINE l == Wanted(p, isList, 0)
             r == EnsureFirst(s, base, p, isList)
  <1>0. l \in BOOLEAN /\ base \in Nat /\ base # NoKey
    BY WantedType DEF Base, NoKey
  <1> HIDE DEF l
  <1>1. CASE Live(s, base)
    <2>1. r = VerifyContainer(s, base, l)
      BY <1>1 DEF EnsureFirst, l
    <2>2. r.s = s
      BY <2>1 DEF VerifyContainer, Done, Error
    <2> QED  BY <2>2, GrowsSelf
  <1>2. CASE ~Live(s, base)
    <2> DEFINE n == EmptyNode(l)
               t == WriteNode(s, base, n)
    <2>1. r.s = t
      BY <1>2 DEF EnsureFirst, Done, l
    <2>2. Bare(n) /\ n.kind # "packed"
      BY <1>0, EmptyNodeBare
    <2>3. \A tag \in Segment : ChildKey(s, base, tag) = NoKey
      BY <1>0, <1>2 DEF Tree, Sound, Holder, HasKind
    <2>4. Overwrote(s, t, base, n)
      BY <1>0, <2>2, <2>3, OverwriteEffect
    <2> HIDE DEF n, t
    <2>5. Grows(s, t, b)
      BY <1>0, <2>2, <2>4, OverwroteGrows
    <2> QED  BY <2>1, <2>5
  <1> QED  BY <1>1, <1>2

(* So is the container at each segment of the path.                        *)
LEMMA OnGrows ==
  ASSUME NEW s, Tree(s), NEW b \in Seq(Segment), NEW base, Res(s, b) = base,
         Base(s, base), NEW p \in Seq(Segment), Unpacked(s, base, p), NEW isList \in BOOLEAN,
         NEW i \in 1..Len(p), NEW up, Ensured(s, base, p, isList, i - 1, up),
         Grows(s, up.s, b \o Prefix(p, i - 1))
  PROVE  Grows(s, EnsureOn(s, base, p, isList, up, i).s, b \o Prefix(p, i))
  <1> DEFINE l == Wanted(p, isList, i)
             r == EnsureOn(s, base, p, isList, up, i)
             c == Prefix(p, i)
             f == Prefix(p, i - 1)
             q == b \o c
  <1>0. l \in BOOLEAN /\ base \in Nat /\ base # NoKey
    BY WantedType DEF Base, NoKey
  <1>1. /\ c \in Seq(Segment) /\ c # <<>> /\ Front(c) = f /\ Last(c) = p[i] /\ f \in Seq(Segment)
        /\ p[i] \in Segment
    BY PrefixOn
  <1>2. /\ q \in Seq(Segment) /\ q # <<>> /\ Front(q) = b \o f /\ Last(q) = p[i]
        /\ b \o f \in Seq(Segment) /\ Leads(b, b \o f) /\ Leads(b \o f, q)
    <2>1. q \in Seq(Segment) /\ q # <<>> /\ Front(q) = b \o f /\ Last(q) = p[i]
      <3> HIDE DEF c, f
      <3>1. b \o c # <<>> /\ Front(b \o c) = b \o Front(c) /\ Last(b \o c) = Last(c)
        BY <1>1, ConcatFront
      <3> QED  BY <1>1, <3>1, ConcatLeads
    <2>2. b \o f \in Seq(Segment) /\ Leads(b, b \o f)
      BY <1>1, ConcatLeads
    <2> HIDE DEF q, f
    <2>3. Leads(Front(q), q)
      BY <2>1, FrontLeads
    <2> QED  BY <2>1, <2>2, <2>3
  <1> HIDE DEF l, c, f, q
  <1>3. CASE Walk(s, base, p)[i] # NoKey
    <2>1. r = VerifyContainer(s, Walk(s, base, p)[i], l)
      BY <1>3 DEF EnsureOn, l
    <2>2. r.s = s
      BY <2>1 DEF VerifyContainer, Done, Error
    <2> QED  BY <1>2, <2>2, GrowsSelf DEF q, c
  <1>4. CASE Walk(s, base, p)[i] = NoKey /\ ~up.ok
    <2>1. r = up
      BY <1>4 DEF EnsureOn
    <2>2. Grows(s, up.s, b \o f)
      BY DEF f
    <2> QED  BY <1>2, <2>1, <2>2, GrowsLonger DEF q, c
  <1>5. CASE Walk(s, base, p)[i] = NoKey /\ up.ok
    <2> DEFINE n == EmptyNode(l)
               u == up.s
               k == up.key
    <2>1. r = AddChild(u, k, p[i], n)
      BY <1>5 DEF EnsureOn, l
    <2>2. /\ Tree(u) /\ HasKind(u, k, ContainerKind(Wanted(p, isList, i - 1)))
          /\ Reached(u, k) /\ Walk(u, base, p)[i - 1] = k
          /\ ChildKey(u, k, p[i]) =
               IF Walk(s, base, p)[i - 1] # NoKey
               THEN ChildKey(s, Walk(s, base, p)[i - 1], p[i]) ELSE NoKey
      BY <1>1, <1>5 DEF Ensured
    <2>3. Bare(n) /\ n.kind # "packed"
      BY <1>0, EmptyNodeBare
    <2> HIDE DEF n, r, u, k
    <2>4. ChildKey(u, k, p[i]) = NoKey
      <3>1. Walk(s, base, p)[i] = IF Walk(s, base, p)[i - 1] = NoKey THEN NoKey
                                  ELSE ChildKey(s, Walk(s, base, p)[i - 1], p[i])
        BY WalkSteps
      <3> QED  BY <1>5, <2>2, <3>1
    <2>5. Holder(u, k, p[i]) /\ k # NoKey
      <3>1. i - 1 # Len(p) /\ (i - 1) + 1 = i
        OBVIOUS
      <3>2. Wanted(p, isList, i - 1) = IsIndex(p[i])
        BY <3>1 DEF Wanted
      <3>3. Holder(u, k, p[i])
        BY <2>2, <3>2 DEF Holder, ContainerKind
      <3> QED  BY <2>2, <3>3 DEF Holder, HasKind, Live, Tree, Sound, Shape, NoKey
    <2>6. Grows(s, u, b \o f)
      BY DEF f, u
    <2>7. Res(u, b) = base
      BY <1>0, <1>2, <2>6 DEF Grows, WayTo
    <2>8. Res(u, b \o f) = k
      <3>1. i - 1 \in 0..Len(p)
        OBVIOUS
      <3>2. ResolveFrom(u, base, f) = k
        BY <2>2, <3>1, WalkIs DEF f
      <3> QED  BY <1>1, <2>7, <3>2, ResOn
    <2>9. Parent(u, q, k)
      BY <1>2, <2>5, <2>8 DEF Parent, Res
    <2>10. Grows(u, r.s, q)
      BY <1>2, <2>1, <2>2, <2>3, <2>4, <2>9, AddGrows
    <2>11. Grows(s, u, q)
      BY <1>2, <2>6, GrowsLonger
    <2> QED  BY <2>10, <2>11, GrowsOn DEF q, c, r
  <1> QED  BY <1>3, <1>4, <1>5

(* The containers on the way to a path are made, and nothing else.         *)
LEMMA EnsureGrows ==
  ASSUME NEW s, Tree(s), NEW b \in Seq(Segment), NEW base, Res(s, b) = base,
         Base(s, base), NEW p \in Seq(Segment), Unpacked(s, base, p), NEW isList \in BOOLEAN
  PROVE  Grows(s, EnsureContainer(s, base, p, isList).s, b \o p)
  <1>0. PICK g : EnsureContainer(s, base, p, isList) = g[Len(p)] /\ Ensures(g, s, base, p, isList)
    BY EnsureRuns
  <1>1. /\ EnsureContainer(s, base, p, isList) = g[Len(p)]
        /\ g[0] = EnsureFirst(s, base, p, isList)
        /\ \A i \in 1..Len(p) : g[i] = EnsureOn(s, base, p, isList, g[i - 1], i)
    BY <1>0 DEF Ensures
  <1> DEFINE P(i) == Ensured(s, base, p, isList, i, g[i]) /\ Grows(s, g[i].s, b \o Prefix(p, i))
             S == {i \in Nat : i <= Len(p) => P(i)}
  <1>2. Len(p) \in Nat /\ base \in Nat /\ Reached(s, base) /\ (base = ROOT \/ Live(s, base))
    BY LenProperties DEF Base
  <1>3. P(0)
    <2>1. Ensured(s, base, p, isList, 0, g[0])
      BY <1>1, <1>2, EnsureFirstEffect
    <2>3. Grows(s, g[0].s, b)
      BY <1>1, FirstGrows
    <2>4. b \o Prefix(p, 0) = b
      <3>1. Prefix(p, 0) = <<>>
        BY PrefixOn
      <3> QED  BY <3>1
    <2> QED  BY <2>1, <2>3, <2>4
  <1>4. ASSUME NEW i \in Nat, i <= Len(p) => P(i) PROVE i + 1 <= Len(p) => P(i + 1)
    <2> SUFFICES ASSUME i + 1 <= Len(p) PROVE P(i + 1)
      OBVIOUS
    <2>1. i + 1 \in 1..Len(p) /\ (i + 1) - 1 = i /\ P(i)
      BY <1>2, <1>4
    <2> DEFINE j == i + 1
    <2>2. j \in 1..Len(p) /\ Ensured(s, base, p, isList, j - 1, g[i])
          /\ Grows(s, g[i].s, b \o Prefix(p, j - 1))
      BY <2>1
    <2>3. g[j] = EnsureOn(s, base, p, isList, g[i], j)
      BY <1>1, <2>1
    <2> HIDE DEF j
    <2>4. Ensured(s, base, p, isList, j, g[j])
      BY <1>2, <2>2, <2>3, EnsureOnEffect
    <2>5. Grows(s, g[j].s, b \o Prefix(p, j))
      BY <2>2, <2>3, OnGrows
    <2> QED  BY <2>4, <2>5 DEF j
  <1> HIDE DEF P
  <1>5. Nat \subseteq S
    <2>1. 0 \in S /\ \A i \in Nat : i \in S => i + 1 \in S
      BY <1>3, <1>4
    <2> QED  BY <2>1, SetInduction
  <1>6. P(Len(p))
    BY <1>2, <1>5
  <1>7. Prefix(p, Len(p)) = p
    BY PrefixOn
  <1> QED  BY <1>1, <1>6, <1>7 DEF P

(* Where one path leads to another, so do they after a path in front of    *)
(* both.                                                                   *)
LEMMA ConcatOn ==
  ASSUME NEW b \in Seq(Segment), NEW c \in Seq(Segment), NEW e \in Seq(Segment), Leads(c, e)
  PROVE  /\ b \o c \in Seq(Segment) /\ b \o e \in Seq(Segment)
         /\ Leads(b \o c, b \o e) /\ Leads(b, b \o c)
         /\ (c # <<>> => b # b \o c)
  <1> DEFINE u == b \o c
             v == b \o e
  <1>1. /\ u \in Seq(Segment) /\ Len(u) = Len(b) + Len(c)
        /\ \A i \in 1..Len(b) : u[i] = b[i]
        /\ \A i \in 1..Len(c) : u[Len(b) + i] = c[i]
        /\ v \in Seq(Segment) /\ Len(v) = Len(b) + Len(e)
        /\ \A i \in 1..Len(b) : v[i] = b[i]
        /\ \A i \in 1..Len(e) : v[Len(b) + i] = e[i]
    BY ConcatPath
  <1>2. Len(b) \in Nat /\ Len(c) \in Nat /\ Len(e) \in Nat /\ Len(c) <= Len(e)
        /\ \A i \in 1..Len(c) : c[i] = e[i]
    BY DEF Leads
  <1> HIDE DEF u, v
  <1>3. ASSUME NEW i \in 1..Len(u) PROVE u[i] = v[i]
    <2>1. CASE i <= Len(b)
      BY <1>1, <1>2, <1>3, <2>1
    <2>2. CASE i > Len(b)
      <3> DEFINE j == i - Len(b)
      <3>1. j \in 1..Len(c) /\ j \in 1..Len(e) /\ i = Len(b) + j
        BY <1>1, <1>2, <2>2
      <3> HIDE DEF j
      <3> QED  BY <1>1, <1>2, <3>1
    <2> QED  BY <1>1, <1>2, <2>1, <2>2
  <1>4. Leads(u, v)
    BY <1>1, <1>2, <1>3 DEF Leads
  <1>5. Leads(b, u)
    BY <1>1, <1>2 DEF Leads
  <1>6. c # <<>> => b # u
    <2> SUFFICES ASSUME c # <<>> PROVE b # u
      OBVIOUS
    <2>1. Len(c) # 0
      BY EmptySeq
    <2> QED  BY <1>1, <1>2, <2>1
  <1> QED  BY <1>1, <1>4, <1>5, <1>6 DEF u, v

(* The parent of a path, ensured.                                          *)
LEMMA ParentGrows ==
  ASSUME NEW s, Tree(s), NEW b \in Seq(Segment), NEW base, Res(s, b) = base,
         Base(s, base), NEW p \in Seq(Segment), p # <<>>, Unpacked(s, base, Front(p))
  PROVE  LET r == EnsureParent(s, base, p)
         IN  /\ Tree(r.s) /\ r.ok \in BOOLEAN
             /\ Grows(s, r.s, b \o Front(p)) /\ Res(r.s, b) = base
             /\ r.ok => Parent(r.s, b \o p, r.key)
  <1> DEFINE f == Front(p)
             r == EnsureParent(s, base, p)
             l == IsIndex(Last(p))
  <1>1. f \in Seq(Segment) /\ Last(p) \in Segment /\ Leads(f, p)
    BY FrontLeads
  <1>2. l \in BOOLEAN /\ base \in Nat /\ base # NoKey /\ Reached(s, base)
        /\ (base = ROOT \/ Live(s, base))
    BY IsIndexType DEF Base, NoKey
  <1>3. r = EnsureContainer(s, base, f, l)
    BY DEF EnsureParent
  <1> HIDE DEF f, r, l
  <1>4. /\ r.ok \in BOOLEAN /\ Tree(r.s)
        /\ r.ok => /\ HasKind(r.s, r.key, ContainerKind(l))
                   /\ ResolveFrom(r.s, base, f) = r.key
    BY <1>1, <1>2, <1>3, EnsureEffect DEF f
  <1>5. Grows(s, r.s, b \o f)
    BY <1>1, <1>2, <1>3, EnsureGrows DEF f
  <1>6. b \o f \in Seq(Segment) /\ Leads(b, b \o f)
    BY <1>1, ConcatLeads
  <1>7. Res(r.s, b) = base
    BY <1>2, <1>5, <1>6 DEF Grows, WayTo
  <1>8. ASSUME r.ok PROVE Parent(r.s, b \o p, r.key)
    <2>1. Res(r.s, b \o f) = r.key
      BY <1>1, <1>4, <1>7, <1>8, ResOn
    <2>2. b \o p \in Seq(Segment) /\ b \o p # <<>> /\ Front(b \o p) = b \o f /\ Last(b \o p) = Last(p)
      BY ConcatPath, ConcatFront DEF f
    <2>3. Holder(r.s, r.key, Last(p))
      BY <1>4, <1>8 DEF Holder, ContainerKind, l
    <2>4. r.key # NoKey
      BY <1>4, <1>8, NoKeyIsNoNode DEF Tree, Sound
    <2> QED  BY <2>1, <2>2, <2>3, <2>4 DEF Parent, Res
  <1> QED  BY <1>4, <1>5, <1>7, <1>8 DEF f, r

(* A scalar put below a key.                                               *)
LEMMA PutFrame ==
  ASSUME NowhereApart, NEW s, Tree(s), NEW b \in Seq(Segment), NEW base, Res(s, b) = base,
         Base(s, base), NEW p \in Seq(Segment), p # <<>>, Unpacked(s, base, Front(p)),
         NEW v \in Values
  PROVE  LET r == PutScalar(s, base, p, v)
         IN  Tree(r.s) /\ r.ok \in BOOLEAN /\ Frame(s, r.s, b \o p, {})
  <1> DEFINE up == EnsureParent(s, base, p)
             n == LeafNode(v)
             r == PutScalar(s, base, p, v)
             q == b \o p
  <1>1. r = ReplaceChild(up, Last(p), n)
    BY DEF PutScalar
  <1>2. Bare(n) /\ n.kind # "packed"
    BY LeafNodeBare
  <1>3. /\ Tree(up.s) /\ up.ok \in BOOLEAN
        /\ Grows(s, up.s, b \o Front(p))
        /\ up.ok => Parent(up.s, q, up.key)
    BY ParentGrows
  <1>4. /\ Front(p) \in Seq(Segment) /\ Leads(Front(p), p)
        /\ q \in Seq(Segment) /\ Last(q) = Last(p)
        /\ b \o Front(p) \in Seq(Segment) /\ Leads(b \o Front(p), q)
    BY FrontLeads, ConcatFront, ConcatOn
  <1> HIDE DEF up, n, r, q
  <1>5. Frame(s, up.s, q, {})
    BY <1>3, <1>4, GrowsFrame
  <1>6. CASE up.ok
    <2>1. /\ Tree(r.s) /\ r.ok \in BOOLEAN
          /\ Frame(up.s, r.s, q, Newly(n, q))
      BY <1>1, <1>2, <1>3, <1>4, <1>6, ReplaceFrame
    <2>2. Frame(up.s, r.s, q, {})
      BY <1>2, <2>1 DEF Newly
    <2> QED  BY <1>5, <2>1, <2>2, FrameOn DEF r, q
  <1>7. CASE ~up.ok
    <2>1. r = up
      BY <1>1, <1>7 DEF ReplaceChild
    <2> QED  BY <1>3, <1>5, <2>1 DEF r, q
  <1> QED  BY <1>3, <1>6, <1>7

(* A scalar put at the table root.                                         *)
LEMMA PutRootFrame ==
  ASSUME NEW s, Tree(s), NEW v \in Values
  PROVE  LET r == PutScalar(s, ROOT, <<>>, v)
         IN  Tree(r.s) /\ r.ok \in BOOLEAN /\ Frame(s, r.s, <<>>, {})
  <1> DEFINE t == CascadeDelete(s, ROOT)
             n == LeafNode(v)
             u == WriteNode(t, ROOT, n)
             r == PutScalar(s, ROOT, <<>>, v)
  <1>1. r.s = u /\ r.ok = TRUE
    BY DEF PutScalar, Done
  <1>2. Tree(t) /\ ~Live(t, ROOT) /\ Pruned(s, t, Visited(s, {ROOT}))
    BY DeleteRootEffect, DeleteAllEffect DEF CascadeDelete, ROOT
  <1>3. Bare(n) /\ n.kind # "packed"
    BY LeafNodeBare
  <1> HIDE DEF t, n
  <1>4. ROOT \in Nat /\ ROOT # NoKey
    BY DEF ROOT, NoKey
  <1>5. \A tag \in Segment : ChildKey(t, ROOT, tag) = NoKey
    BY <1>2, <1>4 DEF Tree, Sound, Holder, HasKind
  <1>6. Tree(u) /\ Overwrote(t, u, ROOT, n)
    BY <1>2, <1>3, <1>4, <1>5, OverwriteEffect
  <1> HIDE DEF u
  <1> DEFINE e == <<>>
  <1>7. e \in Seq(Segment) /\ Len(e) = 0
    OBVIOUS
  <1> HIDE DEF e
  <1>11. Res(t, e) = ROOT
    BY <1>7, ResNone
  <1>8. Grows(t, u, e)
    BY <1>2, <1>3, <1>4, <1>6, <1>7, <1>11, OverwroteGrows
  <1> DEFINE A == {}
  <1>9. Brings(s, t, A) /\ Brings(t, u, A) /\ A \subseteq A
    BY <1>2, <1>8, PrunedBrings DEF Grows
  <1> HIDE DEF A
  <1>10. Brings(s, u, A)
    BY <1>9, BringsOn
  <1> QED  BY <1>1, <1>6, <1>10, RootFrame DEF A

(* What ValueFits a document that is written node by node leaves.          *)
LEMMA BaseThere ==
  ASSUME NEW s, NEW t, NEW b \in Seq(Segment), NEW base, Res(s, b) = base, base # NoKey,
         NEW p \in Seq(Segment), p # <<>> \/ b = <<>>, NEW A, Frame(s, t, b \o p, A)
  PROVE  Res(t, b) = base
  <1>1. CASE b = <<>>
    BY <1>1, ResNone
  <1>2. CASE p # <<>>
    <2>1. Leads(b, b \o p) /\ b # b \o p
      <3>1. Leads(p, p)
        BY DEF Leads
      <3> QED  BY <1>2, <3>1, ConcatOn
    <2> QED  BY <2>1 DEF Frame, Way
  <1> QED  BY <1>1, <1>2

(* One part of a document written node by node changes its path only.      *)
LEMMA PartFrame ==
  ASSUME NowhereApart, NEW s, NEW b \in Seq(Segment), NEW base, Res(s, b) = base,
         NEW p \in Seq(Segment), p # <<>> \/ b = <<>>, NEW isList, NEW r,
         Filling(s, base, p, isList, r), Frame(s, r.s, b \o p, {}),
         NEW seg \in Segment, NEW part, part.val \in Values
  PROVE  Frame(s, WritePart(r, base, Append(p, seg), part).s, b \o p, {})
  <1> DEFINE q == Append(p, seg)
             u == WritePart(r, base, q, part)
  <1>1. CASE ~r.ok
    <2>1. u = r
      BY <1>1 DEF WritePart
    <2> QED  BY <2>1
  <1>2. CASE r.ok
    <2>1. q \in Seq(Segment) /\ q # <<>> /\ Front(q) = p
      BY PathAppend
    <2>2. /\ Tree(r.s) /\ Base(r.s, base) /\ base \in Nat /\ base # NoKey
          /\ HasKind(r.s, ResolveFrom(r.s, base, p), ContainerKind(isList))
      BY <1>2 DEF Filling, Good, Base, NoKey
    <2>3. Unpacked(r.s, base, p)
      <3>1. ResolveFrom(r.s, base, p) # NoKey
        BY <2>2, NoKeyIsNoNode DEF Tree, Sound
      <3>2. ~HasKind(r.s, ResolveFrom(r.s, base, p), "packed")
        BY <2>2 DEF HasKind, ContainerKind
      <3> QED  BY <2>2, <3>1, <3>2, UnpackedTo DEF Tree
    <2>4. u = PutScalar(r.s, base, q, part.val)
      BY <1>2 DEF WritePart
    <2> HIDE DEF q, u
    <2>5. Res(r.s, b) = base
      BY <2>2, BaseThere
    <2>6. Frame(r.s, u.s, b \o q, {})
      BY <2>1, <2>2, <2>3, <2>4, <2>5, PutFrame
    <2>7. /\ b \o p \in Seq(Segment) /\ b \o q \in Seq(Segment) /\ Leads(b \o p, b \o q)
      BY <2>1, FrontLeads, ConcatOn
    <2>8. Frame(r.s, u.s, b \o p, {})
      BY <2>6, <2>7, FrameAbove
    <2> QED  BY <2>8, FrameOn DEF u, q
  <1>3. r.ok \in BOOLEAN
    BY DEF Filling, Good
  <1> QED  BY <1>1, <1>2, <1>3

(* The empty path.                                                         *)
LEMMA NoPath ==
  ASSUME NEW p \in Seq(Segment)
  PROVE  <<>> \in Seq(Segment) /\ <<>> \o p = p
  <1> DEFINE b == <<>>
  <1>1. b \in Seq(Segment) /\ Len(b) = 0
    OBVIOUS
  <1> HIDE DEF b
  <1>2. /\ b \o p \in Seq(Segment) /\ Len(b \o p) = Len(b) + Len(p)
        /\ \A i \in 1..Len(p) : (b \o p)[Len(b) + i] = p[i]
    BY <1>1, ConcatPath
  <1> DEFINE q == b \o p
  <1>3. q \in Seq(Segment) /\ Len(q) = Len(p) /\ \A i \in 1..Len(q) : q[i] = p[i]
    BY <1>1, <1>2
  <1> HIDE DEF q
  <1>4. q = p
    BY <1>3, SeqEqual
  <1> QED  BY <1>1, <1>4 DEF q, b

(* The last segment of a path as a path of its own.                        *)
LEMMA FrontLast ==
  ASSUME NEW p \in Seq(Segment), p # <<>>
  PROVE  /\ <<Last(p)>> \in Seq(Segment) /\ Len(<<Last(p)>>) = 1 /\ <<Last(p)>> # <<>>
         /\ Front(p) \o <<Last(p)>> = p
         /\ Front(<<Last(p)>>) = <<>> /\ Last(<<Last(p)>>) = Last(p)
  <1> DEFINE x == Last(p)
             one == <<x>>
             q == Front(p) \o one
  <1>1. /\ Front(p) \in Seq(Segment) /\ x \in Segment /\ Len(Front(p)) = Len(p) - 1
        /\ Len(p) \in Nat \ {0} /\ \A i \in 1..Len(p) - 1 : Front(p)[i] = p[i]
        /\ x = p[Len(p)]
    BY PathFront
  <1> HIDE DEF x
  <1>2. one \in Seq(Segment) /\ Len(one) = 1 /\ one # <<>> /\ one[1] = x
    BY <1>1
  <1>3. /\ q \in Seq(Segment) /\ Len(q) = (Len(p) - 1) + 1
        /\ \A i \in 1..Len(p) - 1 : q[i] = p[i]
        /\ q[(Len(p) - 1) + 1] = x
    <2> DEFINE f == Front(p)
    <2>1. f \in Seq(Segment) /\ Len(f) = Len(p) - 1 /\ \A i \in 1..Len(f) : f[i] = p[i]
      BY <1>1
    <2> HIDE DEF f, one
    <2>2. /\ f \o one \in Seq(Segment) /\ Len(f \o one) = Len(f) + Len(one)
          /\ \A i \in 1..Len(f) : (f \o one)[i] = f[i]
          /\ \A i \in 1..Len(one) : (f \o one)[Len(f) + i] = one[i]
      BY <1>2, <2>1, ConcatPath
    <2>3. 1 \in 1..Len(one)
      BY <1>2
    <2> QED  BY <1>1, <1>2, <2>1, <2>2, <2>3 DEF f
  <1> HIDE DEF q
  <1>4. q = p
    <2>1. Len(q) = Len(p)
      BY <1>1, <1>3
    <2>2. ASSUME NEW i \in 1..Len(q) PROVE q[i] = p[i]
      <3>1. i \in 1..Len(p) - 1 \/ i = Len(p)
        BY <1>1, <2>1
      <3> QED  BY <1>1, <1>3, <3>1
    <2> QED  BY <1>3, <2>1, <2>2, SeqEqual
  <1>5. Front(one) = <<>> /\ Last(one) = x
    <2> HIDE DEF one
    <2>1. one \in Seq(Segment) /\ one # <<>>
      BY <1>2
    <2>2. /\ Front(one) \in Seq(Segment) /\ Len(Front(one)) = Len(one) - 1
          /\ Last(one) = one[Len(one)]
      BY <2>1, PathFront
    <2> QED  BY <1>2, <2>2
  <1> QED  BY <1>2, <1>4, <1>5 DEF x, q

(* A document written node by node.                                        *)
LEMMA WriteFrame ==
  ASSUME NowhereApart, NEW s, Tree(s), NEW b \in Seq(Segment), NEW base, Res(s, b) = base,
         Base(s, base), NEW p \in Seq(Segment), Unpacked(s, base, p),
         p = <<>> => base = ROOT, NEW d, Flat(d)
  PROVE  LET r == WriteValue(s, base, p, d)
         IN  Tree(r.s) /\ r.ok \in BOOLEAN /\ Frame(s, r.s, b \o p, {})
  <1> DEFINE r == WriteValue(s, base, p, d)
             q == b \o p
  <1>0. Tree(r.s) /\ r.ok \in BOOLEAN
    BY WriteValueEffect DEF ValueDone, Good
  <1>1. base \in Nat /\ base # NoKey
    BY DEF Base, NoKey
  <1>2. ASSUME p = <<>> PROVE b = <<>>
    <2>1. Res(s, <<>>) = ROOT /\ <<>> \in Seq(Segment)
      BY EmptyPath DEF Res
    <2> QED  BY <1>1, <1>2, <2>1, OnePath
  <1>3. CASE Is(d, "leaf")
    <2>1. r = PutScalar(s, base, p, d.val) /\ d.val \in Values
      BY <1>3, FlatIs DEF WriteValue
    <2>2. CASE p = <<>>
      <3>1. r = PutScalar(s, ROOT, <<>>, d.val) /\ q = <<>>
        BY <1>2, <2>1, <2>2, NoPath
      <3> HIDE DEF r, q
      <3>2. Frame(s, r.s, <<>>, {})
        BY <2>1, <3>1, PutRootFrame
      <3> QED  BY <1>0, <3>1, <3>2 DEF r, q
    <2>3. CASE p # <<>>
      <3>1. Unpacked(s, base, Front(p))
        BY <1>1, <2>3, UnpackedFront
      <3> HIDE DEF r
      <3>2. Frame(s, r.s, q, {})
        BY <2>1, <2>3, <3>1, PutFrame
      <3> QED  BY <1>0, <3>2 DEF r
    <2> QED  BY <2>2, <2>3
  <1>4. CASE ~Is(d, "leaf")
    <2> DEFINE segs == Segments(d)
               isList == Is(d, "list")
               c == EnsureContainer(s, base, p, isList)
               n == Len(segs)
    <2>1. r = WriteParts(c, base, p, d, segs)[n]
      BY <1>4 DEF WriteValue
    <2>2. /\ segs \in Seq(Segment) /\ n \in Nat
          /\ \A i \in 1..n : /\ segs[i] \in Segment /\ IsIndex(segs[i]) = isList
                             /\ Kid(d, segs[i]).val \in Values
      BY LeafParts, LenProperties, ElementOfSeq
    <2>3. isList \in BOOLEAN
      BY DEF Is
    <2> HIDE DEF segs, isList, n, r
    <2>4. /\ c.ok \in BOOLEAN
          /\ Tree(c.s)
          /\ c.ok => /\ Extends(s, c.s)
                     /\ Full(s) => Full(c.s)
                     /\ HasKind(c.s, c.key, ContainerKind(isList))
                     /\ Reached(c.s, c.key)
                     /\ ResolveFrom(c.s, base, p) = c.key
      BY <1>1, <2>3, EnsureEffect DEF Base
    <2>5. Grows(s, c.s, q)
      BY <1>1, <2>3, EnsureGrows
    <2> HIDE DEF c
    <2>6. Filling(s, base, p, isList, c)
      <3>1. c.ok => Base(c.s, base)
        <4> SUFFICES ASSUME c.ok PROVE Base(c.s, base)
          OBVIOUS
        <4>1. Reached(c.s, ROOT)
          BY <2>4, RootReached DEF Tree, Sound
        <4>2. CASE base = ROOT
          BY <1>1, <4>1, <4>2 DEF Base
        <4>3. CASE Live(s, base)
          BY <1>1, <2>4, <4>3 DEF Base, Extends, Live
        <4> QED  BY <4>2, <4>3 DEF Base
      <3>2. ASSUME c.ok, NEW j \in 0..Len(p), Walk(s, base, p)[j] # NoKey
            PROVE  Walk(c.s, base, p)[j] = Walk(s, base, p)[j]
        <4>1. j \in 0..j
          BY LenProperties
        <4> QED  BY <1>1, <2>4, <3>2, <4>1, ExtendsWalk DEF Tree
      <3> QED  BY <2>4, <3>1, <3>2 DEF Filling, Good
    <2>7. Frame(s, c.s, q, {})
      <3>1. q \in Seq(Segment) /\ Leads(q, q)
        BY ConcatLeads DEF Leads
      <3> HIDE DEF q
      <3> QED  BY <2>5, <3>1, GrowsFrame
    <2>8. PICK g : /\ r = g[n]
                   /\ g[0] = c
                   /\ \A i \in 1..n :
                        g[i] = WritePart(g[i - 1], base, Append(p, segs[i]), Kid(d, segs[i]))
      BY <2>1, <2>2, PartsSteps DEF n
    <2> DEFINE P(i) == Filling(s, base, p, isList, g[i]) /\ Frame(s, g[i].s, b \o p, {})
               S == {i \in Nat : i <= n => P(i)}
    <2>9. P(0)
      BY <2>6, <2>7, <2>8
    <2>10. ASSUME NEW i \in Nat, i <= n => P(i), i + 1 <= n PROVE P(i + 1)
      <3>1. i + 1 \in 1..n /\ (i + 1) - 1 = i /\ P(i)
        BY <2>2, <2>10
      <3> DEFINE seg == segs[i + 1]
                 part == Kid(d, seg)
                 h == g[i]
                 u == g[i + 1]
      <3>2. u = WritePart(h, base, Append(p, seg), part)
        BY <2>8, <3>1
      <3>3. seg \in Segment /\ IsIndex(seg) = isList /\ part.val \in Values
            /\ Filling(s, base, p, isList, h) /\ Frame(s, h.s, b \o p, {})
        BY <2>2, <3>1
      <3> HIDE DEF seg, part, h, u
      <3>4. Filling(s, base, p, isList, u)
        BY <3>2, <3>3, WritePartEffect
      <3>5. Frame(s, u.s, b \o p, {})
        BY <1>2, <3>2, <3>3, PartFrame
      <3> QED  BY <3>4, <3>5 DEF u
    <2> HIDE DEF P
    <2>11. Nat \subseteq S
      <3>1. 0 \in S /\ \A i \in Nat : i \in S => i + 1 \in S
        BY <2>9, <2>10
      <3> QED  BY <3>1, SetInduction
    <2>12. P(n)
      BY <2>2, <2>11
    <2> QED  BY <1>0, <2>8, <2>12 DEF P, r
  <1> QED  BY <1>3, <1>4

(* A document written node by node under the parent just ensured.          *)
LEMMA BelowFrame ==
  ASSUME NowhereApart, NEW s, Tree(s), NEW p, NEW k, Parent(s, p, k),
         ~HasKind(s, ChildKey(s, k, Last(p)), "packed"),
         NEW d, Flat(d), NEW parent, parent.ok, parent.s = s, parent.key = k
  PROVE  LET r == WriteBelow(parent, Last(p), d)
         IN  Tree(r.s) /\ r.ok \in BOOLEAN /\ Frame(s, r.s, p, {})
  <1> DEFINE r == WriteBelow(parent, Last(p), d)
             b == Front(p)
             c == <<Last(p)>>
  <1>1. /\ p \in Seq(Segment) /\ p # <<>> /\ k # NoKey /\ Res(s, b) = k
        /\ Holder(s, k, Last(p)) /\ b \in Seq(Segment) /\ Last(p) \in Segment
    <2>1. p \in Seq(Segment) /\ p # <<>> /\ k # NoKey /\ Res(s, b) = k
          /\ Holder(s, k, Last(p))
      BY DEF Parent, Res
    <2> QED  BY <2>1, FrontLeads
  <1>2. c \in Seq(Segment) /\ Len(c) = 1 /\ c # <<>> /\ b \o c = p
        /\ Front(c) = <<>> /\ Last(c) = Last(p)
    BY <1>1, FrontLast
  <1>3. r = WriteValue(s, k, c, d)
    BY DEF WriteBelow
  <1> HIDE DEF r, b, c
  <1>4. k \in Nat /\ Reached(s, k) /\ Live(s, k) /\ Base(s, k)
    <2>1. k \in Nat /\ Reached(s, k)
      BY <1>1, ResLive
    <2> QED  BY <1>1, <2>1 DEF Base, Holder, HasKind
  <1>5. Unpacked(s, k, c)
    <2>1. ResolveFrom(s, k, <<>>) = k /\ Unpacked(s, k, <<>>)
      <3>1. Walk(s, k, <<>>)[0] = k /\ Len(<<>>) = 0 /\ <<>> \in Seq(Segment)
        <4> DEFINE e == <<>>
        <4>1. e \in Seq(Segment) /\ Len(e) = 0
          OBVIOUS
        <4> HIDE DEF e
        <4>3. e \in Seq(Segment)
          BY <4>1
        <4>2. Walk(s, k, e)[0] = k
          BY <4>3, WalkSteps
        <4> QED  BY <4>1, <4>2 DEF e
      <3>2. ~HasKind(s, k, "packed")
        BY <1>1 DEF Holder, HasKind
      <3>3. \A i \in 0..Len(<<>>) : i = 0
        BY <3>1
      <3> QED  BY <3>1, <3>2, <3>3 DEF ResolveFrom, Unpacked
    <2>2. ResolveFrom(s, k, c) = ChildKey(s, k, Last(p))
      BY <1>1, <1>2, <2>1, ResolveLast
    <2> QED  BY <1>2, <1>4, <2>1, <2>2, UnpackedFront
  <1>6. Tree(r.s) /\ r.ok \in BOOLEAN /\ Frame(s, r.s, b \o c, {})
    BY <1>1, <1>2, <1>3, <1>4, <1>5, WriteFrame
  <1> QED  BY <1>2, <1>6 DEF r

(* An entity stored under the parent just ensured.                         *)
LEMMA EntityFrame ==
  ASSUME NowhereApart, NEW s, Tree(s), NEW p, NEW k, Parent(s, p, k),
         NEW d, Flat(d), NEW parent, parent.ok, parent.s = s, parent.key = k
  PROVE  LET r == StorePackedUnder(parent, Last(p), d)
         IN  /\ Tree(r.s) /\ r.ok \in BOOLEAN /\ Frame(s, r.s, p, {p})
             /\ r.ok => Parent(r.s, p, k)
  <1> DEFINE r == StorePackedUnder(parent, Last(p), d)
             n == PackedNode(d)
             old == ChildKey(s, k, Last(p))
  <1>1. Bare(n) /\ n.kind = "packed"
    BY PackedNodeBare
  <1>2. /\ p \in Seq(Segment) /\ p # <<>> /\ k # NoKey /\ Res(s, Front(p)) = k
        /\ Holder(s, k, Last(p)) /\ Front(p) \in Seq(Segment) /\ Last(p) \in Segment
    <2>1. p \in Seq(Segment) /\ p # <<>> /\ k # NoKey /\ Res(s, Front(p)) = k
          /\ Holder(s, k, Last(p))
      BY DEF Parent, Res
    <2> QED  BY <2>1, FrontLeads
  <1>3. CASE HasKind(s, old, "packed")
    <2> DEFINE t == WriteNode(s, old, n)
    <2>1. r.s = t /\ r.ok = TRUE
      BY <1>3 DEF StorePackedUnder, Done
    <2>2. old \in Nat \ {ROOT} /\ \A tag \in Segment : ChildKey(s, old, tag) = NoKey
      BY <1>3, PackedIsBare
    <2> HIDE DEF n, old
    <2>3. Tree(t) /\ Overwrote(s, t, old, n)
      BY <1>1, <2>2, OverwriteEffect
    <2>4. Res(s, p) = old /\ old # NoKey
      <3>1. Res(s, p) = old
        BY <1>2, ResLast DEF old
      <3> QED  BY <2>2, <3>1 DEF NoKey
    <2> HIDE DEF t
    <2>5. Grows(s, t, p)
      BY <1>2, <1>3, <2>3, <2>4, OverwroteGrows
    <2>6. Frame(s, t, p, {p})
      <3>1. Leads(p, p)
        BY <1>2 DEF Leads
      <3> QED  BY <1>2, <2>5, <3>1, GrowsFrame
    <2>7. Parent(t, p, k)
      <3>1. Res(t, Front(p)) = k
        BY <1>2, <2>5, FrontLeads DEF Grows, WayTo
      <3>2. k # old
        BY <1>2, <1>3 DEF Holder, HasKind
      <3>3. Holder(t, k, Last(p))
        BY <1>2, <2>3, <3>2 DEF Holder, Overwrote
      <3> QED  BY <1>2, <3>1, <3>3 DEF Parent, Res
    <2> QED  BY <2>1, <2>3, <2>6, <2>7
  <1>4. CASE ~HasKind(s, old, "packed")
    <2>1. r = ReplaceChild(parent, Last(p), n)
      BY <1>4 DEF StorePackedUnder
    <2> HIDE DEF n, r
    <2>2. /\ Tree(r.s) /\ r.ok \in BOOLEAN
          /\ Frame(s, r.s, p, Newly(n, p))
          /\ r.ok => Parent(r.s, p, k)
      BY <1>1, <2>1, ReplaceFrame
    <2> QED  BY <1>1, <2>2 DEF Newly, r
  <1> QED  BY <1>3, <1>4

------------------------------------------------------------------------------
(* Stores                                                                  *)

(* What a store at p may bring: itself, when it is packed.                 *)
Packing(p) == IF p = <<>> \/ p \in shredded THEN {} ELSE {p}

(* The root is where the empty path leads.                                 *)
LEMMA FromRoot ==
  ASSUME NEW s, Tree(s)
  PROVE  <<>> \in Seq(Segment) /\ Res(s, <<>>) = ROOT /\ Base(s, ROOT) /\ ROOT \in Nat
  BY EmptyPath, RootIsBase DEF Res

(* The parent of a path, ensured from the table root.                      *)
LEMMA RootParent ==
  ASSUME NEW s, Tree(s), NEW p \in Seq(Segment), p # <<>>, Unpacked(s, ROOT, Front(p))
  PROVE  LET r == EnsureParent(s, ROOT, p)
         IN  /\ Tree(r.s) /\ r.ok \in BOOLEAN
             /\ Grows(s, r.s, Front(p)) /\ \A A : Frame(s, r.s, p, A)
             /\ r.ok => Parent(r.s, p, r.key)
  <1> DEFINE r == EnsureParent(s, ROOT, p)
             b == <<>>
  <1>1. b \in Seq(Segment) /\ Res(s, b) = ROOT /\ Base(s, ROOT)
    BY FromRoot
  <1>2. Front(p) \in Seq(Segment) /\ Leads(Front(p), p)
    BY FrontLeads
  <1>3. b \o p = p /\ b \o Front(p) = Front(p)
    BY <1>2, NoPath
  <1> HIDE DEF b
  <1>4. /\ Tree(r.s) /\ r.ok \in BOOLEAN
        /\ Grows(s, r.s, b \o Front(p))
        /\ r.ok => Parent(r.s, b \o p, r.key)
    BY <1>1, ParentGrows
  <1> HIDE DEF r
  <1>5. Grows(s, r.s, Front(p)) /\ (r.ok => Parent(r.s, p, r.key))
    BY <1>3, <1>4
  <1>6. \A A : Frame(s, r.s, p, A)
    BY <1>2, <1>5, GrowsFrame
  <1> QED  BY <1>4, <1>5, <1>6 DEF r

(* An entity stored packed brings itself.                                  *)
LEMMA PackedFrame ==
  ASSUME NowhereApart, NEW s, Tree(s), NEW p \in Seq(Segment), p # <<>>,
         Unpacked(s, ROOT, Front(p)), NEW d, Flat(d)
  PROVE  LET r == StorePacked(s, p, d)
         IN  Tree(r.s) /\ r.ok \in BOOLEAN /\ Frame(s, r.s, p, {p})
  <1> DEFINE up == EnsureParent(s, ROOT, p)
             r == StorePacked(s, p, d)
  <1>1. r = StorePackedUnder(up, Last(p), d)
    BY DEF StorePacked
  <1>2. /\ Tree(up.s) /\ up.ok \in BOOLEAN /\ Frame(s, up.s, p, {p})
        /\ up.ok => Parent(up.s, p, up.key)
    BY RootParent
  <1> HIDE DEF up, r
  <1>3. CASE up.ok
    <2>1. Tree(r.s) /\ r.ok \in BOOLEAN /\ Frame(up.s, r.s, p, {p})
      BY <1>1, <1>2, <1>3, EntityFrame
    <2> QED  BY <1>2, <2>1, FrameOn DEF r
  <1>4. CASE ~up.ok
    <2>1. r = up
      BY <1>1, <1>4 DEF StorePackedUnder, ReplaceChild
    <2> QED  BY <1>2, <2>1 DEF r
  <1> QED  BY <1>2, <1>3, <1>4

(* A document stored where nothing is.                                     *)
LEMMA FreshFrame ==
  ASSUME NowhereApart, NEW s, Tree(s), NEW p \in Seq(Segment), WayClear(s, p),
         Unpacked(s, ROOT, p), NEW d, Flat(d)
  PROVE  LET r == StoreFresh(s, p, d)
         IN  Tree(r.s) /\ r.ok \in BOOLEAN /\ Frame(s, r.s, p, Packing(p))
  <1> DEFINE r == StoreFresh(s, p, d)
  <1>1. CASE p = <<>>
    <2> DEFINE b == <<>>
    <2>1. b \in Seq(Segment) /\ Res(s, b) = ROOT /\ Base(s, ROOT)
      BY FromRoot
    <2>2. b \o p = p
      BY NoPath
    <2>3. r = WriteValue(s, ROOT, p, d)
      BY <1>1 DEF StoreFresh
    <2> HIDE DEF b, r
    <2>4. Tree(r.s) /\ r.ok \in BOOLEAN /\ Frame(s, r.s, b \o p, {})
      BY <2>1, <2>3, WriteFrame
    <2> QED  BY <1>1, <2>2, <2>4 DEF Packing, r
  <1>2. CASE p # <<>> /\ p \notin shredded
    <2>1. r = StorePacked(s, p, d)
      BY <1>2 DEF StoreFresh
    <2>2. Unpacked(s, ROOT, Front(p))
      BY <1>2 DEF WayClear
    <2> HIDE DEF r
    <2>3. Tree(r.s) /\ r.ok \in BOOLEAN /\ Frame(s, r.s, p, {p})
      BY <1>2, <2>1, <2>2, PackedFrame
    <2> QED  BY <1>2, <2>3 DEF Packing, r
  <1>3. CASE p # <<>> /\ p \in shredded
    <2> DEFINE up == EnsureParent(s, ROOT, p)
    <2>1. r = WriteBelow(up, Last(p), d)
      BY <1>3 DEF StoreFresh
    <2>2. Unpacked(s, ROOT, Front(p))
      BY <1>3 DEF WayClear
    <2>3. /\ Tree(up.s) /\ up.ok \in BOOLEAN /\ Frame(s, up.s, p, {})
          /\ up.ok => Parent(up.s, p, up.key)
      BY <1>3, <2>2, RootParent
    <2>4. up.ok => /\ Extends(s, up.s)
                   /\ ChildKey(up.s, up.key, Last(p)) = ResolveFrom(s, ROOT, p)
      BY <1>3, <2>2, EnsureParentEffect
    <2> HIDE DEF up, r
    <2>5. CASE up.ok
      <3>1. ~HasKind(up.s, ChildKey(up.s, up.key, Last(p)), "packed")
        <4>1. CASE Res(s, p) = NoKey
          BY <2>3, <2>4, <2>5, <4>1, NoKeyIsNoNode DEF Tree, Sound, Res
        <4>2. CASE Res(s, p) # NoKey
          <5>1. Res(s, p) \in DOMAIN s.node
            BY <1>3, <4>2, ResLive
          <5>2. ~HasKind(s, Res(s, p), "packed")
            <6>1. Len(p) \in 0..Len(p)
              BY LenProperties
            <6> QED  BY <6>1 DEF Unpacked, Res, ResolveFrom
          <5> QED  BY <2>4, <2>5, <5>1, <5>2 DEF Extends, Res
        <4> QED  BY <4>1, <4>2
      <3>2. Tree(r.s) /\ r.ok \in BOOLEAN /\ Frame(up.s, r.s, p, {})
        BY <2>1, <2>3, <2>5, <3>1, BelowFrame
      <3>3. Frame(s, r.s, p, {})
        BY <2>3, <3>2, FrameOn
      <3> QED  BY <1>3, <3>2, <3>3 DEF Packing, r
    <2>6. CASE ~up.ok
      <3>1. r = up
        BY <2>1, <2>6 DEF WriteBelow
      <3> QED  BY <1>3, <2>3, <3>1 DEF Packing, r
    <2> QED  BY <2>3, <2>5, <2>6
  <1> QED  BY <1>1, <1>2, <1>3

(* The old subtree removed and the new one stored in its place.            *)
LEMMA ReplaceInFrame ==
  ASSUME NowhereApart, NEW s, Tree(s), NEW p \in Seq(Segment), WayClear(s, p),
         Unshifted(s, p), NEW d, Flat(d)
  PROVE  LET r == ReplaceIn(s, p, d)
         IN  Tree(r.s) /\ r.ok \in BOOLEAN /\ Frame(s, r.s, p, Packing(p))
  <1> DEFINE t == RemovePath(s, p).s
             r == ReplaceIn(s, p, d)
  <1>1. r = StoreFresh(t, p, d)
    BY DEF ReplaceIn
  <1>2. Tree(t) /\ Frame(s, t, p, {})
    BY RemoveFrame
  <1>3. WayClear(t, p) /\ Unpacked(t, ROOT, p)
    BY RemoveEffect
  <1> HIDE DEF t, r
  <1>4. Tree(r.s) /\ r.ok \in BOOLEAN /\ Frame(t, r.s, p, Packing(p))
    BY <1>1, <1>2, <1>3, FreshFrame
  <1>5. Frame(s, t, p, Packing(p))
    BY <1>2, FrameMore
  <1>6. Frame(s, r.s, p, Packing(p))
    BY <1>4, <1>5, FrameOn
  <1> QED  BY <1>4, <1>6 DEF r

(* An edit of the blob of an entity on the way to p.                       *)
LEMMA BlobFrame ==
  ASSUME NEW s, Tree(s), NEW q \in Seq(Segment), NEW k, Res(s, q) = k, HasKind(s, k, "packed"),
         NEW d, Flat(d), NEW p \in Seq(Segment), Leads(q, p)
  PROVE  LET t == WriteNode(s, k, PackedNode(d))
         IN  Tree(t) /\ \A A : Frame(s, t, p, A)
  <1> DEFINE n == PackedNode(d)
             t == WriteNode(s, k, n)
  <1>1. Bare(n) /\ n.kind = "packed"
    BY PackedNodeBare
  <1>2. k \in Nat \ {ROOT} /\ \A tag \in Segment : ChildKey(s, k, tag) = NoKey
    BY PackedIsBare
  <1> HIDE DEF n
  <1>3. Tree(t) /\ Overwrote(s, t, k, n)
    BY <1>1, <1>2, OverwriteEffect
  <1>4. k # NoKey
    BY <1>2 DEF NoKey
  <1> HIDE DEF t
  <1>5. Grows(s, t, q)
    BY <1>3, <1>4, OverwroteGrows
  <1> QED  BY <1>3, <1>5, GrowsFrame DEF t, n

------------------------------------------------------------------------------
(* Calls on the line of their path                                         *)

(* What a change of the table s under path p yields when it is local: a    *)
(* tree that differs on the line of p only.                                *)
Framed(s, p, A, r) == Tree(r.s) /\ r.ok \in BOOLEAN /\ Frame(s, r.s, p, A)

(* The first segments of a path lead to it.                                *)
LEMMA PrefixLeads ==
  ASSUME NEW p \in Seq(Segment), NEW m \in 0..Len(p)
  PROVE  Prefix(p, m) \in Seq(Segment) /\ Leads(Prefix(p, m), p)
  <1>1. Len(p) \in Nat
    OBVIOUS
  <1>2. /\ Prefix(p, m) \in Seq(Segment) /\ Len(Prefix(p, m)) = m
        /\ \A i \in 1..m : Prefix(p, m)[i] = p[i]
    BY <1>1, PrefixIs
  <1>3. QED
    BY <1>1, <1>2 DEF Leads

(* A table that stays as it is has changed nothing anywhere.               *)
LEMMA FrameSelf ==
  ASSUME NEW s, Tree(s), NEW p \in Seq(Segment), NEW A
  PROVE  Frame(s, s, p, A)
  <1>1. Leads(p, p)
    BY DEF Leads
  <1>2. QED
    BY <1>1, GrowsSelf, GrowsFrame

(* An edit of the blob that a path leads into, also one that fails.        *)
LEMMA EditFrame ==
  ASSUME NowhereApart, Tree(Table), NEW p \in Seq(Segment), NEW at, NEW m \in 0..Len(p),
         EntityOn(Table, p, at, m), NEW possible, NEW d, possible => Flat(d)
  PROVE  Framed(Table, p, {}, EditBlob(at.key, possible, d))
  <1> DEFINE k == at.key
             q == Prefix(p, m)
  <1>1. /\ k # NoKey /\ q \in Seq(Segment) /\ Res(Table, q) = k /\ HasKind(Table, k, "packed")
    <2>1. HasKind(Table, k, "packed")
      BY DEF EntityOn
    <2>2. q \in Seq(Segment) /\ k # NoKey /\ ResolveFrom(Table, ROOT, q) = k
      BY EntityWay
    <2>3. QED
      BY <2>1, <2>2 DEF Res
  <1>2. Leads(q, p)
    BY PrefixLeads
  <1> HIDE DEF k, q
  <1>3. CASE possible
    <2>1. Tree(WriteNode(Table, k, PackedNode(d))) /\ Frame(Table, WriteNode(Table, k, PackedNode(d)), p, {})
      BY <1>1, <1>2, <1>3, BlobFrame
    <2>2. EditBlob(k, possible, d) = [ok |-> TRUE, s |-> WriteNode(Table, k, PackedNode(d)), key |-> k]
      BY <1>3 DEF EditBlob, Done
    <2>3. QED
      BY <2>1, <2>2 DEF Framed, k
  <1>4. CASE ~possible
    <2>1. EditBlob(k, possible, d) = [ok |-> FALSE, s |-> Table, key |-> NoKey]
      BY <1>4 DEF EditBlob, Error
    <2>2. Frame(Table, Table, p, {})
      BY FrameSelf
    <2>3. QED
      BY <2>1, <2>2 DEF Framed, k
  <1>5. QED
    BY <1>3, <1>4

(* WriteTxn::put_scalar changes the line of its path.                      *)
LEMMA PutStepFrame ==
  ASSUME NowhereApart, Tree(Table), NEW p \in Seq(Segment), Len(p) <= 2, NEW v \in Values
  PROVE  Framed(Table, p, {}, PutStep(p, v))
  <1> DEFINE at == Locate(Table, p)
  <1>1. CASE at.at = "packed"
    <2>1. PICK m \in 0..Len(p) : EntityOn(Table, p, at, m)
      BY <1>1, TableEntity
    <2>2. /\ node[at.key].doc = Table.node[at.key].doc /\ Flat(Table.node[at.key].doc)
          /\ at.rel \in Seq(Segment) /\ Len(at.rel) <= 1
      BY <1>1, TableEntity
    <2> DEFINE possible == Fits(node[at.key].doc, at.rel)
               d == With(node[at.key].doc, at.rel, Leaf(v))
    <2>3. possible => Flat(d)
      BY <2>2, FlatWith
    <2>4. PutStep(p, v) = EditBlob(at.key, possible, d)
      BY <1>1 DEF PutStep, PutAt
    <2> HIDE DEF possible, d, at
    <2>5. QED
      BY <2>1, <2>3, <2>4, EditFrame
  <1>2. CASE at.at # "packed"
    <2>1. Unpacked(Table, ROOT, p)
      BY <1>2, PlaceIs DEF NoEntity, ToEntity, IntoEntity, AnEntity
    <2>2. PutStep(p, v) = PutScalar(Table, ROOT, p, v)
      BY <1>2 DEF PutStep, PutAt
    <2>3. CASE p = <<>>
      BY <2>2, <2>3, PutRootFrame DEF Framed
    <2>4. CASE p # <<>>
      <3>1. <<>> \in Seq(Segment) /\ Res(Table, <<>>) = ROOT /\ Base(Table, ROOT) /\ ROOT \in Nat
        BY FromRoot
      <3>2. Unpacked(Table, ROOT, Front(p))
        BY <2>1, <2>4, <3>1, UnpackedFront
      <3> DEFINE b == <<>>
                 base == ROOT
      <3>3. b \in Seq(Segment) /\ Res(Table, b) = base /\ Base(Table, base) /\ b \o p = p
        BY <3>1, NoPath
      <3>4. Unpacked(Table, base, Front(p)) /\ PutScalar(Table, base, p, v) = PutStep(p, v)
        BY <3>2, <2>2
      <3> HIDE DEF b, base
      <3>5. QED
        BY <3>3, <3>4, <2>4, PutFrame DEF Framed
    <2>5. QED
      BY <2>3, <2>4
  <1>3. QED
    BY <1>1, <1>2

(* WriteTxn::remove edits a blob or removes a path of the table.           *)
LEMMA RemoveStepIs ==
  ASSUME NowhereApart, Tree(Table), NEW p \in Seq(Segment), Len(p) <= 2
  PROVE  Framed(Table, p, {}, RemoveStep(p)) \/ RemoveStep(p) = RemovePath(Table, p)
  <1> DEFINE at == Locate(Table, p)
  <1>1. CASE at.at = "packed" /\ at.rel # <<>>
    <2>1. PICK m \in 0..Len(p) : EntityOn(Table, p, at, m)
      BY <1>1, TableEntity
    <2>2. /\ node[at.key].doc = Table.node[at.key].doc /\ Flat(Table.node[at.key].doc)
          /\ at.rel \in Seq(Segment) /\ Len(at.rel) <= 1
      BY <1>1, TableEntity
    <2> DEFINE possible == TRUE
               d == Without(node[at.key].doc, at.rel)
    <2>3. possible => Flat(d)
      BY <1>1, <2>2, FlatWithout
    <2>4. RemoveStep(p) = EditBlob(at.key, possible, d)
      BY <1>1 DEF RemoveStep, RemoveIn
    <2> HIDE DEF possible, d, at
    <2>5. QED
      BY <2>1, <2>3, <2>4, EditFrame
  <1>2. CASE ~(at.at = "packed" /\ at.rel # <<>>)
    BY <1>2 DEF RemoveStep, RemoveIn
  <1>3. QED
    BY <1>1, <1>2

(* Storing with replacement, the plain way.                                *)
LEMMA ReplaceStepFrame ==
  ASSUME NowhereApart, ~StoreShifts, ~StoreIntoPacked, Tree(Table), NEW p \in Seq(Segment),
         MayStore(Table, p), NEW d, Flat(d)
  PROVE  Framed(Table, p, Packing(p), Replace(p, d))
  <1>1. WayClear(Table, p) /\ Unshifted(Table, p)
    BY MayStoreIs
  <1>2. QED
    BY <1>1, ReplaceInFrame DEF Framed, Replace

(* WriteTxn::store changes the line of its path.                           *)
LEMMA StoreStepFrame ==
  ASSUME NowhereApart, ~StoreShifts, ~StoreIntoPacked, Tree(Table), NEW p \in Seq(Segment),
         MayStore(Table, p), NEW d, Flat(d)
  PROVE  Framed(Table, p, Packing(p), StoreStep(p, d))
  <1> DEFINE at == Locate(Table, p)
  <1>1. CASE p \notin shredded /\ at.at = "packed" /\ at.rel = <<>>
    <2>1. ToEntity(Table, p, at)
      BY <1>1, PlaceIs DEF NoEntity, IntoEntity
    <2>2. Res(Table, p) = at.key /\ HasKind(Table, at.key, "packed")
      BY <2>1 DEF ToEntity, AnEntity, Res
    <2>3. StoreStep(p, d) = [ok |-> TRUE, s |-> WriteNode(Table, at.key, PackedNode(d)), key |-> at.key]
      BY <1>1 DEF StoreStep, StoreOver, Done
    <2>4. Leads(p, p)
      BY DEF Leads
    <2> DEFINE k == at.key
               A == Packing(p)
    <2> HIDE DEF k, A
    <2>5. Tree(WriteNode(Table, k, PackedNode(d))) /\ Frame(Table, WriteNode(Table, k, PackedNode(d)), p, A)
      BY <2>2, <2>4, BlobFrame DEF k
    <2>6. QED
      BY <2>3, <2>5 DEF Framed, k, A
  <1>2. CASE ~(p \notin shredded /\ at.at = "packed" /\ at.rel = <<>>)
    <2>1. StoreStep(p, d) = Replace(p, d)
      BY <1>2 DEF StoreStep, StoreOver
    <2>2. QED
      BY <2>1, ReplaceStepFrame
  <1>3. QED
    BY <1>1, <1>2

------------------------------------------------------------------------------
(* Removals that shift a list                                              *)

(* What a bracket at p needs of the change of s into t that it encloses.   *)
Steady(s, t, p, A) ==
  /\ Tree(t) /\ Brings(s, t, A)
  /\ \A def : PlainDef(def) => EntitiesStay(s, t, p, def) /\ NoneAppear(s, t, p, def)

(* A change on the line of p is what a bracket at p needs.                 *)
LEMMA FramedSteady ==
  ASSUME NEW s, Tree(s), NEW p \in Seq(Segment), NEW A, NEW r, Framed(s, p, A, r)
  PROVE  Steady(s, r.s, p, A) /\ r.ok \in BOOLEAN
  <1>1. Tree(r.s) /\ r.ok \in BOOLEAN /\ Brings(s, r.s, A) /\ Loc(s, r.s, p)
    BY DEF Framed, Frame
  <1>2. ASSUME NEW def, PlainDef(def)
        PROVE  EntitiesStay(s, r.s, p, def) /\ NoneAppear(s, r.s, p, def)
    BY <1>1, <1>2, LocSteady
  <1>3. QED
    BY <1>1, <1>2 DEF Steady

(* A walk whose steps are the same in both tables ends at the same node.   *)
LEMMA SameWalk ==
  ASSUME NEW s, NEW t, NEW k, NEW c \in Seq(Segment),
         \A i \in 1..Len(c) :
           ResolveFrom(s, k, Prefix(c, i - 1)) # NoKey =>
             ChildKey(t, ResolveFrom(s, k, Prefix(c, i - 1)), c[i])
               = ChildKey(s, ResolveFrom(s, k, Prefix(c, i - 1)), c[i])
  PROVE  ResolveFrom(t, k, c) = ResolveFrom(s, k, c)
  <1>1. Len(c) \in 0..Len(c)
    OBVIOUS
  <1>2. ASSUME NEW i \in 1..Len(c), Walk(s, k, c)[i - 1] # NoKey
        PROVE  ChildKey(t, Walk(s, k, c)[i - 1], c[i]) = ChildKey(s, Walk(s, k, c)[i - 1], c[i])
    <2>1. i - 1 \in 0..Len(c)
      OBVIOUS
    <2>2. Walk(s, k, c)[i - 1] = ResolveFrom(s, k, Prefix(c, i - 1))
      BY <2>1, WalkIs
    <2>3. QED
      BY <1>2, <2>2
  <1>3. Walk(t, k, c)[Len(c)] = Walk(s, k, c)[Len(c)]
    BY <1>1, <1>2, WalksAgree
  <1>4. QED
    BY <1>3 DEF ResolveFrom

(* The removal of the child that p leads to from its parent k.             *)
CutOut(s, u, p, k) ==
  /\ Parent(s, p, k) /\ ChildKey(s, k, Last(p)) # NoKey
  /\ Cut(s, u, k, Last(p), Dropped(s, k, Last(p)))

(* Where the removal takes place.                                          *)
LEMMA CutIs ==
  ASSUME NEW s, Tree(s), NEW u, NEW p, NEW k, CutOut(s, u, p, k)
  PROVE  /\ p \in Seq(Segment) /\ p # <<>> /\ Last(p) \in Segment /\ Front(p) \in Seq(Segment)
         /\ k \in Nat /\ k # NoKey /\ Res(s, Front(p)) = k /\ Reached(s, k)
         /\ HasKind(s, k, "object") \/ HasKind(s, k, "list")
  <1>1. /\ p \in Seq(Segment) /\ p # <<>> /\ k # NoKey /\ Res(s, Front(p)) = k
        /\ Holder(s, k, Last(p)) /\ k \in Nat
    BY DEF CutOut, Parent, Res, Cut
  <1>2. Last(p) \in Segment /\ Front(p) \in Seq(Segment)
    BY <1>1, FrontLeads
  <1>3. Reached(s, k)
    BY <1>1, <1>2, ResLive
  <1>4. HasKind(s, k, "object") \/ HasKind(s, k, "list")
    BY <1>1 DEF Holder
  <1>5. QED
    BY <1>1, <1>2, <1>3, <1>4

(* The path of a removed child leads to it.                                *)
LEMMA CutChild ==
  ASSUME NEW s, Tree(s), NEW u, NEW p, NEW k, CutOut(s, u, p, k)
  PROVE  ChildKey(s, k, Last(p)) = Res(s, p)
  <1>1. /\ p \in Seq(Segment) /\ p # <<>> /\ k # NoKey /\ Res(s, Front(p)) = k
    BY CutIs
  <1>2. QED
    BY <1>1, ResLast

(* What is removed is what is below the path, which the rest is not.       *)
LEMMA CutGone ==
  ASSUME NEW s, Tree(s), NEW u, NEW p, NEW k, CutOut(s, u, p, k)
  PROVE  LET gone == Dropped(s, k, Last(p))
         IN  /\ gone = Visited(s, {Res(s, p)}) /\ Res(s, p) # NoKey
             /\ Res(s, p) \in gone /\ k \notin gone /\ ROOT \notin gone
  <1> DEFINE gone == Dropped(s, k, Last(p))
             c == ChildKey(s, k, Last(p))
  <1>1. c # NoKey
    BY DEF CutOut
  <1>2. /\ k \in Nat /\ k # NoKey /\ Last(p) \in Segment /\ Reached(s, k)
    BY CutIs
  <1>3. Res(s, p) = c
    BY CutChild
  <1>4. Sound(s) /\ Shape(s)
    BY DEF Tree, Sound
  <1>6. gone = Visited(s, {c})
    BY <1>1 DEF Dropped
  <1>7. c \in Nat
    BY <1>1, <1>2, <1>4, ChildKeyType
  <1>8. k \notin gone
    BY <1>1, <1>2, <1>4, <1>6, NoCycle
  <1> HIDE DEF gone, c
  <1>9. c \in gone
    <2>1. {c} \subseteq gone
      BY <1>4, <1>6, VisitedFrom
    <2>2. QED
      BY <2>1
  <1>10. ASSUME ROOT \in gone
         PROVE  FALSE
    <2> DEFINE from == {c}
               more == {ROOT}
    <2>1. from \in SUBSET Nat /\ more \subseteq Visited(s, from) /\ Visited(s, from) = gone
      BY <1>6, <1>7, <1>10
    <2>2. Reached(s, k) <=> k \in Visited(s, more)
      BY DEF Reached
    <2> HIDE DEF from, more
    <2>3. Visited(s, more) \subseteq Visited(s, from)
      BY <1>4, <2>1, VisitedNested
    <2>4. QED
      BY <1>2, <1>8, <2>1, <2>2, <2>3
  <1>11. gone = Visited(s, {Res(s, p)})
    BY <1>3, <1>6
  <1>12. QED
    BY <1>1, <1>3, <1>8, <1>9, <1>10, <1>11 DEF gone

(* What hangs under a removed node is removed.                             *)
LEMMA CutBelow ==
  ASSUME NEW s, Tree(s), NEW k, NEW seg
  PROVE  \A m \in Nat, tag \in Segment :
           m \in Dropped(s, k, seg) /\ ChildKey(s, m, tag) # NoKey =>
             ChildKey(s, m, tag) \in Dropped(s, k, seg)
  <1>1. ASSUME NEW m \in Nat, NEW tag \in Segment,
               m \in Dropped(s, k, seg), ChildKey(s, m, tag) # NoKey
        PROVE  ChildKey(s, m, tag) \in Dropped(s, k, seg)
    <2>1. ChildKey(s, k, seg) # NoKey /\ Dropped(s, k, seg) = Visited(s, {ChildKey(s, k, seg)})
      BY <1>1 DEF Dropped
    <2>2. QED
      BY <1>1, <2>1, VisitedChild DEF Tree
  <1>2. QED
    BY <1>1

(* Each child that is left was a child of the same node before, under a    *)
(* segment that patterns and columns cannot tell apart.                    *)
LEMMA CutComes ==
  ASSUME NEW s, NEW u, NEW k, NEW seg \in Segment, NEW gone, Cut(s, u, k, seg, gone)
  PROVE  ComesFrom(s, u, {})
  <1>1. /\ \A m \in Nat, tag \in Segment :
             m # k => ChildKey(u, m, tag) = IF m \in gone THEN NoKey ELSE ChildKey(s, m, tag)
        /\ \A tag \in Segment :
             ChildKey(u, k, tag) =
               IF IsName(seg) THEN IF tag = seg THEN NoKey ELSE ChildKey(s, k, tag)
               ELSE IF IsIndex(tag) /\ tag.index >= seg.index
                    THEN ChildKey(s, k, Index(tag.index + 1)) ELSE ChildKey(s, k, tag)
    BY DEF Cut
  <1>2. ASSUME NEW m \in Nat, NEW tag \in Segment, ChildKey(u, m, tag) # NoKey
        PROVE  CameFrom(s, m, tag, ChildKey(u, m, tag))
    <2>1. CASE ChildKey(u, m, tag) = ChildKey(s, m, tag)
      BY <2>1, CameSame
    <2>2. CASE ChildKey(u, m, tag) # ChildKey(s, m, tag)
      <3>1. m = k
        BY <1>1, <1>2, <2>2
      <3>2. IsIndex(tag) /\ ChildKey(u, m, tag) = ChildKey(s, m, Index(tag.index + 1))
        BY <1>1, <1>2, <2>2, <3>1
      <3>3. tag.index \in Nat
        BY <3>2, SegmentKinds
      <3>4. tag.index + 1 \in Nat
        BY <3>3
      <3>5. Index(tag.index + 1) \in Segment /\ ~IsName(Index(tag.index + 1))
        BY <3>4, IndexSegment
      <3>6. Alike(tag, Index(tag.index + 1))
        BY <3>2, <3>5 DEF Alike, IsName
      <3>7. QED
        BY <3>2, <3>5, <3>6 DEF CameFrom
    <2>3. QED
      BY <2>1, <2>2
  <1>3. QED
    BY <1>2 DEF ComesFrom

(* And every child that does not go is still there.                        *)
LEMMA CutLeaves ==
  ASSUME NEW s, Tree(s), NEW u, NEW p, NEW k, CutOut(s, u, p, k)
  PROVE  ComesFrom(u, s, Dropped(s, k, Last(p)))
  <1> DEFINE seg == Last(p)
             gone == Dropped(s, k, seg)
  <1>1. /\ \A m \in Nat, tag \in Segment :
             m # k => ChildKey(u, m, tag) = IF m \in gone THEN NoKey ELSE ChildKey(s, m, tag)
        /\ \A tag \in Segment :
             ChildKey(u, k, tag) =
               IF IsName(seg) THEN IF tag = seg THEN NoKey ELSE ChildKey(s, k, tag)
               ELSE IF IsIndex(tag) /\ tag.index >= seg.index
                    THEN ChildKey(s, k, Index(tag.index + 1)) ELSE ChildKey(s, k, tag)
    BY DEF Cut, CutOut
  <1>2. /\ ROOT \notin gone /\ k \notin gone /\ ChildKey(s, k, seg) \in gone /\ seg \in Segment
        /\ \A m \in Nat, tag \in Segment :
             m \in gone /\ ChildKey(s, m, tag) # NoKey => ChildKey(s, m, tag) \in gone
    <2>1. ROOT \notin gone /\ k \notin gone /\ Res(s, p) \in gone
      BY CutGone
    <2>2. seg \in Segment
      BY CutIs
    <2>3. ChildKey(s, k, seg) = Res(s, p)
      BY CutChild
    <2>4. QED
      BY <2>1, <2>2, <2>3, CutBelow
  <1>0. gone = Dropped(s, k, Last(p))
    OBVIOUS
  <1> HIDE DEF seg, gone
  <1>3. ASSUME NEW m \in Nat, NEW tag \in Segment,
               ChildKey(s, m, tag) # NoKey, ChildKey(s, m, tag) \notin gone
        PROVE  m \notin gone /\ CameFrom(u, m, tag, ChildKey(s, m, tag))
    <2>1. m \notin gone
      BY <1>2, <1>3
    <2>2. CASE ChildKey(u, m, tag) = ChildKey(s, m, tag)
      BY <2>1, <2>2, CameSame
    <2>3. CASE ChildKey(u, m, tag) # ChildKey(s, m, tag)
      <3>1. m = k /\ tag # seg
        BY <1>1, <1>2, <1>3, <2>1, <2>3
      <3>2. ~IsName(seg) /\ IsIndex(tag) /\ tag.index >= seg.index
        BY <1>1, <2>3, <3>1
      <3>3. /\ tag.index \in Nat /\ tag = Index(tag.index)
            /\ seg.index \in Nat /\ seg = Index(seg.index)
        BY <1>2, <3>2, SegmentKinds DEF IsName
      <3> DEFINE n == tag.index - 1
      <3>4. n \in Nat /\ n >= seg.index /\ n + 1 = tag.index
        BY <3>1, <3>2, <3>3
      <3>5. Index(n) \in Segment /\ IsIndex(Index(n)) /\ Index(n).index = n /\ ~IsName(Index(n))
        BY <3>4, IndexSegment
      <3>6. ChildKey(u, m, Index(n)) = ChildKey(s, m, tag)
        BY <1>1, <3>1, <3>2, <3>3, <3>4, <3>5
      <3> HIDE DEF n
      <3>7. Alike(tag, Index(n))
        BY <3>2, <3>5 DEF Alike, IsName
      <3>8. QED
        BY <2>1, <3>5, <3>6, <3>7 DEF CameFrom
    <2>4. QED
      BY <2>2, <2>3
  <1>4. ComesFrom(u, s, gone)
    BY <1>2, <1>3 DEF ComesFrom
  <1>5. QED
    BY <1>0, <1>4

(* The way to the parent of a removed child stays.                         *)
LEMMA CutWay ==
  ASSUME NEW s, Tree(s), NEW u, NEW p, NEW k, CutOut(s, u, p, k)
  PROVE  Way(s, u, p)
  <1> DEFINE gone == Dropped(s, k, Last(p))
  <1>1. \A m \in Nat, tag \in Segment :
          m # k => ChildKey(u, m, tag) = IF m \in gone THEN NoKey ELSE ChildKey(s, m, tag)
    BY DEF Cut, CutOut
  <1>0. gone = Dropped(s, k, Last(p))
    OBVIOUS
  <1> HIDE DEF gone
  <1>2. /\ p \in Seq(Segment) /\ p # <<>> /\ Front(p) \in Seq(Segment)
        /\ Res(s, Front(p)) = k /\ k # NoKey /\ Res(s, p) # NoKey
        /\ gone = Visited(s, {Res(s, p)})
    <2>1. /\ p \in Seq(Segment) /\ p # <<>> /\ Front(p) \in Seq(Segment)
          /\ Res(s, Front(p)) = k /\ k # NoKey
      BY CutIs
    <2>2. gone = Visited(s, {Res(s, p)}) /\ Res(s, p) # NoKey
      BY <1>0, CutGone
    <2>3. QED
      BY <2>1, <2>2
  <1>3. ASSUME NEW r \in Seq(Segment), Leads(r, p), r # p, Res(s, r) # NoKey
        PROVE  Res(u, r) = Res(s, r)
    <2>1. ASSUME NEW i \in 1..Len(r), ResolveFrom(s, ROOT, Prefix(r, i - 1)) # NoKey
          PROVE  ChildKey(u, ResolveFrom(s, ROOT, Prefix(r, i - 1)), r[i])
                   = ChildKey(s, ResolveFrom(s, ROOT, Prefix(r, i - 1)), r[i])
      <3> DEFINE q == Prefix(r, i - 1)
                 m == Res(s, q)
      <3>1. i - 1 \in 0..Len(r)
        OBVIOUS
      <3>2. q \in Seq(Segment) /\ Leads(q, r) /\ Len(q) = i - 1
        BY <3>1, PrefixLeads, PrefixIs
      <3>3. Len(r) <= Len(p) /\ Len(Front(p)) = Len(p) - 1 /\ Len(p) \in Nat /\ Len(r) \in Nat
        BY <1>2, <1>3, FrontLeads DEF Leads
      <3> HIDE DEF q
      <3>4. m # NoKey
        BY <2>1 DEF Res, q
      <3>5. m # k
        <4>1. SUFFICES ASSUME m = k
                       PROVE  FALSE
          OBVIOUS
        <4>2. q = Front(p)
          BY <1>2, <3>2, <3>4, <4>1, OnePath
        <4>3. Len(r) = Len(p)
          BY <3>2, <3>3, <4>2
        <4>4. Leads(p, r)
          BY <1>3, <4>3 DEF Leads
        <4>5. QED
          BY <1>2, <1>3, <4>4, LeadsEqual
      <3>6. m \notin gone
        <4>1. SUFFICES ASSUME m \in gone
                       PROVE  FALSE
          OBVIOUS
        <4>2. Leads(p, q)
          BY <1>2, <3>2, <3>4, <4>1, BelowLeads
        <4>3. QED
          BY <3>2, <3>3, <4>2 DEF Leads
      <3>7. m \in Nat /\ r[i] \in Segment
        BY <3>2, <3>4, ResLive
      <3>8. ChildKey(u, m, r[i]) = ChildKey(s, m, r[i])
        BY <1>1, <3>5, <3>6, <3>7
      <3>9. QED
        BY <3>8 DEF Res, q
    <2>2. QED
      BY <2>1, SameWalk DEF Res
  <1>4. QED
    BY <1>3 DEF Way

(* The key of an entity that is not on the line of the removed path.       *)
LEMMA CutKey ==
  ASSUME NEW s, Tree(s), NEW u, Tree(u), NEW p, NEW k, CutOut(s, u, p, k),
         NEW def, PlainDef(def), NEW r, NEW e, EntityAt(s, def.pattern, r, e), ~OneLine(p, r)
  PROVE  AnyEntity(u, def.pattern, e) /\ IndexKey(u, def, e) = IndexKey(s, def, e)
  <1> DEFINE gone == Dropped(s, k, Last(p))
  <1>1. /\ \A m \in Nat, tag \in Segment :
             m # k => ChildKey(u, m, tag) = IF m \in gone THEN NoKey ELSE ChildKey(s, m, tag)
        /\ DOMAIN u.node = DOMAIN s.node \ gone
        /\ \A m \in DOMAIN u.node : m # k => u.node[m] = s.node[m]
        /\ \A m, kind : m \notin gone => (HasKind(u, m, kind) <=> HasKind(s, m, kind))
    BY DEF Cut, CutOut
  <1>0. gone = Dropped(s, k, Last(p))
    OBVIOUS
  <1> HIDE DEF gone
  <1>2. /\ p \in Seq(Segment) /\ p # <<>> /\ Front(p) \in Seq(Segment)
        /\ Res(s, Front(p)) = k /\ k # NoKey /\ Res(s, p) # NoKey
        /\ gone = Visited(s, {Res(s, p)})
        /\ HasKind(s, k, "object") \/ HasKind(s, k, "list")
        /\ ComesFrom(u, s, gone)
    <2>1. /\ p \in Seq(Segment) /\ p # <<>> /\ Front(p) \in Seq(Segment)
          /\ Res(s, Front(p)) = k /\ k # NoKey
          /\ HasKind(s, k, "object") \/ HasKind(s, k, "list")
      BY CutIs
    <2>2. gone = Visited(s, {Res(s, p)}) /\ Res(s, p) # NoKey
      BY <1>0, CutGone
    <2>3. ComesFrom(u, s, gone)
      BY <1>0, CutLeaves
    <2>4. QED
      BY <2>1, <2>2, <2>3
  <1>3. r \in Seq(Segment) /\ Res(s, r) = e /\ e # NoKey /\ Matches(def.pattern, r)
    BY DEF EntityAt, Matches
  <1>4. ASSUME NEW c \in Seq(Segment), Res(s, r \o c) # NoKey
        PROVE  Res(s, r \o c) \notin gone /\ Res(s, r \o c) # k
    <2>1. ~OneLine(p, r \o c) /\ r \o c \in Seq(Segment)
      BY <1>2, <1>3, OffLine, ConcatPath
    <2>2. Res(s, r \o c) \notin gone
      BY <1>2, <1>4, <2>1, BelowLeads DEF OneLine
    <2>3. Res(s, r \o c) # k
      <3>1. SUFFICES ASSUME Res(s, r \o c) = k
                     PROVE  FALSE
        OBVIOUS
      <3>2. r \o c = Front(p)
        BY <1>2, <2>1, <3>1, OnePath
      <3>3. Leads(Front(p), p)
        BY <1>2, FrontLeads
      <3>4. QED
        BY <2>1, <3>2, <3>3 DEF OneLine
    <2>4. QED
      BY <2>2, <2>3
  <1>5. ASSUME NEW m, m \notin gone, m # k
        PROVE  SameHeld(s, u, m)
    <2>1. \A kind : HasKind(u, m, kind) <=> HasKind(s, m, kind)
      BY <1>1, <1>5
    <2>2. HasKind(s, m, "leaf") \/ HasKind(s, m, "packed") => u.node[m] = s.node[m]
      BY <1>1, <1>5 DEF HasKind, Live
    <2>3. QED
      BY <2>1, <2>2 DEF SameHeld
  <1>6. <<>> \in Seq(Segment) /\ r \o <<>> = r
    BY <1>3
  <1>7. e \notin gone /\ e # k
    BY <1>3, <1>4, <1>6
  <1>8. AnyEntity(u, def.pattern, e)
    <2>1. HasWay(u, r, Res(s, r))
      BY <1>2, <1>3, <1>7, WalkComes
    <2>2. PICK q : Similar(r, q) /\ Res(u, q) = e
      BY <1>3, <2>1 DEF HasWay
    <2>3. Matches(def.pattern, q)
      BY <1>3, <2>2, MatchesSimilar DEF PlainDef
    <2>4. QED
      BY <1>3, <2>2, <2>3 DEF AnyEntity, EntityAt
  <1>9. ASSUME NEW c \in DOMAIN def.columns
        PROVE  /\ ResolveFrom(u, e, def.columns[c].path) = ResolveFrom(s, e, def.columns[c].path)
               /\ SameHeld(s, u, ResolveFrom(s, e, def.columns[c].path))
    <2> DEFINE col == def.columns[c].path
    <2>1. col \in Seq(Segment)
      BY NamePathIs DEF PlainDef
    <2> HIDE DEF col
    <2>2. \A f \in Seq(Segment) : ResolveFrom(s, e, f) = Res(s, r \o f)
      BY <1>3, ResOn
    <2>3. ASSUME NEW i \in 1..Len(col), ResolveFrom(s, e, Prefix(col, i - 1)) # NoKey
          PROVE  ChildKey(u, ResolveFrom(s, e, Prefix(col, i - 1)), col[i])
                   = ChildKey(s, ResolveFrom(s, e, Prefix(col, i - 1)), col[i])
      <3> DEFINE f == Prefix(col, i - 1)
                 m == Res(s, r \o f)
      <3>1. i - 1 \in 0..Len(col) /\ col[i] \in Segment
        BY <2>1
      <3>2. f \in Seq(Segment)
        BY <2>1, <3>1, PrefixIs
      <3> HIDE DEF f
      <3>3. ResolveFrom(s, e, f) = m /\ m # NoKey
        BY <2>2, <2>3, <3>2 DEF f
      <3>4. m \notin gone /\ m # k
        BY <1>4, <3>2, <3>3
      <3>5. r \o f \in Seq(Segment)
        BY <1>3, <3>2, ConcatPath
      <3>6. m \in Nat
        BY <3>3, <3>5, ResLive
      <3>7. ChildKey(u, m, col[i]) = ChildKey(s, m, col[i])
        BY <1>1, <3>1, <3>4, <3>6
      <3>8. QED
        BY <3>3, <3>7 DEF f
    <2>4. ResolveFrom(u, e, col) = ResolveFrom(s, e, col)
      BY <2>1, <2>3, SameWalk
    <2>5. SameHeld(s, u, ResolveFrom(s, e, col))
      <3>1. CASE ResolveFrom(s, e, col) = NoKey
        BY <3>1, NoneHeld
      <3>2. CASE ResolveFrom(s, e, col) # NoKey
        BY <1>4, <1>5, <2>1, <2>2, <3>2
      <3>3. QED
        BY <3>1, <3>2
    <2>6. QED
      BY <2>4, <2>5 DEF col
  <1>10. IndexKey(u, def, e) = IndexKey(s, def, e)
    BY <1>5, <1>7, <1>9, SameKey
  <1>11. QED
    BY <1>8, <1>10

(* A removal is what the bracket around it needs, even where the elements  *)
(* behind the removed one move up.                                         *)
LEMMA CutSteady ==
  ASSUME NEW s, Tree(s), NEW u, Tree(u), NEW p, NEW k, CutOut(s, u, p, k),
         NEW def, PlainDef(def)
  PROVE  EntitiesStay(s, u, p, def) /\ NoneAppear(s, u, p, def)
  <1> DEFINE gone == Dropped(s, k, Last(p))
  <1>1. DOMAIN u.node = DOMAIN s.node \ gone
    BY DEF Cut, CutOut
  <1>0. gone = Dropped(s, k, Last(p))
    OBVIOUS
  <1> HIDE DEF gone
  <1>2. /\ p \in Seq(Segment) /\ Last(p) \in Segment /\ ROOT \notin gone
        /\ gone = Visited(s, {Res(s, p)}) /\ Way(s, u, p)
        /\ \A m \in Nat, tag \in Segment :
             m \in gone /\ ChildKey(s, m, tag) # NoKey => ChildKey(s, m, tag) \in gone
        /\ Res(s, p) \in gone /\ Res(s, p) # NoKey
    <2>1. p \in Seq(Segment) /\ Last(p) \in Segment
      BY CutIs
    <2>11. /\ ROOT \notin gone /\ Res(s, p) \in gone /\ Res(s, p) # NoKey
           /\ gone = Visited(s, {Res(s, p)})
      BY <1>0, CutGone
    <2>2. \A m \in Nat, tag \in Segment :
            m \in gone /\ ChildKey(s, m, tag) # NoKey => ChildKey(s, m, tag) \in gone
      BY <1>0, CutBelow
    <2>3. Way(s, u, p)
      BY CutWay
    <2>4. QED
      BY <2>1, <2>11, <2>2, <2>3
  <1> DEFINE N == {}
  <1>3. ComesFrom(s, u, N)
    BY <1>2, CutComes DEF CutOut
  <1>31. \A x : x \notin N
    OBVIOUS
  <1> HIDE DEF N
  <1>4. EntitiesStay(s, u, p, def)
    <2>1. ASSUME NEW e, AnyEntity(s, def.pattern, e), ~LineEntity(s, def.pattern, p, e)
          PROVE  AnyEntity(u, def.pattern, e) /\ IndexKey(u, def, e) = IndexKey(s, def, e)
      <3>1. PICK r : EntityAt(s, def.pattern, r, e)
        BY <2>1 DEF AnyEntity
      <3>2. ~OneLine(p, r)
        BY <2>1, <3>1 DEF LineEntity, OneLine
      <3>3. QED
        BY <3>1, <3>2, CutKey
    <2>2. QED
      BY <2>1 DEF EntitiesStay
  <1>5. ASSUME NEW r \in Seq(Segment), Leads(p, r), Res(s, r) # NoKey
        PROVE  Res(s, r) \in gone
    <2>1. PICK c \in Seq(Segment) : r = p \o c
      <3> DEFINE c == SubSeq(r, Len(p) + 1, Len(r))
      <3>1. c \in Seq(Segment) /\ Len(p) <= Len(r) /\ \A x \in 1..Len(p) : p[x] = r[x]
        BY <1>2, <1>5 DEF Leads
      <3>2. p \o c \in Seq(Segment) /\ Len(p \o c) = Len(r)
        BY <1>2, <3>1
      <3>3. \A x \in 1..Len(r) : (p \o c)[x] = r[x]
        BY <1>2, <3>1
      <3>4. r = p \o c
        BY <3>2, <3>3, SeqEqual
      <3>5. QED
        BY <3>1, <3>4
    <2>2. ResolveFrom(s, Res(s, p), c) = Res(s, r)
      BY <1>2, <2>1, ResOn
    <2>3. Len(c) \in 0..Len(c) /\ Len(c) \in Nat
      OBVIOUS
    <2>4. Walk(s, Res(s, p), c)[Len(c)] = Res(s, r)
      BY <2>2 DEF ResolveFrom
    <2>5. Sound(s) /\ Res(s, p) \in Nat
      BY <1>2, ResLive DEF Tree
    <2> DEFINE base == Res(s, p)
               P(i) == Walk(s, base, c)[i] \in gone
               S == {i \in Nat : i <= Len(c) => P(i)}
    <2>6. \A j \in 0..Len(c) : Walk(s, base, c)[j] # NoKey
      BY <1>5, <2>3, <2>4, WalkThrough
    <2>7. 0 \in S
      BY <1>2, WalkSteps
    <2>8. ASSUME NEW i \in S
          PROVE  i + 1 \in S
      <3>1. SUFFICES ASSUME i + 1 <= Len(c)
                     PROVE  P(i + 1)
        OBVIOUS
      <3>2. i \in 0..Len(c) /\ i + 1 \in 1..Len(c) /\ (i + 1) - 1 = i /\ P(i)
        BY <2>3, <2>8, <3>1
      <3>3. Walk(s, base, c)[i] \in Nat /\ Walk(s, base, c)[i] # NoKey
        BY <2>5, <2>6, <3>2, WalkType
      <3>4. Walk(s, base, c)[i + 1] = ChildKey(s, Walk(s, base, c)[i], c[i + 1])
        BY <3>2, <3>3, WalkSteps
      <3>5. Walk(s, base, c)[i + 1] # NoKey /\ c[i + 1] \in Segment
        <4>1. i + 1 \in 0..Len(c)
          BY <2>3, <3>2
        <4>2. QED
          BY <2>6, <3>2, <4>1
      <3>6. QED
        BY <1>2, <3>2, <3>3, <3>4, <3>5
    <2> HIDE DEF P, S
    <2>9. \A i \in Nat : i \in S
      BY <2>7, <2>8, SetInduction
    <2>10. QED
      BY <2>3, <2>4, <2>9 DEF P, S
  <1>6. NoneAppear(s, u, p, def)
    <2>1. ASSUME NEW e, AnyEntity(u, def.pattern, e), ~LineEntity(u, def.pattern, p, e)
          PROVE  /\ AnyEntity(s, def.pattern, e) /\ ~LineEntity(s, def.pattern, p, e)
                 /\ IndexKey(u, def, e) = IndexKey(s, def, e)
      <3>1. PICK r : EntityAt(u, def.pattern, r, e)
        BY <2>1 DEF AnyEntity
      <3>2. ~OneLine(p, r)
        BY <2>1, <3>1 DEF LineEntity, OneLine
      <3>3. r \in Seq(Segment) /\ Res(u, r) = e /\ e # NoKey /\ Matches(def.pattern, r)
        BY <3>1 DEF EntityAt, Matches
      <3>4. HasWay(s, r, Res(u, r))
        BY <1>3, <1>31, <3>3, WalkComes
      <3>5. PICK q : Similar(r, q) /\ Res(s, q) = e
        BY <3>3, <3>4 DEF HasWay
      <3>6. q \in Seq(Segment) /\ Matches(def.pattern, q)
        BY <3>3, <3>5, MatchesSimilar DEF PlainDef, Similar
      <3>7. EntityAt(s, def.pattern, q, e)
        BY <3>3, <3>5, <3>6 DEF EntityAt
      <3>8. AnyEntity(s, def.pattern, e)
        BY <3>7 DEF AnyEntity
      <3>9. e \notin gone
        <4>1. CASE r = <<>>
          <5>1. e = ROOT
            BY <3>3, <4>1, ResNone
          <5>2. QED
            BY <1>2, <5>1
        <4>2. CASE r # <<>>
          <5>1. e \in DOMAIN u.node
            BY <3>3, <4>2, ResLive
          <5>2. QED
            BY <1>1, <5>1
        <4>3. QED
          BY <4>1, <4>2
      <3>10. ~Leads(p, q)
        BY <1>5, <3>3, <3>5, <3>6, <3>9
      <3>11. ~Leads(q, p)
        <4>1. SUFFICES ASSUME Leads(q, p)
                       PROVE  FALSE
          OBVIOUS
        <4>2. q # p
          BY <3>10, <4>1
        <4>3. Res(u, q) = e
          BY <1>2, <3>3, <3>5, <3>6, <4>1, <4>2 DEF Way
        <4>4. q = r
          BY <3>3, <3>6, <4>3, OnePath
        <4>5. QED
          BY <3>2, <4>1, <4>4 DEF OneLine
      <3>12. ~LineEntity(s, def.pattern, p, e)
        <4>1. SUFFICES ASSUME NEW x, EntityAt(s, def.pattern, x, e), OneLine(x, p)
                       PROVE  FALSE
          BY DEF LineEntity
        <4>2. x \in Seq(Segment) /\ Res(s, x) = e
          BY <4>1 DEF EntityAt, Matches
        <4>3. x = q
          BY <3>3, <3>5, <3>6, <4>2, OnePath
        <4>4. QED
          BY <3>10, <3>11, <4>1, <4>3 DEF OneLine
      <3>13. IndexKey(u, def, e) = IndexKey(s, def, e)
        BY <1>4, <3>8, <3>12 DEF EntitiesStay
      <3>14. QED
        BY <3>8, <3>12, <3>13
    <2>2. QED
      BY <2>1 DEF NoneAppear
  <1>7. QED
    BY <1>4, <1>6

------------------------------------------------------------------------------
(* Brackets                                                                *)

(* A removal is what the bracket at its path needs.                        *)
LEMMA RemoveSteady ==
  ASSUME NEW s, Tree(s), NEW p \in Seq(Segment)
  PROVE  LET r == RemovePath(s, p)
         IN  r.ok = TRUE /\ Steady(s, r.s, p, {})
  <1> DEFINE r == RemovePath(s, p)
  <1>1. r.ok = TRUE /\ Tree(r.s) /\ Brings(s, r.s, {})
    BY RemoveFrame
  <1>2. CASE Res(s, p) = NoKey
    <2>1. r = Done(s, NoKey)
      BY <1>2 DEF RemovePath, Res
    <2>2. r.ok = TRUE /\ r.s = s
      BY <2>1 DEF Done
    <2>3. Framed(s, p, {}, r)
      BY <2>2, FrameSelf DEF Framed
    <2>4. QED
      BY <2>2, <2>3, FramedSteady
  <1>3. CASE Res(s, p) # NoKey /\ p = <<>>
    <2>1. ASSUME NEW t, NEW pattern, NEW k, AnyEntity(t, pattern, k)
          PROVE  LineEntity(t, pattern, p, k)
      <3>1. PICK x : EntityAt(t, pattern, x, k)
        BY <2>1 DEF AnyEntity
      <3>2. Leads(p, x)
        BY <1>3, <3>1 DEF Leads, EntityAt, Matches
      <3>3. QED
        BY <3>1, <3>2 DEF LineEntity, OneLine
    <2> HIDE DEF r
    <2>2. ASSUME NEW def
          PROVE  EntitiesStay(s, r.s, p, def) /\ NoneAppear(s, r.s, p, def)
      BY <2>1 DEF EntitiesStay, NoneAppear
    <2>3. QED
      BY <1>1, <2>2 DEF Steady, r
  <1>4. CASE Res(s, p) # NoKey /\ p # <<>>
    <2> DEFINE k == Res(s, Front(p))
    <2>1. /\ Parent(s, p, k) /\ ChildKey(s, k, Last(p)) # NoKey
          /\ Cut(s, r.s, k, Last(p), Visited(s, {ChildKey(s, k, Last(p))}))
      BY <1>4, RemoveCut DEF Res
    <2>2. CutOut(s, r.s, p, k)
      BY <2>1 DEF CutOut, Dropped
    <2> HIDE DEF r, k
    <2>3. ASSUME NEW def, PlainDef(def)
          PROVE  EntitiesStay(s, r.s, p, def) /\ NoneAppear(s, r.s, p, def)
      BY <1>1, <2>2, <2>3, CutSteady
    <2>4. QED
      BY <1>1, <2>3 DEF Steady, r
  <1>5. QED
    BY <1>2, <1>3, <1>4

(* What a change of s into t outside of any bracket has to leave alone.    *)
Keeps(s, t) ==
  /\ Tree(t) /\ Brings(s, t, {})
  /\ \A def \in tracked : \A k :
       /\ AnyEntity(t, def.pattern, k) <=> AnyEntity(s, def.pattern, k)
       /\ AnyEntity(s, def.pattern, k) => IndexKey(t, def, k) = IndexKey(s, def, k)

(* The registry of indexes that the changes run under.                     *)
Registry ==
  /\ IsFiniteSet(indexes) /\ WellDefs(indexes) /\ OwnNames(indexes)
  /\ tracked \subseteq indexes /\ PlainDefs(tracked)

(* A table and its entries in order: of the tracked indexes no entry is    *)
(* wrong, none is missing unless a call has failed, and no entity is       *)
(* packed at a path of W.                                                  *)
Right(t, W) ==
  /\ IsState(t) /\ Tree(t.s) /\ WellKept(t.post)
  /\ Once(t.post, indexes)
  /\ NoneWrong(t.post, t.s, tracked)
  /\ t.ok /\ ~failed => NoneMissing(t.post, t.s, tracked)
  /\ ClearOf(t.s, W)

(* No path of A is one that a pattern of W is about.                       *)
Away(W, A) == \A w \in W, a \in A : ~Matches(w, a)

(* A bracket leaves table and entries in order.                            *)
LEMMA BracketRight ==
  ASSUME Registry, NEW W, W \subseteq Seq(PatternParts), NEW t, Right(t, W), t.ok,
         NEW p \in Seq(Segment), NEW r, r.ok \in BOOLEAN, NEW A, Steady(t.s, r.s, p, A),
         Away(W, A)
  PROVE  LET u == ReindexAround(t, p, r)
         IN  Right(u, W) /\ u.s = r.s /\ (u.ok => r.ok)
  <1> DEFINE u == ReindexAround(t, p, r)
  <1>1. /\ IsFiniteSet(indexes) /\ WellDefs(indexes) /\ OwnNames(indexes)
        /\ tracked \subseteq indexes /\ PlainDefs(tracked)
        /\ IsState(t) /\ Tree(t.s) /\ WellKept(t.post)
        /\ Once(t.post, indexes) /\ NoneWrong(t.post, t.s, tracked)
        /\ ClearOf(t.s, W) /\ (~failed => NoneMissing(t.post, t.s, tracked))
    BY DEF Registry, Right
  <1>2. Tree(r.s) /\ Brings(t.s, r.s, A)
    BY DEF Steady
  <1>3. \A def \in tracked : EntitiesStay(t.s, r.s, p, def) /\ NoneAppear(t.s, r.s, p, def)
    BY <1>1 DEF Steady, PlainDefs
  <1>4. /\ IsState(u) /\ u.s = r.s /\ WellKept(u.post) /\ (u.ok => r.ok)
        /\ Once(u.post, indexes) /\ NoneWrong(u.post, u.s, tracked)
        /\ u.ok /\ NoneMissing(t.post, t.s, tracked) => NoneMissing(u.post, u.s, tracked)
    BY <1>1, <1>2, <1>3, BracketKeeps
  <1>5. ClearOf(r.s, W)
    <2>1. \A w \in W, a \in A : ~Matches(w, a)
      BY DEF Away
    <2>2. QED
      BY <1>1, <1>2, <2>1, StaysClear
  <1> HIDE DEF u
  <1>6. Right(u, W)
    BY <1>1, <1>2, <1>4, <1>5 DEF Right
  <1>7. QED
    BY <1>4, <1>6 DEF u

(* And a change that leaves the entities alone needs none.                 *)
LEMMA PlainRight ==
  ASSUME NEW W, W \subseteq Seq(PatternParts), NEW t, Right(t, W),
         NEW s, Keeps(t.s, s), NEW u, IsState(u), u.s = s, u.post = t.post, u.ok => t.ok
  PROVE  Right(u, W)
  <1>1. /\ IsState(t) /\ WellKept(t.post) /\ ClearOf(t.s, W)
        /\ Once(t.post, indexes) /\ NoneWrong(t.post, t.s, tracked)
        /\ t.ok /\ ~failed => NoneMissing(t.post, t.s, tracked)
    BY DEF Right
  <1>2. Tree(s) /\ Brings(t.s, s, {})
    BY DEF Keeps
  <1> DEFINE A == {}
  <1>3. Brings(t.s, s, A) /\ \A w \in W, a \in A : ~Matches(w, a)
    BY <1>2
  <1> HIDE DEF A
  <1>4. ClearOf(s, W)
    BY <1>1, <1>3, StaysClear
  <1>5. ASSUME NEW def \in tracked, NEW k
        PROVE  /\ AnyEntity(s, def.pattern, k) <=> AnyEntity(t.s, def.pattern, k)
               /\ AnyEntity(t.s, def.pattern, k) => Pair(s, def, k) = Pair(t.s, def, k)
    BY DEF Keeps, Pair
  <1>6. \A def \in tracked : \A x : Entry(s, def, x) <=> Entry(t.s, def, x)
    BY <1>5 DEF Entry
  <1>7. NoneWrong(u.post, u.s, tracked)
    BY <1>1, <1>6 DEF NoneWrong
  <1>8. u.ok /\ ~failed => NoneMissing(u.post, u.s, tracked)
    BY <1>1, <1>6 DEF NoneMissing
  <1>9. QED
    BY <1>1, <1>2, <1>4, <1>7, <1>8 DEF Right

(* A change that keeps the entities, after one that does.                  *)
LEMMA UnbracketedRight ==
  ASSUME NEW W, W \subseteq Seq(PatternParts), NEW t, Right(t, W),
         NEW r, r.ok = TRUE, t.ok => Keeps(t.s, r.s)
  PROVE  Right(Unbracketed(t, r), W) /\ (t.ok => Unbracketed(t, r).s = r.s /\ Unbracketed(t, r).ok)
  <1>1. CASE t.ok
    <2> DEFINE u == Unbracketed(t, r)
    <2>1. u = [ok |-> r.ok, s |-> r.s, post |-> t.post]
      BY <1>1 DEF Unbracketed
    <2>2. u.ok = TRUE /\ u.s = r.s /\ u.post = t.post
      BY <2>1
    <2>3. IsState(u)
      BY <2>1, <2>2 DEF IsState
    <2> HIDE DEF u
    <2>4. Right(u, W)
      BY <1>1, <2>2, <2>3, PlainRight
    <2>5. QED
      BY <2>2, <2>4 DEF u
  <1>2. CASE ~t.ok
    BY <1>2 DEF Unbracketed
  <1>3. QED
    BY <1>1, <1>2

------------------------------------------------------------------------------
(* Lists whose elements change places                                      *)

(* The list k has elements b in t, which are elements a in s elsewhere.    *)
Shuffled(s, t, k, n, a, b, h) ==
  /\ n \in Nat /\ h \in [1..n -> 1..n]
  /\ \A x \in 1..n : b[x] = a[h[x]]
  /\ \A m, tag : m # k \/ IsName(tag) => ChildKey(t, m, tag) = ChildKey(s, m, tag)
  /\ \A tag : ~IsName(tag) =>
       ChildKey(t, k, tag) = IF tag.index < n THEN b[tag.index + 1] ELSE NoKey
  /\ \A tag : ~IsName(tag) =>
       ChildKey(s, k, tag) = IF tag.index < n THEN a[tag.index + 1] ELSE NoKey

(* The children of a list whose elements change places are those it had.   *)
LEMMA ShuffleComes ==
  ASSUME NEW s, NEW t, NEW k, NEW n, NEW a, NEW b, NEW h, Shuffled(s, t, k, n, a, b, h)
  PROVE  ComesFrom(s, t, {})
  <1>1. ASSUME NEW m \in Nat, NEW tag \in Segment, ChildKey(t, m, tag) # NoKey
        PROVE  CameFrom(s, m, tag, ChildKey(t, m, tag))
    <2>1. CASE m # k \/ IsName(tag)
      <3>1. ChildKey(t, m, tag) = ChildKey(s, m, tag)
        BY <2>1 DEF Shuffled
      <3>2. QED
        BY <3>1, CameSame
    <2>2. CASE m = k /\ ~IsName(tag)
      <3>1. tag.index < n /\ ChildKey(t, m, tag) = b[tag.index + 1]
        BY <1>1, <2>2 DEF Shuffled
      <3>2. tag.index \in Nat
        BY <2>2, SegmentKinds DEF IsName
      <3>3. n \in Nat /\ h \in [1..n -> 1..n]
        BY DEF Shuffled
      <3>4. tag.index + 1 \in 1..n
        <4> DEFINE i == tag.index
        <4>1. i \in Nat /\ i < n
          BY <3>1, <3>2
        <4> HIDE DEF i
        <4>2. i + 1 \in 1..n
          BY <3>3, <4>1
        <4>3. QED
          BY <4>2 DEF i
      <3> DEFINE y == h[tag.index + 1]
                 from == Index(y - 1)
      <3>5. b[tag.index + 1] = a[y]
        BY <3>4 DEF Shuffled
      <3>6. y \in 1..n
        BY <3>3, <3>4
      <3> HIDE DEF y
      <3>7. y - 1 \in Nat /\ y - 1 < n /\ (y - 1) + 1 = y
        BY <3>3, <3>6
      <3>8. from \in Segment /\ ~IsName(from) /\ from.index = y - 1
        BY <3>7, IndexSegment
      <3> HIDE DEF from
      <3>9. ChildKey(s, k, from) = IF from.index < n THEN a[from.index + 1] ELSE NoKey
        BY <3>8 DEF Shuffled
      <3>10. ChildKey(s, m, from) = a[y]
        BY <2>2, <3>7, <3>8, <3>9
      <3>11. Alike(tag, from)
        BY <2>2, <3>8 DEF Alike
      <3>12. QED
        BY <3>1, <3>5, <3>8, <3>10, <3>11 DEF CameFrom
    <2>3. QED
      BY <2>1, <2>2
  <1>2. QED
    BY <1>1 DEF ComesFrom

(* Two tables whose nodes hold the same and hang in the same places as far *)
(* as patterns and columns can tell.                                       *)
LikeBefore(s, t) ==
  /\ ComesFrom(s, t, {}) /\ ComesFrom(t, s, {})
  /\ \A m, tag : IsName(tag) => ChildKey(t, m, tag) = ChildKey(s, m, tag)
  /\ \A m : SameHeld(s, t, m)

(* An entity of one is an entity of the other.                             *)
LEMMA EntityComes ==
  ASSUME NEW s, Tree(s), NEW t, Tree(t), ComesFrom(s, t, {}),
         NEW pattern \in Seq(PatternParts), NEW k, AnyEntity(t, pattern, k)
  PROVE  AnyEntity(s, pattern, k)
  <1>1. PICK r : EntityAt(t, pattern, r, k)
    BY DEF AnyEntity
  <1>2. r \in Seq(Segment) /\ Res(t, r) = k /\ k # NoKey /\ Matches(pattern, r)
    BY <1>1 DEF EntityAt, Matches
  <1> DEFINE N == {}
  <1>3. ComesFrom(s, t, N) /\ k \notin N
    OBVIOUS
  <1> HIDE DEF N
  <1>4. HasWay(s, r, k)
    BY <1>2, <1>3, WalkComes
  <1>5. PICK q : Similar(r, q) /\ Res(s, q) = k
    BY <1>4 DEF HasWay
  <1>6. Matches(pattern, q)
    BY <1>2, <1>5, MatchesSimilar
  <1>7. QED
    BY <1>2, <1>5, <1>6 DEF AnyEntity, EntityAt

(* Such tables have the same entities under the same index keys.           *)
LEMMA LikeKeeps ==
  ASSUME PlainDefs(tracked), NEW s, Tree(s), NEW t, Tree(t), LikeBefore(s, t)
  PROVE  Keeps(s, t)
  <1>1. ASSUME NEW def \in tracked, NEW k
        PROVE  /\ AnyEntity(t, def.pattern, k) <=> AnyEntity(s, def.pattern, k)
               /\ AnyEntity(s, def.pattern, k) => IndexKey(t, def, k) = IndexKey(s, def, k)
    <2>1. PlainDef(def) /\ def.pattern \in Seq(PatternParts)
      BY DEF PlainDefs, PlainDef
    <2>2. AnyEntity(t, def.pattern, k) <=> AnyEntity(s, def.pattern, k)
      BY <2>1, EntityComes DEF LikeBefore
    <2>3. ASSUME NEW c \in DOMAIN def.columns
          PROVE  /\ ResolveFrom(t, k, def.columns[c].path) = ResolveFrom(s, k, def.columns[c].path)
                 /\ SameHeld(s, t, ResolveFrom(s, k, def.columns[c].path))
      <3> DEFINE col == def.columns[c].path
      <3>1. col \in Seq(Segment) /\ \A i \in 1..Len(col) : IsName(col[i])
        BY <2>1, NamePathIs DEF PlainDef
      <3> HIDE DEF col
      <3>2. ResolveFrom(t, k, col) = ResolveFrom(s, k, col)
        BY <3>1, SameWalk DEF LikeBefore
      <3>3. QED
        BY <3>2 DEF LikeBefore, col
    <2>4. SameHeld(s, t, k)
      BY DEF LikeBefore
    <2>5. IndexKey(t, def, k) = IndexKey(s, def, k)
      BY <2>3, <2>4, SameKey
    <2>6. QED
      BY <2>2, <2>5
  <1> DEFINE N == {}
             A == {}
  <1>2. ComesFrom(s, t, N)
    BY DEF LikeBefore
  <1>3. /\ \A m \in N : ~HasKind(t, m, "packed")
        /\ \A m : m \notin N /\ HasKind(t, m, "packed") => HasKind(s, m, "packed")
    BY DEF LikeBefore, SameHeld
  <1> HIDE DEF N, A
  <1>4. Brings(s, t, A)
    BY <1>2, <1>3, BringsFrom
  <1>5. QED
    BY <1>1, <1>4 DEF Keeps, A

(* Moving the elements of a list leaves the entities alone: no pattern     *)
(* names a position.                                                       *)
LEMMA ReorderKeeps ==
  ASSUME PlainDefs(tracked), NEW s, Tree(s), NEW k, HasKind(s, k, "list"),
         NEW ks \in Seq(Nat \ {ROOT}), Rearranged(s.node[k].items, ks),
         Tree(SetItems(s, k, ks))
  PROVE  Keeps(s, SetItems(s, k, ks))
  <1> DEFINE items == s.node[k].items
             n == Len(ks)
             t == SetItems(s, k, ks)
  <1>0. PICK f, g : /\ Orders(f, g, Len(ks)) /\ Len(ks) = Len(items)
                    /\ \A x \in 1..Len(ks) : ks[x] = items[f[x]]
    BY DEF Rearranged
  <1>1. /\ items \in Seq(Nat \ {ROOT}) /\ n \in Nat /\ k \in Nat /\ k \in DOMAIN s.node
        /\ Shape(s) /\ Sound(s)
    BY ListItems, LenProperties DEF Tree, Sound, HasKind, Live
  <1>2. /\ DOMAIN t.node = DOMAIN s.node
        /\ \A m, kind : HasKind(t, m, kind) <=> HasKind(s, m, kind)
        /\ \A m, tag : m # k \/ IsName(tag) => ChildKey(t, m, tag) = ChildKey(s, m, tag)
        /\ \A tag : ~IsName(tag) =>
             ChildKey(t, k, tag) = IF tag.index < n THEN ks[tag.index + 1] ELSE NoKey
    BY <1>1, SetItemsEffect
  <1>3. \A tag : ~IsName(tag) =>
          ChildKey(s, k, tag) = IF tag.index < n THEN items[tag.index + 1] ELSE NoKey
    BY <1>0 DEF ChildKey
  <1>4. /\ f \in [1..n -> 1..n] /\ \A x \in 1..n : ks[x] = items[f[x]]
        /\ g \in [1..n -> 1..n] /\ \A x \in 1..n : f[g[x]] = x
    BY <1>0 DEF Orders
  <1>5. \A x \in 1..n : items[x] = ks[g[x]]
    BY <1>4
  <1>6. \A m : m # k => (m \in DOMAIN s.node => t.node[m] = s.node[m])
    BY DEF SetItems, WriteNode
  <1>7. ~HasKind(s, k, "leaf") /\ ~HasKind(s, k, "packed")
    BY DEF HasKind
  <1> HIDE DEF t, n, items
  <1>8. ComesFrom(s, t, {})
    <2>1. Shuffled(s, t, k, n, items, ks, f)
      BY <1>1, <1>2, <1>3, <1>4 DEF Shuffled
    <2>2. QED
      BY <2>1, ShuffleComes
  <1>9. ComesFrom(t, s, {})
    <2>1. \A m, tag : m # k \/ IsName(tag) => ChildKey(s, m, tag) = ChildKey(t, m, tag)
      BY <1>2
    <2>2. Shuffled(t, s, k, n, ks, items, g)
      BY <1>1, <1>2, <1>3, <1>4, <1>5, <2>1 DEF Shuffled
    <2>3. QED
      BY <2>2, ShuffleComes
  <1>10. \A m : SameHeld(s, t, m)
    BY <1>2, <1>6, <1>7 DEF SameHeld, HasKind, Live
  <1>11. LikeBefore(s, t)
    BY <1>2, <1>8, <1>9, <1>10 DEF LikeBefore
  <1>12. QED
    BY <1>11, LikeKeeps DEF t

(* tree::list_swap leaves the entities alone.                              *)
LEMMA SwapKeeps ==
  ASSUME PlainDefs(tracked), NEW s, Tree(s), NEW k, HasKind(s, k, "list"),
         NEW i \in Nat, i < Len(s.node[k].items), NEW j \in Nat, j < Len(s.node[k].items)
  PROVE  LET r == ListSwap(s, k, i, j)
         IN  r.ok = TRUE /\ Keeps(s, r.s)
  <1>1. s.node[k].items \in Seq(Nat \ {ROOT})
    BY ListItems DEF Tree, Sound
  <1> DEFINE ks == SwapIn(s.node[k].items, i, j)
             t == SetItems(s, k, ks)
  <1>2. ks \in Seq(Nat \ {ROOT}) /\ Rearranged(s.node[k].items, ks)
    BY <1>1, SwapOrders
  <1>3. Good(s, ListSwap(s, k, i, j)) /\ ListSwap(s, k, i, j).ok = TRUE
    BY ListSwapEffect
  <1>4. ListSwap(s, k, i, j).s = t
    BY DEF ListSwap, Done
  <1>5. Tree(t)
    BY <1>3, <1>4 DEF Good
  <1> HIDE DEF ks
  <1>6. Keeps(s, t)
    BY <1>2, <1>5, ReorderKeeps
  <1>7. QED
    BY <1>3, <1>4, <1>6

(* And so does tree::list_move.                                            *)
LEMMA MoveKeeps ==
  ASSUME PlainDefs(tracked), NEW s, Tree(s), NEW k, HasKind(s, k, "list"),
         NEW i \in Nat, i < Len(s.node[k].items), NEW j \in Nat
  PROVE  LET r == ListMove(s, k, i, j)
         IN  r.ok = TRUE /\ Keeps(s, r.s)
  <1>1. s.node[k].items \in Seq(Nat \ {ROOT})
    BY ListItems DEF Tree, Sound
  <1> DEFINE ks == MoveIn(s.node[k].items, i, j)
             t == SetItems(s, k, ks)
  <1>2. ks \in Seq(Nat \ {ROOT}) /\ Rearranged(s.node[k].items, ks)
    BY <1>1, MoveOrders
  <1>3. Good(s, ListMove(s, k, i, j)) /\ ListMove(s, k, i, j).ok = TRUE
    BY ListMoveEffect
  <1>4. ListMove(s, k, i, j).s = t
    BY DEF ListMove, Done
  <1>5. Tree(t)
    BY <1>3, <1>4 DEF Good
  <1> HIDE DEF ks
  <1>6. Keeps(s, t)
    BY <1>2, <1>5, ReorderKeeps
  <1>7. QED
    BY <1>3, <1>4, <1>6

------------------------------------------------------------------------------
(* Unpacking                                                               *)

(* A change confined to what is below q leaves the rest of the paths and   *)
(* what they lead to.                                                      *)
LEMMA ConfinedElse ==
  ASSUME NEW s, Tree(s), NEW t, Tree(t), NEW q \in Seq(Segment), NEW k, Res(s, q) = k,
         k # NoKey, Confined(s, t, k)
  PROVE  \A r \in Seq(Segment) : ~Leads(q, r) => SameAt(s, t, r)
  <1>1. ASSUME NEW r \in Seq(Segment), ~Leads(q, r), Res(s, r) # NoKey
        PROVE  SameNode(s, t, Res(s, r))
    <2>1. q # <<>>
      BY <1>1 DEF Leads
    <2>2. /\ k \in DOMAIN s.node /\ Reached(s, k)
      BY <2>1, ResLive
    <2>3. Live(s, ROOT)
      BY <2>2, RootLive DEF Live
    <2>4. Res(s, r) \in DOMAIN s.node
      BY <1>1, <2>3, ResLive DEF Live
    <2>5. Res(s, r) \notin Visited(s, {k})
      BY <1>1, BelowLeads
    <2>6. QED
      BY <2>4, <2>5 DEF Confined
  <1>2. ASSUME NEW r \in Seq(Segment), ~Leads(q, r)
        PROVE  Res(t, r) = Res(s, r)
    <2>1. ASSUME NEW i \in 1..Len(r), Res(s, Prefix(r, i - 1)) # NoKey
          PROVE  ChildKey(t, Res(s, Prefix(r, i - 1)), r[i])
                   = ChildKey(s, Res(s, Prefix(r, i - 1)), r[i])
      <3> DEFINE f == Prefix(r, i - 1)
      <3>1. i - 1 \in 0..Len(r) /\ r[i] \in Segment
        BY <2>1, ElementOfSeq
      <3>2. f \in Seq(Segment) /\ Leads(f, r)
        BY <1>2, <3>1, PrefixLeads
      <3> HIDE DEF f
      <3>3. ~Leads(q, f)
        BY <1>2, <3>2, LeadsOn
      <3>4. Res(s, f) # NoKey
        BY <2>1 DEF f
      <3>5. SameNode(s, t, Res(s, f))
        BY <1>1, <3>2, <3>3, <3>4
      <3>6. QED
        BY <3>1, <3>5 DEF SameNode, f
    <2>2. ResolveFrom(t, ROOT, r) = ResolveFrom(s, ROOT, r)
      BY <1>2, <2>1, SameWalk DEF Res
    <2>3. QED
      BY <2>2 DEF Res
  <1>3. QED
    BY <1>1, <1>2 DEF SameAt

(* A change confined to what is below q is one on the line of q, and every *)
(* path to q or above it leads where it led.                               *)
LEMMA ConfinedFrame ==
  ASSUME NEW s, Tree(s), NEW t, Tree(t), NEW q \in Seq(Segment), NEW k, Res(s, q) = k,
         k # NoKey, Confined(s, t, k), NEW A, Brings(s, t, A)
  PROVE  Frame(s, t, q, A) /\ WayTo(s, t, q)
  <1>1. \A r \in Seq(Segment) : ~Leads(q, r) => SameAt(s, t, r)
    BY ConfinedElse
  <1>2. Loc(s, t, q)
    BY <1>1 DEF Loc, OneLine
  <1>3. ASSUME NEW r \in Seq(Segment), Leads(r, q), r # q
        PROVE  Res(t, r) = Res(s, r)
    <2>1. ~Leads(q, r)
      BY <1>3, LeadsEqual
    <2>2. QED
      BY <1>1, <2>1 DEF SameAt
  <1>4. Res(t, q) = k
    BY StillLeads DEF Res
  <1>5. WayTo(s, t, q)
    BY <1>3, <1>4 DEF WayTo
  <1>6. Way(s, t, q)
    BY <1>3 DEF Way
  <1>7. QED
    BY <1>2, <1>5, <1>6 DEF Frame

(* The children of an unpacked entity are not packed.                      *)
LEMMA SpillBrings ==
  ASSUME NowhereApart, NEW s, Tree(s), NEW q \in Seq(Segment), NEW k, Res(s, q) = k,
         k # NoKey, NEW d, Flat(d),
         Is(d, "list") \/ Is(d, "object"),
         HasKind(s, k, ContainerKind(Is(d, "list"))),
         \A tag \in Segment : ChildKey(s, k, tag) = NoKey
  PROVE  Brings(s, SpillAll(s, k, d), {})
  <1> DEFINE segs == Segments(d)
  <1>1. segs \in Seq(Segment) /\ Len(segs) \in Nat /\ k \in Nat /\ Reached(s, k)
    BY LeafParts, LenProperties, ResLive
  <1>2. PICK g : Spills(g, s, k, d, segs) /\ Spill(s, k, d, segs)[Len(segs)] = g[Len(segs)]
    BY <1>1, SpillSteps
  <1> DEFINE P(i) == Poured(s, k, d, i, g[i]) /\ Brings(s, g[i], {})
             S == {i \in Nat : i <= Len(segs) => P(i)}
  <1>3. 0 \in S
    <2>1. Poured(s, k, d, 0, s)
      BY <1>1, PourFirst
    <2>2. Brings(s, s, {})
      BY BringsSelf
    <2>3. QED
      BY <1>2, <2>1, <2>2 DEF Spills
  <1>4. ASSUME NEW i \in Nat, i \in S PROVE i + 1 \in S
    <2>1. SUFFICES ASSUME i + 1 <= Len(segs) PROVE P(i + 1)
      OBVIOUS
    <2>2. i + 1 \in 1..Len(segs) /\ i + 1 - 1 = i /\ i <= Len(segs)
      BY <1>1, <2>1
    <2> DEFINE u == g[i]
               seg == segs[i + 1]
               v == Kid(d, seg).val
               a == AddChild(u, k, seg, LeafNode(v))
               p == Append(q, seg)
    <2>3. P(i)
      BY <1>4, <2>2
    <2>4. g[i + 1] = a.s
      BY <1>2, <2>2 DEF Spills
    <2>5. Poured(s, k, d, i, u) /\ Brings(s, u, {})
      BY <2>3
    <2>6. /\ Poured(s, k, d, i + 1, a.s)
          /\ ChildKey(u, k, seg) = NoKey /\ Holder(u, k, seg)
      <3>1. Poured(s, k, d, i, u) /\ k \in Nat /\ i + 1 <= Len(Segments(d))
        BY <1>1, <2>1, <2>5
      <3> HIDE DEF P, u
      <3>2. LET sg == Segments(d)[i + 1]
                b  == AddChild(u, k, sg, LeafNode(Kid(d, sg).val))
            IN  /\ Poured(s, k, d, i + 1, b.s)
                /\ ChildKey(u, k, sg) = NoKey /\ Holder(u, k, sg)
        BY <3>1, PourStep, ZenonT(30)
      <3>3. QED
        BY <3>2
    <2>7. seg \in Segment
      BY <1>1, <2>2, ElementOfSeq
    <2>8. v \in Values
      BY <1>1, <2>2, LeafParts
    <2>9. Bare(LeafNode(v)) /\ LeafNode(v).kind # "packed"
      BY <2>8, LeafNodeBare DEF LeafNode
    <2> HIDE DEF P, u, a, v, seg
    <2>10. p \in Seq(Segment) /\ p # <<>> /\ Front(p) = q /\ Last(p) = seg
      BY <2>7, PathAppend
    <2> HIDE DEF p
    <2>11. Tree(u) /\ Res(u, q) = k
      BY <2>5, StillLeads DEF Poured, Res
    <2>12. Parent(u, p, k)
      BY <2>6, <2>10, <2>11 DEF Parent, Res
    <2> DEFINE n == LeafNode(v)
    <2>13. Bare(n) /\ n.kind # "packed"
      BY <2>9
    <2> HIDE DEF n
    <2>14. Grows(u, AddChild(u, k, Last(p), n).s, p)
      BY <2>6, <2>10, <2>11, <2>12, <2>13, AddGrows
    <2>15. Brings(u, a.s, {})
      BY <2>10, <2>14 DEF Grows, a, n
    <2> DEFINE w == a.s
               C == {}
    <2>16. Brings(s, u, C) /\ Brings(u, w, C) /\ C \subseteq C
      BY <2>5, <2>15
    <2> HIDE DEF w, C
    <2>17. Brings(s, w, C)
      BY <2>16, BringsOn
    <2>18. Brings(s, a.s, {})
      BY <2>17 DEF w, C
    <2>19. QED
      BY <2>4, <2>6, <2>18 DEF P
  <1>5. Nat \subseteq S
    <2> HIDE DEF S
    <2> QED  BY <1>3, <1>4, SetInduction
  <1>6. P(Len(segs))
    <2>1. Len(segs) <= Len(segs)
      BY <1>1
    <2> HIDE DEF P
    <2> QED  BY <1>1, <1>5, <2>1
  <1>7. SpillAll(s, k, d) = g[Len(segs)]
    BY <1>2 DEF SpillAll
  <1>8. QED
    BY <1>6, <1>7

(* Unpacking brings no packed entity.                                      *)
LEMMA UnpackBrings ==
  ASSUME NowhereApart, NEW s, Tree(s), NEW q \in Seq(Segment), NEW k, Res(s, q) = k,
         HasKind(s, k, "packed")
  PROVE  Brings(s, Unpack(s, k), {})
  <1> DEFINE d == s.node[k].doc
  <1>0. k # NoKey /\ Reached(s, k)
    <2>1. k # NoKey
      BY PackedIsBare DEF NoKey
    <2>2. QED
      BY <2>1, ResLive
  <1>1. /\ k \in Nat /\ k # ROOT /\ Live(s, k) /\ Flat(d)
        /\ \A tag \in Segment : ChildKey(s, k, tag) = NoKey
    BY <1>0, PackedIsBare
  <1>2. /\ Is(d, "leaf") => Unpack(s, k) = WriteNode(s, k, LeafNode(d.val))
        /\ ~Is(d, "leaf") => Unpack(s, k) = SpillAll(WriteNode(s, k, EmptyNode(Is(d, "list"))), k, d)
    BY DEF Unpack
  <1> HIDE DEF d
  <1>3. ASSUME NEW n, Bare(n)
        PROVE  Tree(WriteNode(s, k, n)) /\ Overwrote(s, WriteNode(s, k, n), k, n)
               /\ Grows(s, WriteNode(s, k, n), q)
    <2> DEFINE t == WriteNode(s, k, n)
    <2>1. Tree(t) /\ Overwrote(s, t, k, n)
      BY <1>1, <1>3, OverwriteEffect
    <2> HIDE DEF t
    <2>2. Grows(s, t, q)
      BY <1>0, <2>1, OverwroteGrows
    <2>3. QED
      BY <2>1, <2>2 DEF t
  <1>4. CASE Is(d, "leaf")
    <2> DEFINE v == d.val
               n == LeafNode(v)
    <2>1. Bare(n)
      BY <1>1, <1>4, LeafNodeBare, FlatIs
    <2> HIDE DEF n
    <2>2. Grows(s, WriteNode(s, k, n), q)
      BY <1>3, <2>1
    <2>3. QED
      BY <1>2, <1>4, <2>2 DEF Grows, n
  <1>5. CASE ~Is(d, "leaf")
    <2> DEFINE n == EmptyNode(Is(d, "list"))
               t == WriteNode(s, k, n)
               u == SpillAll(t, k, d)
               C == {}
    <2>1. Bare(n) /\ n.kind = ContainerKind(Is(d, "list"))
      <3>1. Is(d, "list") \in BOOLEAN
        BY DEF Is
      <3> QED  BY <3>1, EmptyNodeBare
    <2>2. Is(d, "list") \/ Is(d, "object")
      BY <1>1, <1>5, FlatKinds
    <2>3. Unpack(s, k) = u
      BY <1>2, <1>5
    <2> HIDE DEF n
    <2>4. Tree(t) /\ Overwrote(s, t, k, n) /\ Grows(s, t, q)
      BY <1>3, <2>1
    <2> HIDE DEF t, C
    <2>5. /\ HasKind(t, k, ContainerKind(Is(d, "list")))
          /\ \A tag \in Segment : ChildKey(t, k, tag) = NoKey
      BY <1>1, <2>1, <2>4 DEF Overwrote
    <2>6. Res(t, q) = k
      <3>1. Leads(q, q)
        BY DEF Leads
      <3>2. QED
        BY <1>0, <2>4, <3>1 DEF Grows, WayTo
    <2>7. Brings(t, u, {})
      BY <1>0, <1>1, <2>2, <2>4, <2>5, <2>6, SpillBrings
    <2>8. Brings(s, t, {})
      BY <2>4 DEF Grows
    <2> HIDE DEF u
    <2>9. Brings(s, t, C) /\ Brings(t, u, C) /\ C \subseteq C
      BY <2>7, <2>8 DEF C
    <2>10. Brings(s, u, C)
      BY <2>9, BringsOn
    <2>11. QED
      BY <2>3, <2>10 DEF C
  <1>6. QED
    BY <1>4, <1>5

------------------------------------------------------------------------------
(* Columns and the document                                                *)

(* A walk from a node along nodes that are not packed keeps to the         *)
(* document under the node.                                                *)
LEMMA WalkKeepsBelow ==
  ASSUME NowhereApart, NEW s, Tree(s), NEW base, Reached(s, base), NEW c \in Seq(Segment),
         \A i \in 0..Len(c) : ~HasKind(s, Walk(s, base, c)[i], "packed")
  PROVE  /\ At(DocUnder(s, base), c) = DocUnder(s, ResolveFrom(s, base, c))
         /\ ResolveFrom(s, base, c) # NoKey => Reached(s, ResolveFrom(s, base, c))
  <1> DEFINE n == Len(c)
             d == DocUnder(s, base)
             A == Along(d, c)
             w == Walk(s, base, c)
             P(i) == A[i] = DocUnder(s, w[i]) /\ (w[i] # NoKey => Reached(s, w[i]))
             S == {i \in Nat : i <= n => P(i)}
  <1>1. Sound(s) /\ Shape(s) /\ NoKey \notin DOMAIN s.node
    <2>1. Sound(s) /\ Shape(s)
      BY DEF Tree, Sound
    <2>2. QED
      BY <2>1 DEF Shape, NoKey
  <1>2. n \in Nat /\ A[0] = d /\ \A i \in 1..n : A[i] = Kid(A[i - 1], c[i])
    BY AlongSteps
  <1>3. w[0] = base /\ \A i \in 1..n : w[i] = IF w[i - 1] = NoKey THEN NoKey
                                              ELSE ChildKey(s, w[i - 1], c[i])
    BY WalkSteps
  <1>4. \A i \in 1..n : c[i] \in Segment
    BY ElementOfSeq, <1>2
  <1>5. \A i \in 0..n : ~HasKind(s, w[i], "packed")
    OBVIOUS
  <1> HIDE DEF n, A, w
  <1>6. 0 \in S
    BY <1>2, <1>3 DEF d
  <1>7. ASSUME NEW i \in Nat, i \in S PROVE i + 1 \in S
    <2>1. SUFFICES ASSUME i + 1 <= n
                   PROVE  P(i + 1)
      OBVIOUS
    <2>2. i + 1 \in 1..n /\ i <= n /\ (i + 1) - 1 = i /\ i \in 0..n /\ c[i + 1] \in Segment
      BY <1>2, <1>4, <2>1
    <2>3. A[i] = DocUnder(s, w[i]) /\ (w[i] # NoKey => Reached(s, w[i]))
      <3> HIDE DEF P
      <3>1. P(i)
        BY <1>7, <2>2
      <3>2. QED
        BY <3>1 DEF P
    <2>4. A[i + 1] = Kid(A[i], c[i + 1])
      BY <1>2, <2>2
    <2>5. w[i + 1] = IF w[i] = NoKey THEN NoKey ELSE ChildKey(s, w[i], c[i + 1])
      BY <1>3, <2>2
    <2>6. CASE w[i] = NoKey
      <3>1. DocUnder(s, NoKey) = Nowhere
        BY <1>1 DEF DocUnder, Live
      <3>2. QED
        BY <2>3, <2>4, <2>5, <2>6, <3>1, NowhereBelow
    <2>7. CASE w[i] # NoKey
      <3>1. Reached(s, w[i]) /\ ~HasKind(s, w[i], "packed")
        BY <1>5, <2>2, <2>3, <2>7
      <3>2. Kid(DocUnder(s, w[i]), c[i + 1]) = DocUnder(s, ChildKey(s, w[i], c[i + 1]))
        BY <2>2, <3>1, KidOf
      <3>3. w[i + 1] # NoKey => Reached(s, w[i + 1])
        BY <1>1, <2>2, <2>5, <3>1, ReachedChild
      <3>4. QED
        BY <2>3, <2>4, <2>5, <2>7, <3>2, <3>3
    <2>8. QED
      BY <2>6, <2>7
  <1>8. Nat \subseteq S
    <2> HIDE DEF S
    <2>1. QED
      BY <1>6, <1>7, SetInduction
  <1>9. P(n)
    <2> HIDE DEF P
    <2>1. n \in Nat /\ n <= n
      BY <1>2
    <2>2. QED
      BY <1>8, <2>1
  <1>10. QED
    BY <1>9 DEF n, A, d, w, At, ResolveFrom

(* What a node that is not packed gives a column is what its document      *)
(* gives.                                                                  *)
LEMMA ScalarIsDoc ==
  ASSUME NowhereApart, NEW s, Tree(s), NEW m, m # NoKey => Reached(s, m),
         ~HasKind(s, m, "packed")
  PROVE  ScalarOr(DocUnder(s, m)) = IF HasKind(s, m, "leaf") THEN s.node[m].val ELSE Null
  <1>1. Sound(s) /\ Shape(s) /\ NoKey \notin DOMAIN s.node
    <2>1. Sound(s) /\ Shape(s)
      BY DEF Tree, Sound
    <2>2. QED
      BY <2>1 DEF Shape, NoKey
  <1>2. CASE ~Live(s, m)
    <2>1. DocUnder(s, m) = Nowhere
      BY <1>2 DEF DocUnder
    <2>2. QED
      BY <1>2, <2>1 DEF ScalarOr, Is, HasKind
  <1>3. CASE Live(s, m)
    <2>1. Reached(s, m)
      BY <1>1, <1>3 DEF Live
    <2> DEFINE d == DocUnder(s, m)
               v == s.node[m].val
    <2>2. /\ Proper(d)
          /\ HasKind(s, m, "leaf") => d = Leaf(v)
          /\ Is(d, "object") <=> HasKind(s, m, "object")
          /\ Is(d, "list") <=> HasKind(s, m, "list")
      BY <1>3, <2>1, DocIs
    <2> HIDE DEF d, v
    <2>3. CASE HasKind(s, m, "leaf")
      <3>1. d = Leaf(v) /\ Leaf(v) # Nowhere
        BY <2>2, <2>3 DEF NowhereApart
      <3>2. ScalarOr(Leaf(v)) = v
        BY <3>1 DEF ScalarOr, Is, Leaf
      <3>3. QED
        BY <2>3, <3>1, <3>2 DEF d, v
    <2>4. CASE ~HasKind(s, m, "leaf")
      <3>1. HasKind(s, m, "object") \/ HasKind(s, m, "list")
        BY <1>1, <1>3, <2>4 DEF Shape, NodeOK, HasKind, Live, ObjectNode, ListNode, LeafNode, PackedNode
      <3>2. ~Is(d, "leaf")
        BY <2>2, <3>1 DEF Is
      <3>3. QED
        BY <2>4, <3>2 DEF ScalarOr, d
    <2>5. QED
      BY <2>3, <2>4
  <1>4. QED
    BY <1>2, <1>3

(* No packed node lies between an entity that is not packed and a column.  *)
Bared(s, def, k) ==
  ~HasKind(s, k, "packed") =>
    \A c \in DOMAIN def.columns : \A i \in 0..Len(def.columns[c].path) :
      ~HasKind(s, Walk(s, k, def.columns[c].path)[i], "packed")

(* The columns of an entity are those of its document.                     *)
LEMMA ColumnsAreDoc ==
  ASSUME NowhereApart, NEW s, Tree(s), NEW k, Reached(s, k), NEW def, PlainDef(def),
         Bared(s, def, k)
  PROVE  Columns(s, def, k) = DocColumns(def, DocUnder(s, k))
  <1>1. ASSUME NEW c \in DOMAIN def.columns
        PROVE  ColumnScalar(s, k, def.columns[c].path)
                 = ScalarOr(At(DocUnder(s, k), def.columns[c].path))
    <2> DEFINE path == def.columns[c].path
               m == ResolveFrom(s, k, path)
    <2>1. path \in Seq(Segment)
      <3>1. path \in NamePaths
        BY <1>1 DEF PlainDef
      <3>2. QED
        BY <3>1, NamePathIs
    <2>2. CASE HasKind(s, k, "packed")
      <3>1. DocUnder(s, k) = s.node[k].doc
        BY <2>2, DocIs DEF HasKind
      <3>2. QED
        BY <2>2, <3>1 DEF ColumnScalar
    <2>3. CASE ~HasKind(s, k, "packed")
      <3>1. \A i \in 0..Len(path) : ~HasKind(s, Walk(s, k, path)[i], "packed")
        BY <1>1, <2>3 DEF Bared
      <3>2. Len(path) \in 0..Len(path)
        BY <2>1, LenProperties
      <3>3. ~HasKind(s, m, "packed")
        BY <3>1, <3>2 DEF ResolveFrom
      <3> HIDE DEF path
      <3>4. At(DocUnder(s, k), path) = DocUnder(s, m) /\ (m # NoKey => Reached(s, m))
        BY <2>1, <3>1, WalkKeepsBelow
      <3>5. ColumnScalar(s, k, path) = IF HasKind(s, m, "leaf") THEN s.node[m].val ELSE Null
        BY <2>3 DEF ColumnScalar
      <3> HIDE DEF m
      <3>6. ScalarOr(DocUnder(s, m)) = IF HasKind(s, m, "leaf") THEN s.node[m].val ELSE Null
        BY <3>3, <3>4, ScalarIsDoc
      <3>7. QED
        BY <3>4, <3>5, <3>6 DEF path
    <2>4. QED
      BY <2>2, <2>3
  <1>2. QED
    BY <1>1 DEF Columns, DocColumns
=============================================================================
