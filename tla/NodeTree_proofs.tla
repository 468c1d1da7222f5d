-------------------------- MODULE NodeTree_proofs ---------------------------
(***************************************************************************)
(* The entries of a table form a tree, and nothing in it is lost, whatever *)
(* calls a write transaction makes.                                        *)
(*                                                                         *)
(* First what the operators compute for every table: the walks, the keys a *)
(* cascading delete visits and the keys Generate draws.  Then a table is   *)
(* described by the child that every node has at every segment, and by     *)
(* what single entries and single children do to it.                       *)
(*                                                                         *)
(* Then what the steps of a call leave behind: given a tree in which the   *)
(* path they are given does not lead below a packed entity, each leaves a  *)
(* tree, and, if it succeeds, nothing that is not under the root.          *)
(*                                                                         *)
(* Last, each call is good, a batch of stores is, and so the invariant     *)
(* TreeInv stays.                                                          *)
(***************************************************************************)
EXTENDS NodeTree, FiniteSetTheorems, SequenceTheorems, WellFoundedInduction, TLAPS

(* Induction over the naturals, as a statement about a set.                *)
LEMMA SetInduction ==
  ASSUME NEW S, 0 \in S, \A n \in Nat : n \in S => n + 1 \in S
  PROVE  Nat \subseteq S
  <1>1. SUFFICES ASSUME Nat \ S # {} PROVE FALSE
    OBVIOUS
  <1>2. PICK x \in Nat \ S : \A y \in Nat \ S : ~(<<y, x>> \in OpToRel(<, Nat))
    <2> DEFINE T == Nat \ S
    <2>1. T \subseteq Nat /\ T # {}
      BY <1>1
    <2> HIDE DEF T
    <2>2. \E x \in T : \A y \in T : ~(<<y, x>> \in OpToRel(<, Nat))
      BY <2>1, WFMin, NatLessThanWellFounded
    <2> QED  BY <2>2 DEF T
  <1>3. x \in Nat /\ x # 0
    OBVIOUS
  <1>4. x - 1 \in Nat /\ x - 1 < x /\ (x - 1) + 1 = x
    BY <1>3
  <1>5. <<x - 1, x>> \in OpToRel(<, Nat)
    BY <1>4 DEF OpToRel
  <1> QED  BY <1>2, <1>4, <1>5

------------------------------------------------------------------------------
(* Segments and paths                                                      *)

(* A segment is a name or an index, and no more than that.                 *)
LEMMA SegmentKinds ==
  ASSUME NEW seg \in Segment
  PROVE  /\ IsIndex(seg) => seg.index \in Nat /\ seg = Index(seg.index)
         /\ IsName(seg) => seg.name \in Names /\ seg = Name(seg.name)
  BY DEF Segment, IsIndex, IsName, Index, Name

(* The segment of a name.                                                  *)
LEMMA NameSegment ==
  ASSUME NEW n \in Names
  PROVE  Name(n) \in Segment /\ IsName(Name(n)) /\ ~IsIndex(Name(n)) /\ Name(n).name = n
  BY DEF Segment, IsIndex, IsName, Name

(* The segment of an index.                                                *)
LEMMA IndexSegment ==
  ASSUME NEW i \in Nat
  PROVE  Index(i) \in Segment /\ IsIndex(Index(i)) /\ ~IsName(Index(i)) /\ Index(i).index = i
  BY DEF Segment, IsIndex, IsName, Index

(* A path without its last segment, and that segment.                      *)
LEMMA PathFront ==
  ASSUME NEW S, NEW p \in Seq(S), p # <<>>
  PROVE  /\ Front(p) \in Seq(S)
         /\ Len(Front(p)) = Len(p) - 1
         /\ Len(p) \in Nat \ {0}
         /\ \A i \in 1..Len(p) - 1 : Front(p)[i] = p[i]
         /\ Last(p) \in S
         /\ Last(p) = p[Len(p)]
  <1>1. Len(p) \in Nat \ {0}
    BY EmptySeq
  <1>2. \A i \in 1..Len(p) - 1 : p[i] \in S
    BY <1>1, ElementOfSeq
  <1>3. /\ Front(p) \in Seq(S)
        /\ Len(Front(p)) = IF 1 <= Len(p) - 1 THEN (Len(p) - 1) - 1 + 1 ELSE 0
        /\ \A i \in 1..(Len(p) - 1) - 1 + 1 : Front(p)[i] = p[1 + i - 1]
    BY <1>1, <1>2, SubSeqProperties DEF Front
  <1>4. \A i \in 1..Len(p) - 1 : 1 + i - 1 = i /\ i \in 1..(Len(p) - 1) - 1 + 1
    BY <1>1
  <1>5. \A i \in 1..Len(p) - 1 : Front(p)[i] = p[i]
    BY <1>3, <1>4
  <1>6. Len(Front(p)) = Len(p) - 1
    <2> DEFINE n == Len(p)
    <2>1. n \in Nat \ {0} /\ Len(Front(p)) = IF 1 <= n - 1 THEN (n - 1) - 1 + 1 ELSE 0
      BY <1>1, <1>3
    <2> HIDE DEF n
    <2>2. Len(Front(p)) = n - 1
      BY <2>1
    <2> QED  BY <2>2 DEF n
  <1>7. Last(p) \in S /\ Last(p) = p[Len(p)]
    BY <1>1, ElementOfSeq DEF Last
  <1> QED  BY <1>1, <1>3, <1>5, <1>6, <1>7

(* A path with one segment more.                                           *)
LEMMA PathAppend ==
  ASSUME NEW S, NEW p \in Seq(S), NEW x \in S
  PROVE  /\ Append(p, x) \in Seq(S)
         /\ Append(p, x) # <<>>
         /\ Len(Append(p, x)) = Len(p) + 1
         /\ Front(Append(p, x)) = p
         /\ Last(Append(p, x)) = x
  <1> DEFINE q == Append(p, x)
  <1>1. /\ q \in Seq(S) /\ q # <<>> /\ Len(q) = Len(p) + 1 /\ Len(p) \in Nat
        /\ \A i \in 1..Len(p) : q[i] = p[i]
        /\ q[Len(p) + 1] = x
    BY AppendProperties, LenProperties
  <1> HIDE DEF q
  <1>2. Front(q) \in Seq(S) /\ Len(Front(q)) = Len(p)
        /\ \A i \in 1..Len(p) : Front(q)[i] = q[i]
    BY <1>1, PathFront
  <1>3. Front(q) = p
    <2>1. \A i \in 1..Len(Front(q)) : Front(q)[i] = p[i]
      BY <1>1, <1>2
    <2> QED  BY <2>1, <1>2, SeqEqual
  <1> QED  BY <1>1, <1>3 DEF q, Last

------------------------------------------------------------------------------
(* What a cascading delete visits                                          *)

(* A set that a delete would not leave.                                    *)
Closed(s, A) == \A k \in A : Below(s, k) \subseteq A

(* One step further down.                                                  *)
Wider(s, A) == A \cup UNION {Below(s, k) : k \in A}

(* g is what is visited within 0 to n steps.                               *)
IsWaves(g, s, from, n) ==
  g = [i \in 0..n |-> IF i = 0 THEN from ELSE Wider(s, g[i - 1])]

(* The function that Waves defines exists: what is visited step by step.   *)
LEMMA WavesExist ==
  ASSUME NEW s, NEW from
  PROVE  \A n \in Nat : \E g : IsWaves(g, s, from, n)
  <1> DEFINE S == {n \in Nat : \E g : IsWaves(g, s, from, n)}
  <1>1. 0 \in S
    <2> DEFINE g == [i \in 0..0 |-> from]
    <2>1. IsWaves(g, s, from, 0)
      BY DEF IsWaves
    <2> QED  BY <2>1
  <1>2. ASSUME NEW n \in Nat, n \in S PROVE n + 1 \in S
    <2>1. PICK g : IsWaves(g, s, from, n)
      BY <1>2
    <2> DEFINE h == [i \in 0..n + 1 |-> IF i = n + 1 THEN Wider(s, g[n]) ELSE g[i]]
    <2>2. \A i \in 0..n : h[i] = g[i]
      OBVIOUS
    <2>3. \A i \in 0..n + 1 : h[i] = IF i = 0 THEN from ELSE Wider(s, h[i - 1])
      BY <2>1, <2>2 DEF IsWaves
    <2>4. IsWaves(h, s, from, n + 1)
      BY <2>3 DEF IsWaves
    <2> QED  BY <2>4
  <1> HIDE DEF S
  <1>3. Nat \subseteq S
    BY <1>1, <1>2, SetInduction
  <1> QED  BY <1>3 DEF S

(* Each wave is the one before it and what is below it.                    *)
LEMMA WavesSteps ==
  ASSUME NEW s, NEW from, IsFiniteSet(DOMAIN s.node)
  PROVE  /\ Cardinality(DOMAIN s.node) \in Nat
         /\ Waves(s, from)[0] = from
         /\ \A i \in 1..Cardinality(DOMAIN s.node) :
              Waves(s, from)[i] = Wider(s, Waves(s, from)[i - 1])
  <1> DEFINE n == Cardinality(DOMAIN s.node)
  <1>1. n \in Nat
    BY FS_CardinalityType
  <1>2. Waves(s, from) = CHOOSE g : IsWaves(g, s, from, n)
    BY DEF Waves, IsWaves, Wider
  <1>3. IsWaves(Waves(s, from), s, from, n)
    BY <1>1, <1>2, WavesExist
  <1> HIDE DEF n
  <1>4. Waves(s, from)[0] = from
    BY <1>1, <1>3 DEF IsWaves
  <1>5. \A i \in 1..n : Waves(s, from)[i] = Wider(s, Waves(s, from)[i - 1])
    BY <1>1, <1>3 DEF IsWaves
  <1> QED  BY <1>1, <1>4, <1>5 DEF n

(* A wave is closed, or every step so far has reached a node.              *)
LEMMA WavesGrow ==
  ASSUME NEW s, NEW from, IsFiniteSet(DOMAIN s.node)
  PROVE  \A i \in 0..Cardinality(DOMAIN s.node) :
           \/ Closed(s, Waves(s, from)[i])
           \/ Cardinality(Waves(s, from)[i] \cap DOMAIN s.node) >= i + 1
  <1> DEFINE V == Waves(s, from)
             D == DOMAIN s.node
             n == Cardinality(D)
             P(i) == \/ Closed(s, V[i])
                     \/ Cardinality(V[i] \cap D) >= i + 1
             S == {i \in Nat : i <= n => P(i)}
  <1>1. /\ n \in Nat /\ V[0] = from
        /\ \A i \in 1..n : V[i] = Wider(s, V[i - 1])
    BY WavesSteps
  <1>2. \A k : Below(s, k) # {} => k \in D
    BY DEF Below, HasKind, Live
  <1>3. \A A : /\ IsFiniteSet(A \cap D)
               /\ Cardinality(A \cap D) \in Nat
               /\ A \cap D # {} => Cardinality(A \cap D) >= 1
    <2>1. SUFFICES ASSUME NEW A
                   PROVE  /\ IsFiniteSet(A \cap D)
                          /\ Cardinality(A \cap D) \in Nat
                          /\ A \cap D # {} => Cardinality(A \cap D) >= 1
      OBVIOUS
    <2>2. IsFiniteSet(A \cap D)
      BY FS_Subset
    <2>3. Cardinality(A \cap D) \in Nat
      BY <2>2, FS_CardinalityType
    <2>4. Cardinality(A \cap D) = 0 <=> A \cap D = {}
      BY <2>2, FS_EmptySet
    <2> QED  BY <2>2, <2>3, <2>4
  <1> HIDE DEF V, D, n
  <1>4. 0 \in S
    <2>1. CASE V[0] \cap D = {}
      <3>1. Closed(s, V[0])
        BY <2>1, <1>2 DEF Closed
      <3> QED  BY <3>1
    <2>2. CASE V[0] \cap D # {}
      BY <2>2, <1>3
    <2> QED  BY <2>1, <2>2
  <1>5. ASSUME NEW i \in Nat, i \in S PROVE i + 1 \in S
    <2> SUFFICES ASSUME i + 1 <= n PROVE P(i + 1)
      OBVIOUS
    <2>1. V[i + 1] = Wider(s, V[i])
      BY <1>1
    <2>2. P(i)
      BY <1>1, <1>5
    <2>3. CASE Closed(s, V[i])
      <3>1. V[i + 1] = V[i]
        BY <2>1, <2>3 DEF Closed, Wider
      <3> QED  BY <3>1, <2>3
    <2>4. CASE ~Closed(s, V[i]) /\ ~Closed(s, V[i + 1])
      <3>1. PICK x \in V[i + 1] : ~(Below(s, x) \subseteq V[i + 1])
        BY <2>4 DEF Closed
      <3>2. x \in D /\ x \notin V[i]
        BY <3>1, <1>2, <2>1 DEF Wider
      <3>3. (V[i] \cap D) \cup {x} \subseteq V[i + 1] \cap D
        BY <3>1, <3>2, <2>1 DEF Wider
      <3>4. Cardinality((V[i] \cap D) \cup {x}) = Cardinality(V[i] \cap D) + 1
        BY <3>2, <1>3, FS_AddElement
      <3>5. Cardinality((V[i] \cap D) \cup {x}) <= Cardinality(V[i + 1] \cap D)
        BY <3>3, <1>3, FS_Subset
      <3>6. Cardinality(V[i] \cap D) >= i + 1
        BY <2>2, <2>4
      <3> QED  BY <3>4, <3>5, <3>6, <1>3
    <2> QED  BY <2>3, <2>4
  <1> HIDE DEF S
  <1>6. Nat \subseteq S
    BY <1>4, <1>5, SetInduction
  <1>7. \A i \in 0..n : P(i)
    BY <1>1, <1>6 DEF S
  <1> QED  BY <1>7 DEF V, D, n

(* What is visited: the start, all that is below what is visited, and      *)
(* nothing else.                                                           *)
LEMMA VisitedClosed ==
  ASSUME NEW s, NEW from, IsFiniteSet(DOMAIN s.node)
  PROVE  from \subseteq Visited(s, from) /\ Closed(s, Visited(s, from))
  <1> DEFINE V == Waves(s, from)
             n == Cardinality(DOMAIN s.node)
             S == {i \in Nat : i <= n => from \subseteq V[i]}
  <1>1. /\ n \in Nat /\ V[0] = from
        /\ \A i \in 1..n : V[i] = Wider(s, V[i - 1])
    BY WavesSteps
  <1>2. Visited(s, from) = V[n]
    BY DEF Visited
  <1>3. Closed(s, V[n])
    <2>1. IsFiniteSet(V[n] \cap DOMAIN s.node) /\ Cardinality(V[n] \cap DOMAIN s.node) <= n
      BY FS_Subset
    <2>2. Cardinality(V[n] \cap DOMAIN s.node) \in Nat
      BY <2>1, FS_CardinalityType
    <2>3. Closed(s, V[n]) \/ Cardinality(V[n] \cap DOMAIN s.node) >= n + 1
      BY <1>1, WavesGrow
    <2> HIDE DEF n, V
    <2> QED  BY <2>1, <2>2, <2>3, <1>1
  <1> HIDE DEF n, V
  <1>4. 0 \in S
    BY <1>1
  <1>5. ASSUME NEW i \in Nat, i \in S PROVE i + 1 \in S
    <2> SUFFICES ASSUME i + 1 <= n PROVE from \subseteq V[i + 1]
      OBVIOUS
    <2>1. V[i + 1] = Wider(s, V[i]) /\ from \subseteq V[i]
      BY <1>1, <1>5
    <2> QED  BY <2>1 DEF Wider
  <1> HIDE DEF S
  <1>6. Nat \subseteq S
    BY <1>4, <1>5, SetInduction
  <1>7. from \subseteq V[n]
    BY <1>1, <1>6 DEF S
  <1> QED  BY <1>2, <1>3, <1>7

(* What is visited is no more than any set that a delete does not leave.   *)
LEMMA VisitedLeast ==
  ASSUME NEW s, NEW from, IsFiniteSet(DOMAIN s.node),
         NEW A, from \subseteq A, Closed(s, A)
  PROVE  Visited(s, from) \subseteq A
  <1> DEFINE V == Waves(s, from)
             n == Cardinality(DOMAIN s.node)
             S == {i \in Nat : i <= n => V[i] \subseteq A}
  <1>1. /\ n \in Nat /\ V[0] = from
        /\ \A i \in 1..n : V[i] = Wider(s, V[i - 1])
    BY WavesSteps
  <1>2. Visited(s, from) = V[n]
    BY DEF Visited
  <1> HIDE DEF n, V
  <1>4. 0 \in S
    BY <1>1
  <1>5. ASSUME NEW i \in Nat, i \in S PROVE i + 1 \in S
    <2> SUFFICES ASSUME i + 1 <= n PROVE V[i + 1] \subseteq A
      OBVIOUS
    <2>1. V[i + 1] = Wider(s, V[i]) /\ V[i] \subseteq A
      BY <1>1, <1>5
    <2> QED  BY <2>1 DEF Wider, Closed
  <1> HIDE DEF S
  <1>6. Nat \subseteq S
    BY <1>4, <1>5, SetInduction
  <1>7. V[n] \subseteq A
    BY <1>1, <1>6 DEF S
  <1> QED  BY <1>2, <1>7

(* What is visited but was not started from is below something visited.    *)
LEMMA VisitedFromAbove ==
  ASSUME NEW s, NEW from, IsFiniteSet(DOMAIN s.node),
         NEW k \in Visited(s, from), k \notin from
  PROVE  \E m \in Visited(s, from) : k \in Below(s, m)
  <1> SUFFICES ASSUME \A m \in Visited(s, from) : k \notin Below(s, m)
               PROVE  FALSE
    OBVIOUS
  <1> DEFINE A == Visited(s, from) \ {k}
  <1>1. from \subseteq A /\ Closed(s, A)
    BY VisitedClosed DEF Closed
  <1> HIDE DEF A
  <1>2. Visited(s, from) \subseteq A
    BY <1>1, VisitedLeast
  <1> QED  BY <1>2 DEF A

------------------------------------------------------------------------------
(* Walks                                                                   *)

(* g is the walk of the first n segments of p.                             *)
IsWalk(g, s, base, p, n) ==
  g = [i \in 0..n |-> IF i = 0 THEN base
                      ELSE IF g[i - 1] = NoKey THEN NoKey
                      ELSE ChildKey(s, g[i - 1], p[i])]

(* The function that Walk defines exists: the keys a path leads to, one    *)
(* after the other.                                                        *)
LEMMA WalksExist ==
  ASSUME NEW s, NEW base, NEW p
  PROVE  \A n \in Nat : \E g : IsWalk(g, s, base, p, n)
  <1> DEFINE S == {n \in Nat : \E g : IsWalk(g, s, base, p, n)}
             Next1(k, i) == IF k = NoKey THEN NoKey ELSE ChildKey(s, k, p[i])
  <1>1. 0 \in S
    <2> DEFINE g == [i \in 0..0 |-> base]
    <2>1. IsWalk(g, s, base, p, 0)
      BY DEF IsWalk
    <2> QED  BY <2>1
  <1>2. ASSUME NEW n \in Nat, n \in S PROVE n + 1 \in S
    <2>1. PICK g : IsWalk(g, s, base, p, n)
      BY <1>2
    <2> DEFINE h == [i \in 0..n + 1 |-> IF i = n + 1 THEN Next1(g[n], n + 1) ELSE g[i]]
    <2>2. \A i \in 0..n : h[i] = g[i]
      OBVIOUS
    <2>3. \A i \in 0..n + 1 : h[i] = IF i = 0 THEN base ELSE Next1(h[i - 1], i)
      BY <2>1, <2>2 DEF IsWalk
    <2>4. IsWalk(h, s, base, p, n + 1)
      BY <2>3 DEF IsWalk
    <2> QED  BY <2>4
  <1> HIDE DEF S
  <1>3. Nat \subseteq S
    BY <1>1, <1>2, SetInduction
  <1> QED  BY <1>3 DEF S

(* Each key of a walk is the child of the one before it.                   *)
LEMMA WalkSteps ==
  ASSUME NEW s, NEW base, NEW p \in Seq(Segment)
  PROVE  /\ Len(p) \in Nat
         /\ Walk(s, base, p)[0] = base
         /\ \A i \in 1..Len(p) :
              Walk(s, base, p)[i] = IF Walk(s, base, p)[i - 1] = NoKey THEN NoKey
                                    ELSE ChildKey(s, Walk(s, base, p)[i - 1], p[i])
  <1> DEFINE n == Len(p)
  <1>1. n \in Nat
    BY LenProperties
  <1>2. Walk(s, base, p) = CHOOSE g : IsWalk(g, s, base, p, n)
    BY DEF Walk, IsWalk
  <1>3. IsWalk(Walk(s, base, p), s, base, p, n)
    BY <1>1, <1>2, WalksExist
  <1> HIDE DEF n
  <1>4. Walk(s, base, p)[0] = base
    BY <1>1, <1>3 DEF IsWalk
  <1>5. \A i \in 1..n :
          Walk(s, base, p)[i] = IF Walk(s, base, p)[i - 1] = NoKey THEN NoKey
                                ELSE ChildKey(s, Walk(s, base, p)[i - 1], p[i])
    BY <1>1, <1>3 DEF IsWalk
  <1> QED  BY <1>1, <1>4, <1>5 DEF n

(* A walk that has arrived has come through keys.                          *)
LEMMA WalkThrough ==
  ASSUME NEW s, NEW base, NEW p \in Seq(Segment),
         NEW i \in 0..Len(p), Walk(s, base, p)[i] # NoKey
  PROVE  \A j \in 0..i : Walk(s, base, p)[j] # NoKey
  <1> DEFINE w == Walk(s, base, p)
             n == Len(p)
             S == {m \in Nat : m <= i => w[i - m] # NoKey}
  <1>1. n \in Nat /\ \A j \in 1..n : w[j - 1] = NoKey => w[j] = NoKey
    BY WalkSteps
  <1>2. i \in 0..n /\ w[i] # NoKey
    OBVIOUS
  <1> HIDE DEF w, n
  <1>3. 0 \in S
    BY <1>1, <1>2
  <1>4. ASSUME NEW m \in Nat, m \in S PROVE m + 1 \in S
    <2> SUFFICES ASSUME m + 1 <= i PROVE w[i - (m + 1)] # NoKey
      OBVIOUS
    <2>1. i - m \in 1..n /\ (i - m) - 1 = i - (m + 1) /\ w[i - m] # NoKey
      BY <1>1, <1>2, <1>4
    <2> QED  BY <2>1, <1>1
  <1> HIDE DEF S
  <1>5. Nat \subseteq S
    BY <1>3, <1>4, SetInduction
  <1>6. ASSUME NEW j \in 0..i PROVE w[j] # NoKey
    <2>1. i - j \in Nat /\ i - j <= i /\ i - (i - j) = j
      BY <1>1, <1>2
    <2> QED  BY <2>1, <1>5 DEF S
  <1> QED  BY <1>6 DEF w

(* Two walks that meet the same children are the same.                     *)
LEMMA WalksAgree ==
  ASSUME NEW s, NEW t, NEW base, NEW p \in Seq(Segment), NEW n \in 0..Len(p),
         \A i \in 1..n :
           Walk(s, base, p)[i - 1] # NoKey =>
             ChildKey(t, Walk(s, base, p)[i - 1], p[i])
               = ChildKey(s, Walk(s, base, p)[i - 1], p[i])
  PROVE  \A i \in 0..n : Walk(t, base, p)[i] = Walk(s, base, p)[i]
  <1> DEFINE w == Walk(s, base, p)
             u == Walk(t, base, p)
             len == Len(p)
             S == {i \in Nat : i <= n => u[i] = w[i]}
  <1>1. /\ len \in Nat /\ w[0] = base /\ u[0] = base
        /\ \A i \in 1..len :
             w[i] = IF w[i - 1] = NoKey THEN NoKey ELSE ChildKey(s, w[i - 1], p[i])
        /\ \A i \in 1..len :
             u[i] = IF u[i - 1] = NoKey THEN NoKey ELSE ChildKey(t, u[i - 1], p[i])
    BY WalkSteps
  <1>2. \A i \in 1..n : w[i - 1] # NoKey => ChildKey(t, w[i - 1], p[i]) = ChildKey(s, w[i - 1], p[i])
    OBVIOUS
  <1>3. n \in 0..len
    OBVIOUS
  <1> HIDE DEF w, u, len
  <1>4. 0 \in S
    BY <1>1
  <1>5. ASSUME NEW i \in Nat, i \in S PROVE i + 1 \in S
    <2> SUFFICES ASSUME i + 1 <= n PROVE u[i + 1] = w[i + 1]
      OBVIOUS
    <2>1. u[i] = w[i] /\ i + 1 \in 1..n /\ i + 1 \in 1..len /\ (i + 1) - 1 = i
      BY <1>3, <1>5, <1>1
    <2> QED  BY <2>1, <1>1, <1>2
  <1> HIDE DEF S
  <1>6. Nat \subseteq S
    BY <1>4, <1>5, SetInduction
  <1> QED  BY <1>1, <1>3, <1>6 DEF S, w, u

(* Walks along paths that start alike.                                     *)
LEMMA WalksAlong ==
  ASSUME NEW s, NEW base, NEW p \in Seq(Segment), NEW q \in Seq(Segment),
         NEW n \in 0..Len(p), n <= Len(q), \A i \in 1..n : p[i] = q[i]
  PROVE  \A i \in 0..n : Walk(s, base, p)[i] = Walk(s, base, q)[i]
  <1> DEFINE w == Walk(s, base, p)
             u == Walk(s, base, q)
             S == {i \in Nat : i <= n => u[i] = w[i]}
  <1>1. /\ Len(p) \in Nat /\ Len(q) \in Nat /\ w[0] = base /\ u[0] = base
        /\ \A i \in 1..Len(p) :
             w[i] = IF w[i - 1] = NoKey THEN NoKey ELSE ChildKey(s, w[i - 1], p[i])
        /\ \A i \in 1..Len(q) :
             u[i] = IF u[i - 1] = NoKey THEN NoKey ELSE ChildKey(s, u[i - 1], q[i])
    BY WalkSteps
  <1> HIDE DEF w, u
  <1>4. 0 \in S
    BY <1>1
  <1>5. ASSUME NEW i \in Nat, i \in S PROVE i + 1 \in S
    <2> SUFFICES ASSUME i + 1 <= n PROVE u[i + 1] = w[i + 1]
      OBVIOUS
    <2>1. u[i] = w[i] /\ i + 1 \in 1..n /\ i + 1 \in 1..Len(p) /\ i + 1 \in 1..Len(q) /\ (i + 1) - 1 = i
      BY <1>1, <1>5
    <2> QED  BY <2>1, <1>1
  <1> HIDE DEF S
  <1>6. Nat \subseteq S
    BY <1>4, <1>5, SetInduction
  <1> QED  BY <1>1, <1>6 DEF S, w, u

(* The key of a path, and that of the part it leads to.                    *)
LEMMA ResolveLast ==
  ASSUME NEW s, NEW base, NEW p \in Seq(Segment), p # <<>>
  PROVE  /\ \A i \in 0..Len(p) - 1 : Walk(s, base, Front(p))[i] = Walk(s, base, p)[i]
         /\ Walk(s, base, p)[Len(p) - 1] = ResolveFrom(s, base, Front(p))
         /\ ResolveFrom(s, base, p) =
              IF ResolveFrom(s, base, Front(p)) = NoKey THEN NoKey
              ELSE ChildKey(s, ResolveFrom(s, base, Front(p)), Last(p))
  <1> DEFINE q == Front(p)
             n == Len(q)
  <1>1. /\ q \in Seq(Segment) /\ n = Len(p) - 1 /\ Len(p) \in Nat \ {0}
        /\ \A i \in 1..Len(p) - 1 : q[i] = p[i]
        /\ Last(p) = p[Len(p)]
    BY PathFront
  <1> HIDE DEF q, n
  <1>2. n \in 0..Len(p) /\ n = Len(q) /\ n <= Len(q)
    BY <1>1 DEF n
  <1>3. \A i \in 1..n : q[i] = p[i]
    BY <1>1
  <1>4. \A i \in 0..n : Walk(s, base, p)[i] = Walk(s, base, q)[i]
    BY <1>1, <1>2, <1>3, WalksAlong
  <1>5. Walk(s, base, p)[n] = ResolveFrom(s, base, q)
    BY <1>2, <1>4 DEF ResolveFrom
  <1>6. Walk(s, base, p)[Len(p)] =
          IF Walk(s, base, p)[Len(p) - 1] = NoKey THEN NoKey
          ELSE ChildKey(s, Walk(s, base, p)[Len(p) - 1], p[Len(p)])
    <2>1. Len(p) \in 1..Len(p)
      BY <1>1
    <2> QED  BY <2>1, WalkSteps
  <1>7. ResolveFrom(s, base, p) =
          IF ResolveFrom(s, base, q) = NoKey THEN NoKey
          ELSE ChildKey(s, ResolveFrom(s, base, q), Last(p))
    BY <1>1, <1>5, <1>6 DEF ResolveFrom
  <1> QED  BY <1>1, <1>4, <1>5, <1>7 DEF q

------------------------------------------------------------------------------
(* New keys                                                                *)

(* Generate draws a key that nothing uses: one more key than are in use is *)
(* enough to find one.                                                     *)
LEMMA GenerateFresh ==
  ASSUME NEW s, IsFiniteSet(InUse(s))
  PROVE  Generate(s) \in Nat \ {0} /\ Generate(s) \notin InUse(s)
  <1> DEFINE U == InUse(s)
             n == Cardinality(U)
  <1>1. n \in Nat
    BY FS_CardinalityType
  <1>2. \E k \in 1..n + 1 : k \notin U
    <2> SUFFICES ASSUME 1..n + 1 \subseteq U PROVE FALSE
      OBVIOUS
    <2> HIDE DEF U
    <2>1. IsFiniteSet(U)
      BY DEF U
    <2>2. Cardinality(1..n + 1) <= Cardinality(U)
      BY <2>1, FS_Subset
    <2>3. Cardinality(1..n + 1) = n + 1
      <3>1. 1 \in Int /\ n + 1 \in Int /\ n + 1 >= 1
        BY <1>1
      <3> HIDE DEF n
      <3> QED  BY <3>1, <1>1, FS_Interval
    <2> QED  BY <1>1, <2>2, <2>3
  <1>3. Generate(s) \in 1..n + 1 /\ Generate(s) \notin U
    BY <1>2 DEF Generate
  <1> HIDE DEF U, n
  <1> QED  BY <1>1, <1>3 DEF U

------------------------------------------------------------------------------
(* A node that the calls write: its document, if it is packed, is a leaf   *)
(* or a container of leaves.                                               *)
NodeOK(n) ==
  /\ n.kind \in {"object", "leaf", "list", "packed"}
  /\ n.kind = "object" => n = ObjectNode
  /\ n.kind = "leaf" => \E v \in Values : n = LeafNode(v)
  /\ n.kind = "list" => \E ks \in Seq(Nat \ {ROOT}) : n = ListNode(ks)
  /\ n.kind = "packed" => Flat(n.doc)

(* The types of the entries.  The root is never packed.                    *)
Shape(s) ==
  /\ DOMAIN s.node \subseteq Nat /\ IsFiniteSet(DOMAIN s.node)
  /\ \A k \in DOMAIN s.node : NodeOK(s.node[k])
  /\ ~HasKind(s, ROOT, "packed")
  /\ DOMAIN s.link \subseteq Nat \X Names
  /\ \A l \in DOMAIN s.link : s.link[l] \in Nat \ {ROOT}

(* Whether k is of the kind that has children at segments like seg.        *)
Holder(s, k, seg) == HasKind(s, k, IF IsIndex(seg) THEN "list" ELSE "object")

(* Only containers have children, and no two places the same child.        *)
Sound(s) ==
  /\ Shape(s)
  /\ \A k \in Nat, seg \in Segment : ChildKey(s, k, seg) # NoKey => Holder(s, k, seg)
  /\ \A k, m \in Nat : \A seg, tag \in Segment :
       ChildKey(s, k, seg) # NoKey /\ ChildKey(s, k, seg) = ChildKey(s, m, tag) =>
         k = m /\ seg = tag

(* The entries form a tree: every child is live.                           *)
Tree(s) ==
  /\ Sound(s)
  /\ \A k \in Nat, seg \in Segment :
       ChildKey(s, k, seg) # NoKey => ChildKey(s, k, seg) \in DOMAIN s.node

(* A tree but for the child of k at seg, which is not there or not live.   *)
TreeBut(s, k, seg) ==
  /\ Sound(s)
  /\ \A m \in Nat, tag \in Segment :
       ChildKey(s, m, tag) # NoKey /\ ~(m = k /\ tag = seg) =>
         ChildKey(s, m, tag) \in DOMAIN s.node
  /\ ChildKey(s, k, seg) \notin DOMAIN s.node

(* Every live node hangs under the root.                                   *)
Full(s) == DOMAIN s.node \subseteq Visited(s, {ROOT})

(* k hangs under the root.                                                 *)
Reached(s, k) == k \in Visited(s, {ROOT})

------------------------------------------------------------------------------
(* Children                                                                *)

(* What a list node holds.                                                 *)
LEMMA ListItems ==
  ASSUME NEW s, Shape(s), NEW k, HasKind(s, k, "list")
  PROVE  /\ s.node[k].items \in Seq(Nat \ {ROOT})
         /\ s.node[k] = ListNode(s.node[k].items)
         /\ k \in Nat
  <1>1. k \in Nat /\ NodeOK(s.node[k]) /\ s.node[k].kind = "list"
    BY DEF Shape, HasKind, Live
  <1>2. PICK ks \in Seq(Nat \ {ROOT}) : s.node[k] = ListNode(ks)
    BY <1>1 DEF NodeOK
  <1>3. ListNode(ks).items = ks
    BY DEF ListNode
  <1> QED  BY <1>1, <1>2, <1>3

(* A child is a key other than the root, or there is none.                 *)
LEMMA ChildKeyType ==
  ASSUME NEW s, Shape(s), NEW k, NEW seg \in Segment
  PROVE  ChildKey(s, k, seg) \in (Nat \ {ROOT}) \cup {NoKey}
  <1>1. CASE IsName(seg)
    BY <1>1 DEF ChildKey, Shape
  <1>2. CASE ~IsName(seg) /\ HasKind(s, k, "list")
    <2>1. s.node[k].items \in Seq(Nat \ {ROOT})
      BY <1>2, ListItems
    <2>2. seg.index \in Nat
      BY <1>2, SegmentKinds DEF IsName
    <2> QED  BY <1>2, <2>1, <2>2, ElementOfSeq DEF ChildKey
  <1>3. CASE ~IsName(seg) /\ ~HasKind(s, k, "list")
    BY <1>3 DEF ChildKey
  <1> QED  BY <1>1, <1>2, <1>3

(* What a delete goes on to from k is what k has for children.             *)
LEMMA BelowAreChildren ==
  ASSUME NEW s, Sound(s), NEW k \in Nat, NEW c
  PROVE  c \in Below(s, k) <=>
           c # NoKey /\ \E seg \in Segment : c = ChildKey(s, k, seg)
  <1>1. ASSUME NEW seg \in Segment, ChildKey(s, k, seg) # NoKey
        PROVE  ChildKey(s, k, seg) \in Below(s, k)
    <2>1. Holder(s, k, seg)
      BY <1>1 DEF Sound
    <2>2. CASE IsName(seg)
      BY <1>1, <2>1, <2>2 DEF Below, Refs, ChildKey, Holder, IsName
    <2>3. CASE ~IsName(seg)
      <3>1. seg.index \in Nat /\ HasKind(s, k, "list")
        BY <2>1, <2>3, SegmentKinds DEF Holder, IsName
      <3>2. s.node[k].items \in Seq(Nat \ {ROOT})
        BY <3>1, ListItems DEF Sound
      <3>3. seg.index + 1 \in DOMAIN s.node[k].items
        BY <1>1, <2>3, <3>1, <3>2, LenProperties DEF ChildKey
      <3> QED  BY <1>1, <2>3, <3>1, <3>3 DEF Below, Refs, ChildKey, ToSet
    <2> QED  BY <2>2, <2>3
  <1>2. ASSUME NEW l \in DOMAIN s.link, l[1] = k
        PROVE  \E seg \in Segment : s.link[l] = ChildKey(s, k, seg) /\ IsName(seg)
    <2>1. l[2] \in Names /\ l = <<k, l[2]>>
      BY <1>2 DEF Sound, Shape
    <2>2. Name(l[2]) \in Segment /\ IsName(Name(l[2])) /\ Name(l[2]).name = l[2]
      BY <2>1, NameSegment
    <2> QED  BY <2>1, <2>2 DEF ChildKey
  <1>3. ASSUME c \in Below(s, k)
        PROVE  c # NoKey /\ \E seg \in Segment : c = ChildKey(s, k, seg)
    <2>1. CASE \E l \in DOMAIN s.link : l[1] = k /\ c = s.link[l]
      <3>1. PICK l \in DOMAIN s.link : l[1] = k /\ c = s.link[l]
        BY <2>1
      <3>2. c # NoKey
        BY <3>1 DEF Sound, Shape, NoKey
      <3> QED  BY <1>2, <3>1, <3>2
    <2>2. CASE HasKind(s, k, "list") /\ c \in ToSet(s.node[k].items)
      <3>1. s.node[k].items \in Seq(Nat \ {ROOT})
        BY <2>2, ListItems DEF Sound
      <3>2. PICK i \in 1..Len(s.node[k].items) : c = s.node[k].items[i]
        BY <2>2, <3>1, LenProperties DEF ToSet
      <3>3. c \in Nat /\ i - 1 \in Nat /\ (i - 1) + 1 = i /\ i - 1 < Len(s.node[k].items)
        BY <3>1, <3>2, ElementOfSeq, LenProperties
      <3>4. /\ Index(i - 1) \in Segment /\ ~IsName(Index(i - 1))
            /\ Index(i - 1).index = i - 1
        BY <3>3, IndexSegment
      <3>5. c = ChildKey(s, k, Index(i - 1))
        BY <2>2, <3>2, <3>3, <3>4 DEF ChildKey
      <3> QED  BY <3>3, <3>4, <3>5 DEF NoKey
    <2> QED  BY <1>3, <2>1, <2>2 DEF Below, Refs
  <1> QED  BY <1>1, <1>3

------------------------------------------------------------------------------
(* What is visited, by children                                            *)

(* A delete visits what it starts from.                                    *)
LEMMA VisitedFrom ==
  ASSUME NEW s, Shape(s), NEW from
  PROVE  from \subseteq Visited(s, from)
  BY VisitedClosed DEF Shape

(* A delete that visits a node visits its children.                        *)
LEMMA VisitedChild ==
  ASSUME NEW s, Sound(s), NEW from, NEW k \in Nat, k \in Visited(s, from),
         NEW seg \in Segment, ChildKey(s, k, seg) # NoKey
  PROVE  ChildKey(s, k, seg) \in Visited(s, from)
  <1>1. ChildKey(s, k, seg) \in Below(s, k)
    BY BelowAreChildren
  <1> QED  BY <1>1, VisitedClosed DEF Closed, Sound, Shape

(* A set of keys that holds the start and the children of its members      *)
(* holds all that a delete visits.                                         *)
LEMMA VisitedWithin ==
  ASSUME NEW s, Sound(s), NEW from, NEW A \in SUBSET Nat, from \subseteq A,
         \A k \in A, seg \in Segment :
           ChildKey(s, k, seg) # NoKey => ChildKey(s, k, seg) \in A
  PROVE  Visited(s, from) \subseteq A
  <1>1. Closed(s, A)
    BY BelowAreChildren DEF Closed
  <1> QED  BY <1>1, VisitedLeast DEF Sound, Shape

(* What a delete visits are keys.                                          *)
LEMMA VisitedType ==
  ASSUME NEW s, Sound(s), NEW from \in SUBSET Nat
  PROVE  Visited(s, from) \in SUBSET Nat
  <1>1. \A k \in Nat, seg \in Segment :
          ChildKey(s, k, seg) # NoKey => ChildKey(s, k, seg) \in Nat
    BY ChildKeyType DEF Sound
  <1> QED  BY <1>1, VisitedWithin

(* What a delete visits after its start is the child of something it       *)
(* visits.                                                                 *)
LEMMA VisitedParent ==
  ASSUME NEW s, Sound(s), NEW from \in SUBSET Nat, NEW k \in Visited(s, from), k \notin from
  PROVE  \E m \in Visited(s, from), seg \in Segment :
           m \in Nat /\ k # NoKey /\ k = ChildKey(s, m, seg)
  <1>1. PICK m \in Visited(s, from) : k \in Below(s, m)
    BY VisitedFromAbove DEF Sound, Shape
  <1>2. m \in Nat
    BY <1>1, VisitedType
  <1> QED  BY <1>1, <1>2, BelowAreChildren

(* What is visited from a part of what is visited.                         *)
LEMMA VisitedNested ==
  ASSUME NEW s, Sound(s), NEW from \in SUBSET Nat, NEW more, more \subseteq Visited(s, from)
  PROVE  Visited(s, more) \subseteq Visited(s, from)
  <1>1. Visited(s, from) \in SUBSET Nat
    BY VisitedType
  <1>2. \A k \in Visited(s, from), seg \in Segment :
          ChildKey(s, k, seg) # NoKey => ChildKey(s, k, seg) \in Visited(s, from)
    BY <1>1, VisitedChild
  <1> QED  BY <1>1, <1>2, VisitedWithin

(* No node under the root is below one of its own children.                *)
LEMMA NoCycle ==
  ASSUME NEW s, Sound(s), NEW k, Reached(s, k), NEW seg \in Segment,
         ChildKey(s, k, seg) # NoKey
  PROVE  k \in Nat /\ k \notin Visited(s, {ChildKey(s, k, seg)})
  <1> DEFINE V(c) == Visited(s, {c})
             A == {x \in Nat : \A g \in Segment :
                     ChildKey(s, x, g) # NoKey => x \notin V(ChildKey(s, x, g))}
  <1>1. \A x \in Nat, g \in Segment :
          ChildKey(s, x, g) # NoKey => ChildKey(s, x, g) \in Nat \ {ROOT}
    BY ChildKeyType DEF Sound
  <1>2. ROOT \in A
    <2> SUFFICES ASSUME NEW g \in Segment, ChildKey(s, ROOT, g) # NoKey,
                        ROOT \in V(ChildKey(s, ROOT, g))
                 PROVE  FALSE
      BY DEF ROOT
    <2>1. ChildKey(s, ROOT, g) \in Nat \ {ROOT}
      BY <1>1 DEF ROOT
    <2>2. \E m \in V(ChildKey(s, ROOT, g)), h \in Segment :
            m \in Nat /\ ROOT # NoKey /\ ROOT = ChildKey(s, m, h)
      BY <2>1, VisitedParent
    <2> QED  BY <2>2, <1>1
  <1>3. ASSUME NEW x \in A, NEW g \in Segment, ChildKey(s, x, g) # NoKey
        PROVE  ChildKey(s, x, g) \in A
    <2> DEFINE c == ChildKey(s, x, g)
    <2>1. c \in Nat /\ c # NoKey
      BY <1>1, <1>3
    <2> SUFFICES ASSUME NEW h \in Segment, ChildKey(s, c, h) # NoKey,
                        c \in V(ChildKey(s, c, h))
                 PROVE  FALSE
      BY <2>1
    <2> DEFINE d == ChildKey(s, c, h)
    <2>2. d \in Nat /\ d # NoKey
      BY <1>1, <2>1
    <2>3. x \in Nat /\ x \notin V(c)
      BY <1>3
    <2>4. c \in V(c) /\ d \in V(d) /\ {d} \subseteq Nat /\ {c} \subseteq Nat
      BY <2>1, <2>2, VisitedFrom DEF Sound
    <2>5. c # d
      BY <2>1, <2>3, <2>4, <1>3 DEF Sound
    <2>6. \E m \in V(d), f \in Segment : m \in Nat /\ c # NoKey /\ c = ChildKey(s, m, f)
      BY <2>4, <2>5, VisitedParent
    <2>7. x \in V(d)
      BY <2>1, <2>3, <2>6 DEF Sound
    <2>8. d \in V(c)
      BY <2>1, <2>2, <2>4, VisitedChild
    <2>9. V(d) \subseteq V(c)
      BY <2>4, <2>8, VisitedNested
    <2> QED  BY <2>3, <2>7, <2>9
  <1>4. Visited(s, {ROOT}) \subseteq A
    <2> HIDE DEF A
    <2>1. A \subseteq Nat
      BY DEF A
    <2> QED  BY <1>2, <1>3, <2>1, VisitedWithin
  <1> QED  BY <1>4 DEF Reached

------------------------------------------------------------------------------
(* Entries                                                                 *)

(* t is s with n under k.                                                  *)
Wrote(s, t, k, n) ==
  /\ DOMAIN t.node = DOMAIN s.node \cup {k}
  /\ t.node[k] = n
  /\ \A m \in DOMAIN s.node : m # k => t.node[m] = s.node[m]
  /\ \A m, kind : m # k => (HasKind(t, m, kind) <=> HasKind(s, m, kind))
  /\ \A kind : HasKind(t, k, kind) <=> n.kind = kind
  /\ \A m, seg : m # k \/ IsName(seg) => ChildKey(t, m, seg) = ChildKey(s, m, seg)
  /\ \A seg : ~IsName(seg) =>
       ChildKey(t, k, seg) = IF n.kind = "list" /\ seg.index < Len(n.items)
                             THEN n.items[seg.index + 1] ELSE NoKey

(* t has the nodes of s, and c is now the child of k at seg.               *)
Linked(s, t, k, seg, c) ==
  /\ DOMAIN t.node = DOMAIN s.node
  /\ \A m \in DOMAIN s.node : m # k => t.node[m] = s.node[m]
  /\ \A m, kind : HasKind(t, m, kind) <=> HasKind(s, m, kind)
  /\ \A m \in Nat, tag \in Segment :
       ChildKey(t, m, tag) = IF m = k /\ tag = seg THEN c ELSE ChildKey(s, m, tag)

(* A node written under a key changes the children of that key alone.      *)
LEMMA WriteNodeEffect ==
  ASSUME NEW s, Shape(s), NEW k \in Nat, NEW n, NodeOK(n), k = ROOT => n.kind # "packed"
  PROVE  Shape(WriteNode(s, k, n)) /\ Wrote(s, WriteNode(s, k, n), k, n)
  <1> DEFINE t == WriteNode(s, k, n)
  <1>1. /\ t.link = s.link
        /\ DOMAIN t.node = DOMAIN s.node \cup {k}
        /\ t.node[k] = n
        /\ \A m \in DOMAIN s.node : m # k => t.node[m] = s.node[m]
    BY DEF WriteNode
  <1> HIDE DEF t
  <1>2. \A m, kind : m # k => (HasKind(t, m, kind) <=> HasKind(s, m, kind))
    BY <1>1 DEF HasKind, Live
  <1>3. \A kind : HasKind(t, k, kind) <=> n.kind = kind
    BY <1>1 DEF HasKind, Live
  <1>4. IsFiniteSet(DOMAIN t.node)
    BY <1>1, FS_AddElement DEF Shape
  <1>5. ~HasKind(t, ROOT, "packed")
    BY <1>2, <1>3 DEF Shape
  <1>6. Shape(t)
    BY <1>1, <1>4, <1>5 DEF Shape
  <1>7. ASSUME NEW m, NEW seg, m # k \/ IsName(seg)
        PROVE  ChildKey(t, m, seg) = ChildKey(s, m, seg)
    BY <1>1, <1>2, <1>7 DEF ChildKey, HasKind, Live
  <1>8. ASSUME NEW seg, ~IsName(seg)
        PROVE  ChildKey(t, k, seg) = IF n.kind = "list" /\ seg.index < Len(n.items)
                                     THEN n.items[seg.index + 1] ELSE NoKey
    BY <1>1, <1>3, <1>8 DEF ChildKey
  <1>9. Wrote(s, t, k, n)
    BY <1>1, <1>2, <1>3, <1>7, <1>8 DEF Wrote
  <1> QED  BY <1>6, <1>9 DEF t

(* A link is one child more, or another child.                             *)
LEMMA PutLinkEffect ==
  ASSUME NEW s, Shape(s), NEW k \in Nat, NEW seg \in Segment, IsName(seg),
         NEW c \in Nat \ {ROOT}
  PROVE  /\ Shape(PutLink(s, k, seg.name, c))
         /\ Linked(s, PutLink(s, k, seg.name, c), k, seg, c)
  <1> DEFINE t == PutLink(s, k, seg.name, c)
  <1>1. /\ t.node = s.node
        /\ DOMAIN t.link = DOMAIN s.link \cup {<<k, seg.name>>}
        /\ t.link[<<k, seg.name>>] = c
        /\ \A l \in DOMAIN s.link : l # <<k, seg.name>> => t.link[l] = s.link[l]
    BY DEF PutLink
  <1>2. seg.name \in Names /\ seg = Name(seg.name)
    BY SegmentKinds
  <1> HIDE DEF t
  <1>3. \A m, kind : HasKind(t, m, kind) <=> HasKind(s, m, kind)
    BY <1>1 DEF HasKind, Live
  <1>4. Shape(t)
    BY <1>1, <1>2, <1>3 DEF Shape
  <1>5. ASSUME NEW m \in Nat, NEW tag \in Segment
        PROVE  ChildKey(t, m, tag) = IF m = k /\ tag = seg THEN c ELSE ChildKey(s, m, tag)
    <2>1. CASE IsName(tag)
      <3>1. tag = Name(tag.name)
        BY <2>1, SegmentKinds
      <3>2. (m = k /\ tag = seg) <=> <<m, tag.name>> = <<k, seg.name>>
        BY <1>2, <3>1
      <3> QED  BY <1>1, <2>1, <3>2 DEF ChildKey
    <2>2. CASE ~IsName(tag)
      BY <1>1, <1>3, <2>2 DEF ChildKey
    <2> QED  BY <2>1, <2>2
  <1>6. Linked(s, t, k, seg, c)
    BY <1>1, <1>3, <1>5 DEF Linked
  <1> QED  BY <1>4, <1>6 DEF t

(* A dropped link is one child less.                                       *)
LEMMA DropLinkEffect ==
  ASSUME NEW s, Shape(s), NEW k \in Nat, NEW seg \in Segment, IsName(seg)
  PROVE  /\ Shape(DropLink(s, k, seg.name))
         /\ Linked(s, DropLink(s, k, seg.name), k, seg, NoKey)
  <1> DEFINE t == DropLink(s, k, seg.name)
  <1>1. /\ t.node = s.node
        /\ DOMAIN t.link = DOMAIN s.link \ {<<k, seg.name>>}
        /\ \A l \in DOMAIN s.link : l # <<k, seg.name>> => t.link[l] = s.link[l]
    BY DEF DropLink
  <1>2. seg.name \in Names /\ seg = Name(seg.name)
    BY SegmentKinds
  <1> HIDE DEF t
  <1>3. \A m, kind : HasKind(t, m, kind) <=> HasKind(s, m, kind)
    BY <1>1 DEF HasKind, Live
  <1>4. Shape(t)
    BY <1>1, <1>2, <1>3 DEF Shape
  <1>5. ASSUME NEW m \in Nat, NEW tag \in Segment
        PROVE  ChildKey(t, m, tag) = IF m = k /\ tag = seg THEN NoKey ELSE ChildKey(s, m, tag)
    <2>1. CASE IsName(tag)
      <3>1. tag = Name(tag.name)
        BY <2>1, SegmentKinds
      <3>2. (m = k /\ tag = seg) <=> <<m, tag.name>> = <<k, seg.name>>
        BY <1>2, <3>1
      <3> QED  BY <1>1, <2>1, <3>2 DEF ChildKey
    <2>2. CASE ~IsName(tag)
      BY <1>1, <1>3, <2>2 DEF ChildKey
    <2> QED  BY <2>1, <2>2
  <1>6. Linked(s, t, k, seg, NoKey)
    BY <1>1, <1>3, <1>5 DEF Linked
  <1> QED  BY <1>4, <1>6 DEF t

(* Another sequence of elements for a list.                                *)
LEMMA SetItemsEffect ==
  ASSUME NEW s, Shape(s), NEW k, HasKind(s, k, "list"), NEW ks \in Seq(Nat \ {ROOT})
  PROVE  LET t == SetItems(s, k, ks)
         IN  /\ Shape(t)
             /\ DOMAIN t.node = DOMAIN s.node
             /\ \A m \in DOMAIN s.node : m # k => t.node[m] = s.node[m]
             /\ t.node[k] = ListNode(ks)
             /\ \A m, kind : HasKind(t, m, kind) <=> HasKind(s, m, kind)
             /\ \A m, tag : m # k \/ IsName(tag) => ChildKey(t, m, tag) = ChildKey(s, m, tag)
             /\ \A tag : ~IsName(tag) =>
                  ChildKey(t, k, tag) = IF tag.index < Len(ks) THEN ks[tag.index + 1] ELSE NoKey
  <1> DEFINE n == ListNode(ks)
             t == WriteNode(s, k, n)
  <1>1. NodeOK(n) /\ n.kind = "list" /\ n.items = ks /\ n.kind # "packed"
    BY DEF NodeOK, ListNode
  <1>2. k \in Nat /\ k \in DOMAIN s.node /\ \A kind : HasKind(s, k, kind) <=> kind = "list"
    BY DEF HasKind, Live, Shape
  <1> HIDE DEF n
  <1>3. Shape(t) /\ Wrote(s, t, k, n)
    BY <1>1, <1>2, WriteNodeEffect
  <1> HIDE DEF t
  <1>4. /\ Shape(t)
        /\ DOMAIN t.node = DOMAIN s.node
        /\ \A m \in DOMAIN s.node : m # k => t.node[m] = s.node[m]
        /\ t.node[k] = n
    BY <1>2, <1>3 DEF Wrote
  <1>5. \A m, kind : HasKind(t, m, kind) <=> HasKind(s, m, kind)
    BY <1>1, <1>2, <1>3 DEF Wrote
  <1>6. /\ \A m, tag : m # k \/ IsName(tag) => ChildKey(t, m, tag) = ChildKey(s, m, tag)
        /\ \A tag : ~IsName(tag) =>
             ChildKey(t, k, tag) = IF tag.index < Len(ks) THEN ks[tag.index + 1] ELSE NoKey
    BY <1>1, <1>3 DEF Wrote
  <1> QED  BY <1>4, <1>5, <1>6 DEF SetItems, n, t

(* k can be given a child at seg: a list has no gaps.                      *)
Fitting(s, k, seg) ==
  IsName(seg) \/ seg.index = 0 \/ ChildKey(s, k, Index(seg.index - 1)) # NoKey

(* A link or a list element for c, in the place that seg names.            *)
LEMMA AttachEffect ==
  ASSUME NEW s, Shape(s), NEW k \in Nat, NEW seg \in Segment, Holder(s, k, seg),
         NEW c \in Nat \ {ROOT}
  PROVE  LET r == AttachChild(s, k, seg, c)
         IN  /\ r.ok \in BOOLEAN
             /\ ~r.ok => r.s = s /\ ChildKey(s, k, seg) = NoKey /\ ~Fitting(s, k, seg)
             /\ r.ok => Shape(r.s) /\ r.key = c /\ Linked(s, r.s, k, seg, c)
  <1> DEFINE items == s.node[k].items
             i == seg.index
             r == AttachChild(s, k, seg, c)
  <1>1. CASE IsName(seg)
    <2>1. r = Done(PutLink(s, k, seg.name, c), c)
      BY <1>1 DEF AttachChild
    <2> HIDE DEF r
    <2>2. r.ok = TRUE /\ r.key = c /\ r.s = PutLink(s, k, seg.name, c)
      BY <2>1 DEF Done
    <2> QED  BY <1>1, <2>2, PutLinkEffect DEF r
  <1>2. CASE ~IsName(seg)
    <2>1. HasKind(s, k, "list") /\ i \in Nat /\ seg = Index(i)
      BY <1>2, SegmentKinds DEF Holder, IsName
    <2>2. items \in Seq(Nat \ {ROOT}) /\ Len(items) \in Nat
      BY <2>1, ListItems, LenProperties
    <2>3. CASE i > Len(items)
      <3>1. r = Error(s)
        BY <1>2, <2>1, <2>3 DEF AttachChild
      <3>2. r.ok = FALSE /\ r.s = s
        BY <3>1 DEF Error
      <3>3. ChildKey(s, k, seg) = NoKey
        BY <1>2, <2>1, <2>2, <2>3 DEF ChildKey
      <3>4. i # 0 /\ i - 1 \in Nat /\ ~(i - 1 < Len(items))
        <4> HIDE DEF i, items
        <4> QED  BY <2>1, <2>2, <2>3
      <3>5. /\ ~IsName(Index(i - 1)) /\ Index(i - 1).index = i - 1
        BY <3>4, IndexSegment
      <3>6. ChildKey(s, k, Index(i - 1)) = NoKey
        BY <2>1, <3>4, <3>5 DEF ChildKey
      <3> QED  BY <1>2, <3>2, <3>3, <3>4, <3>6 DEF Fitting
    <2>4. CASE i <= Len(items)
      <3>1. PICK ks \in Seq(Nat \ {ROOT}) :
              /\ r = Done(SetItems(s, k, ks), c)
              /\ Len(ks) = IF i < Len(items) THEN Len(items) ELSE Len(items) + 1
              /\ \A j \in 1..Len(ks) : ks[j] = IF j = i + 1 THEN c ELSE items[j]
        <4>1. CASE i < Len(items)
          <5>1. r = Done(SetItems(s, k, ReplaceAt(items, i + 1, c)), c)
            BY <1>2, <2>1, <4>1 DEF AttachChild
          <5>2. i + 1 \in 1..Len(items)
            BY <2>1, <2>2, <4>1
          <5> HIDE DEF r, items, i
          <5>3. /\ ReplaceAt(items, i + 1, c) \in Seq(Nat \ {ROOT})
                /\ Len(ReplaceAt(items, i + 1, c)) = Len(items)
                /\ \A j \in 1..Len(items) :
                     ReplaceAt(items, i + 1, c)[j] = IF j = i + 1 THEN c ELSE items[j]
            BY <2>2, <5>2, ExceptSeq DEF ReplaceAt
          <5> QED  BY <4>1, <5>1, <5>3
        <4>2. CASE i = Len(items)
          <5>1. r = Done(SetItems(s, k, Append(items, c)), c)
            <6>1. ~(i < Len(items)) /\ ~(i > Len(items))
              BY <2>2, <4>2
            <6> QED  BY <1>2, <2>1, <6>1 DEF AttachChild
          <5> HIDE DEF r, items, i
          <5>2. /\ Append(items, c) \in Seq(Nat \ {ROOT})
                /\ Len(Append(items, c)) = Len(items) + 1
                /\ \A j \in 1..Len(items) : Append(items, c)[j] = items[j]
                /\ Append(items, c)[Len(items) + 1] = c
            BY <2>2, AppendProperties
          <5>3. \A j \in 1..Len(Append(items, c)) :
                  Append(items, c)[j] = IF j = i + 1 THEN c ELSE items[j]
            BY <2>2, <4>2, <5>2
          <5>4. Len(Append(items, c)) = IF i < Len(items) THEN Len(items) ELSE Len(items) + 1
            BY <2>2, <4>2, <5>2
          <5> QED  BY <5>1, <5>2, <5>3, <5>4
        <4>3. i < Len(items) \/ i = Len(items)
          <5> HIDE DEF items, i
          <5> QED  BY <2>1, <2>2, <2>4
        <4> QED  BY <4>1, <4>2, <4>3
      <3>2. r.ok = TRUE /\ r.key = c /\ r.s = SetItems(s, k, ks)
        BY <3>1 DEF Done
      <3>3. /\ Shape(r.s)
            /\ DOMAIN r.s.node = DOMAIN s.node
            /\ \A m \in DOMAIN s.node : m # k => r.s.node[m] = s.node[m]
            /\ \A m, kind : HasKind(r.s, m, kind) <=> HasKind(s, m, kind)
            /\ \A m, tag : m # k \/ IsName(tag) => ChildKey(r.s, m, tag) = ChildKey(s, m, tag)
            /\ \A tag : ~IsName(tag) =>
                 ChildKey(r.s, k, tag) = IF tag.index < Len(ks) THEN ks[tag.index + 1] ELSE NoKey
        BY <2>1, <3>2, SetItemsEffect
      <3>4. ASSUME NEW tag \in Segment, ~IsName(tag)
            PROVE  ChildKey(r.s, k, tag) = IF tag = seg THEN c ELSE ChildKey(s, k, tag)
        <4>1. tag.index \in Nat /\ (tag = seg <=> tag.index = i)
          BY <3>4, <2>1, SegmentKinds, IndexSegment DEF IsName
        <4>2. ChildKey(s, k, tag) = IF tag.index < Len(items) THEN items[tag.index + 1] ELSE NoKey
          BY <3>4, <2>1 DEF ChildKey
        <4>3. ChildKey(r.s, k, tag) = IF tag.index < Len(ks) THEN ks[tag.index + 1] ELSE NoKey
          BY <3>3, <3>4
        <4> HIDE DEF i, items, r
        <4>4. Len(ks) \in Nat /\ i \in Nat
          BY <2>1, <3>1, LenProperties
        <4>5. tag.index < Len(ks) => ks[tag.index + 1] = IF tag.index = i THEN c ELSE items[tag.index + 1]
          <5>1. tag.index < Len(ks) => tag.index + 1 \in 1..Len(ks)
            BY <4>1, <4>4
          <5>2. tag.index + 1 = i + 1 <=> tag.index = i
            BY <4>1, <4>4
          <5> QED  BY <5>1, <5>2, <3>1
        <4>6. Len(ks) = IF i < Len(items) THEN Len(items) ELSE Len(items) + 1
          BY <3>1
        <4> QED  BY <4>1, <4>2, <4>3, <4>4, <4>5, <4>6, <2>2, <2>4
      <3>5. \A m \in Nat, tag \in Segment :
              ChildKey(r.s, m, tag) = IF m = k /\ tag = seg THEN c ELSE ChildKey(s, m, tag)
        BY <3>3, <3>4, <1>2
      <3>6. Linked(s, r.s, k, seg, c)
        BY <3>3, <3>5 DEF Linked
      <3> QED  BY <3>2, <3>3, <3>6
    <2> QED  BY <2>1, <2>2, <2>3, <2>4
  <1> QED  BY <1>1, <1>2

------------------------------------------------------------------------------
(* What stays under the root: all but B, if B has no way out of it and t   *)
(* has the other children of s.                                            *)
LEMMA ReachedStill ==
  ASSUME NEW s, NEW t, Sound(s), Sound(t), NEW B \in SUBSET Nat,
         \A m \in B, tag \in Segment :
           ChildKey(s, m, tag) # NoKey => ChildKey(s, m, tag) \in B,
         \A m \in Nat, tag \in Segment :
           /\ Reached(t, m) /\ m \notin B
           /\ ChildKey(s, m, tag) # NoKey /\ ChildKey(s, m, tag) \notin B
           => Reached(t, ChildKey(s, m, tag))
  PROVE  \A m : Reached(s, m) /\ m \notin B => Reached(t, m)
  <1> DEFINE A == Visited(t, {ROOT}) \cup B
  <1>1. A \subseteq Nat /\ {ROOT} \subseteq A
    <2>1. {ROOT} \in SUBSET Nat
      BY DEF ROOT
    <2>2. Visited(t, {ROOT}) \subseteq Nat /\ {ROOT} \subseteq Visited(t, {ROOT})
      BY <2>1, VisitedType, VisitedFrom DEF Sound
    <2> QED  BY <2>2
  <1>2. ASSUME NEW m \in A, NEW tag \in Segment, ChildKey(s, m, tag) # NoKey
        PROVE  ChildKey(s, m, tag) \in A
    BY <1>1, <1>2 DEF Reached
  <1> HIDE DEF A
  <1>3. Visited(s, {ROOT}) \subseteq A
    BY <1>1, <1>2, VisitedWithin
  <1> QED  BY <1>3 DEF A, Reached

(* The root is under the root.                                             *)
LEMMA RootReached ==
  ASSUME NEW s, Shape(s)
  PROVE  Reached(s, ROOT)
  BY VisitedFrom DEF Reached

(* What is under the root are keys.                                        *)
LEMMA ReachedType ==
  ASSUME NEW s, Sound(s), NEW k, Reached(s, k)
  PROVE  k \in Nat
  <1>1. {ROOT} \in SUBSET Nat
    BY DEF ROOT
  <1> QED  BY <1>1, VisitedType DEF Reached

(* The children of what is under the root are under it too.                *)
LEMMA ReachedChild ==
  ASSUME NEW s, Sound(s), NEW k, Reached(s, k), NEW seg \in Segment, ChildKey(s, k, seg) # NoKey
  PROVE  Reached(s, ChildKey(s, k, seg))
  BY ReachedType, VisitedChild DEF Reached

(* A tree has room for a child where it has none.                          *)
LEMMA TreeIsTreeBut ==
  ASSUME NEW s, Tree(s), NEW k, NEW seg, ChildKey(s, k, seg) = NoKey
  PROVE  TreeBut(s, k, seg)
  <1>1. NoKey \notin DOMAIN s.node
    BY DEF Tree, Sound, Shape, NoKey
  <1> QED  BY <1>1 DEF Tree, TreeBut

------------------------------------------------------------------------------
(* A new child                                                             *)

(* The keys in use are those of nodes and children.                        *)
LEMMA InUseIs ==
  ASSUME NEW s, Sound(s), NEW c
  PROVE  c \in InUse(s) <=>
           \/ c \in DOMAIN s.node
           \/ c # NoKey /\ \E m \in Nat, tag \in Segment : c = ChildKey(s, m, tag)
  <1>1. ASSUME NEW l \in DOMAIN s.link
        PROVE  /\ s.link[l] # NoKey
               /\ \E m \in Nat, tag \in Segment :
                    s.link[l] = ChildKey(s, m, tag) /\ m = l[1] /\ IsName(tag)
    <2>1. l[1] \in Nat /\ l[2] \in Names /\ l = <<l[1], l[2]>>
      BY DEF Sound, Shape
    <2>2. s.link[l] # NoKey
      BY DEF Sound, Shape, NoKey
    <2>3. Name(l[2]) \in Segment /\ IsName(Name(l[2])) /\ Name(l[2]).name = l[2]
      BY <2>1, NameSegment
    <2> QED  BY <2>1, <2>2, <2>3 DEF ChildKey
  <1>2. ASSUME NEW k \in DOMAIN s.node
        PROVE  Refs(s, k) = Below(s, k)
    <2>1. CASE HasKind(s, k, "object") \/ HasKind(s, k, "list")
      BY <2>1 DEF Below
    <2>2. CASE ~HasKind(s, k, "object") /\ ~HasKind(s, k, "list")
      <3>1. ASSUME NEW l \in DOMAIN s.link, l[1] = k
            PROVE  FALSE
        <4>1. PICK m \in Nat, tag \in Segment :
                s.link[l] = ChildKey(s, m, tag) /\ m = l[1] /\ IsName(tag)
          BY <1>1
        <4>2. ChildKey(s, k, tag) # NoKey /\ k \in Nat
          BY <1>1, <3>1, <4>1
        <4> QED  BY <2>2, <4>2 DEF Sound, Holder
      <3> QED  BY <2>2, <3>1 DEF Below, Refs
    <2> QED  BY <2>1, <2>2
  <1>3. DOMAIN s.node \subseteq Nat
    BY DEF Sound, Shape
  <1>4. ASSUME NEW m \in Nat, NEW tag \in Segment, c = ChildKey(s, m, tag), c # NoKey
        PROVE  c \in InUse(s)
    <2>1. c \in Below(s, m)
      BY <1>4, BelowAreChildren
    <2>2. m \in DOMAIN s.node
      BY <1>4 DEF Sound, Holder, HasKind, Live
    <2> QED  BY <1>2, <2>1, <2>2 DEF InUse
  <1>5. ASSUME c \in InUse(s), c \notin DOMAIN s.node
        PROVE  c # NoKey /\ \E m \in Nat, tag \in Segment : c = ChildKey(s, m, tag)
    <2>1. CASE \E l \in DOMAIN s.link : c = s.link[l]
      BY <1>1, <2>1
    <2>2. CASE \E k \in DOMAIN s.node : c \in Refs(s, k)
      BY <1>2, <1>3, <2>2, BelowAreChildren
    <2> QED  BY <1>5, <2>1, <2>2 DEF InUse
  <1> QED  BY <1>4, <1>5 DEF InUse

(* A generated key is neither a node nor the child of one.                 *)
LEMMA GenerateNew ==
  ASSUME NEW s, NEW k, NEW seg, TreeBut(s, k, seg)
  PROVE  /\ Generate(s) \in Nat \ {ROOT}
         /\ Generate(s) \notin DOMAIN s.node
         /\ \A m \in Nat, tag \in Segment : ChildKey(s, m, tag) # Generate(s)
  <1>1. InUse(s) \subseteq DOMAIN s.node \cup {ChildKey(s, k, seg)}
    BY InUseIs DEF TreeBut
  <1>2. IsFiniteSet(DOMAIN s.node \cup {ChildKey(s, k, seg)})
    BY FS_AddElement DEF TreeBut, Sound, Shape
  <1>3. IsFiniteSet(InUse(s))
    BY <1>1, <1>2, FS_Subset
  <1>4. Generate(s) \in Nat \ {0} /\ Generate(s) \notin InUse(s)
    BY <1>3, GenerateFresh
  <1>5. Generate(s) # NoKey
    BY <1>4 DEF NoKey
  <1> QED  BY <1>4, <1>5, InUseIs DEF TreeBut, ROOT

(* t is s with a new node n, which is the child of k at seg.               *)
Grown(s, t, k, seg, new, n) ==
  /\ new \in Nat \ {ROOT} /\ new \notin DOMAIN s.node
  /\ DOMAIN t.node = DOMAIN s.node \cup {new}
  /\ t.node[new] = n
  /\ \A m \in DOMAIN s.node : m # k => t.node[m] = s.node[m]
  /\ \A m, kind : m # new => (HasKind(t, m, kind) <=> HasKind(s, m, kind))
  /\ \A kind : HasKind(t, new, kind) <=> n.kind = kind
  /\ \A m \in Nat, tag \in Segment :
       ChildKey(t, m, tag) = IF m = k /\ tag = seg THEN new ELSE ChildKey(s, m, tag)

(* A node that nothing is below.                                           *)
Bare(n) == NodeOK(n) /\ (n.kind = "list" => n.items = <<>>)

(* A new node linked where the tree has no child: the tree has grown by    *)
(* it, or the link failed because the list is too short.                   *)
LEMMA AddChildEffect ==
  ASSUME NEW s, NEW k \in Nat, NEW seg \in Segment, TreeBut(s, k, seg), Holder(s, k, seg),
         NEW n, Bare(n)
  PROVE  LET r == AddChild(s, k, seg, n)
         IN  /\ r.ok \in BOOLEAN
             /\ Tree(r.s)
             /\ ~r.ok => ChildKey(s, k, seg) = NoKey /\ ~Fitting(s, k, seg)
             /\ r.ok => Grown(s, r.s, k, seg, r.key, n)
  <1> DEFINE new == Generate(s)
             u == WriteNode(s, new, n)
             r == AttachChild(u, k, seg, new)
  <1>1. /\ new \in Nat \ {ROOT} /\ new \in Nat /\ new # ROOT
        /\ new \notin DOMAIN s.node
        /\ \A m \in Nat, tag \in Segment : ChildKey(s, m, tag) # new
    BY GenerateNew
  <1>2. AddChild(s, k, seg, n) = r
    BY DEF AddChild, AddUnder
  <1> HIDE DEF new
  <1>3. Shape(u) /\ Wrote(s, u, new, n)
    BY <1>1, WriteNodeEffect DEF TreeBut, Sound, Bare
  <1> HIDE DEF u
  <1>4. k \in DOMAIN s.node /\ k # new /\ Holder(u, k, seg)
    <2>1. k \in DOMAIN s.node
      BY DEF Holder, HasKind, Live
    <2> QED  BY <2>1, <1>1, <1>3 DEF Holder, Wrote
  <1>5. /\ r.ok \in BOOLEAN
        /\ ~r.ok => r.s = u /\ ChildKey(u, k, seg) = NoKey /\ ~Fitting(u, k, seg)
        /\ r.ok => Shape(r.s) /\ r.key = new /\ Linked(u, r.s, k, seg, new)
    BY <1>1, <1>3, <1>4, AttachEffect
  <1> HIDE DEF r
  <1>6. \A m \in Nat, tag \in Segment : ChildKey(u, m, tag) = ChildKey(s, m, tag)
    <2>1. ASSUME NEW tag \in Segment, ~IsName(tag)
          PROVE  ChildKey(u, new, tag) = NoKey /\ ChildKey(s, new, tag) = NoKey
      <3>1. ChildKey(s, new, tag) = NoKey
        BY <1>1 DEF TreeBut, Sound, Holder, HasKind, Live
      <3>2. tag.index \in Nat
        BY <2>1, SegmentKinds DEF IsName
      <3>3. ~(n.kind = "list" /\ tag.index < Len(n.items))
        BY <3>2, EmptySeq DEF Bare
      <3> QED  BY <3>1, <3>3, <2>1, <1>3 DEF Wrote
    <2> QED  BY <2>1, <1>3 DEF Wrote
  <1>7. \A m, kind : m # new => (HasKind(u, m, kind) <=> HasKind(s, m, kind))
    BY <1>3 DEF Wrote
  <1>8. CASE ~r.ok
    <2>1. ChildKey(s, k, seg) = NoKey /\ r.s = u
      BY <1>5, <1>6, <1>8
    <2>6. ~Fitting(s, k, seg)
      <3>1. ~Fitting(u, k, seg)
        BY <1>5, <1>8
      <3>2. ~IsName(seg) => seg.index \in Nat
        BY SegmentKinds DEF IsName
      <3>3. ~IsName(seg) /\ seg.index # 0 => Index(seg.index - 1) \in Segment
        <4>1. \A x \in Nat : x # 0 => x - 1 \in Nat
          OBVIOUS
        <4> QED  BY <3>2, <4>1, IndexSegment
      <3> QED  BY <1>6, <3>1, <3>3 DEF Fitting
    <2>2. \A m \in Nat, tag \in Segment : Holder(s, m, tag) => Holder(u, m, tag)
      BY <1>1, <1>7 DEF Holder, HasKind, Live
    <2>3. Sound(u)
      BY <1>3, <1>6, <2>2 DEF Sound, TreeBut
    <2>4. DOMAIN u.node = DOMAIN s.node \cup {new}
      BY <1>3 DEF Wrote
    <2>5. Tree(u)
      BY <2>1, <2>3, <2>4, <1>6 DEF Tree, TreeBut
    <2> QED  BY <1>2, <1>5, <1>8, <2>1, <2>5, <2>6
  <1>9. CASE r.ok
    <2>1. /\ Shape(r.s) /\ r.key = new
          /\ DOMAIN r.s.node = DOMAIN s.node \cup {new}
          /\ \A m \in DOMAIN s.node : m # k => r.s.node[m] = s.node[m]
          /\ r.s.node[new] = n
          /\ \A m, kind : m # new => (HasKind(r.s, m, kind) <=> HasKind(s, m, kind))
          /\ \A kind : HasKind(r.s, new, kind) <=> n.kind = kind
      BY <1>3, <1>4, <1>5, <1>9, <1>1 DEF Wrote, Linked
    <2>2. \A m \in Nat, tag \in Segment :
            ChildKey(r.s, m, tag) = IF m = k /\ tag = seg THEN new ELSE ChildKey(s, m, tag)
      BY <1>5, <1>6, <1>9 DEF Linked
    <2>3. Grown(s, r.s, k, seg, r.key, n)
      BY <1>1, <2>1, <2>2 DEF Grown
    <2>4. ASSUME NEW m \in Nat, NEW tag \in Segment, ChildKey(r.s, m, tag) # NoKey
          PROVE  Holder(r.s, m, tag) /\ ChildKey(r.s, m, tag) \in DOMAIN r.s.node
      <3>1. CASE m = k /\ tag = seg
        BY <3>1, <2>1, <2>2, <1>4 DEF Holder
      <3>2. CASE ~(m = k /\ tag = seg)
        <4>1. ChildKey(s, m, tag) # NoKey /\ ChildKey(r.s, m, tag) = ChildKey(s, m, tag)
          BY <2>2, <2>4, <3>2
        <4>2. Holder(s, m, tag) /\ ChildKey(s, m, tag) \in DOMAIN s.node
          BY <4>1, <3>2 DEF TreeBut, Sound
        <4>3. m # new
          BY <4>2, <1>1 DEF Holder, HasKind, Live
        <4> QED  BY <4>1, <4>2, <4>3, <2>1 DEF Holder
      <3> QED  BY <3>1, <3>2
    <2>5. ASSUME NEW m \in Nat, NEW x \in Nat, NEW tag \in Segment, NEW g \in Segment,
                 ChildKey(r.s, m, tag) # NoKey, ChildKey(r.s, m, tag) = ChildKey(r.s, x, g)
          PROVE  m = x /\ tag = g
      BY <2>2, <2>5, <1>1 DEF TreeBut, Sound
    <2>6. Sound(r.s)
      BY <2>1, <2>4, <2>5 DEF Sound
    <2>7. Tree(r.s)
      BY <2>4, <2>6 DEF Tree
    <2> QED  BY <1>2, <1>5, <1>9, <2>3, <2>7
  <1> QED  BY <1>5, <1>8, <1>9

(* What was under the root still is, and what is new is too.               *)
LEMMA GrownReached ==
  ASSUME NEW s, NEW t, NEW k, NEW seg \in Segment, NEW new, NEW n,
         TreeBut(s, k, seg), Tree(t), Grown(s, t, k, seg, new, n), Reached(s, k), k \in DOMAIN s.node
  PROVE  /\ \A m \in DOMAIN s.node : Reached(s, m) => Reached(t, m)
         /\ Reached(t, new)
         /\ Full(s) => Full(t)
  <1> DEFINE old == ChildKey(s, k, seg)
             B == {old} \ {NoKey}
  <1>1. Sound(s) /\ Sound(t) /\ k \in Nat
    BY ReachedType DEF TreeBut, Tree
  <1>2. B \in SUBSET Nat /\ \A m \in DOMAIN s.node : m \notin B
    BY <1>1, ChildKeyType DEF TreeBut, Sound
  <1>3. \A m \in B, tag \in Segment : ChildKey(s, m, tag) # NoKey => ChildKey(s, m, tag) \in B
    BY <1>1, <1>2 DEF TreeBut, Sound, Holder, HasKind, Live
  <1>4. ASSUME NEW m \in Nat, NEW tag \in Segment, Reached(t, m),
               ChildKey(s, m, tag) # NoKey, ChildKey(s, m, tag) \notin B
        PROVE  Reached(t, ChildKey(s, m, tag))
    <2>1. ~(m = k /\ tag = seg)
      BY <1>4
    <2>2. ChildKey(t, m, tag) = ChildKey(s, m, tag)
      BY <2>1 DEF Grown
    <2> QED  BY <1>1, <1>4, <2>2, ReachedChild
  <1> HIDE DEF B
  <1>5. \A m : Reached(s, m) /\ m \notin B => Reached(t, m)
    BY <1>1, <1>2, <1>3, <1>4, ReachedStill
  <1>6. \A m \in DOMAIN s.node : Reached(s, m) => Reached(t, m)
    BY <1>2, <1>5
  <1>7. Reached(t, new)
    <2>1. Reached(t, k)
      BY <1>6
    <2>2. ChildKey(t, k, seg) = new /\ new # NoKey
      BY <1>1 DEF Grown, NoKey
    <2> QED  BY <1>1, <2>1, <2>2, ReachedChild
  <1>8. Full(s) => Full(t)
    BY <1>6, <1>7 DEF Full, Reached, Grown
  <1> QED  BY <1>6, <1>7, <1>8

------------------------------------------------------------------------------
(* A child less                                                            *)

(* What a sequence is with one element less.                               *)
LEMMA RemoveAtItems ==
  ASSUME NEW S, NEW items \in Seq(S), NEW i \in 1..Len(items)
  PROVE  /\ RemoveAt(items, i) \in Seq(S)
         /\ Len(RemoveAt(items, i)) = Len(items) - 1
         /\ \A j \in 1..Len(items) - 1 :
              RemoveAt(items, i)[j] = IF j < i THEN items[j] ELSE items[j + 1]
  <1> DEFINE n == Len(items)
             a == SubSeq(items, 1, i - 1)
             b == SubSeq(items, i + 1, Len(items))
  <1>1. n \in Nat /\ i \in Nat /\ 1 <= i /\ i <= n
    BY LenProperties
  <1>2. \A j \in 1..n : items[j] \in S
    BY ElementOfSeq
  <1>3. a \in Seq(S) /\ Len(a) = i - 1 /\ \A j \in 1..i - 1 : a[j] = items[j]
    <2>1. /\ a \in Seq(S)
          /\ Len(a) = IF 1 <= i - 1 THEN (i - 1) - 1 + 1 ELSE 0
          /\ \A j \in 1..(i - 1) - 1 + 1 : a[j] = items[1 + j - 1]
      BY <1>1, <1>2, SubSeqProperties
    <2> HIDE DEF a
    <2>2. Len(a) = i - 1
      BY <1>1, <2>1
    <2>3. \A j \in 1..i - 1 : 1 + j - 1 = j /\ j \in 1..(i - 1) - 1 + 1
      BY <1>1
    <2> QED  BY <2>1, <2>2, <2>3
  <1>4. b \in Seq(S) /\ Len(b) = n - i /\ \A j \in 1..n - i : b[j] = items[i + j]
    <2>1. /\ b \in Seq(S)
          /\ Len(b) = IF i + 1 <= n THEN n - (i + 1) + 1 ELSE 0
          /\ \A j \in 1..n - (i + 1) + 1 : b[j] = items[(i + 1) + j - 1]
      BY <1>1, <1>2, SubSeqProperties
    <2> HIDE DEF b, n
    <2>2. Len(b) = n - i
      BY <1>1, <2>1
    <2>3. \A j \in 1..n - i : (i + 1) + j - 1 = i + j /\ j \in 1..n - (i + 1) + 1
      BY <1>1
    <2> QED  BY <2>1, <2>2, <2>3
  <1>5. RemoveAt(items, i) = a \o b
    BY DEF RemoveAt
  <1> HIDE DEF a, b
  <1>6. /\ a \o b \in Seq(S)
        /\ Len(a \o b) = Len(a) + Len(b)
        /\ \A j \in 1..Len(a) + Len(b) :
             (a \o b)[j] = IF j <= Len(a) THEN a[j] ELSE b[j - Len(a)]
    BY <1>3, <1>4, ConcatProperties
  <1> HIDE DEF n
  <1>7. Len(a) + Len(b) = n - 1
    BY <1>1, <1>3, <1>4
  <1>8. ASSUME NEW j \in 1..n - 1
        PROVE  (a \o b)[j] = IF j < i THEN items[j] ELSE items[j + 1]
    <2>1. CASE j < i
      BY <2>1, <1>1, <1>3, <1>6, <1>7
    <2>2. CASE ~(j < i)
      <3>1. ~(j <= Len(a)) /\ j - Len(a) \in 1..n - i /\ i + (j - Len(a)) = j + 1
        BY <2>2, <1>1, <1>3
      <3>2. (a \o b)[j] = b[j - Len(a)]
        BY <3>1, <1>6, <1>7
      <3> QED  BY <2>2, <3>1, <3>2, <1>4
    <2> QED  BY <2>1, <2>2
  <1>9. Len(a \o b) = n - 1
    BY <1>6, <1>7
  <1> QED  BY <1>5, <1>6, <1>8, <1>9 DEF n

(* The child of k at seg is gone; in a list the later ones have moved up.  *)
Unhooked(s, t, k, seg) ==
  /\ DOMAIN t.node = DOMAIN s.node
  /\ \A m \in DOMAIN s.node : m # k => t.node[m] = s.node[m]
  /\ \A m, kind : HasKind(t, m, kind) <=> HasKind(s, m, kind)
  /\ \A m \in Nat, tag \in Segment : m # k => ChildKey(t, m, tag) = ChildKey(s, m, tag)
  /\ \A tag \in Segment :
       ChildKey(t, k, tag) =
         IF IsName(seg) THEN IF tag = seg THEN NoKey ELSE ChildKey(s, k, tag)
         ELSE IF IsIndex(tag) /\ tag.index >= seg.index
              THEN ChildKey(s, k, Index(tag.index + 1)) ELSE ChildKey(s, k, tag)

(* A child taken out of a container of its kind is gone, and in a list the *)
(* later ones move up.                                                     *)
LEMMA DetachEffect ==
  ASSUME NEW s, Shape(s), NEW k \in Nat, NEW seg \in Segment, Holder(s, k, seg)
  PROVE  LET r == DetachChild(s, k, seg)
         IN  r.ok /\ Shape(r.s) /\ Unhooked(s, r.s, k, seg)
  <1> DEFINE items == s.node[k].items
             i == seg.index
             r == DetachChild(s, k, seg)
  <1>1. CASE IsName(seg)
    <2>1. r = Done(DropLink(s, k, seg.name), k)
      BY <1>1 DEF DetachChild
    <2> HIDE DEF r
    <2>2. r.ok = TRUE /\ r.s = DropLink(s, k, seg.name)
      BY <2>1 DEF Done
    <2>3. Shape(r.s) /\ Linked(s, r.s, k, seg, NoKey)
      BY <1>1, <2>2, DropLinkEffect
    <2>4. Unhooked(s, r.s, k, seg)
      BY <1>1, <2>3 DEF Linked, Unhooked
    <2> QED  BY <2>2, <2>3, <2>4 DEF r
  <1>2. CASE ~IsName(seg)
    <2>1. HasKind(s, k, "list") /\ i \in Nat /\ seg = Index(i) /\ IsIndex(seg)
      BY <1>2, SegmentKinds DEF Holder, IsName
    <2>2. items \in Seq(Nat \ {ROOT}) /\ Len(items) \in Nat
      BY <2>1, ListItems, LenProperties
    <2>3. \A tag \in Segment : ~IsName(tag) =>
            /\ tag.index \in Nat /\ tag = Index(tag.index)
            /\ ChildKey(s, k, tag) = IF tag.index < Len(items) THEN items[tag.index + 1] ELSE NoKey
      BY <2>1, SegmentKinds DEF ChildKey, IsName
    <2>4. \A j \in Nat :
            ChildKey(s, k, Index(j)) = IF j < Len(items) THEN items[j + 1] ELSE NoKey
      BY <2>1, IndexSegment DEF ChildKey
    <2>5. CASE ~(i < Len(items))
      <3>1. r = Done(s, k)
        BY <1>2, <2>1, <2>5 DEF DetachChild
      <3>2. r.ok = TRUE /\ r.s = s
        BY <3>1 DEF Done
      <3> HIDE DEF i, items, r
      <3>3. ASSUME NEW tag \in Segment, IsIndex(tag), tag.index >= i
            PROVE  ChildKey(s, k, tag) = ChildKey(s, k, Index(tag.index + 1))
        <4>1. tag.index \in Nat /\ ~IsName(tag)
          BY <3>3, SegmentKinds DEF IsName
        <4>2. ~(tag.index < Len(items)) /\ ~(tag.index + 1 < Len(items)) /\ tag.index + 1 \in Nat
          BY <4>1, <3>3, <2>1, <2>2, <2>5
        <4> QED  BY <4>1, <4>2, <2>3, <2>4
      <3>4. Unhooked(s, s, k, seg)
        BY <3>3, <1>2 DEF Unhooked, i
      <3> QED  BY <3>2, <3>4 DEF r
    <2>6. CASE i < Len(items)
      <3> DEFINE ks == RemoveAt(items, i + 1)
      <3>1. r = Done(SetItems(s, k, ks), k)
        BY <1>2, <2>1, <2>6 DEF DetachChild
      <3>2. r.ok = TRUE /\ r.s = SetItems(s, k, ks)
        BY <3>1 DEF Done
      <3> HIDE DEF i, items, r
      <3>3. /\ ks \in Seq(Nat \ {ROOT})
            /\ Len(ks) = Len(items) - 1
            /\ \A j \in 1..Len(items) - 1 : ks[j] = IF j < i + 1 THEN items[j] ELSE items[j + 1]
        <4>1. i + 1 \in 1..Len(items)
          BY <2>1, <2>2, <2>6
        <4> QED  BY <2>2, <4>1, RemoveAtItems
      <3> HIDE DEF ks
      <3>4. /\ Shape(r.s)
            /\ DOMAIN r.s.node = DOMAIN s.node
            /\ \A m \in DOMAIN s.node : m # k => r.s.node[m] = s.node[m]
            /\ \A m, kind : HasKind(r.s, m, kind) <=> HasKind(s, m, kind)
            /\ \A m, tag : m # k \/ IsName(tag) => ChildKey(r.s, m, tag) = ChildKey(s, m, tag)
            /\ \A tag : ~IsName(tag) =>
                 ChildKey(r.s, k, tag) = IF tag.index < Len(ks) THEN ks[tag.index + 1] ELSE NoKey
        BY <2>1, <3>2, <3>3, SetItemsEffect
      <3>5. ASSUME NEW tag \in Segment, ~IsName(tag)
            PROVE  ChildKey(r.s, k, tag) = IF tag.index >= i THEN ChildKey(s, k, Index(tag.index + 1))
                                           ELSE ChildKey(s, k, tag)
        <4> DEFINE j == tag.index
        <4>1. j \in Nat /\ j + 1 \in Nat
          BY <3>5, <2>3
        <4>2. ChildKey(r.s, k, tag) = IF j < Len(ks) THEN ks[j + 1] ELSE NoKey
          BY <3>4, <3>5
        <4>3. ChildKey(s, k, tag) = IF j < Len(items) THEN items[j + 1] ELSE NoKey
          BY <3>5, <2>3
        <4>4. ChildKey(s, k, Index(j + 1)) = IF j + 1 < Len(items) THEN items[(j + 1) + 1] ELSE NoKey
          BY <4>1, <2>4
        <4> HIDE DEF j
        <4>5. CASE j < Len(ks)
          <5>1. j + 1 \in 1..Len(items) - 1 /\ j < Len(items) /\ j + 1 < Len(items)
            BY <4>1, <4>5, <3>3, <2>2
          <5>2. ks[j + 1] = IF j + 1 < i + 1 THEN items[j + 1] ELSE items[(j + 1) + 1]
            BY <5>1, <3>3
          <5>3. j + 1 < i + 1 <=> ~(j >= i)
            BY <4>1, <2>1 DEF i
          <5> QED  BY <4>2, <4>3, <4>4, <4>5, <5>1, <5>2, <5>3 DEF j
        <4>6. CASE ~(j < Len(ks))
          <5>1. ~(j + 1 < Len(items)) /\ j >= i
            BY <4>1, <4>6, <3>3, <2>1, <2>2, <2>6 DEF i
          <5> QED  BY <4>2, <4>4, <4>6, <5>1 DEF j
        <4> QED  BY <4>5, <4>6
      <3>6. Unhooked(s, r.s, k, seg)
        <4>1. \A tag \in Segment : ~IsName(tag) <=> IsIndex(tag)
          BY DEF IsName
        <4> QED  BY <1>2, <3>4, <3>5, <4>1 DEF Unhooked, i
      <3> QED  BY <3>2, <3>4, <3>6 DEF r
    <2> QED  BY <2>5, <2>6
  <1> QED  BY <1>1, <1>2

(* Taking out the one child that is not live makes a tree, with nothing    *)
(* lost.                                                                   *)
LEMMA UnhookedTree ==
  ASSUME NEW s, NEW k \in Nat, NEW seg \in Segment, TreeBut(s, k, seg), Holder(s, k, seg),
         NEW t, Shape(t), Unhooked(s, t, k, seg)
  PROVE  /\ Tree(t)
         /\ \A m \in DOMAIN s.node : Reached(s, m) => Reached(t, m)
         /\ Full(s) => Full(t)
  <1> DEFINE old == ChildKey(s, k, seg)
             B == {old} \ {NoKey}
  <1>1. Sound(s)
    BY DEF TreeBut
  (* Where a child of t was in s, and where one of s is in t.              *)
  <1>2. ASSUME NEW m \in Nat, NEW tag \in Segment
        PROVE  \/ \E g \in Segment : /\ ChildKey(t, m, tag) = ChildKey(s, m, g)
                                     /\ ~(m = k /\ g = seg)
                                     /\ IsIndex(g) <=> IsIndex(tag)
               \/ ChildKey(t, m, tag) = NoKey
    <2>1. CASE m # k
      BY <2>1 DEF Unhooked
    <2>2. CASE m = k /\ IsName(seg)
      BY <2>2 DEF Unhooked
    <2>3. CASE m = k /\ ~IsName(seg) /\ IsIndex(tag) /\ tag.index >= seg.index
      <3>1. tag.index \in Nat /\ seg.index \in Nat /\ tag.index + 1 \in Nat
        BY <2>3, SegmentKinds DEF IsName
      <3>2. /\ Index(tag.index + 1) \in Segment /\ IsIndex(Index(tag.index + 1))
            /\ Index(tag.index + 1).index = tag.index + 1
        BY <3>1, IndexSegment
      <3>3. Index(tag.index + 1) # seg
        BY <2>3, <3>1, <3>2
      <3>4. ChildKey(t, k, tag) = ChildKey(s, k, Index(tag.index + 1))
        BY <2>3 DEF Unhooked
      <3> QED  BY <2>3, <3>2, <3>3, <3>4
    <2>4. CASE m = k /\ ~IsName(seg) /\ ~(IsIndex(tag) /\ tag.index >= seg.index)
      <3>1. tag # seg
        <4>1. IsIndex(seg) /\ seg.index \in Nat
          BY <2>4, SegmentKinds DEF IsName
        <4>2. seg.index >= seg.index
          BY <4>1
        <4> QED  BY <2>4, <4>1, <4>2
      <3>2. ChildKey(t, k, tag) = ChildKey(s, k, tag)
        BY <2>4 DEF Unhooked
      <3> QED  BY <2>4, <3>1, <3>2
    <2> QED  BY <2>1, <2>2, <2>3, <2>4
  <1>3. ASSUME NEW m \in Nat, NEW tag \in Segment, ChildKey(s, m, tag) # NoKey, ~(m = k /\ tag = seg)
        PROVE  \E g \in Segment : ChildKey(t, m, g) = ChildKey(s, m, tag)
    <2>1. CASE m # k
      BY <2>1 DEF Unhooked
    <2>2. CASE m = k /\ IsName(seg)
      BY <2>2, <1>3 DEF Unhooked
    <2>3. CASE m = k /\ ~IsName(seg) /\ IsIndex(tag) /\ tag.index > seg.index
      <3>1. tag.index \in Nat /\ tag = Index(tag.index) /\ seg.index \in Nat
        BY <2>3, SegmentKinds DEF IsName
      <3>2. tag.index - 1 \in Nat /\ tag.index - 1 >= seg.index /\ (tag.index - 1) + 1 = tag.index
        BY <2>3, <3>1
      <3> DEFINE g == Index(tag.index - 1)
      <3>3. g \in Segment /\ IsIndex(g) /\ g.index = tag.index - 1
        BY <3>2, IndexSegment
      <3> HIDE DEF g
      <3>4. ChildKey(t, k, g) = ChildKey(s, k, Index(g.index + 1))
        BY <2>3, <3>2, <3>3 DEF Unhooked
      <3>5. Index(g.index + 1) = tag
        BY <3>1, <3>2, <3>3
      <3> QED  BY <2>3, <3>3, <3>4, <3>5
    <2>4. CASE m = k /\ ~IsName(seg) /\ ~(IsIndex(tag) /\ tag.index > seg.index)
      <3>1. ~(IsIndex(tag) /\ tag.index >= seg.index)
        <4>1. IsIndex(seg) /\ seg.index \in Nat /\ seg = Index(seg.index)
          BY <2>4, SegmentKinds DEF IsName
        <4>2. IsIndex(tag) => tag.index \in Nat /\ tag = Index(tag.index)
          BY SegmentKinds
        <4>3. IsIndex(tag) => tag.index # seg.index
          BY <1>3, <2>4, <4>1, <4>2
        <4> QED  BY <2>4, <4>1, <4>2, <4>3
      <3>2. ChildKey(t, k, tag) = ChildKey(s, k, tag)
        BY <2>4, <3>1 DEF Unhooked
      <3> QED  BY <2>4, <3>2
    <2> QED  BY <2>1, <2>2, <2>3, <2>4, SegmentKinds DEF IsName
  <1>4. \A m \in Nat, tag \in Segment : Holder(t, m, tag) <=> Holder(s, m, tag)
    BY DEF Unhooked, Holder
  <1>5. ASSUME NEW m \in Nat, NEW tag \in Segment, ChildKey(t, m, tag) # NoKey
        PROVE  Holder(t, m, tag) /\ ChildKey(t, m, tag) \in DOMAIN t.node
    <2>1. PICK g \in Segment : /\ ChildKey(t, m, tag) = ChildKey(s, m, g)
                               /\ ~(m = k /\ g = seg) /\ (IsIndex(g) <=> IsIndex(tag))
      BY <1>2, <1>5
    <2>2. Holder(s, m, g) /\ ChildKey(s, m, g) \in DOMAIN s.node
      BY <1>5, <2>1 DEF TreeBut, Sound
    <2>3. Holder(s, m, tag)
      BY <2>1, <2>2 DEF Holder
    <2> QED  BY <1>4, <2>1, <2>2, <2>3 DEF Unhooked
  <1>6. ASSUME NEW m \in Nat, NEW x \in Nat, NEW tag \in Segment, NEW g \in Segment,
               ChildKey(t, m, tag) # NoKey, ChildKey(t, m, tag) = ChildKey(t, x, g)
        PROVE  m = x /\ tag = g
    <2>1. \A f, h \in Segment : ChildKey(s, m, f) # NoKey /\ ChildKey(s, m, f) = ChildKey(s, x, h) =>
                                  m = x /\ f = h
      BY <1>1 DEF Sound
    <2>2. m = x
      BY <1>2, <1>6, <2>1
    <2>3. CASE m # k
      <3>1. ChildKey(t, m, tag) = ChildKey(s, m, tag) /\ ChildKey(t, x, g) = ChildKey(s, x, g)
        BY <2>2, <2>3 DEF Unhooked
      <3> QED  BY <1>6, <2>1, <3>1
    <2>4. CASE m = k /\ IsName(seg)
      <3>1. /\ ChildKey(t, m, tag) = IF tag = seg THEN NoKey ELSE ChildKey(s, m, tag)
            /\ ChildKey(t, x, g) = IF g = seg THEN NoKey ELSE ChildKey(s, x, g)
        BY <2>2, <2>4 DEF Unhooked
      <3>2. ChildKey(t, m, tag) = ChildKey(s, m, tag) /\ ChildKey(t, x, g) = ChildKey(s, x, g)
        BY <1>6, <3>1
      <3> QED  BY <1>6, <2>1, <3>2
    <2>5. CASE m = k /\ ~IsName(seg)
      <3> DEFINE was(f) == IF IsIndex(f) /\ f.index >= seg.index THEN Index(f.index + 1) ELSE f
      <3>0. seg.index \in Nat
        BY <2>5, SegmentKinds DEF IsName
      <3>1. ASSUME NEW f \in Segment
            PROVE  /\ was(f) \in Segment
                   /\ IsIndex(was(f)) <=> IsIndex(f)
                   /\ IsIndex(f) => /\ f = Index(f.index) /\ f.index \in Nat
                                    /\ was(f).index = IF f.index >= seg.index THEN f.index + 1
                                                      ELSE f.index
        <4>1. IsIndex(f) => f = Index(f.index) /\ f.index \in Nat /\ f.index + 1 \in Nat
          BY SegmentKinds
        <4> QED  BY <4>1, IndexSegment
      <3>2. ChildKey(t, k, tag) = ChildKey(s, k, was(tag)) /\ ChildKey(t, k, g) = ChildKey(s, k, was(g))
        BY <2>5 DEF Unhooked
      <3>3. was(tag) \in Segment /\ was(g) \in Segment
        BY <3>1
      <3>4. was(tag) = was(g)
        <4> HIDE DEF was
        <4> QED  BY <1>6, <2>1, <2>2, <2>5, <3>2, <3>3
      <3>5. CASE IsIndex(tag)
        <4>1. IsIndex(g) /\ was(tag).index = was(g).index
          BY <3>1, <3>4, <3>5
        <4>2. /\ tag = Index(tag.index) /\ g = Index(g.index)
              /\ tag.index \in Nat /\ g.index \in Nat
              /\ was(tag).index = IF tag.index >= seg.index THEN tag.index + 1 ELSE tag.index
              /\ was(g).index = IF g.index >= seg.index THEN g.index + 1 ELSE g.index
          BY <3>1, <3>5, <4>1
        <4>3. \A a, b, c \in Nat :
                (IF a >= c THEN a + 1 ELSE a) = (IF b >= c THEN b + 1 ELSE b) => a = b
          OBVIOUS
        <4>4. (IF tag.index >= seg.index THEN tag.index + 1 ELSE tag.index)
                = (IF g.index >= seg.index THEN g.index + 1 ELSE g.index)
          <5> HIDE DEF was
          <5> QED  BY <4>1, <4>2
        <4>5. tag.index = g.index
          BY <4>2, <4>3, <4>4, <3>0
        <4> QED  BY <2>2, <4>2, <4>5
      <3>6. CASE ~IsIndex(tag)
        <4>1. ~IsIndex(g)
          BY <3>1, <3>4, <3>6
        <4> QED  BY <2>2, <3>4, <3>6, <4>1
      <3> QED  BY <3>5, <3>6
    <2> QED  BY <2>3, <2>4, <2>5
  <1>7. Sound(t) /\ Tree(t)
    BY <1>5, <1>6 DEF Sound, Tree
  <1>8. B \in SUBSET Nat /\ \A m \in DOMAIN s.node : m \notin B
    BY <1>1, ChildKeyType DEF TreeBut, Sound
  <1>9. \A m \in B, tag \in Segment : ChildKey(s, m, tag) # NoKey => ChildKey(s, m, tag) \in B
    BY <1>1, <1>8 DEF TreeBut, Sound, Holder, HasKind, Live
  <1>10. ASSUME NEW m \in Nat, NEW tag \in Segment, Reached(t, m),
                ChildKey(s, m, tag) # NoKey, ChildKey(s, m, tag) \notin B
         PROVE  Reached(t, ChildKey(s, m, tag))
    <2>1. PICK g \in Segment : ChildKey(t, m, g) = ChildKey(s, m, tag)
      BY <1>3, <1>10
    <2> QED  BY <1>7, <1>10, <2>1, ReachedChild
  <1> HIDE DEF B
  <1>11. \A m : Reached(s, m) /\ m \notin B => Reached(t, m)
    BY <1>1, <1>7, <1>8, <1>9, <1>10, ReachedStill
  <1>12. Full(s) => Full(t)
    BY <1>8, <1>11 DEF Full, Reached, Unhooked
  <1> QED  BY <1>7, <1>8, <1>11, <1>12

------------------------------------------------------------------------------
(* Deletes                                                                 *)

(* t is s without the nodes of gone and without their children.            *)
Pruned(s, t, gone) ==
  /\ DOMAIN t.node = DOMAIN s.node \ gone
  /\ \A m \in DOMAIN t.node : t.node[m] = s.node[m]
  /\ \A m, kind : HasKind(t, m, kind) <=> HasKind(s, m, kind) /\ m \notin gone
  /\ \A m \in Nat, tag \in Segment :
       ChildKey(t, m, tag) = IF m \in gone THEN NoKey ELSE ChildKey(s, m, tag)

(* Without a set of nodes and the links of the objects in it, no node of   *)
(* the set has children and the others keep theirs.                        *)
LEMMA PruneEffect ==
  ASSUME NEW s, Sound(s), NEW gone
  PROVE  /\ Sound(WithoutKeys(s, gone))
         /\ Pruned(s, WithoutKeys(s, gone), gone)
  <1> DEFINE t == WithoutKeys(s, gone)
  <1>1. /\ DOMAIN t.node = DOMAIN s.node \ gone
        /\ \A m \in DOMAIN t.node : t.node[m] = s.node[m]
        /\ DOMAIN t.link = {x \in DOMAIN s.link : ~(x[1] \in gone /\ HasKind(s, x[1], "object"))}
        /\ \A l \in DOMAIN t.link : t.link[l] = s.link[l]
    BY DEF WithoutKeys
  <1> HIDE DEF t
  <1>2. \A m, kind : HasKind(t, m, kind) <=> HasKind(s, m, kind) /\ m \notin gone
    BY <1>1 DEF HasKind, Live
  <1>3. Shape(t)
    <2>1. IsFiniteSet(DOMAIN t.node)
      BY <1>1, FS_Subset DEF Sound, Shape
    <2> QED  BY <1>1, <1>2, <2>1 DEF Sound, Shape
  <1>4. ASSUME NEW m \in Nat, NEW tag \in Segment
        PROVE  ChildKey(t, m, tag) = IF m \in gone THEN NoKey ELSE ChildKey(s, m, tag)
    <2>1. CASE IsName(tag)
      <3> DEFINE l == <<m, tag.name>>
      <3>1. l \in DOMAIN s.link => HasKind(s, m, "object")
        <4>1. ASSUME l \in DOMAIN s.link PROVE ChildKey(s, m, tag) # NoKey
          BY <2>1, <4>1 DEF ChildKey, Sound, Shape, NoKey
        <4> QED  BY <2>1, <4>1 DEF Sound, Holder, IsName
      <3>2. l \in DOMAIN t.link <=> l \in DOMAIN s.link /\ m \notin gone
        BY <1>1, <3>1
      <3> QED  BY <1>1, <2>1, <3>2 DEF ChildKey
    <2>2. CASE ~IsName(tag)
      BY <1>1, <1>2, <2>2 DEF ChildKey, HasKind, Live
    <2> QED  BY <2>1, <2>2
  <1>5. Pruned(s, t, gone)
    BY <1>1, <1>2, <1>4 DEF Pruned
  <1>6. Sound(t)
    BY <1>2, <1>3, <1>4 DEF Sound, Holder
  <1> QED  BY <1>5, <1>6 DEF t

(* After a delete the only children that are missing are those it was      *)
(* started from.                                                           *)
LEMMA DeleteAllEffect ==
  ASSUME NEW s, Tree(s), NEW from \in SUBSET Nat
  PROVE  LET t == DeleteAll(s, from)
             gone == Visited(s, from)
         IN  /\ Sound(t) /\ Pruned(s, t, gone)
             /\ gone \in SUBSET Nat
             /\ \A m \in Nat, tag \in Segment :
                  ChildKey(t, m, tag) # NoKey =>
                    ChildKey(t, m, tag) \in from \/ ChildKey(t, m, tag) \in DOMAIN t.node
             /\ \A m : Reached(s, m) /\ m \notin gone => Reached(t, m)
             /\ Full(s) => Full(t)
  <1> DEFINE t == DeleteAll(s, from)
             gone == Visited(s, from)
  <1>1. Sound(s)
    BY DEF Tree
  <1>2. Sound(t) /\ Pruned(s, t, gone)
    BY <1>1, PruneEffect DEF DeleteAll
  <1>3. gone \in SUBSET Nat
    BY <1>1, VisitedType
  <1> HIDE DEF t
  <1>4. ASSUME NEW m \in Nat, NEW tag \in Segment, ChildKey(t, m, tag) # NoKey,
               ChildKey(t, m, tag) \notin from
        PROVE  ChildKey(t, m, tag) \in DOMAIN t.node
    <2> DEFINE c == ChildKey(s, m, tag)
    <2>1. m \notin gone /\ ChildKey(t, m, tag) = c
      BY <1>2, <1>4 DEF Pruned
    <2>2. c \in DOMAIN s.node
      BY <1>4, <2>1 DEF Tree
    <2>3. ASSUME c \in gone PROVE FALSE
      <3>1. PICK x \in gone, g \in Segment : x \in Nat /\ c # NoKey /\ c = ChildKey(s, x, g)
        BY <1>1, <1>4, <2>1, <2>3, VisitedParent
      <3>2. x = m
        BY <1>1, <3>1 DEF Sound
      <3> QED  BY <2>1, <3>1, <3>2
    <2> QED  BY <1>2, <2>1, <2>2, <2>3 DEF Pruned
  <1>5. \A m \in gone, tag \in Segment :
          ChildKey(s, m, tag) # NoKey => ChildKey(s, m, tag) \in gone
    BY <1>1, <1>3, VisitedChild
  <1> HIDE DEF gone
  <1>6. ASSUME NEW m \in Nat, NEW tag \in Segment, Reached(t, m), m \notin gone,
               ChildKey(s, m, tag) # NoKey, ChildKey(s, m, tag) \notin gone
        PROVE  Reached(t, ChildKey(s, m, tag))
    <2>1. ChildKey(t, m, tag) = ChildKey(s, m, tag)
      BY <1>2, <1>6 DEF Pruned
    <2> QED  BY <1>2, <1>6, <2>1, ReachedChild
  <1>7. \A m : Reached(s, m) /\ m \notin gone => Reached(t, m)
    BY <1>1, <1>2, <1>3, <1>5, <1>6, ReachedStill
  <1>8. Full(s) => Full(t)
    BY <1>2, <1>7 DEF Full, Reached, Pruned
  <1> QED  BY <1>2, <1>3, <1>4, <1>7, <1>8 DEF t, gone

(* The child of k at seg is deleted: k stays.                              *)
LEMMA DeleteChildEffect ==
  ASSUME NEW s, Tree(s), NEW k, Reached(s, k), NEW seg \in Segment,
         ChildKey(s, k, seg) # NoKey
  PROVE  LET t == CascadeDelete(s, ChildKey(s, k, seg))
             gone == Visited(s, {ChildKey(s, k, seg)})
         IN  /\ k \in Nat /\ k \notin gone
             /\ Pruned(s, t, gone)
             /\ TreeBut(t, k, seg)
             /\ \A m : Reached(s, m) /\ m \notin gone => Reached(t, m)
             /\ Full(s) => Full(t)
  <1> DEFINE c == ChildKey(s, k, seg)
             t == CascadeDelete(s, c)
             gone == Visited(s, {c})
  <1>1. Sound(s) /\ c # NoKey
    BY DEF Tree
  <1>2. k \in Nat /\ k \notin gone
    BY <1>1, NoCycle
  <1>3. c \in Nat /\ {c} \in SUBSET Nat
    BY <1>1, ChildKeyType DEF Sound
  <1>4. c \in gone
    BY <1>1, VisitedFrom DEF Sound
  <1>5. /\ Sound(t) /\ Pruned(s, t, gone)
        /\ \A m \in Nat, tag \in Segment :
             ChildKey(t, m, tag) # NoKey =>
               ChildKey(t, m, tag) \in {c} \/ ChildKey(t, m, tag) \in DOMAIN t.node
        /\ \A m : Reached(s, m) /\ m \notin gone => Reached(t, m)
        /\ Full(s) => Full(t)
    BY <1>3, DeleteAllEffect DEF CascadeDelete
  <1> HIDE DEF t, gone
  <1>6. ChildKey(t, k, seg) = c /\ c \notin DOMAIN t.node
    BY <1>2, <1>4, <1>5 DEF Pruned
  <1>7. ASSUME NEW m \in Nat, NEW tag \in Segment, ChildKey(t, m, tag) # NoKey, ~(m = k /\ tag = seg)
        PROVE  ChildKey(t, m, tag) \in DOMAIN t.node
    <2>1. ChildKey(t, m, tag) # c
      BY <1>1, <1>2, <1>5, <1>6, <1>7 DEF Sound
    <2> QED  BY <1>5, <1>7, <2>1
  <1>8. TreeBut(t, k, seg)
    BY <1>5, <1>6, <1>7 DEF TreeBut
  <1> QED  BY <1>2, <1>5, <1>8 DEF t, gone, c

(* The whole table is deleted, but for what no longer hung under the root. *)
LEMMA DeleteRootEffect ==
  ASSUME NEW s, Tree(s)
  PROVE  LET t == CascadeDelete(s, ROOT)
         IN  /\ Tree(t) /\ ~Live(t, ROOT)
             /\ DOMAIN t.node \subseteq DOMAIN s.node
             /\ Full(s) => DOMAIN t.node = {}
  <1> DEFINE t == CascadeDelete(s, ROOT)
             gone == Visited(s, {ROOT})
  <1>1. {ROOT} \in SUBSET Nat
    BY DEF ROOT
  <1>2. ROOT \in gone
    BY VisitedFrom DEF Tree, Sound
  <1>3. /\ Sound(t) /\ Pruned(s, t, gone)
        /\ \A m \in Nat, tag \in Segment :
             ChildKey(t, m, tag) # NoKey =>
               ChildKey(t, m, tag) \in {ROOT} \/ ChildKey(t, m, tag) \in DOMAIN t.node
    BY <1>1, DeleteAllEffect DEF CascadeDelete
  <1> HIDE DEF t
  <1>4. \A m \in Nat, tag \in Segment : ChildKey(t, m, tag) # NoKey => ChildKey(t, m, tag) # ROOT
    BY <1>3, ChildKeyType DEF Sound
  <1>5. Tree(t)
    BY <1>3, <1>4 DEF Tree
  <1>6. ~Live(t, ROOT)
    BY <1>2, <1>3 DEF Pruned, Live
  <1>7. Full(s) => DOMAIN t.node = {}
    BY <1>3 DEF Full, Pruned
  <1> QED  BY <1>3, <1>5, <1>6, <1>7 DEF t, Pruned

------------------------------------------------------------------------------
(* Walks through a tree                                                    *)

(* No packed entity on the way to p, nor at p.                             *)
Unpacked(s, base, p) ==
  \A i \in 0..Len(p) : ~HasKind(s, Walk(s, base, p)[i], "packed")

(* A walk goes from a node to the child that the path names.               *)
LEMMA WalkStep ==
  ASSUME NEW s, Sound(s), NEW base \in Nat, NEW p \in Seq(Segment),
         NEW i \in 1..Len(p), Walk(s, base, p)[i] # NoKey
  PROVE  /\ Walk(s, base, p)[i - 1] # NoKey
         /\ Walk(s, base, p)[i] = ChildKey(s, Walk(s, base, p)[i - 1], p[i])
         /\ p[i] \in Segment
         /\ Walk(s, base, p)[i] \in Nat \ {ROOT}
  <1>1. /\ Walk(s, base, p)[i - 1] # NoKey
        /\ Walk(s, base, p)[i] = ChildKey(s, Walk(s, base, p)[i - 1], p[i])
    BY WalkSteps
  <1>2. p[i] \in Segment
    BY ElementOfSeq
  <1> QED  BY <1>1, <1>2, ChildKeyType DEF Sound

(* A walk that has not ended is at a key.                                  *)
LEMMA WalkType ==
  ASSUME NEW s, Sound(s), NEW base \in Nat, NEW p \in Seq(Segment), NEW i \in 0..Len(p),
         Walk(s, base, p)[i] # NoKey
  PROVE  Walk(s, base, p)[i] \in Nat
  <1>1. CASE i = 0
    BY <1>1, WalkSteps
  <1>2. CASE i # 0
    <2>1. i \in 1..Len(p)
      BY <1>2, LenProperties
    <2> QED  BY <2>1, WalkStep
  <1> QED  BY <1>1, <1>2

(* A walk goes on from containers of the kind the path asks for.           *)
LEMMA WalkHolder ==
  ASSUME NEW s, Sound(s), NEW base \in Nat, NEW p \in Seq(Segment),
         NEW i \in 1..Len(p), Walk(s, base, p)[i] # NoKey
  PROVE  Holder(s, Walk(s, base, p)[i - 1], p[i]) /\ Walk(s, base, p)[i - 1] \in Nat
  <1>1. /\ Walk(s, base, p)[i - 1] # NoKey
        /\ ChildKey(s, Walk(s, base, p)[i - 1], p[i]) # NoKey
        /\ p[i] \in Segment
    BY WalkStep
  <1>2. i - 1 \in 0..Len(p)
    BY LenProperties
  <1>3. Walk(s, base, p)[i - 1] \in Nat
    BY <1>1, <1>2, WalkType
  <1> QED  BY <1>1, <1>3 DEF Sound

(* A walk that has come upon something visited stays in it.                *)
LEMMA WalkVisited ==
  ASSUME NEW s, Sound(s), NEW base \in Nat, NEW p \in Seq(Segment), NEW from,
         NEW i \in 0..Len(p), NEW j \in i..Len(p),
         Walk(s, base, p)[j] # NoKey, Walk(s, base, p)[i] \in Visited(s, from)
  PROVE  Walk(s, base, p)[j] \in Visited(s, from)
  <1> DEFINE w == Walk(s, base, p)
             len == Len(p)
             V == Visited(s, from)
             S == {n \in Nat : i + n <= j => w[i + n] \in V}
  <1>1. len \in Nat /\ \A n \in 0..j : w[n] # NoKey
    <2>1. len \in Nat /\ j \in 0..Len(p)
      BY LenProperties
    <2> QED  BY <2>1, WalkThrough
  <1>2. \A n \in 1..j : w[n] = ChildKey(s, w[n - 1], p[n]) /\ p[n] \in Segment /\ w[n - 1] \in Nat
    <2> SUFFICES ASSUME NEW n \in 1..j
                 PROVE  w[n] = ChildKey(s, w[n - 1], p[n]) /\ p[n] \in Segment /\ w[n - 1] \in Nat
      OBVIOUS
    <2>1. n \in 1..Len(p) /\ w[n] # NoKey
      BY <1>1
    <2> QED  BY <2>1, WalkStep, WalkHolder
  <1>3. i \in 0..j /\ w[i] \in V
    BY <1>1
  <1>4. \A k \in Nat, seg \in Segment :
          k \in V /\ ChildKey(s, k, seg) # NoKey => ChildKey(s, k, seg) \in V
    BY VisitedChild
  <1> HIDE DEF w, len, V
  <1>5. 0 \in S
    BY <1>3
  <1>6. ASSUME NEW n \in Nat, n \in S PROVE n + 1 \in S
    <2> SUFFICES ASSUME i + (n + 1) <= j PROVE w[i + (n + 1)] \in V
      OBVIOUS
    <2>1. i + (n + 1) \in 1..j /\ (i + (n + 1)) - 1 = i + n /\ i + n <= j /\ i + (n + 1) \in 0..j
      BY <1>3
    <2>2. w[i + n] \in V
      BY <1>6, <2>1
    <2>3. /\ w[i + (n + 1)] = ChildKey(s, w[i + n], p[i + (n + 1)])
          /\ p[i + (n + 1)] \in Segment /\ w[i + n] \in Nat
      BY <1>2, <2>1
    <2>4. w[i + (n + 1)] # NoKey
      BY <1>1, <2>1
    <2> QED  BY <1>4, <2>2, <2>3, <2>4
  <1> HIDE DEF S
  <1>7. Nat \subseteq S
    BY <1>5, <1>6, SetInduction
  <1>8. j - i \in Nat /\ i + (j - i) = j
    BY <1>3
  <1> QED  BY <1>7, <1>8 DEF S, w, V

(* A walk from a place under the root stays under it.                      *)
LEMMA WalkReached ==
  ASSUME NEW s, Sound(s), NEW base \in Nat, Reached(s, base), NEW p \in Seq(Segment),
         NEW i \in 0..Len(p), Walk(s, base, p)[i] # NoKey
  PROVE  Reached(s, Walk(s, base, p)[i])
  <1>1. Walk(s, base, p)[0] = base /\ 0 \in 0..Len(p) /\ i \in 0..Len(p)
    BY WalkSteps
  <1> QED  BY <1>1, WalkVisited DEF Reached

(* Where a path leads to a node that is not packed, nothing on the way is  *)
(* packed: a packed entity has no children.                                *)
LEMMA UnpackedTo ==
  ASSUME NEW s, Sound(s), NEW base \in Nat, NEW p \in Seq(Segment),
         ResolveFrom(s, base, p) # NoKey, ~HasKind(s, ResolveFrom(s, base, p), "packed")
  PROVE  Unpacked(s, base, p)
  <1> DEFINE w == Walk(s, base, p)
  <1>1. Len(p) \in Nat /\ w[Len(p)] # NoKey /\ ~HasKind(s, w[Len(p)], "packed")
    BY LenProperties DEF ResolveFrom
  <1>2. \A i \in 0..Len(p) : w[i] # NoKey
    <2>1. Len(p) \in 0..Len(p)
      BY <1>1
    <2> QED  BY <1>1, <2>1, WalkThrough
  <1>3. ASSUME NEW i \in 0..Len(p), i # Len(p)
        PROVE  ~HasKind(s, w[i], "packed")
    <2>1. i + 1 \in 1..Len(p) /\ (i + 1) - 1 = i /\ i + 1 \in 0..Len(p)
      BY <1>1, <1>3
    <2>2. Holder(s, w[i], p[i + 1])
      BY <1>2, <2>1, WalkHolder
    <2> QED  BY <2>2 DEF Holder, HasKind
  <1> QED  BY <1>1, <1>3 DEF Unpacked

(* A path meets no packed entity when the path to its parent meets none    *)
(* and its end is none.                                                    *)
LEMMA UnpackedFront ==
  ASSUME NEW s, NEW base \in Nat, NEW p \in Seq(Segment), p # <<>>
  PROVE  Unpacked(s, base, p) <=>
           /\ Unpacked(s, base, Front(p))
           /\ ~HasKind(s, ResolveFrom(s, base, p), "packed")
  <1>1. /\ Len(Front(p)) = Len(p) - 1 /\ Len(p) \in Nat \ {0}
        /\ \A i \in 0..Len(p) - 1 : Walk(s, base, Front(p))[i] = Walk(s, base, p)[i]
    BY PathFront, ResolveLast
  <1>2. 0..Len(Front(p)) = 0..Len(p) - 1
    BY <1>1
  <1>3. 0..Len(p) = (0..Len(p) - 1) \cup {Len(p)}
    BY <1>1
  <1> QED  BY <1>1, <1>2, <1>3 DEF Unpacked, ResolveFrom

(* NoKey is not the key of a node.                                         *)
LEMMA NoKeyIsNoNode ==
  ASSUME NEW s, Shape(s), NEW kind
  PROVE  ~HasKind(s, NoKey, kind)
  BY DEF Shape, HasKind, Live, NoKey

------------------------------------------------------------------------------
(* Additions                                                               *)

(* t has all that s has.                                                   *)
Extends(s, t) ==
  /\ DOMAIN s.node \subseteq DOMAIN t.node
  /\ \A m \in DOMAIN s.node : \A kind : HasKind(t, m, kind) <=> HasKind(s, m, kind)
  /\ \A m \in Nat, tag \in Segment :
       ChildKey(s, m, tag) # NoKey => ChildKey(t, m, tag) = ChildKey(s, m, tag)
  /\ \A m \in DOMAIN s.node : Reached(s, m) => Reached(t, m)

(* A table has all that it has.                                            *)
LEMMA ExtendsItself ==
  ASSUME NEW s
  PROVE  Extends(s, s)
  BY DEF Extends

(* Of three tables where each has what the one before it has, the last has *)
(* what the first has.                                                     *)
LEMMA ExtendsOn ==
  ASSUME NEW s, NEW t, NEW u, Extends(s, t), Extends(t, u)
  PROVE  Extends(s, u)
  BY DEF Extends

(* A table that has grown by a child has all it had.                       *)
LEMMA GrownExtends ==
  ASSUME NEW s, Tree(s), NEW k \in DOMAIN s.node, Reached(s, k), NEW seg \in Segment,
         ChildKey(s, k, seg) = NoKey, NEW t, Tree(t), NEW new, NEW n,
         Grown(s, t, k, seg, new, n)
  PROVE  Extends(s, t) /\ Reached(t, new) /\ (Full(s) => Full(t))
  <1>1. TreeBut(s, k, seg)
    BY TreeIsTreeBut
  <1>2. /\ \A m \in DOMAIN s.node : Reached(s, m) => Reached(t, m)
        /\ Reached(t, new) /\ (Full(s) => Full(t))
    BY <1>1, GrownReached
  <1>3. Extends(s, t)
    BY <1>2 DEF Extends, Grown
  <1> QED  BY <1>2, <1>3

(* A walk that arrives arrives at the same keys in a table that has more.  *)
LEMMA ExtendsWalk ==
  ASSUME NEW s, NEW t, Sound(s), Extends(s, t), NEW base \in Nat, NEW p \in Seq(Segment),
         NEW i \in 0..Len(p), Walk(s, base, p)[i] # NoKey
  PROVE  \A j \in 0..i : Walk(t, base, p)[j] = Walk(s, base, p)[j]
  <1> DEFINE w == Walk(s, base, p)
  <1>1. \A j \in 0..i : w[j] # NoKey
    BY WalkThrough
  <1>2. ASSUME NEW j \in 1..i, w[j - 1] # NoKey
        PROVE  ChildKey(t, w[j - 1], p[j]) = ChildKey(s, w[j - 1], p[j])
    <2>1. j \in 1..Len(p) /\ j \in 0..i
      BY LenProperties
    <2>2. w[j] # NoKey
      BY <1>1, <2>1
    <2>3. w[j] = ChildKey(s, w[j - 1], p[j]) /\ p[j] \in Segment /\ w[j - 1] \in Nat
      BY <2>1, <2>2, WalkStep, WalkHolder
    <2> QED  BY <2>2, <2>3 DEF Extends
  <1> HIDE DEF w
  <1>3. \A j \in 1..i : Walk(s, base, p)[j - 1] # NoKey =>
          ChildKey(t, Walk(s, base, p)[j - 1], p[j]) = ChildKey(s, Walk(s, base, p)[j - 1], p[j])
    BY <1>2 DEF w
  <1> QED  BY <1>3, WalksAgree

------------------------------------------------------------------------------
(* Containers                                                              *)

(* The kind of a list, or of an object.                                    *)
ContainerKind(isList) == IF isList THEN "list" ELSE "object"

(* A new container has nothing below it.                                   *)
LEMMA EmptyNodeBare ==
  ASSUME NEW isList \in BOOLEAN
  PROVE  /\ Bare(EmptyNode(isList))
         /\ EmptyNode(isList).kind = ContainerKind(isList)
         /\ EmptyNode(isList).kind # "packed"
  <1>1. <<>> \in Seq(Nat \ {ROOT})
    BY EmptySeq
  <1> QED  BY <1>1 DEF EmptyNode, Bare, NodeOK, ObjectNode, ListNode, ContainerKind

(* A container that is there is taken as it is when it is of the right     *)
(* kind.                                                                   *)
LEMMA VerifyEffect ==
  ASSUME NEW s, NEW k, NEW isList \in BOOLEAN, ~HasKind(s, k, "packed"), Live(s, k)
  PROVE  LET r == VerifyContainer(s, k, isList)
         IN  /\ r.ok \in BOOLEAN /\ r.s = s
             /\ r.ok => r.key = k /\ HasKind(s, k, ContainerKind(isList))
  <1> DEFINE r == VerifyContainer(s, k, isList)
  <1>1. CASE Kind(s, k) = ContainerKind(isList)
    <2>1. r = Done(s, k)
      BY <1>1 DEF VerifyContainer, ContainerKind
    <2>2. r.ok = TRUE /\ r.s = s /\ r.key = k
      BY <2>1 DEF Done
    <2>3. HasKind(s, k, ContainerKind(isList))
      BY <1>1 DEF Kind, HasKind
    <2> QED  BY <2>2, <2>3
  <1>2. CASE Kind(s, k) # ContainerKind(isList)
    <2>1. r = Error(s)
      BY <1>2 DEF VerifyContainer, ContainerKind
    <2>2. r.ok = FALSE /\ r.s = s
      BY <2>1 DEF Error
    <2> QED  BY <2>2
  <1> QED  BY <1>1, <1>2

(* The kind of container that the next segment of p asks for.              *)
Wanted(p, isList, i) == IF i = Len(p) THEN isList ELSE IsIndex(p[i + 1])

(* The step of EnsureContainer at the start of p.                          *)
EnsureFirst(s, base, p, isList) ==
  IF Live(s, base) THEN VerifyContainer(s, base, Wanted(p, isList, 0))
  ELSE Done(WriteNode(s, base, EmptyNode(Wanted(p, isList, 0))), base)

(* Its step for segment i, after the step before it left up.               *)
EnsureOn(s, base, p, isList, up, i) ==
  IF Walk(s, base, p)[i] # NoKey
  THEN VerifyContainer(s, Walk(s, base, p)[i], Wanted(p, isList, i))
  ELSE IF ~up.ok THEN up
       ELSE AddChild(up.s, up.key, p[i], EmptyNode(Wanted(p, isList, i)))

(* g is the outcome of the first n steps.                                  *)
IsEnsure(g, s, base, p, isList, n) ==
  g = [i \in 0..n |-> IF i = 0 THEN EnsureFirst(s, base, p, isList)
                      ELSE EnsureOn(s, base, p, isList, g[i - 1], i)]

(* The function that EnsureContainer defines exists: the container of      *)
(* every prefix of the path.                                               *)
LEMMA EnsuresExist ==
  ASSUME NEW s, NEW base, NEW p, NEW isList
  PROVE  \A n \in Nat : \E g : IsEnsure(g, s, base, p, isList, n)
  <1> DEFINE S == {n \in Nat : \E g : IsEnsure(g, s, base, p, isList, n)}
             First == EnsureFirst(s, base, p, isList)
             On(up, i) == EnsureOn(s, base, p, isList, up, i)
  <1>1. 0 \in S
    <2> DEFINE g == [i \in 0..0 |-> First]
    <2>1. IsEnsure(g, s, base, p, isList, 0)
      BY DEF IsEnsure
    <2> QED  BY <2>1
  <1>2. ASSUME NEW n \in Nat, n \in S PROVE n + 1 \in S
    <2>1. PICK g : IsEnsure(g, s, base, p, isList, n)
      BY <1>2
    <2> DEFINE h == [i \in 0..n + 1 |-> IF i = n + 1 THEN On(g[n], n + 1) ELSE g[i]]
    <2>2. \A i \in 0..n : h[i] = g[i]
      OBVIOUS
    <2>3. \A i \in 0..n + 1 : h[i] = IF i = 0 THEN First ELSE On(h[i - 1], i)
      BY <2>1, <2>2 DEF IsEnsure
    <2>4. IsEnsure(h, s, base, p, isList, n + 1)
      BY <2>3 DEF IsEnsure
    <2> QED  BY <2>4
  <1> HIDE DEF S
  <1>3. Nat \subseteq S
    BY <1>1, <1>2, SetInduction
  <1> QED  BY <1>3 DEF S

(* EnsureContainer is made of one step per segment.                        *)
LEMMA EnsureSteps ==
  ASSUME NEW s, NEW base, NEW p \in Seq(Segment), NEW isList
  PROVE  \E g : /\ EnsureContainer(s, base, p, isList) = g[Len(p)]
                /\ g[0] = EnsureFirst(s, base, p, isList)
                /\ \A i \in 1..Len(p) : g[i] = EnsureOn(s, base, p, isList, g[i - 1], i)
  <1> DEFINE n == Len(p)
             g == CHOOSE e : IsEnsure(e, s, base, p, isList, n)
  <1>1. n \in Nat
    BY LenProperties
  <1>2. EnsureContainer(s, base, p, isList) = g[n]
    BY DEF EnsureContainer, IsEnsure, EnsureFirst, EnsureOn, Wanted
  <1>3. IsEnsure(g, s, base, p, isList, n)
    BY <1>1, EnsuresExist
  <1> HIDE DEF g, n
  <1>4. g[0] = EnsureFirst(s, base, p, isList)
    BY <1>1, <1>3 DEF IsEnsure
  <1>5. \A i \in 1..n : g[i] = EnsureOn(s, base, p, isList, g[i - 1], i)
    BY <1>1, <1>3 DEF IsEnsure
  <1> QED  BY <1>2, <1>4, <1>5 DEF n

(* What is true of the container for the first i segments of p.            *)
Ensured(s, base, p, isList, i, r) ==
  /\ r.ok \in BOOLEAN
  /\ Tree(r.s)
  /\ r.ok => /\ Extends(s, r.s)
             /\ Full(s) => Full(r.s)
             /\ HasKind(r.s, r.key, ContainerKind(Wanted(p, isList, i)))
             /\ Reached(r.s, r.key)
             /\ Walk(r.s, base, p)[i] = r.key
             /\ \A seg \in Segment :
                  ChildKey(r.s, r.key, seg) =
                    IF Walk(s, base, p)[i] # NoKey
                    THEN ChildKey(s, Walk(s, base, p)[i], seg) ELSE NoKey

(* The kind asked for is one of the two.                                   *)
LEMMA WantedType ==
  ASSUME NEW p, NEW isList \in BOOLEAN, NEW i
  PROVE  Wanted(p, isList, i) \in BOOLEAN
  <1>1. IsIndex(p[i + 1]) \in BOOLEAN
    BY DEF IsIndex
  <1>2. CASE i = Len(p)
    BY <1>2 DEF Wanted
  <1>3. CASE i # Len(p)
    <2>1. Wanted(p, isList, i) = IsIndex(p[i + 1])
      BY <1>3, Zenon DEF Wanted
    <2> QED  BY <1>1, <2>1, Zenon
  <1> QED  BY <1>2, <1>3

(* The container at the start of the path: it is there, or it is written.  *)
LEMMA EnsureFirstEffect ==
  ASSUME NEW s, Tree(s), NEW base \in Nat, NEW p \in Seq(Segment), NEW isList \in BOOLEAN,
         base = ROOT \/ Live(s, base), Reached(s, base), Unpacked(s, base, p)
  PROVE  Ensured(s, base, p, isList, 0, EnsureFirst(s, base, p, isList))
  <1> DEFINE r == EnsureFirst(s, base, p, isList)
             lst == Wanted(p, isList, 0)
  <1>1. lst \in BOOLEAN /\ Walk(s, base, p)[0] = base /\ base # NoKey
    BY WantedType, WalkSteps DEF NoKey
  <1>2. \A t : Walk(t, base, p)[0] = base
    BY WalkSteps
  <1> HIDE DEF lst
  <1>3. CASE Live(s, base)
    <2>1. r = VerifyContainer(s, base, lst)
      BY <1>3 DEF EnsureFirst, lst
    <2>2. ~HasKind(s, base, "packed")
      <3>1. 0 \in 0..Len(p)
        BY LenProperties
      <3> QED  BY <3>1, <1>1 DEF Unpacked
    <2>3. r.ok \in BOOLEAN /\ r.s = s /\ (r.ok => r.key = base /\ HasKind(s, base, ContainerKind(lst)))
      BY <1>1, <1>3, <2>1, <2>2, VerifyEffect
    <2> HIDE DEF r
    <2> QED  BY <1>1, <2>3, ExtendsItself DEF Ensured, lst, r
  <1>4. CASE ~Live(s, base)
    <2> DEFINE n == EmptyNode(lst)
               t == WriteNode(s, base, n)
    <2>1. r = Done(t, base)
      BY <1>4 DEF EnsureFirst, lst
    <2>2. r.ok = TRUE /\ r.s = t /\ r.key = base
      BY <2>1 DEF Done
    <2>3. Bare(n) /\ n.kind = ContainerKind(lst) /\ n.kind # "packed"
      BY <1>1, EmptyNodeBare
    <2> HIDE DEF n, r
    <2>4. Shape(t) /\ Wrote(s, t, base, n)
      BY <2>3, WriteNodeEffect DEF Bare, Tree, Sound
    <2> HIDE DEF t
    <2>5. \A seg \in Segment : ChildKey(s, base, seg) = NoKey
      BY <1>4 DEF Tree, Sound, Holder, HasKind
    <2>6. \A m \in Nat, seg \in Segment : ChildKey(t, m, seg) = ChildKey(s, m, seg)
      <3>1. ASSUME NEW seg \in Segment, ~IsName(seg)
            PROVE  ChildKey(t, base, seg) = NoKey
        <4>1. seg.index \in Nat
          BY <3>1, SegmentKinds DEF IsName
        <4>2. ~(n.kind = "list" /\ seg.index < Len(n.items))
          BY <2>3, <4>1, EmptySeq DEF Bare
        <4> QED  BY <2>4, <3>1, <4>2 DEF Wrote
      <3> QED  BY <2>4, <2>5, <3>1 DEF Wrote
    <2>7. \A m \in DOMAIN s.node : m # base
      BY <1>4 DEF Live
    <2>8. \A m \in DOMAIN s.node : \A kind : HasKind(t, m, kind) <=> HasKind(s, m, kind)
      BY <2>4, <2>7 DEF Wrote
    <2>9. \A m \in Nat, seg \in Segment : Holder(s, m, seg) => Holder(t, m, seg)
      BY <2>8 DEF Holder, HasKind, Live
    <2>10. Sound(t)
      BY <2>4, <2>6, <2>9 DEF Tree, Sound
    <2>11. DOMAIN t.node = DOMAIN s.node \cup {base}
      BY <2>4 DEF Wrote
    <2>12. Tree(t)
      BY <2>6, <2>10, <2>11 DEF Tree
    <2>13. \A m : Reached(s, m) => Reached(t, m)
      <3>1. \A m \in Nat, tag \in Segment :
              Reached(t, m) /\ ChildKey(s, m, tag) # NoKey => Reached(t, ChildKey(s, m, tag))
        BY <2>6, <2>10, ReachedChild
      <3>2. Sound(s) /\ {} \in SUBSET Nat
        BY DEF Tree
      <3> QED  BY <2>10, <3>1, <3>2, ReachedStill
    <2>14. Extends(s, t)
      BY <2>6, <2>8, <2>11, <2>13 DEF Extends
    <2>15. Full(s) => Full(t)
      BY <2>11, <2>13 DEF Full, Reached
    <2>16. HasKind(t, base, ContainerKind(lst))
      BY <2>3, <2>4 DEF Wrote
    <2> QED  BY <1>1, <1>2, <2>2, <2>5, <2>6, <2>12, <2>13, <2>14, <2>15, <2>16 DEF Ensured, lst, r
  <1> QED  BY <1>3, <1>4

(* The container one segment further: it is there, or a new one is linked  *)
(* into the one before it.                                                 *)
LEMMA EnsureOnEffect ==
  ASSUME NEW s, Tree(s), NEW base \in Nat, NEW p \in Seq(Segment), NEW isList \in BOOLEAN,
         Reached(s, base), Unpacked(s, base, p),
         NEW i \in 1..Len(p), NEW up, Ensured(s, base, p, isList, i - 1, up)
  PROVE  Ensured(s, base, p, isList, i, EnsureOn(s, base, p, isList, up, i))
  <1> DEFINE w == Walk(s, base, p)
             lst == Wanted(p, isList, i)
             r == EnsureOn(s, base, p, isList, up, i)
  <1>1. Sound(s) /\ lst \in BOOLEAN /\ i \in 0..Len(p) /\ i - 1 \in 0..Len(p) /\ i \in Nat
    BY WantedType, LenProperties DEF Tree
  <1>2. p[i] \in Segment
    BY ElementOfSeq
  <1> HIDE DEF lst
  <1>3. CASE w[i] # NoKey
    <2>1. r = VerifyContainer(s, w[i], lst)
      BY <1>3 DEF EnsureOn, lst
    <2>2. w[i] = ChildKey(s, w[i - 1], p[i]) /\ w[i - 1] \in Nat
      BY <1>1, <1>3, WalkStep, WalkHolder
    <2>3. Live(s, w[i])
      BY <1>2, <1>3, <2>2 DEF Tree, Live
    <2>4. ~HasKind(s, w[i], "packed")
      BY <1>1 DEF Unpacked
    <2>5. r.ok \in BOOLEAN /\ r.s = s /\ (r.ok => r.key = w[i] /\ HasKind(s, w[i], ContainerKind(lst)))
      BY <1>1, <2>1, <2>3, <2>4, VerifyEffect
    <2>6. Reached(s, w[i])
      BY <1>1, <1>3, WalkReached
    <2> HIDE DEF r
    <2> QED  BY <1>3, <2>5, <2>6, ExtendsItself DEF Ensured, lst, r
  <1>4. CASE w[i] = NoKey /\ ~up.ok
    <2>1. r = up
      BY <1>4 DEF EnsureOn
    <2> QED  BY <1>4, <2>1 DEF Ensured
  <1>5. CASE w[i] = NoKey /\ up.ok
    <2> DEFINE n == EmptyNode(lst)
    <2>1. r = AddChild(up.s, up.key, p[i], n)
      BY <1>5 DEF EnsureOn, lst
    <2>2. /\ Tree(up.s) /\ Extends(s, up.s) /\ (Full(s) => Full(up.s))
          /\ HasKind(up.s, up.key, ContainerKind(Wanted(p, isList, i - 1)))
          /\ Reached(up.s, up.key)
          /\ Walk(up.s, base, p)[i - 1] = up.key
      BY <1>5 DEF Ensured
    <2>3. Bare(n) /\ n.kind = ContainerKind(lst)
      BY <1>1, EmptyNodeBare
    <2> HIDE DEF n, r
    <2>4. ChildKey(up.s, up.key, p[i]) = NoKey
      <3>1. ChildKey(up.s, up.key, p[i]) = IF w[i - 1] # NoKey THEN ChildKey(s, w[i - 1], p[i]) ELSE NoKey
        BY <1>2, <1>5 DEF Ensured
      <3>2. w[i] = IF w[i - 1] = NoKey THEN NoKey ELSE ChildKey(s, w[i - 1], p[i])
        BY WalkSteps
      <3> QED  BY <1>5, <3>1, <3>2
    <2>5. Wanted(p, isList, i - 1) = IsIndex(p[i])
      <3>1. i - 1 # Len(p) /\ (i - 1) + 1 = i
        BY <1>1, LenProperties
      <3> QED  BY <3>1 DEF Wanted
    <2>6. Holder(up.s, up.key, p[i]) /\ up.key \in DOMAIN up.s.node
      BY <2>2, <2>5 DEF Holder, ContainerKind, HasKind, Live
    <2>7. up.key \in Nat
      BY <2>2, <2>6 DEF Tree, Sound, Shape
    <2>8. TreeBut(up.s, up.key, p[i])
      BY <2>2, <2>4, TreeIsTreeBut
    <2>9. /\ r.ok \in BOOLEAN /\ Tree(r.s)
          /\ r.ok => Grown(up.s, r.s, up.key, p[i], r.key, n)
      BY <1>2, <2>1, <2>3, <2>6, <2>7, <2>8, AddChildEffect
    <2>10. CASE r.ok
      <3>1. Grown(up.s, r.s, up.key, p[i], r.key, n)
        BY <2>9, <2>10
      <3>2. Extends(up.s, r.s) /\ Reached(r.s, r.key) /\ (Full(up.s) => Full(r.s))
        BY <1>2, <2>2, <2>4, <2>6, <2>9, <3>1, GrownExtends
      <3>3. Extends(s, r.s) /\ (Full(s) => Full(r.s))
        BY <2>2, <3>2, ExtendsOn
      <3>4. HasKind(r.s, r.key, ContainerKind(lst))
        BY <2>3, <3>1 DEF Grown
      <3>5. Walk(r.s, base, p)[i] = r.key
        <4>1. up.key # NoKey /\ Sound(up.s)
          BY <2>2, <2>7 DEF NoKey, Tree
        <4>2. Walk(up.s, base, p)[i - 1] # NoKey
          BY <2>2, <4>1
        <4>3. \A j \in 0..i - 1 : Walk(r.s, base, p)[j] = Walk(up.s, base, p)[j]
          BY <1>1, <3>2, <4>1, <4>2, ExtendsWalk
        <4>4. i - 1 \in 0..i - 1
          BY <1>1
        <4>5. Walk(r.s, base, p)[i - 1] = up.key
          BY <2>2, <4>3, <4>4
        <4>6. Walk(r.s, base, p)[i] = ChildKey(r.s, up.key, p[i])
          BY <4>1, <4>5, WalkSteps
        <4> QED  BY <1>2, <2>7, <3>1, <4>6 DEF Grown
      <3>6. \A seg \in Segment : ChildKey(r.s, r.key, seg) = NoKey
        <4>1. r.key \in Nat /\ r.key \notin DOMAIN up.s.node
          BY <3>1 DEF Grown
        <4>2. \A seg \in Segment : ChildKey(up.s, r.key, seg) = NoKey
          BY <2>2, <4>1 DEF Tree, Sound, Holder, HasKind, Live
        <4> QED  BY <2>6, <3>1, <4>1, <4>2 DEF Grown
      <3> QED  BY <1>5, <2>9, <3>2, <3>3, <3>4, <3>5, <3>6 DEF Ensured, lst, r
    <2>11. CASE ~r.ok
      BY <2>9, <2>11 DEF Ensured, r
    <2> QED  BY <2>9, <2>10, <2>11
  <1> QED  BY <1>3, <1>4, <1>5 DEF Ensured

(* EnsureContainer finds or makes the container of p, under the root, and  *)
(* changes nothing that was there.                                         *)
LEMMA EnsureEffect ==
  ASSUME NEW s, Tree(s), NEW base \in Nat, NEW p \in Seq(Segment), NEW isList \in BOOLEAN,
         base = ROOT \/ Live(s, base), Reached(s, base), Unpacked(s, base, p)
  PROVE  LET r == EnsureContainer(s, base, p, isList)
         IN  /\ r.ok \in BOOLEAN
             /\ Tree(r.s)
             /\ r.ok => /\ Extends(s, r.s)
                        /\ Full(s) => Full(r.s)
                        /\ HasKind(r.s, r.key, ContainerKind(isList))
                        /\ Reached(r.s, r.key)
                        /\ ResolveFrom(r.s, base, p) = r.key
                        /\ \A seg \in Segment :
                             ChildKey(r.s, r.key, seg) =
                               IF ResolveFrom(s, base, p) # NoKey
                               THEN ChildKey(s, ResolveFrom(s, base, p), seg) ELSE NoKey
  <1>1. PICK g : /\ EnsureContainer(s, base, p, isList) = g[Len(p)]
                 /\ g[0] = EnsureFirst(s, base, p, isList)
                 /\ \A i \in 1..Len(p) : g[i] = EnsureOn(s, base, p, isList, g[i - 1], i)
    BY EnsureSteps
  <1> DEFINE S == {i \in Nat : i <= Len(p) => Ensured(s, base, p, isList, i, g[i])}
  <1>2. Len(p) \in Nat
    BY LenProperties
  <1>3. 0 \in S
    BY <1>1, EnsureFirstEffect
  <1>4. ASSUME NEW i \in Nat, i \in S PROVE i + 1 \in S
    <2> SUFFICES ASSUME i + 1 <= Len(p) PROVE Ensured(s, base, p, isList, i + 1, g[i + 1])
      OBVIOUS
    <2>1. i + 1 \in 1..Len(p) /\ (i + 1) - 1 = i /\ Ensured(s, base, p, isList, i, g[i])
      BY <1>2, <1>4
    <2>2. Ensured(s, base, p, isList, (i + 1) - 1, g[i])
      BY <2>1
    <2>3. g[i + 1] = EnsureOn(s, base, p, isList, g[i], i + 1)
      BY <1>1, <2>1
    <2> QED  BY <2>1, <2>2, <2>3, EnsureOnEffect
  <1> HIDE DEF S
  <1>5. Nat \subseteq S
    BY <1>3, <1>4, SetInduction
  <1>6. Ensured(s, base, p, isList, Len(p), g[Len(p)])
    BY <1>2, <1>5 DEF S
  <1> QED  BY <1>1, <1>6 DEF Ensured, Wanted, ResolveFrom

------------------------------------------------------------------------------
(* Replacements                                                            *)

(* The keys that go when the child of k at seg does.                       *)
Dropped(s, k, seg) ==
  IF ChildKey(s, k, seg) = NoKey THEN {} ELSE Visited(s, {ChildKey(s, k, seg)})

(* t is s with a new node n in the place of the child of k at seg.         *)
Replaced(s, t, k, seg, new, n, gone) ==
  /\ new \in Nat \ {ROOT} /\ new # k /\ new \notin DOMAIN s.node \ gone
  /\ k \notin gone
  /\ DOMAIN t.node = (DOMAIN s.node \ gone) \cup {new}
  /\ t.node[new] = n
  /\ \A m \in DOMAIN s.node \ gone : m # k => t.node[m] = s.node[m]
  /\ \A m, kind : m # new /\ m \notin gone => (HasKind(t, m, kind) <=> HasKind(s, m, kind))
  /\ \A m \in Nat, tag \in Segment :
       ChildKey(t, m, tag) = IF m = k /\ tag = seg THEN new
                             ELSE IF m \in gone THEN NoKey ELSE ChildKey(s, m, tag)
  /\ \A m \in DOMAIN s.node \ gone : Reached(s, m) => Reached(t, m)

(* The child of k at seg is dropped with all below it, and a new node      *)
(* takes its place.                                                        *)
LEMMA ReplaceChildEffect ==
  ASSUME NEW s, Tree(s), NEW k, Reached(s, k), NEW seg \in Segment, Holder(s, k, seg),
         NEW n, Bare(n), NEW parent, parent.ok, parent.s = s, parent.key = k
  PROVE  LET r == ReplaceChild(parent, seg, n)
         IN  /\ r.ok \in BOOLEAN
             /\ Tree(r.s)
             /\ r.ok => /\ Replaced(s, r.s, k, seg, r.key, n, Dropped(s, k, seg))
                        /\ Full(s) => Full(r.s)
                        /\ Reached(r.s, r.key)
  <1> DEFINE gone == Dropped(s, k, seg)
             t == DropChild(s, k, seg)
             r == AddChild(t, k, seg, n)
  <1>1. ReplaceChild(parent, seg, n) = r
    BY DEF ReplaceChild
  <1>2. k \in Nat /\ k \in DOMAIN s.node /\ Sound(s)
    BY DEF Holder, HasKind, Live, Tree, Sound, Shape
  <1>3. /\ k \notin gone
        /\ TreeBut(t, k, seg)
        /\ Pruned(s, t, gone)
        /\ \A m : Reached(s, m) /\ m \notin gone => Reached(t, m)
        /\ Full(s) => Full(t)
    <2>1. CASE ChildKey(s, k, seg) = NoKey
      <3>1. t = s /\ gone = {}
        BY <2>1 DEF DropChild, DropNode, Dropped
      <3>2. Pruned(s, s, {})
        BY DEF Pruned
      <3> HIDE DEF t, gone
      <3> QED  BY <2>1, <3>1, <3>2, TreeIsTreeBut
    <2>2. CASE ChildKey(s, k, seg) # NoKey
      <3>1. t = CascadeDelete(s, ChildKey(s, k, seg)) /\ gone = Visited(s, {ChildKey(s, k, seg)})
        BY <2>2 DEF DropChild, DropNode, Dropped
      <3> HIDE DEF t, gone
      <3> QED  BY <2>2, <3>1, DeleteChildEffect
    <2> QED  BY <2>1, <2>2
  <1> HIDE DEF t, r, gone
  <1>4. Holder(t, k, seg) /\ k \in DOMAIN t.node /\ Reached(t, k)
    BY <1>2, <1>3 DEF Pruned, Holder
  <1>5. /\ r.ok \in BOOLEAN /\ Tree(r.s)
        /\ r.ok => Grown(t, r.s, k, seg, r.key, n)
    BY <1>2, <1>3, <1>4, AddChildEffect DEF r
  <1>6. CASE r.ok
    <2>1. Grown(t, r.s, k, seg, r.key, n)
      BY <1>5, <1>6
    <2>2. /\ \A m \in DOMAIN t.node : Reached(t, m) => Reached(r.s, m)
          /\ Reached(r.s, r.key)
          /\ Full(t) => Full(r.s)
      BY <1>3, <1>4, <1>5, <2>1, GrownReached
    <2>3. \A m \in DOMAIN s.node \ gone : Reached(s, m) => Reached(r.s, m)
      BY <1>3, <2>2 DEF Pruned
    <2>4. Replaced(s, r.s, k, seg, r.key, n, gone)
      BY <1>3, <1>4, <2>1, <2>3 DEF Replaced, Grown, Pruned
    <2> QED  BY <1>1, <1>3, <1>5, <2>2, <2>4 DEF gone
  <1>7. CASE ~r.ok
    BY <1>1, <1>5, <1>7
  <1> QED  BY <1>5, <1>6, <1>7

(* The way to the parent stays as it was.                                  *)
LEMMA ReplacedWalk ==
  ASSUME NEW s, Sound(s), NEW base \in Nat, NEW q \in Seq(Segment), NEW k, NEW seg \in Segment,
         ResolveFrom(s, base, q) = k, k # NoKey,
         NEW t, NEW new, NEW n, Replaced(s, t, k, seg, new, n, Dropped(s, k, seg))
  PROVE  /\ \A i \in 0..Len(q) : Walk(t, base, q)[i] = Walk(s, base, q)[i]
         /\ base \notin Dropped(s, k, seg)
  <1> DEFINE w == Walk(s, base, q)
             gone == Dropped(s, k, seg)
             n1 == Len(q)
  <1>1. n1 \in Nat /\ n1 \in 0..Len(q) /\ n1 \in 0..n1 /\ w[n1] = k /\ w[0] = base /\ 0 \in 0..n1
    BY WalkSteps DEF ResolveFrom
  <1>2. \A i \in 0..n1 : w[i] # NoKey
    BY <1>1, WalkThrough
  <1>3. ASSUME NEW i \in 0..n1 PROVE w[i] \notin gone
    <2>1. CASE ChildKey(s, k, seg) = NoKey
      BY <2>1 DEF Dropped
    <2>2. CASE ChildKey(s, k, seg) # NoKey
      <3> SUFFICES ASSUME w[i] \in Visited(s, {ChildKey(s, k, seg)}) PROVE FALSE
        BY <2>2 DEF Dropped
      <3>1. n1 \in i..Len(q) /\ i \in 0..Len(q)
        BY <1>1
      <3>2. w[n1] \in Visited(s, {ChildKey(s, k, seg)})
        BY <1>1, <3>1, WalkVisited
      <3> QED  BY <1>1, <2>2, <3>2 DEF Replaced, Dropped
    <2> QED  BY <2>1, <2>2
  <1>4. ASSUME NEW i \in 1..n1
        PROVE  ChildKey(t, w[i - 1], q[i]) = ChildKey(s, w[i - 1], q[i])
    <2>1. i \in 0..n1 /\ i - 1 \in 0..n1 /\ i \in 1..Len(q)
      BY <1>1
    <2>2. w[i] = ChildKey(s, w[i - 1], q[i]) /\ q[i] \in Segment /\ w[i - 1] \in Nat
      BY <1>2, <2>1, WalkStep, WalkHolder
    <2>3. w[i - 1] \notin gone /\ w[i] \notin gone /\ w[i] # NoKey
      BY <1>2, <1>3, <2>1
    <2>4. ~(w[i - 1] = k /\ q[i] = seg)
      <3>1. ASSUME w[i - 1] = k, q[i] = seg PROVE FALSE
        <4>1. ChildKey(s, k, seg) = w[i]
          BY <2>2, <3>1
        <4>2. w[i] \in gone
          BY <2>3, <4>1, VisitedFrom DEF Dropped, Sound
        <4> QED  BY <2>3, <4>2
      <3> QED  BY <3>1
    <2> HIDE DEF w, gone
    <2>5. ChildKey(t, w[i - 1], q[i]) =
            IF w[i - 1] = k /\ q[i] = seg THEN new
            ELSE IF w[i - 1] \in gone THEN NoKey ELSE ChildKey(s, w[i - 1], q[i])
      BY <2>2 DEF Replaced, gone
    <2> QED  BY <2>3, <2>4, <2>5
  <1>5. \A i \in 0..n1 : Walk(t, base, q)[i] = w[i]
    <2>1. \A i \in 1..n1 : Walk(s, base, q)[i - 1] # NoKey =>
            ChildKey(t, Walk(s, base, q)[i - 1], q[i]) = ChildKey(s, Walk(s, base, q)[i - 1], q[i])
      BY <1>4
    <2> QED  BY <1>1, <2>1, WalksAgree, SMTT(30)
  <1> QED  BY <1>1, <1>3, <1>5

------------------------------------------------------------------------------
(* Writes at a path                                                        *)

(* What a write at p leaves: a tree, and p in the container it was to have.*)
PutDone(s, base, p, r) ==
  /\ r.ok \in BOOLEAN
  /\ Tree(r.s)
  /\ r.ok =>
       /\ Full(s) => Full(r.s)
       /\ Reached(r.s, base) /\ (base = ROOT \/ Live(r.s, base))
       /\ HasKind(r.s, ResolveFrom(r.s, base, Front(p)), ContainerKind(IsIndex(Last(p))))
       /\ ResolveFrom(r.s, base, p) # NoKey
       /\ \A j \in 0..Len(p) - 1 :
            Walk(s, base, p)[j] # NoKey => Walk(r.s, base, p)[j] = Walk(s, base, p)[j]

(* Where a write may go: base is a place of the tree, and no packed entity *)
(* is on the way.                                                          *)
Base(s, base) == base \in Nat /\ Reached(s, base) /\ (base = ROOT \/ Live(s, base))

(* A segment is an index or it is not.                                     *)
LEMMA IsIndexType ==
  ASSUME NEW seg
  PROVE  IsIndex(seg) \in BOOLEAN
  BY DEF IsIndex

(* A new node in the place p, in the container found or made for it.       *)
LEMMA PutChildEffect ==
  ASSUME NEW s, Tree(s), NEW base, Base(s, base), NEW p \in Seq(Segment), p # <<>>,
         Unpacked(s, base, Front(p)), NEW n, Bare(n)
  PROVE  PutDone(s, base, p, ReplaceChild(EnsureParent(s, base, p), Last(p), n))
  <1> DEFINE q == Front(p)
             seg == Last(p)
             up == EnsureParent(s, base, p)
             r == ReplaceChild(up, seg, n)
             k == up.key
  <1>1. q \in Seq(Segment) /\ seg \in Segment /\ Len(q) = Len(p) - 1 /\ Len(p) \in Nat \ {0}
    BY PathFront
  <1>2. IsIndex(seg) \in BOOLEAN /\ base \in Nat
    BY IsIndexType DEF Base
  <1>3. up = EnsureContainer(s, base, q, IsIndex(seg))
    BY DEF EnsureParent
  <1> HIDE DEF q, seg, up
  <1>4. /\ up.ok \in BOOLEAN
        /\ Tree(up.s)
        /\ up.ok => /\ Extends(s, up.s)
                    /\ Full(s) => Full(up.s)
                    /\ HasKind(up.s, up.key, ContainerKind(IsIndex(seg)))
                    /\ Reached(up.s, up.key)
                    /\ ResolveFrom(up.s, base, q) = up.key
    BY <1>1, <1>2, <1>3, EnsureEffect DEF Base, q
  <1>5. CASE ~up.ok
    <2>1. r = up
      BY <1>5 DEF ReplaceChild
    <2> QED  BY <1>4, <1>5, <2>1 DEF PutDone, seg, up
  <1>6. CASE up.ok
    <2>1. Holder(up.s, k, seg)
      BY <1>4, <1>6 DEF Holder, ContainerKind
    <2>2. /\ r.ok \in BOOLEAN /\ Tree(r.s)
          /\ r.ok => /\ Replaced(up.s, r.s, k, seg, r.key, n, Dropped(up.s, k, seg))
                     /\ Full(up.s) => Full(r.s)
                     /\ Reached(r.s, r.key)
      BY <1>1, <1>4, <1>6, <2>1, ReplaceChildEffect
    <2> HIDE DEF r
    <2>3. CASE ~r.ok
      BY <2>2, <2>3 DEF PutDone, r, seg, up
    <2>4. CASE r.ok
      <3>1. Replaced(up.s, r.s, k, seg, r.key, n, Dropped(up.s, k, seg))
        BY <2>2, <2>4
      <3>2. Sound(up.s) /\ Sound(s) /\ k \in Nat /\ k # NoKey /\ k \in DOMAIN up.s.node
        <4>1. Sound(up.s) /\ Sound(s)
          BY <1>4 DEF Tree
        <4>2. k \in DOMAIN up.s.node
          BY <1>4, <1>6 DEF HasKind, Live
        <4>3. k \in Nat
          BY <4>1, <4>2 DEF Sound, Shape
        <4> QED  BY <4>1, <4>2, <4>3 DEF NoKey
      <3>3. /\ \A i \in 0..Len(q) : Walk(r.s, base, q)[i] = Walk(up.s, base, q)[i]
            /\ base \notin Dropped(up.s, k, seg)
        BY <1>1, <1>2, <1>4, <1>6, <3>1, <3>2, ReplacedWalk
      <3>4. Reached(r.s, base) /\ (base = ROOT \/ Live(r.s, base))
        <4>1. base = ROOT \/ (base \in DOMAIN up.s.node /\ Reached(up.s, base))
          BY <1>4, <1>6 DEF Base, Extends, Live
        <4>2. Reached(r.s, ROOT)
          BY <2>2, RootReached DEF Tree, Sound
        <4> QED  BY <3>1, <3>3, <4>1, <4>2 DEF Replaced, Live
      <3>5. ResolveFrom(r.s, base, q) = k
        <4>1. Len(q) \in 0..Len(q)
          BY <1>1
        <4> QED  BY <1>4, <1>6, <3>3, <4>1 DEF ResolveFrom
      <3>6. HasKind(r.s, k, ContainerKind(IsIndex(seg)))
        BY <1>4, <1>6, <3>1 DEF Replaced
      <3>7. ResolveFrom(r.s, base, p) = r.key /\ r.key # NoKey
        <4>1. ResolveFrom(r.s, base, p) = IF ResolveFrom(r.s, base, q) = NoKey THEN NoKey
                                          ELSE ChildKey(r.s, ResolveFrom(r.s, base, q), seg)
          BY ResolveLast DEF q, seg
        <4>2. r.key \in Nat /\ ChildKey(r.s, k, seg) = r.key
          BY <1>1, <3>1, <3>2 DEF Replaced
        <4> QED  BY <3>2, <3>5, <4>1, <4>2 DEF NoKey
      <3>8. ASSUME NEW j \in 0..Len(p) - 1, Walk(s, base, p)[j] # NoKey
            PROVE  Walk(r.s, base, p)[j] = Walk(s, base, p)[j]
        <4>1. j \in 0..Len(q) /\ j \in 0..j
          BY <1>1
        <4>2. \A x : Walk(x, base, q)[j] = Walk(x, base, p)[j]
          BY ResolveLast DEF q
        <4>3. Walk(s, base, q)[j] # NoKey
          BY <3>8, <4>2
        <4>4. Walk(up.s, base, q)[j] = Walk(s, base, q)[j]
          BY <1>1, <1>2, <1>4, <1>6, <3>2, <4>1, <4>3, ExtendsWalk
        <4> QED  BY <3>3, <4>1, <4>2, <4>4
      <3>9. Full(s) => Full(r.s)
        BY <1>4, <1>6, <2>2, <2>4
      <3>10. PutDone(s, base, p, r)
        BY <2>2, <3>4, <3>5, <3>6, <3>7, <3>8, <3>9 DEF PutDone, q, seg
      <3> QED  BY <3>10 DEF r, seg, up
    <2> QED  BY <2>2, <2>3, <2>4
  <1> QED  BY <1>4, <1>5, <1>6

(* A leaf has nothing below it.                                            *)
LEMMA LeafNodeBare ==
  ASSUME NEW v \in Values
  PROVE  Bare(LeafNode(v)) /\ LeafNode(v).kind = "leaf" /\ LeafNode(v).kind # "packed"
  BY DEF Bare, NodeOK, LeafNode

(* A leaf in the place of the whole table.                                 *)
LEMMA PutRootEffect ==
  ASSUME NEW s, Tree(s), NEW v \in Values
  PROVE  LET r == PutScalar(s, ROOT, <<>>, v)
         IN  r.ok = TRUE /\ Tree(r.s) /\ (Full(s) => Full(r.s))
  <1> DEFINE t == CascadeDelete(s, ROOT)
             n == LeafNode(v)
             u == WriteNode(t, ROOT, n)
             r == PutScalar(s, ROOT, <<>>, v)
  <1>1. r = Done(u, ROOT)
    BY DEF PutScalar
  <1>2. r.ok = TRUE /\ r.s = u
    BY <1>1 DEF Done
  <1>3. Bare(n) /\ n.kind = "leaf" /\ n.kind # "packed"
    BY LeafNodeBare
  <1>4. Tree(t) /\ ~Live(t, ROOT) /\ (Full(s) => DOMAIN t.node = {}) /\ ROOT \in Nat
    BY DeleteRootEffect DEF ROOT
  <1> HIDE DEF t, n
  <1>5. Shape(u) /\ Wrote(t, u, ROOT, n)
    BY <1>3, <1>4, WriteNodeEffect DEF Bare, Tree, Sound
  <1> HIDE DEF u, r
  <1>6. \A seg \in Segment : ChildKey(t, ROOT, seg) = NoKey
    BY <1>4 DEF Tree, Sound, Holder, HasKind
  <1>7. \A m \in Nat, seg \in Segment : ChildKey(u, m, seg) = ChildKey(t, m, seg)
    BY <1>3, <1>5, <1>6 DEF Wrote
  <1>8. \A m \in DOMAIN t.node : m # ROOT
    BY <1>4 DEF Live
  <1>9. \A m \in Nat, seg \in Segment : Holder(t, m, seg) => Holder(u, m, seg)
    BY <1>5, <1>8 DEF Wrote, Holder, HasKind, Live
  <1>10. Sound(u)
    BY <1>4, <1>5, <1>7, <1>9 DEF Tree, Sound
  <1>11. DOMAIN u.node = DOMAIN t.node \cup {ROOT}
    BY <1>5 DEF Wrote
  <1>12. Tree(u)
    BY <1>4, <1>7, <1>10, <1>11 DEF Tree
  <1>13. Full(s) => Full(u)
    BY <1>4, <1>5, <1>11, RootReached DEF Full, Reached
  <1> QED  BY <1>2, <1>12, <1>13 DEF r

------------------------------------------------------------------------------
(* What a step leaves of a tree s: a tree, with nothing lost if it         *)
(* succeeded.                                                              *)
Good(s, r) ==
  /\ r.ok \in BOOLEAN
  /\ Tree(r.s)
  /\ r.ok /\ Full(s) => Full(r.s)

------------------------------------------------------------------------------
(* Scalars and values                                                      *)

(* A leaf at a path below base.                                            *)
LEMMA PutLeafEffect ==
  ASSUME NEW s, Tree(s), NEW base, Base(s, base), NEW p \in Seq(Segment), p # <<>>,
         Unpacked(s, base, Front(p)), NEW v \in Values
  PROVE  PutDone(s, base, p, PutScalar(s, base, p, v))
  <1>1. PutScalar(s, base, p, v) = ReplaceChild(EnsureParent(s, base, p), Last(p), LeafNode(v))
    BY DEF PutScalar
  <1> QED  BY <1>1, PutChildEffect, LeafNodeBare

(* What a value written at p leaves.                                       *)
ValueDone(s, base, p, r) ==
  /\ Good(s, r)
  /\ r.ok /\ p # <<>> =>
       /\ ResolveFrom(r.s, base, p) # NoKey
       /\ \A j \in 0..Len(p) - 1 :
            Walk(s, base, p)[j] # NoKey => Walk(r.s, base, p)[j] = Walk(s, base, p)[j]

(* A write of one node at p has done what a write of a value does.         *)
LEMMA PutIsValue ==
  ASSUME NEW s, NEW base, NEW p, NEW r, PutDone(s, base, p, r)
  PROVE  ValueDone(s, base, p, r)
  BY DEF PutDone, ValueDone, Good

(* What the parts of a flat document are.                                  *)
LEMMA FlatIs ==
  ASSUME NEW d, Flat(d)
  PROVE  /\ Is(d, "leaf") => d.val \in Values
         /\ Is(d, "object") => /\ d = Object(d.fields)
                               /\ d.fields \in [DOMAIN d.fields -> Leaves]
                               /\ DOMAIN d.fields \subseteq Names
                               /\ \A n \in DOMAIN d.fields : d.fields[n] \in Leaves
         /\ Is(d, "list") => d = List(d.items) /\ d.items \in Seq(Leaves)
  <1>1. CASE d \in Leaves
    <2>1. d.kind = "leaf" /\ d.val \in Values
      BY <1>1 DEF Leaves, Leaf
    <2> QED  BY <2>1 DEF Is
  <1>2. CASE d.kind = "object" /\ d = Object(d.fields)
             /\ \E names \in SUBSET Names : d.fields \in [names -> Leaves]
    <2>1. PICK names \in SUBSET Names : d.fields \in [names -> Leaves]
      BY <1>2
    <2>2. DOMAIN d.fields = names
      BY <2>1
    <2> QED  BY <1>2, <2>1, <2>2 DEF Is
  <1>3. CASE d.kind = "list" /\ d = List(d.items) /\ d.items \in Seq(Leaves)
    BY <1>3 DEF Is
  <1> QED  BY <1>1, <1>2, <1>3 DEF Flat

(* Leaves, objects of leaves and lists of leaves are flat.                 *)
LEMMA FlatForms ==
  /\ \A v \in Values : Leaf(v) \in Leaves /\ Flat(Leaf(v))
  /\ \A names \in SUBSET Names : \A f \in [names -> Leaves] : Flat(Object(f))
  /\ \A f \in Seq(Leaves) : Flat(List(f))
  <1>1. ASSUME NEW v \in Values PROVE Leaf(v) \in Leaves /\ Flat(Leaf(v))
    BY DEF Flat, Leaves
  <1>2. ASSUME NEW names \in SUBSET Names, NEW f \in [names -> Leaves] PROVE Flat(Object(f))
    <2>1. Object(f).kind = "object" /\ Object(f).fields = f
      BY DEF Object
    <2>2. Object(f) = Object(Object(f).fields)
      BY <2>1
    <2> QED  BY <2>1, <2>2 DEF Flat
  <1>3. ASSUME NEW f \in Seq(Leaves) PROVE Flat(List(f))
    <2>1. List(f).kind = "list" /\ List(f).items = f
      BY DEF List
    <2>2. List(f) = List(List(f).items)
      BY <2>1
    <2> QED  BY <2>1, <2>2 DEF Flat
  <1> QED  BY <1>1, <1>2, <1>3

(* The parts of a document: leaves, at segments of their own.              *)
LEMMA LeafParts ==
  ASSUME NEW d, Flat(d)
  PROVE  /\ Segments(d) \in Seq(Segment)
         /\ \A i \in 1..Len(Segments(d)) :
              /\ IsIndex(Segments(d)[i]) = Is(d, "list")
              /\ Kid(d, Segments(d)[i]).val \in Values
         /\ \A i, j \in 1..Len(Segments(d)) : Segments(d)[i] = Segments(d)[j] => i = j
         /\ Is(d, "list") => \A i \in 1..Len(Segments(d)) : Segments(d)[i] = Index(i - 1)
  <1>1. CASE Is(d, "list")
    <2> DEFINE segs == Segments(d)
    <2>1. d.items \in Seq(Leaves) /\ segs = [x \in DOMAIN d.items |-> Index(x - 1)]
      BY <1>1, FlatIs DEF Segments
    <2>2. Len(d.items) \in Nat /\ DOMAIN d.items = 1..Len(d.items)
      BY <2>1, LenProperties
    <2>3. ASSUME NEW i \in 1..Len(d.items)
          PROVE  /\ segs[i] = Index(i - 1) /\ segs[i] \in Segment /\ IsIndex(segs[i])
                 /\ segs[i].index = i - 1
                 /\ Kid(d, segs[i]).val \in Values
      <3>1. i - 1 \in Nat /\ (i - 1) + 1 = i /\ i - 1 < Len(d.items)
        BY <2>2
      <3>2. segs[i] = Index(i - 1) /\ segs[i] \in Segment /\ IsIndex(segs[i]) /\ ~IsName(segs[i])
            /\ segs[i].index = i - 1
        BY <2>1, <2>2, <3>1, IndexSegment
      <3>3. Kid(d, segs[i]) = d.items[i]
        BY <1>1, <3>1, <3>2 DEF Kid
      <3>4. d.items[i] \in Leaves
        BY <2>1, ElementOfSeq
      <3>5. d.items[i].val \in Values
        BY <3>4 DEF Leaves, Leaf
      <3> QED  BY <3>2, <3>3, <3>5
    <2>4. segs \in [1..Len(d.items) -> Segment]
      BY <2>1, <2>2, <2>3
    <2> HIDE DEF segs
    <2>5. segs \in Seq(Segment) /\ Len(segs) = Len(d.items)
      BY <2>2, <2>4, SeqDef, LenProperties
    <2>6. \A i, j \in 1..Len(d.items) : segs[i] = segs[j] => i = j
      <3> SUFFICES ASSUME NEW i \in 1..Len(d.items), NEW j \in 1..Len(d.items), segs[i] = segs[j]
                   PROVE  i = j
        OBVIOUS
      <3>1. i - 1 = j - 1
        BY <2>3
      <3> QED  BY <2>2, <3>1
    <2> QED  BY <1>1, <2>3, <2>5, <2>6 DEF segs
  <1>2. CASE ~Is(d, "list") /\ Is(d, "object")
    <2> DEFINE segs == Segments(d)
               F == DOMAIN d.fields
               S == {Name(n) : n \in F}
               N == Cardinality(S)
    <2>1. F \subseteq Names /\ \A n \in F : d.fields[n] \in Leaves
      BY <1>2, FlatIs
    <2>2. segs = SetToSeq(S)
      BY <1>2 DEF Segments
    <2>3. IsFiniteSet(S)
      <3>1. IsFiniteSet(F)
        BY <2>1, TreeAssumption, FS_Subset
      <3> DEFINE f == [n \in F |-> Name(n)]
      <3>2. f \in Surjection(F, S)
        BY DEF Surjection
      <3> HIDE DEF f
      <3> QED  BY <3>1, <3>2, FS_Surjection
    <2>4. ASSUME NEW x \in S
          PROVE  x \in Segment /\ ~IsIndex(x) /\ Kid(d, x).val \in Values
      <3>1. PICK n \in F : x = Name(n)
        OBVIOUS
      <3>2. x \in Segment /\ IsName(x) /\ ~IsIndex(x) /\ x.name = n
        BY <2>1, <3>1, NameSegment
      <3>3. Kid(d, x) = d.fields[n]
        BY <1>2, <3>2 DEF Kid
      <3>4. d.fields[n].val \in Values
        BY <2>1 DEF Leaves, Leaf
      <3> QED  BY <3>2, <3>3, <3>4
    <2> HIDE DEF S, segs
    <2>5. N \in Nat /\ segs \in [1..N -> S] /\ IsInjective(segs)
      <3>1. N \in Nat /\ \E f : f \in Bijection(1..N, S)
        BY <2>3, FS_CardinalityType DEF ExistsBijection
      <3>2. \E f \in [1..N -> S] : IsInjective(f)
        BY <3>1 DEF Bijection, Injection
      <3> QED  BY <2>2, <3>1, <3>2 DEF SetToSeq
    <2>6. segs \in Seq(S) /\ Len(segs) = N
      BY <2>5, SeqDef, LenProperties
    <2>7. \A i \in 1..N : segs[i] \in S
      BY <2>5
    <2>8. segs \in [1..N -> Segment] /\ segs \in Seq(Segment)
      <3>1. \A i \in 1..N : segs[i] \in Segment
        BY <2>4, <2>7
      <3>2. segs \in [1..N -> Segment]
        BY <2>5, <3>1
      <3> QED  BY <2>5, <3>2, SeqDef
    <2>9. \A i, j \in 1..N : segs[i] = segs[j] => i = j
      BY <2>5 DEF IsInjective
    <2>10. \A i \in 1..N : ~IsIndex(segs[i]) /\ Kid(d, segs[i]).val \in Values
      BY <2>4, <2>7
    <2>11. Is(d, "list") = FALSE /\ \A i \in 1..N : IsIndex(segs[i]) = FALSE
      BY <1>2, <2>10, IsIndexType DEF Is
    <2> QED  BY <2>6, <2>8, <2>9, <2>10, <2>11 DEF segs
  <1>3. CASE ~Is(d, "list") /\ ~Is(d, "object")
    <2>1. Segments(d) = <<>>
      BY <1>3 DEF Segments
    <2> QED  BY <1>3, <2>1, EmptySeq
  <1> QED  BY <1>1, <1>2, <1>3

(* g is the outcome of the first n parts.                                  *)
IsParts(g, container, base, p, d, segs, n) ==
  g = [i \in 0..n |-> IF i = 0 THEN container
                      ELSE WritePart(g[i - 1], base, Append(p, segs[i]), Kid(d, segs[i]))]

(* The function that WriteParts defines exists: the table after each part. *)
LEMMA PartsExist ==
  ASSUME NEW container, NEW base, NEW p, NEW d, NEW segs
  PROVE  \A n \in Nat : \E g : IsParts(g, container, base, p, d, segs, n)
  <1> DEFINE S == {n \in Nat : \E g : IsParts(g, container, base, p, d, segs, n)}
             On(r, i) == WritePart(r, base, Append(p, segs[i]), Kid(d, segs[i]))
  <1>1. 0 \in S
    <2> DEFINE g == [i \in 0..0 |-> container]
    <2>1. IsParts(g, container, base, p, d, segs, 0)
      BY DEF IsParts
    <2> QED  BY <2>1
  <1>2. ASSUME NEW n \in Nat, n \in S PROVE n + 1 \in S
    <2>1. PICK g : IsParts(g, container, base, p, d, segs, n)
      BY <1>2
    <2> DEFINE h == [i \in 0..n + 1 |-> IF i = n + 1 THEN On(g[n], n + 1) ELSE g[i]]
    <2>2. \A i \in 0..n : h[i] = g[i]
      OBVIOUS
    <2>3. \A i \in 0..n + 1 : h[i] = IF i = 0 THEN container ELSE On(h[i - 1], i)
      BY <2>1, <2>2 DEF IsParts
    <2>4. IsParts(h, container, base, p, d, segs, n + 1)
      BY <2>3 DEF IsParts
    <2> QED  BY <2>4
  <1> HIDE DEF S
  <1>3. Nat \subseteq S
    BY <1>1, <1>2, SetInduction
  <1> QED  BY <1>3 DEF S

(* WriteParts writes one part after the other.                             *)
LEMMA PartsSteps ==
  ASSUME NEW container, NEW base, NEW p, NEW d, NEW segs \in Seq(Segment)
  PROVE  \E g : /\ WriteParts(container, base, p, d, segs)[Len(segs)] = g[Len(segs)]
                /\ g[0] = container
                /\ \A i \in 1..Len(segs) :
                     g[i] = WritePart(g[i - 1], base, Append(p, segs[i]), Kid(d, segs[i]))
  <1> DEFINE n == Len(segs)
             g == CHOOSE e : IsParts(e, container, base, p, d, segs, n)
  <1>1. n \in Nat
    BY LenProperties
  <1>2. WriteParts(container, base, p, d, segs) = g
    BY DEF WriteParts, IsParts
  <1>3. IsParts(g, container, base, p, d, segs, n)
    BY <1>1, PartsExist
  <1> HIDE DEF g, n
  <1>4. g[0] = container
    BY <1>1, <1>3 DEF IsParts
  <1>5. \A i \in 1..n : g[i] = WritePart(g[i - 1], base, Append(p, segs[i]), Kid(d, segs[i]))
    BY <1>1, <1>3 DEF IsParts
  <1> QED  BY <1>2, <1>4, <1>5 DEF n

(* What is true while the parts of a container at p are written.           *)
Filling(s, base, p, isList, r) ==
  /\ Good(s, r)
  /\ r.ok =>
       /\ Base(r.s, base)
       /\ HasKind(r.s, ResolveFrom(r.s, base, p), ContainerKind(isList))
       /\ \A j \in 0..Len(p) :
            Walk(s, base, p)[j] # NoKey => Walk(r.s, base, p)[j] = Walk(s, base, p)[j]

(* One part written into the container at p leaves that container in its   *)
(* place.                                                                  *)
LEMMA WritePartEffect ==
  ASSUME NEW s, NEW base, NEW p \in Seq(Segment), NEW isList, NEW r,
         Filling(s, base, p, isList, r), NEW seg \in Segment, IsIndex(seg) = isList,
         NEW part, part.val \in Values
  PROVE  Filling(s, base, p, isList, WritePart(r, base, Append(p, seg), part))
  <1> DEFINE q == Append(p, seg)
             u == WritePart(r, base, q, part)
  <1>1. CASE ~r.ok
    <2>1. u = r
      BY <1>1 DEF WritePart
    <2> QED  BY <2>1
  <1>2. CASE r.ok
    <2>1. q \in Seq(Segment) /\ q # <<>> /\ Front(q) = p /\ Last(q) = seg /\ Len(q) = Len(p) + 1
          /\ Len(p) \in Nat
      BY PathAppend, LenProperties
    <2>2. /\ Tree(r.s) /\ Base(r.s, base) /\ base \in Nat
          /\ HasKind(r.s, ResolveFrom(r.s, base, p), ContainerKind(isList))
      BY <1>2 DEF Filling, Good, Base
    <2>3. Unpacked(r.s, base, p)
      <3>1. ResolveFrom(r.s, base, p) # NoKey
        BY <2>2, NoKeyIsNoNode DEF Tree, Sound
      <3>2. ~HasKind(r.s, ResolveFrom(r.s, base, p), "packed")
        BY <2>2 DEF HasKind, ContainerKind
      <3> QED  BY <2>2, <3>1, <3>2, UnpackedTo DEF Tree
    <2>4. u = PutScalar(r.s, base, q, part.val)
      BY <1>2 DEF WritePart
    <2> HIDE DEF q
    <2>5. PutDone(r.s, base, q, u)
      BY <2>1, <2>2, <2>3, <2>4, PutLeafEffect
    <2> HIDE DEF u
    <2>6. ASSUME u.ok, NEW j \in 0..Len(p), Walk(s, base, p)[j] # NoKey
          PROVE  Walk(u.s, base, p)[j] = Walk(s, base, p)[j]
      <3>1. Walk(r.s, base, p)[j] = Walk(s, base, p)[j]
        BY <1>2, <2>6 DEF Filling
      <3>2. j \in 0..Len(q) - 1
        BY <2>1
      <3>3. \A x : Walk(x, base, p)[j] = Walk(x, base, q)[j]
        BY <2>1, <2>2, <3>2, ResolveLast
      <3>4. Walk(u.s, base, q)[j] = Walk(r.s, base, q)[j]
        BY <2>5, <2>6, <3>1, <3>2, <3>3 DEF PutDone
      <3> QED  BY <3>1, <3>3, <3>4
    <2>7. u.ok => HasKind(u.s, ResolveFrom(u.s, base, p), ContainerKind(isList))
      BY <2>1, <2>5 DEF PutDone
    <2>8. u.ok => Base(u.s, base)
      BY <2>2, <2>5 DEF PutDone, Base
    <2>9. Good(s, u)
      BY <1>2, <2>5 DEF PutDone, Filling, Good
    <2> QED  BY <2>6, <2>7, <2>8, <2>9 DEF Filling, u, q
  <1>3. r.ok \in BOOLEAN
    BY DEF Filling, Good
  <1> QED  BY <1>1, <1>2, <1>3

(* A document written node by node.                                        *)
LEMMA WriteValueEffect ==
  ASSUME NEW s, Tree(s), NEW base, Base(s, base), NEW p \in Seq(Segment),
         Unpacked(s, base, p), p = <<>> => base = ROOT, NEW d, Flat(d)
  PROVE  ValueDone(s, base, p, WriteValue(s, base, p, d))
  <1> DEFINE r == WriteValue(s, base, p, d)
  <1>1. base \in Nat
    BY DEF Base
  <1>2. CASE Is(d, "leaf")
    <2>1. r = PutScalar(s, base, p, d.val) /\ d.val \in Values
      BY <1>2, FlatIs DEF WriteValue
    <2>2. CASE p = <<>>
      <3>1. r = PutScalar(s, ROOT, <<>>, d.val)
        BY <2>1, <2>2
      <3>2. r.ok = TRUE /\ Tree(r.s) /\ (Full(s) => Full(r.s))
        BY <2>1, <3>1, PutRootEffect
      <3> QED  BY <2>2, <3>2 DEF ValueDone, Good
    <2>3. CASE p # <<>>
      <3>1. Unpacked(s, base, Front(p))
        BY <1>1, <2>3, UnpackedFront
      <3> QED  BY <2>1, <2>3, <3>1, PutLeafEffect, PutIsValue
    <2> QED  BY <2>2, <2>3
  <1>3. CASE ~Is(d, "leaf")
    <2> DEFINE segs == Segments(d)
               isList == Is(d, "list")
               c == EnsureContainer(s, base, p, isList)
               n == Len(segs)
    <2>1. r = WriteParts(c, base, p, d, segs)[n]
      BY <1>3 DEF WriteValue
    <2>2. /\ segs \in Seq(Segment) /\ n \in Nat
          /\ \A i \in 1..n : /\ segs[i] \in Segment /\ IsIndex(segs[i]) = isList
                             /\ Kid(d, segs[i]).val \in Values
      BY LeafParts, LenProperties, ElementOfSeq
    <2>3. isList \in BOOLEAN
      BY DEF Is
    <2> HIDE DEF segs, isList, n, r
    <2>4. /\ c.ok \in BOOLEAN
          /\ Tree(c.s)
          /\ c.ok => /\ Extends(s, c.s)
                     /\ Full(s) => Full(c.s)
                     /\ HasKind(c.s, c.key, ContainerKind(isList))
                     /\ Reached(c.s, c.key)
                     /\ ResolveFrom(c.s, base, p) = c.key
      BY <1>1, <2>3, EnsureEffect DEF Base
    <2> HIDE DEF c
    <2>5. Filling(s, base, p, isList, c)
      <3>1. c.ok => Base(c.s, base)
        <4> SUFFICES ASSUME c.ok PROVE Base(c.s, base)
          OBVIOUS
        <4>1. Reached(c.s, ROOT)
          BY <2>4, RootReached DEF Tree, Sound
        <4>2. CASE base = ROOT
          BY <1>1, <4>1, <4>2 DEF Base
        <4>3. CASE Live(s, base)
          BY <1>1, <2>4, <4>3 DEF Base, Extends, Live
        <4> QED  BY <4>2, <4>3 DEF Base
      <3>2. ASSUME c.ok, NEW j \in 0..Len(p), Walk(s, base, p)[j] # NoKey
            PROVE  Walk(c.s, base, p)[j] = Walk(s, base, p)[j]
        <4>1. j \in 0..j
          BY LenProperties
        <4> QED  BY <1>1, <2>4, <3>2, <4>1, ExtendsWalk DEF Tree
      <3> QED  BY <2>4, <3>1, <3>2 DEF Filling, Good
    <2>6. PICK g : /\ r = g[n]
                   /\ g[0] = c
                   /\ \A i \in 1..n :
                        g[i] = WritePart(g[i - 1], base, Append(p, segs[i]), Kid(d, segs[i]))
      BY <2>1, <2>2, PartsSteps DEF n
    <2> DEFINE S == {i \in Nat : i <= n => Filling(s, base, p, isList, g[i])}
    <2>7. 0 \in S
      BY <2>5, <2>6
    <2>8. ASSUME NEW i \in Nat, i \in S PROVE i + 1 \in S
      <3> SUFFICES ASSUME i + 1 <= n PROVE Filling(s, base, p, isList, g[i + 1])
        OBVIOUS
      <3>1. i + 1 \in 1..n /\ (i + 1) - 1 = i /\ Filling(s, base, p, isList, g[i])
        BY <2>2, <2>8
      <3>2. g[i + 1] = WritePart(g[i], base, Append(p, segs[i + 1]), Kid(d, segs[i + 1]))
        BY <2>6, <3>1
      <3> QED  BY <2>2, <3>1, <3>2, WritePartEffect
    <2> HIDE DEF S
    <2>9. Nat \subseteq S
      BY <2>7, <2>8, SetInduction
    <2>10. Filling(s, base, p, isList, r)
      BY <2>2, <2>6, <2>9 DEF S
    <2>11. r.ok => ResolveFrom(r.s, base, p) # NoKey
      BY <2>10, NoKeyIsNoNode DEF Filling, Good, Tree, Sound
    <2>12. \A j \in 0..Len(p) - 1 : j \in 0..Len(p)
      BY LenProperties
    <2> QED  BY <2>10, <2>11, <2>12 DEF Filling, ValueDone, r
  <1> QED  BY <1>2, <1>3

------------------------------------------------------------------------------
(* Removals                                                                *)

(* A walk meets its end once.                                              *)
LEMMA WalkOnce ==
  ASSUME NEW s, Sound(s), NEW base \in Nat, Reached(s, base), NEW q \in Seq(Segment),
         ResolveFrom(s, base, q) # NoKey, NEW i \in 1..Len(q)
  PROVE  Walk(s, base, q)[i - 1] # ResolveFrom(s, base, q)
  <1> DEFINE w == Walk(s, base, q)
             n == Len(q)
             k == w[n]
  <1>1. n \in Nat /\ n \in 0..Len(q) /\ n \in i..Len(q) /\ i \in 0..Len(q) /\ n \in 0..n /\ i \in 0..n
        /\ ResolveFrom(s, base, q) = k
    BY LenProperties DEF ResolveFrom
  <1>2. \A j \in 0..n : w[j] # NoKey
    BY <1>1, WalkThrough
  <1>3. /\ w[i] = ChildKey(s, w[i - 1], q[i]) /\ q[i] \in Segment /\ w[i] \in Nat /\ w[i] # NoKey
    BY <1>1, <1>2, WalkStep
  <1>4. Reached(s, k)
    BY <1>1, <1>2, WalkReached
  <1>5. w[i] \in Visited(s, {w[i]})
    BY VisitedFrom DEF Sound
  <1>6. k \in Visited(s, {w[i]})
    BY <1>1, <1>2, <1>5, WalkVisited
  <1> HIDE DEF w, k
  <1> SUFFICES ASSUME w[i - 1] = k PROVE FALSE
    BY <1>1 DEF w
  <1>7. w[i] = ChildKey(s, k, q[i])
    BY <1>3
  <1> QED  BY <1>3, <1>4, <1>6, <1>7, NoCycle

(* The way to a node is not deleted with a child of it.                    *)
LEMMA WayKept ==
  ASSUME NEW s, Tree(s), NEW base \in Nat, Reached(s, base), NEW q \in Seq(Segment),
         NEW k, ResolveFrom(s, base, q) = k, k # NoKey,
         NEW seg \in Segment, ChildKey(s, k, seg) # NoKey,
         NEW t, Pruned(s, t, Visited(s, {ChildKey(s, k, seg)}))
  PROVE  \A i \in 0..Len(q) : Walk(t, base, q)[i] = Walk(s, base, q)[i]
  <1> DEFINE w == Walk(s, base, q)
             gone == Visited(s, {ChildKey(s, k, seg)})
             n == Len(q)
  <1>1. n \in Nat /\ n \in 0..Len(q) /\ n \in 0..n /\ w[n] = k /\ Sound(s)
    BY LenProperties DEF ResolveFrom, Tree
  <1>2. \A i \in 0..n : w[i] # NoKey
    BY <1>1, WalkThrough
  <1>3. k \notin gone
    <2>1. Reached(s, k)
      BY <1>1, <1>2, WalkReached
    <2> QED  BY <1>1, <2>1, NoCycle
  <1>4. ASSUME NEW i \in 0..n PROVE w[i] \notin gone
    <2>1. n \in i..Len(q) /\ i \in 0..Len(q)
      BY <1>1
    <2> QED  BY <1>1, <1>2, <1>3, <2>1, WalkVisited
  <1>5. ASSUME NEW i \in 1..n
        PROVE  ChildKey(t, w[i - 1], q[i]) = ChildKey(s, w[i - 1], q[i])
    <2>1. i \in 0..n /\ i - 1 \in 0..n /\ i \in 1..Len(q)
      BY <1>1
    <2>2. q[i] \in Segment /\ w[i - 1] \in Nat
      BY <1>1, <1>2, <2>1, WalkStep, WalkHolder
    <2>3. w[i - 1] \notin gone
      BY <1>4, <2>1
    <2> HIDE DEF w, gone
    <2> QED  BY <2>2, <2>3 DEF Pruned, gone
  <1>6. \A i \in 1..n : Walk(s, base, q)[i - 1] # NoKey =>
          ChildKey(t, Walk(s, base, q)[i - 1], q[i]) = ChildKey(s, Walk(s, base, q)[i - 1], q[i])
    BY <1>5
  <1> QED  BY <1>1, <1>6, WalksAgree

(* Whether the removal of p moves nothing to p.                            *)
Unshifted(s, p) ==
  p # <<>> /\ IsIndex(Last(p)) /\ ResolveFrom(s, ROOT, p) # NoKey =>
    ChildKey(s, ResolveFrom(s, ROOT, Front(p)), Index(Last(p).index + 1)) = NoKey

(* The way to p's parent has no packed entity.                             *)
WayClear(s, p) == p # <<>> => Unpacked(s, ROOT, Front(p))

(* Writes may start at the root.                                           *)
LEMMA RootIsBase ==
  ASSUME NEW s, Tree(s)
  PROVE  Base(s, ROOT) /\ ROOT \in Nat /\ Reached(s, ROOT) /\ Sound(s) /\ Shape(s) /\ ROOT # NoKey
  BY RootReached DEF Base, ROOT, Tree, Sound, NoKey

(* The empty path leads to the root, which is not packed.                  *)
LEMMA EmptyPath ==
  ASSUME NEW s, Tree(s)
  PROVE  /\ <<>> \in Seq(Segment) /\ Len(<<>>) = 0
         /\ ResolveFrom(s, ROOT, <<>>) = ROOT
         /\ Unpacked(s, ROOT, <<>>)
  <1>1. <<>> \in Seq(Segment) /\ Len(<<>>) = 0
    BY EmptySeq
  <1>2. Walk(s, ROOT, <<>>)[0] = ROOT
    <2>1. \A p \in Seq(Segment) : Walk(s, ROOT, p)[0] = ROOT
      BY WalkSteps
    <2> QED  BY <1>1, <2>1, Zenon
  <1> QED  BY <1>1, <1>2, RootIsBase DEF Unpacked, ResolveFrom, Shape

(* RemovePath leaves a tree with nothing lost, and no packed entity at p   *)
(* when no element has moved there.                                        *)
LEMMA RemoveEffect ==
  ASSUME NEW s, Tree(s), NEW p \in Seq(Segment)
  PROVE  LET r == RemovePath(s, p)
         IN  /\ r.ok = TRUE
             /\ Good(s, r)
             /\ WayClear(s, p) => WayClear(r.s, p)
             /\ WayClear(s, p) /\ Unshifted(s, p) => Unpacked(r.s, ROOT, p)
  <1> DEFINE r == RemovePath(s, p)
             k == ResolveFrom(s, ROOT, Front(p))
             seg == Last(p)
             c == ResolveFrom(s, ROOT, p)
  <1>1. Sound(s) /\ Shape(s) /\ ROOT \in Nat /\ Reached(s, ROOT)
    BY RootIsBase
  <1>2. CASE c = NoKey
    <2>1. r = Done(s, NoKey)
      BY <1>2 DEF RemovePath
    <2>2. r.ok = TRUE /\ r.s = s
      BY <2>1 DEF Done
    <2>3. p # <<>>
      BY <1>2, EmptyPath, RootIsBase
    <2>4. WayClear(s, p) => Unpacked(s, ROOT, p)
      BY <1>1, <1>2, <2>3, UnpackedFront, NoKeyIsNoNode DEF WayClear
    <2> HIDE DEF r
    <2> QED  BY <2>2, <2>4 DEF r, Good
  <1>3. CASE p = <<>>
    <2> DEFINE t == CascadeDelete(s, ROOT)
    <2>1. c = ROOT /\ ROOT # NoKey
      BY <1>3, EmptyPath, RootIsBase
    <2>2. r = Done(t, NoKey)
      BY <1>3, <2>1 DEF RemovePath, CutAt, Unlinked
    <2>3. r.ok = TRUE /\ r.s = t
      BY <2>2 DEF Done
    <2>4. Tree(t) /\ (Full(s) => DOMAIN t.node = {})
      BY DeleteRootEffect
    <2> HIDE DEF t, r
    <2>5. Unpacked(t, ROOT, p)
      BY <1>3, <2>4, EmptyPath
    <2>6. Full(s) => Full(t)
      BY <2>4 DEF Full
    <2> QED  BY <1>3, <2>3, <2>4, <2>5, <2>6 DEF r, Good, WayClear
  <1>4. CASE c # NoKey /\ p # <<>>
    <2> DEFINE t == CascadeDelete(s, ChildKey(s, k, seg))
               gone == Visited(s, {ChildKey(s, k, seg)})
    <2>1. Front(p) \in Seq(Segment) /\ seg \in Segment /\ k # NoKey /\ c = ChildKey(s, k, seg)
      BY <1>4, PathFront, ResolveLast
    <2>2. Reached(s, k)
      <3>1. Len(Front(p)) \in 0..Len(Front(p)) /\ Walk(s, ROOT, Front(p))[Len(Front(p))] = k
        BY <2>1, LenProperties DEF ResolveFrom
      <3> QED  BY <1>1, <2>1, <3>1, WalkReached
    <2>3. /\ k \in Nat /\ k \notin gone
          /\ Pruned(s, t, gone)
          /\ TreeBut(t, k, seg)
          /\ Full(s) => Full(t)
      BY <1>4, <2>1, <2>2, DeleteChildEffect
    <2>4. Holder(s, k, seg)
      BY <1>1, <1>4, <2>1, <2>3 DEF Sound
    <2>5. Holder(t, k, seg)
      BY <2>3, <2>4 DEF Pruned, Holder
    <2>6. \A i \in 0..Len(Front(p)) : Walk(t, ROOT, Front(p))[i] = Walk(s, ROOT, Front(p))[i]
      BY <1>1, <1>4, <2>1, <2>3, WayKept
    <2>7. ResolveFrom(t, ROOT, Front(p)) = k
      <3>1. Len(Front(p)) \in 0..Len(Front(p))
        BY <2>1, LenProperties
      <3> QED  BY <2>6, <3>1 DEF ResolveFrom
    <2>8. r = DetachChild(t, k, seg)
      <3>1. r = CutAt(t, p)
        BY <1>4, <2>1 DEF RemovePath
      <3> HIDE DEF t, r
      <3> QED  BY <1>4, <2>1, <2>7, <3>1 DEF CutAt, Unlinked
    <2> HIDE DEF t, gone, r
    <2>9. Shape(t) /\ Sound(t)
      BY <2>3 DEF TreeBut, Sound
    <2>10. r.ok = TRUE /\ Shape(r.s) /\ Unhooked(t, r.s, k, seg)
      BY <2>1, <2>3, <2>5, <2>8, <2>9, DetachEffect
    <2>11. Tree(r.s) /\ (Full(t) => Full(r.s))
      BY <2>1, <2>3, <2>5, <2>10, UnhookedTree
    <2>12. Reached(t, ROOT)
      BY <2>9, RootReached
    <2>13. ASSUME NEW i \in 1..Len(Front(p)), Walk(t, ROOT, Front(p))[i - 1] # NoKey
           PROVE  ChildKey(r.s, Walk(t, ROOT, Front(p))[i - 1], Front(p)[i])
                    = ChildKey(t, Walk(t, ROOT, Front(p))[i - 1], Front(p)[i])
      <3>1. Walk(t, ROOT, Front(p))[i - 1] # k
        BY <1>1, <2>1, <2>7, <2>9, <2>12, WalkOnce
      <3>2. Front(p)[i] \in Segment /\ i - 1 \in 0..Len(Front(p))
        BY <2>1, ElementOfSeq, LenProperties
      <3>3. Walk(t, ROOT, Front(p))[i - 1] \in Nat
        BY <1>1, <2>1, <2>9, <2>13, <3>2, WalkType
      <3> QED  BY <2>10, <3>1, <3>2, <3>3 DEF Unhooked
    <2>14. ResolveFrom(r.s, ROOT, Front(p)) = k
      <3>1. Len(Front(p)) \in 0..Len(Front(p))
        BY <2>1, LenProperties
      <3>2. \A i \in 0..Len(Front(p)) : Walk(r.s, ROOT, Front(p))[i] = Walk(t, ROOT, Front(p))[i]
        BY <2>1, <2>13, <3>1, WalksAgree
      <3> QED  BY <2>7, <3>1, <3>2 DEF ResolveFrom
    <2>15. Holder(r.s, k, seg)
      BY <2>5, <2>10 DEF Unhooked, Holder
    <2>16. Unpacked(r.s, ROOT, Front(p))
      <3>1. ~HasKind(r.s, k, "packed")
        BY <2>15 DEF Holder, HasKind
      <3>2. Sound(r.s)
        BY <2>11 DEF Tree
      <3> QED  BY <1>1, <2>1, <2>14, <3>1, <3>2, UnpackedTo
    <2>17. ASSUME Unshifted(s, p) PROVE ChildKey(r.s, k, seg) = NoKey
      <3>1. CASE IsName(seg)
        BY <2>1, <2>10, <3>1 DEF Unhooked
      <3>2. CASE ~IsName(seg)
        <4>1. IsIndex(seg) /\ seg.index \in Nat /\ seg.index >= seg.index
          BY <2>1, <3>2, SegmentKinds DEF IsName
        <4>2. ChildKey(r.s, k, seg) = ChildKey(t, k, Index(seg.index + 1))
          BY <2>1, <2>10, <3>2, <4>1 DEF Unhooked
        <4>3. Index(seg.index + 1) \in Segment
          BY <4>1, IndexSegment
        <4>4. ChildKey(t, k, Index(seg.index + 1)) = ChildKey(s, k, Index(seg.index + 1))
          BY <2>3, <4>3 DEF Pruned
        <4> QED  BY <1>4, <2>17, <4>1, <4>2, <4>4 DEF Unshifted
      <3> QED  BY <3>1, <3>2
    <2>18. ASSUME Unshifted(s, p) PROVE Unpacked(r.s, ROOT, p)
      <3>1. ResolveFrom(r.s, ROOT, p) = NoKey
        BY <1>4, <2>14, <2>17, <2>18, ResolveLast
      <3>2. Shape(r.s)
        BY <2>11 DEF Tree, Sound
      <3> QED  BY <1>1, <1>4, <2>16, <3>1, <3>2, UnpackedFront, NoKeyIsNoNode
    <2> QED  BY <1>4, <2>3, <2>10, <2>11, <2>16, <2>18 DEF r, Good, WayClear
  <1> QED  BY <1>2, <1>3, <1>4

------------------------------------------------------------------------------
(* Packed entities                                                         *)

(* t is s with n under k, which has no children before and after.          *)
Overwrote(s, t, k, n) ==
  /\ DOMAIN t.node = DOMAIN s.node \cup {k}
  /\ t.node[k] = n
  /\ \A m \in DOMAIN s.node : m # k => t.node[m] = s.node[m]
  /\ \A m, kind : m # k => (HasKind(t, m, kind) <=> HasKind(s, m, kind))
  /\ \A kind : HasKind(t, k, kind) <=> n.kind = kind
  /\ \A m \in Nat, tag \in Segment : ChildKey(t, m, tag) = ChildKey(s, m, tag)
  /\ \A m : Reached(s, m) => Reached(t, m)

(* A node without children gives way to another one: no other node is      *)
(* affected.                                                               *)
LEMMA OverwriteEffect ==
  ASSUME NEW s, Tree(s), NEW k \in Nat, NEW n, Bare(n), k = ROOT => n.kind # "packed",
         \A tag \in Segment : ChildKey(s, k, tag) = NoKey
  PROVE  LET t == WriteNode(s, k, n)
         IN  /\ Tree(t) /\ Overwrote(s, t, k, n)
             /\ Full(s) /\ (Live(s, k) \/ Reached(s, k)) => Full(t)
  <1> DEFINE t == WriteNode(s, k, n)
  <1>1. Shape(t) /\ Wrote(s, t, k, n)
    BY WriteNodeEffect DEF Bare, Tree, Sound
  <1> HIDE DEF t
  <1>2. \A m \in Nat, tag \in Segment : ChildKey(t, m, tag) = ChildKey(s, m, tag)
    <2>1. ASSUME NEW tag \in Segment, ~IsName(tag)
          PROVE  ChildKey(t, k, tag) = NoKey
      <3>1. tag.index \in Nat
        BY <2>1, SegmentKinds DEF IsName
      <3>2. ~(n.kind = "list" /\ tag.index < Len(n.items))
        BY <3>1, EmptySeq DEF Bare
      <3> QED  BY <1>1, <2>1, <3>2 DEF Wrote
    <2> QED  BY <1>1, <2>1 DEF Wrote
  <1>3. \A m, kind : m # k => (HasKind(t, m, kind) <=> HasKind(s, m, kind))
    BY <1>1 DEF Wrote
  <1>4. ASSUME NEW m \in Nat, NEW tag \in Segment, ChildKey(t, m, tag) # NoKey
        PROVE  Holder(t, m, tag)
    <2>1. ChildKey(s, m, tag) # NoKey /\ m # k
      BY <1>2, <1>4
    <2>2. Holder(s, m, tag)
      BY <2>1 DEF Tree, Sound
    <2> QED  BY <1>3, <2>1, <2>2 DEF Holder
  <1>5. Sound(t)
    BY <1>1, <1>2, <1>4 DEF Tree, Sound
  <1>6. Tree(t)
    BY <1>1, <1>2, <1>5 DEF Tree, Wrote
  <1>7. \A m : Reached(s, m) => Reached(t, m)
    <2>1. \A m \in Nat, tag \in Segment :
            Reached(t, m) /\ ChildKey(s, m, tag) # NoKey => Reached(t, ChildKey(s, m, tag))
      BY <1>2, <1>5, ReachedChild
    <2>2. Sound(s) /\ {} \in SUBSET Nat
      BY DEF Tree
    <2> QED  BY <1>5, <2>1, <2>2, ReachedStill
  <1>8. Overwrote(s, t, k, n)
    BY <1>1, <1>2, <1>3, <1>7 DEF Overwrote, Wrote
  <1>9. Full(s) /\ (Live(s, k) \/ Reached(s, k)) => Full(t)
    BY <1>1, <1>7 DEF Full, Reached, Live, Wrote
  <1> QED  BY <1>6, <1>8, <1>9 DEF t

(* A packed entity has no children and is not the root.                    *)
LEMMA PackedIsBare ==
  ASSUME NEW s, Tree(s), NEW k, HasKind(s, k, "packed")
  PROVE  /\ k \in Nat \ {ROOT} /\ Live(s, k) /\ Flat(s.node[k].doc)
         /\ \A tag \in Segment : ChildKey(s, k, tag) = NoKey
  <1>1. k \in Nat /\ Live(s, k) /\ k # ROOT /\ Flat(s.node[k].doc)
    BY DEF Tree, Sound, Shape, HasKind, Live, NodeOK
  <1>2. \A tag \in Segment : ~Holder(s, k, tag)
    BY DEF Holder, HasKind
  <1> QED  BY <1>1, <1>2 DEF Tree, Sound

(* A packed entity has nothing below it.                                   *)
LEMMA PackedNodeBare ==
  ASSUME NEW d, Flat(d)
  PROVE  Bare(PackedNode(d)) /\ PackedNode(d).kind = "packed"
  BY DEF Bare, NodeOK, PackedNode

(* A packed entity gets another document.                                  *)
LEMMA RepackEffect ==
  ASSUME NEW s, Tree(s), NEW k, HasKind(s, k, "packed"), NEW d, Flat(d)
  PROVE  LET t == WriteNode(s, k, PackedNode(d))
         IN  Tree(t) /\ Extends(s, t) /\ (Full(s) => Full(t))
  <1> DEFINE t == WriteNode(s, k, PackedNode(d))
  <1>1. k \in Nat /\ k # ROOT /\ Live(s, k) /\ \A tag \in Segment : ChildKey(s, k, tag) = NoKey
    BY PackedIsBare
  <1>2. Bare(PackedNode(d)) /\ PackedNode(d).kind = "packed"
    BY PackedNodeBare
  <1>3. Tree(t) /\ Overwrote(s, t, k, PackedNode(d)) /\ (Full(s) => Full(t))
    BY <1>1, <1>2, OverwriteEffect
  <1> HIDE DEF t
  <1>4. \A m, kind : HasKind(t, m, kind) <=> HasKind(s, m, kind)
    BY <1>2, <1>3 DEF Overwrote, HasKind
  <1>5. Extends(s, t)
    BY <1>3, <1>4 DEF Extends, Overwrote
  <1> QED  BY <1>3, <1>5 DEF t

(* A packed child of k, in the place of the packed one that is there or of *)
(* any other.                                                              *)
LEMMA StorePackedUnderEffect ==
  ASSUME NEW parent, parent.ok, Tree(parent.s), Reached(parent.s, parent.key),
         NEW seg \in Segment, Holder(parent.s, parent.key, seg), NEW d, Flat(d)
  PROVE  LET r == StorePackedUnder(parent, seg, d)
         IN  /\ Good(parent.s, r)
             /\ r.ok => \/ Extends(parent.s, r.s)
                        \/ Replaced(parent.s, r.s, parent.key, seg, r.key, PackedNode(d),
                                    Dropped(parent.s, parent.key, seg))
  <1> DEFINE s == parent.s
             old == ChildKey(s, parent.key, seg)
             r == StorePackedUnder(parent, seg, d)
  <1>1. CASE HasKind(s, old, "packed")
    <2> DEFINE t == WriteNode(s, old, PackedNode(d))
    <2>1. r = Done(t, old)
      BY <1>1 DEF StorePackedUnder
    <2>2. r.ok = TRUE /\ r.s = t
      BY <2>1 DEF Done
    <2>3. Tree(t) /\ Extends(s, t) /\ (Full(s) => Full(t))
      BY <1>1, RepackEffect
    <2> HIDE DEF t, r
    <2> QED  BY <2>2, <2>3 DEF r, Good
  <1>2. CASE ~HasKind(s, old, "packed")
    <2>1. r = ReplaceChild(parent, seg, PackedNode(d))
      BY <1>2 DEF StorePackedUnder
    <2>2. Bare(PackedNode(d))
      BY PackedNodeBare
    <2> HIDE DEF r
    <2>3. /\ r.ok \in BOOLEAN
          /\ Tree(r.s)
          /\ r.ok => /\ Replaced(s, r.s, parent.key, seg, r.key, PackedNode(d),
                                  Dropped(s, parent.key, seg))
                     /\ Full(s) => Full(r.s)
      BY <2>1, <2>2, ReplaceChildEffect
    <2> QED  BY <2>3 DEF r, Good
  <1> QED  BY <1>1, <1>2

(* The container of p, found or made.                                      *)
LEMMA EnsureParentEffect ==
  ASSUME NEW s, Tree(s), NEW p \in Seq(Segment), p # <<>>, Unpacked(s, ROOT, Front(p))
  PROVE  LET r == EnsureParent(s, ROOT, p)
         IN  /\ Good(s, r)
             /\ r.ok => /\ Extends(s, r.s)
                        /\ Holder(r.s, r.key, Last(p))
                        /\ Reached(r.s, r.key)
                        /\ ResolveFrom(r.s, ROOT, Front(p)) = r.key
                        /\ ChildKey(r.s, r.key, Last(p)) = ResolveFrom(s, ROOT, p)
  <1> DEFINE r == EnsureParent(s, ROOT, p)
  <1>1. r = EnsureContainer(s, ROOT, Front(p), IsIndex(Last(p)))
    BY DEF EnsureParent
  <1>2. Front(p) \in Seq(Segment) /\ Last(p) \in Segment /\ IsIndex(Last(p)) \in BOOLEAN
    BY PathFront, IsIndexType
  <1> HIDE DEF r
  <1>3. /\ r.ok \in BOOLEAN
        /\ Tree(r.s)
        /\ r.ok => /\ Extends(s, r.s)
                   /\ Full(s) => Full(r.s)
                   /\ HasKind(r.s, r.key, ContainerKind(IsIndex(Last(p))))
                   /\ Reached(r.s, r.key)
                   /\ ResolveFrom(r.s, ROOT, Front(p)) = r.key
                   /\ \A seg \in Segment :
                        ChildKey(r.s, r.key, seg) =
                          IF ResolveFrom(s, ROOT, Front(p)) # NoKey
                          THEN ChildKey(s, ResolveFrom(s, ROOT, Front(p)), seg) ELSE NoKey
    BY <1>1, <1>2, EnsureEffect, RootIsBase
  <1>4. ResolveFrom(s, ROOT, p) =
          IF ResolveFrom(s, ROOT, Front(p)) = NoKey THEN NoKey
          ELSE ChildKey(s, ResolveFrom(s, ROOT, Front(p)), Last(p))
    BY ResolveLast
  <1>5. r.ok => ChildKey(r.s, r.key, Last(p)) = ResolveFrom(s, ROOT, p)
    BY <1>2, <1>3, <1>4
  <1> QED  BY <1>3, <1>5 DEF r, Good, Holder, ContainerKind

(* A good step after a good step.                                          *)
LEMMA GoodOn ==
  ASSUME NEW s, NEW r, NEW q, Good(s, r), r.ok, Good(r.s, q)
  PROVE  Good(s, q)
  BY DEF Good

(* A document in the place of what p leads to.                             *)
LEMMA ReplaceInEffect ==
  ASSUME NEW s, Tree(s), NEW p \in Seq(Segment), WayClear(s, p), Unshifted(s, p),
         NEW d, Flat(d)
  PROVE  Good(s, ReplaceIn(s, p, d))
  <1> DEFINE x == RemovePath(s, p)
             u == x.s
             r == StoreFresh(u, p, d)
  <1>1. ReplaceIn(s, p, d) = r
    BY DEF ReplaceIn
  <1>2. x.ok = TRUE /\ Good(s, x) /\ WayClear(u, p) /\ Unpacked(u, ROOT, p)
    BY RemoveEffect
  <1>3. Tree(u)
    BY <1>2 DEF Good
  <1> HIDE DEF x, u
  <1>4. Good(u, r)
    <2>1. CASE p = <<>>
      <3>1. r = WriteValue(u, ROOT, p, d)
        BY <2>1 DEF StoreFresh
      <3> HIDE DEF r
      <3> QED  BY <1>2, <1>3, <2>1, <3>1, WriteValueEffect, RootIsBase DEF ValueDone
    <2> DEFINE up == EnsureParent(u, ROOT, p)
    <2>2. ASSUME p # <<>>
          PROVE  /\ Good(u, up)
                 /\ up.ok => /\ Extends(u, up.s)
                             /\ Holder(up.s, up.key, Last(p))
                             /\ Reached(up.s, up.key)
                             /\ ChildKey(up.s, up.key, Last(p)) = ResolveFrom(u, ROOT, p)
                 /\ Last(p) \in Segment
      BY <1>2, <1>3, <2>2, EnsureParentEffect, PathFront DEF WayClear
    <2>3. CASE p # <<>> /\ p \notin shredded
      <3>1. r = StorePackedUnder(up, Last(p), d)
        BY <2>3 DEF StoreFresh, StorePacked
      <3> HIDE DEF r, up
      <3>2. CASE up.ok
        <4>1. Good(up.s, r)
          BY <2>2, <2>3, <3>1, <3>2, StorePackedUnderEffect DEF Good
        <4> QED  BY <2>2, <2>3, <3>2, <4>1, GoodOn
      <3>3. CASE ~up.ok
        <4>1. r = up
          BY <3>1, <3>3 DEF StorePackedUnder, ReplaceChild
        <4> QED  BY <2>2, <2>3, <4>1
      <3> QED  BY <3>2, <3>3
    <2>4. CASE p # <<>> /\ p \in shredded
      <3>1. r = WriteBelow(up, Last(p), d)
        BY <2>4 DEF StoreFresh
      <3> HIDE DEF r, up
      <3>2. CASE up.ok
        <4> DEFINE q == <<Last(p)>>
        <4>1. r = WriteValue(up.s, up.key, q, d)
          BY <3>1, <3>2 DEF WriteBelow
        <4>2. Tree(up.s) /\ Sound(up.s) /\ Shape(up.s)
          BY <2>2, <2>4 DEF Good, Tree, Sound
        <4>3. Base(up.s, up.key) /\ up.key \in Nat /\ up.key # NoKey
          BY <2>2, <2>4, <3>2, <4>2 DEF Base, Holder, HasKind, Live, Shape, NoKey
        <4>4. q \in Seq(Segment) /\ q # <<>> /\ Len(q) = 1 /\ q[1] = Last(p)
          BY <2>2, <2>4
        <4> HIDE DEF q
        <4>5. Walk(up.s, up.key, q)[0] = up.key /\ Walk(up.s, up.key, q)[1] = ResolveFrom(u, ROOT, p)
          <5>1. 1 \in 1..Len(q) /\ 1 - 1 = 0
            BY <4>4
          <5>2. /\ Walk(up.s, up.key, q)[0] = up.key
                /\ Walk(up.s, up.key, q)[1] =
                     IF Walk(up.s, up.key, q)[0] = NoKey THEN NoKey
                     ELSE ChildKey(up.s, Walk(up.s, up.key, q)[0], q[1])
            BY <4>4, <5>1, WalkSteps
          <5> QED  BY <2>2, <2>4, <3>2, <4>3, <4>4, <5>2
        <4>6. ~HasKind(up.s, up.key, "packed")
          BY <2>2, <2>4, <3>2 DEF Holder, HasKind
        <4>7. ~HasKind(up.s, ResolveFrom(u, ROOT, p), "packed")
          <5>1. CASE ResolveFrom(u, ROOT, p) = NoKey
            BY <4>2, <5>1, NoKeyIsNoNode
          <5>2. CASE ResolveFrom(u, ROOT, p) # NoKey
            <6>1. ResolveFrom(u, ROOT, p) \in DOMAIN u.node
              <7>1. ResolveFrom(u, ROOT, p) = ChildKey(u, ResolveFrom(u, ROOT, Front(p)), Last(p))
                    /\ ResolveFrom(u, ROOT, Front(p)) # NoKey
                BY <2>4, <5>2, ResolveLast
              <7>2. ResolveFrom(u, ROOT, Front(p)) \in Nat
                <8>1. Front(p) \in Seq(Segment) /\ Len(Front(p)) \in 0..Len(Front(p))
                  BY <2>4, PathFront, LenProperties
                <8> QED  BY <1>3, <7>1, <8>1, WalkType, RootIsBase DEF ResolveFrom
              <7> QED  BY <1>3, <2>2, <2>4, <5>2, <7>1, <7>2 DEF Tree
            <6>2. ~HasKind(u, ResolveFrom(u, ROOT, p), "packed")
              <7>1. Len(p) \in 0..Len(p)
                BY LenProperties
              <7> QED  BY <1>2, <7>1 DEF Unpacked, ResolveFrom
            <6> QED  BY <2>2, <2>4, <3>2, <6>1, <6>2 DEF Extends
          <5> QED  BY <5>1, <5>2
        <4>8. Unpacked(up.s, up.key, q)
          <5>1. \A i \in 0..Len(q) : i = 0 \/ i = 1
            BY <4>4
          <5> QED  BY <4>5, <4>6, <4>7, <5>1 DEF Unpacked
        <4>9. Good(up.s, r)
          BY <4>1, <4>2, <4>3, <4>4, <4>8, WriteValueEffect DEF ValueDone
        <4> QED  BY <2>2, <2>4, <3>2, <4>9, GoodOn
      <3>3. CASE ~up.ok
        <4>1. r = up
          BY <3>1, <3>3 DEF WriteBelow
        <4> QED  BY <2>2, <2>4, <4>1
      <3> QED  BY <3>2, <3>3
    <2> QED  BY <2>1, <2>3, <2>4
  <1> HIDE DEF r
  <1> QED  BY <1>1, <1>2, <1>4, GoodOn DEF u

------------------------------------------------------------------------------
(* Where a path leads                                                      *)

(* A set of numbers has a least member.                                    *)
LEMMA LeastIn ==
  ASSUME NEW A \in SUBSET Nat, A # {}
  PROVE  Min(A) \in A /\ \A x \in A : Min(A) <= x
  <1>1. \E m \in A : \A x \in A : m <= x
    <2> SUFFICES ASSUME \A m \in A : \E x \in A : ~(m <= x) PROVE FALSE
      OBVIOUS
    <2> DEFINE S == {n \in Nat : \A x \in A : n <= x}
    <2>1. 0 \in S
      OBVIOUS
    <2>2. ASSUME NEW n \in Nat, n \in S PROVE n + 1 \in S
      <3>1. n \notin A
        BY <2>2
      <3>2. ASSUME NEW x \in A PROVE n + 1 <= x
        <4>1. n <= x /\ n # x /\ x \in Nat
          BY <2>2, <3>1
        <4> QED  BY <4>1
      <3> QED  BY <3>2
    <2> HIDE DEF S
    <2>3. Nat \subseteq S
      BY <2>1, <2>2, SetInduction
    <2>4. PICK x \in A : x \in Nat
      OBVIOUS
    <2>5. x + 1 \in S
      BY <2>3, <2>4
    <2>6. x + 1 <= x
      BY <2>5 DEF S
    <2> QED  BY <2>4, <2>6
  <1> QED  BY <1>1 DEF Min

(* What a place is: no entity is on the way, or p leads to one, or into it.*)
NoEntity(s, p, at) ==
  /\ at.at # "packed"
  /\ Unpacked(s, ROOT, p)
  /\ p # <<>> /\ ResolveFrom(s, ROOT, p) # NoKey => at # Missing

(* The place is a packed entity under the root.                            *)
AnEntity(s, at) == at.at = "packed" /\ HasKind(s, at.key, "packed") /\ Reached(s, at.key)

(* p leads to the entity.                                                  *)
ToEntity(s, p, at) ==
  /\ AnEntity(s, at) /\ at.rel = <<>> /\ at.key = ResolveFrom(s, ROOT, p)
  /\ p # <<>> /\ Unpacked(s, ROOT, Front(p))

(* p leads into it.                                                        *)
IntoEntity(s, p, at) ==
  /\ AnEntity(s, at) /\ at.rel # <<>> /\ at.rel \in Seq(Segment)
  /\ Len(at.rel) <= Len(p) - 1

(* A walk through a tree is at live nodes, but for an absent root.         *)
LEMMA WalkLive ==
  ASSUME NEW s, Tree(s), NEW p \in Seq(Segment), NEW j \in 0..Len(p),
         Walk(s, ROOT, p)[j] # NoKey, NEW i \in 0..j, i # j \/ j # 0
  PROVE  Live(s, Walk(s, ROOT, p)[i])
  <1>1. j \in Nat /\ i \in Nat /\ Len(p) \in Nat /\ i <= j /\ j <= Len(p)
    BY LenProperties
  <1>2. CASE i # j
    <2>1. i + 1 \in 1..Len(p) /\ i + 1 \in 0..j /\ (i + 1) - 1 = i
      BY <1>1, <1>2
    <2>2. Walk(s, ROOT, p)[i + 1] # NoKey
      BY <2>1, WalkThrough
    <2>3. Holder(s, Walk(s, ROOT, p)[(i + 1) - 1], p[i + 1])
      BY <2>1, <2>2, WalkHolder, RootIsBase
    <2> QED  BY <2>1, <2>3 DEF Holder, HasKind
  <1>3. CASE i = j
    <2>1. i \in 1..Len(p) /\ Walk(s, ROOT, p)[i] # NoKey
      BY <1>1, <1>3
    <2>2. Walk(s, ROOT, p)[i] = ChildKey(s, Walk(s, ROOT, p)[i - 1], p[i]) /\ p[i] \in Segment
          /\ Walk(s, ROOT, p)[i - 1] \in Nat
      BY <2>1, WalkStep, WalkHolder, RootIsBase
    <2> QED  BY <2>1, <2>2 DEF Tree, Live
  <1> QED  BY <1>2, <1>3

(* Locate finds what the walk meets: no entity at all, an entity at the    *)
(* end of the path, or one before its end, with the rest of the path.      *)
LEMMA PlaceIs ==
  ASSUME NEW s, Tree(s), NEW p \in Seq(Segment)
  PROVE  LET at == Locate(s, p)
         IN  NoEntity(s, p, at) \/ ToEntity(s, p, at) \/ IntoEntity(s, p, at)
  <1> DEFINE w == Walk(s, ROOT, p)
             n == Len(p)
             packed == {i \in 0..n : HasKind(s, w[i], "packed")}
             lost == {i \in 0..n : ~Live(s, w[i])}
             at == Locate(s, p)
             j == Min(packed)
  <1>1. n \in Nat /\ w[0] = ROOT /\ ROOT \in Nat /\ Sound(s) /\ Shape(s) /\ Reached(s, ROOT)
    BY WalkSteps, RootIsBase
  <1>2. at = IF packed # {} /\ \A i \in lost : j < i
             THEN [at |-> "packed", key |-> w[j], rel |-> SubSeq(p, j + 1, n)]
             ELSE IF lost = {} THEN [at |-> "plain", key |-> w[n]]
             ELSE Missing
    BY DEF Locate, PlaceOn
  <1>3. CASE packed = {}
    <2>1. Unpacked(s, ROOT, p)
      BY <1>3 DEF Unpacked
    <2>2. ASSUME p # <<>>, ResolveFrom(s, ROOT, p) # NoKey
          PROVE  lost = {}
      <3>1. n \in 0..n /\ w[n] # NoKey /\ n # 0
        BY <1>1, <2>2, EmptySeq DEF ResolveFrom
      <3>2. \A i \in 0..n : Live(s, w[i])
        BY <3>1, WalkLive
      <3> QED  BY <3>2
    <2> HIDE DEF packed, lost, at, w
    <2>3. lost = {} => at = [at |-> "plain", key |-> w[n]]
      BY <1>2, <1>3
    <2>4. lost # {} => at = Missing
      BY <1>2, <1>3
    <2>5. lost = {} => at.at = "plain" /\ at # Missing
      BY <2>3 DEF Missing
    <2>6. lost # {} => at.at = "missing"
      BY <2>4 DEF Missing
    <2>7. at.at # "packed"
      BY <2>5, <2>6
    <2> QED  BY <2>1, <2>2, <2>5, <2>7 DEF NoEntity, at
  <1>4. CASE packed # {}
    <2>1. j \in packed /\ \A i \in packed : j <= i
      <3>1. packed \in SUBSET Nat
        BY <1>1
      <3> HIDE DEF packed
      <3> QED  BY <1>4, <3>1, LeastIn
    <2> HIDE DEF j
    <2>2. j \in 1..n /\ j \in 0..n /\ HasKind(s, w[j], "packed") /\ w[j] # NoKey
      <3>1. j # 0
        BY <1>1, <2>1 DEF Shape
      <3> QED  BY <1>1, <2>1, <3>1, NoKeyIsNoNode
    <2>3. \A i \in lost : j < i
      <3> SUFFICES ASSUME NEW i \in 0..n, i <= j PROVE Live(s, w[i])
        BY <1>1, <2>2
      <3>1. i \in 0..j /\ j # 0
        BY <1>1, <2>2
      <3> QED  BY <2>2, <3>1, WalkLive
    <2>4. at = [at |-> "packed", key |-> w[j], rel |-> SubSeq(p, j + 1, n)]
      BY <1>2, <1>4, <2>3
    <2>5. at.at = "packed" /\ at.key = w[j] /\ at.rel = SubSeq(p, j + 1, n)
      <3> HIDE DEF at, w, n
      <3> QED  BY <2>4
    <2>6. Reached(s, w[j])
      BY <1>1, <2>2, WalkReached
    <2> HIDE DEF at
    <2>7. AnEntity(s, at)
      BY <2>2, <2>5, <2>6 DEF AnEntity
    <2>8. CASE j = n
      <3>1. at.rel = <<>>
        <4>1. n < j + 1 /\ j + 1 \in Int /\ n \in Int
          BY <1>1, <2>8
        <4> QED  BY <2>5, <4>1, SubSeqEmpty
      <3>2. at.key = ResolveFrom(s, ROOT, p)
        BY <2>5, <2>8 DEF ResolveFrom
      <3>3. p # <<>>
        BY <1>1, <2>2, EmptySeq
      <3>4. Unpacked(s, ROOT, Front(p))
        <4>1. Len(Front(p)) = n - 1 /\ \A i \in 0..n - 1 : Walk(s, ROOT, Front(p))[i] = w[i]
          BY <3>3, PathFront, ResolveLast
        <4>2. ASSUME NEW i \in 0..Len(Front(p))
              PROVE  ~HasKind(s, Walk(s, ROOT, Front(p))[i], "packed")
          <5>1. i \in 0..n - 1 /\ i \in 0..n /\ ~(j <= i)
            BY <1>1, <2>8, <4>1
          <5>2. i \notin packed
            BY <2>1, <5>1
          <5> QED  BY <4>1, <5>1, <5>2
        <4> QED  BY <4>2 DEF Unpacked
      <3> QED  BY <2>7, <3>1, <3>2, <3>3, <3>4 DEF ToEntity, at
    <2>9. CASE j # n
      <3>1. j + 1 <= n /\ j + 1 \in Int /\ n \in Int /\ \A i \in j + 1..n : i \in 1..Len(p)
        BY <1>1, <2>2, <2>9
      <3>2. \A i \in j + 1..n : p[i] \in Segment
        BY <3>1, ElementOfSeq
      <3>3. at.rel \in Seq(Segment) /\ Len(at.rel) = n - (j + 1) + 1
        BY <2>5, <3>1, <3>2, SubSeqProperties
      <3>4. Len(at.rel) = n - j /\ Len(at.rel) <= n - 1 /\ Len(at.rel) # 0
        BY <1>1, <2>2, <2>9, <3>3
      <3>5. at.rel # <<>>
        BY <3>4, EmptySeq
      <3> QED  BY <2>7, <3>3, <3>4, <3>5 DEF IntoEntity, at
    <2> QED  BY <2>8, <2>9
  <1> QED  BY <1>3, <1>4

(* What may be stored where calls neither shift nor store into entities.   *)
LEMMA MayStoreIs ==
  ASSUME ~StoreShifts, ~StoreIntoPacked,
         NEW s, Tree(s), NEW p \in Seq(Segment), MayStore(s, p)
  PROVE  WayClear(s, p) /\ Unshifted(s, p)
  <1> DEFINE at == Locate(s, p)
  <1>1. ~Shifts(s, p) /\ ~IntoPacked(s, p)
    BY DEF MayStore
  <1>2. ~IntoEntity(s, p, at)
    BY <1>1 DEF IntoPacked, IntoEntity, AnEntity
  <1>3. NoEntity(s, p, at) \/ ToEntity(s, p, at)
    BY <1>2, PlaceIs
  <1>4. WayClear(s, p)
    <2>1. ASSUME p # <<>>, Unpacked(s, ROOT, p) PROVE Unpacked(s, ROOT, Front(p))
      BY <2>1, UnpackedFront, RootIsBase
    <2> QED  BY <1>3, <2>1 DEF WayClear, NoEntity, ToEntity
  <1>5. Unshifted(s, p)
    <2> DEFINE k == ResolveFrom(s, ROOT, Front(p))
               next == Index(Last(p).index + 1)
    <2> SUFFICES ASSUME p # <<>>, IsIndex(Last(p)), ResolveFrom(s, ROOT, p) # NoKey,
                        ChildKey(s, k, next) # NoKey
                 PROVE  FALSE
      BY DEF Unshifted
    <2>1. Last(p).index \in Nat /\ Last(p) \in Segment
      BY PathFront, SegmentKinds
    <2>2. next \in Segment /\ ~IsName(next) /\ next.index = Last(p).index + 1
      BY <2>1, IndexSegment
    <2>3. HasKind(s, k, "list") /\ next.index < Len(s.node[k].items)
      BY <2>2 DEF ChildKey
    <2>4. at # Missing
      BY <1>3 DEF NoEntity, ToEntity, AnEntity, Missing
    <2> QED  BY <1>1, <2>2, <2>3, <2>4 DEF Shifts
  <1> QED  BY <1>4, <1>5

------------------------------------------------------------------------------
(* Edits of a packed document                                              *)

(* Along a path of at most one segment, and what is written at its end.    *)
LEMMA AlongShort ==
  ASSUME NEW d, NEW p \in Seq(Segment), Len(p) <= 1
  PROVE  Along(d, p)[0] = d /\ (p # <<>> => Along(d, p)[1] = Kid(d, p[1]))
  <1> DEFINE n == Len(p)
             A == CHOOSE f : f = [i \in 0..n |-> IF i = 0 THEN d ELSE Kid(f[i - 1], p[i])]
             g == [i \in 0..n |-> IF i = 0 THEN d ELSE Kid(d, p[1])]
  <1>1. n = 0 \/ n = 1
    <2>1. n \in Nat /\ n <= 1
      BY LenProperties
    <2> HIDE DEF n
    <2> QED  BY <2>1
  <1>2. g[0] = d
    BY <1>1
  <1>3. g = [i \in 0..n |-> IF i = 0 THEN d ELSE Kid(g[i - 1], p[i])]
    <2>1. ASSUME NEW i \in 0..n PROVE g[i] = IF i = 0 THEN d ELSE Kid(g[i - 1], p[i])
      <3>1. i = 0 \/ i = 1
        BY <1>1
      <3>2. i = 1 => i - 1 = 0
        OBVIOUS
      <3> QED  BY <1>2, <3>1, <3>2
    <2> QED  BY <2>1
  <1>4. Along(d, p) = A
    BY DEF Along
  <1> HIDE DEF g
  <1>5. A = [i \in 0..n |-> IF i = 0 THEN d ELSE Kid(A[i - 1], p[i])]
    BY <1>3
  <1> HIDE DEF A
  <1>6. A[0] = d
    BY <1>1, <1>5
  <1>7. p # <<>> => n = 1
    BY <1>1, EmptySeq
  <1>8. n = 1 => A[1] = Kid(d, p[1])
    BY <1>5, <1>6
  <1> QED  BY <1>4, <1>6, <1>7, <1>8

(* What With does at the end of such a path.                               *)
LEMMA WithShort ==
  ASSUME NEW d, NEW p \in Seq(Segment), Len(p) <= 1, NEW part
  PROVE  With(d, p, part) = IF p = <<>> THEN part ELSE SetKid(Through(d, p, 0), p[1], part)
  <1> DEFINE n == Len(p)
             W == CHOOSE f : f = [j \in 0..n |-> IF j = 0 THEN part
                                    ELSE SetKid(Through(d, p, n - j), p[n - j + 1], f[j - 1])]
             g == [j \in 0..n |-> IF j = 0 THEN part ELSE SetKid(Through(d, p, 0), p[1], part)]
  <1>1. n = 0 \/ n = 1
    <2>1. n \in Nat /\ n <= 1
      BY LenProperties
    <2> HIDE DEF n
    <2> QED  BY <2>1
  <1>2. g[0] = part
    BY <1>1
  <1>3. g = [j \in 0..n |-> IF j = 0 THEN part
                            ELSE SetKid(Through(d, p, n - j), p[n - j + 1], g[j - 1])]
    <2>1. ASSUME NEW j \in 0..n
          PROVE  g[j] = IF j = 0 THEN part ELSE SetKid(Through(d, p, n - j), p[n - j + 1], g[j - 1])
      <3>1. j = 0 \/ (j = 1 /\ n = 1)
        BY <1>1
      <3>2. j = 1 /\ n = 1 => j - 1 = 0 /\ n - j = 0 /\ n - j + 1 = 1
        OBVIOUS
      <3> QED  BY <1>2, <3>1, <3>2
    <2> QED  BY <2>1
  <1>4. With(d, p, part) = W[n]
    BY DEF With
  <1> HIDE DEF g
  <1>5. W = [j \in 0..n |-> IF j = 0 THEN part
                            ELSE SetKid(Through(d, p, n - j), p[n - j + 1], W[j - 1])]
    BY <1>3
  <1> HIDE DEF W
  <1>6. W[0] = part
    BY <1>1, <1>5
  <1>7. n = 1 => W[1] = SetKid(Through(d, p, 0), p[1], part)
    <2>1. n = 1 => 1 \in 0..n /\ n - 1 = 0 /\ 0 + 1 = 1 /\ 1 - 1 = 0
      OBVIOUS
    <2>2. n = 1 => W[1] = SetKid(Through(d, p, n - 1), p[n - 1 + 1], W[1 - 1])
      BY <1>5, <2>1
    <2> QED  BY <1>6, <2>1, <2>2
  <1>8. n = 0 <=> p = <<>>
    BY EmptySeq
  <1> QED  BY <1>1, <1>4, <1>6, <1>7, <1>8

(* A part less, or a part more or another.                                 *)
LEMMA FlatSetKid ==
  ASSUME NEW d, Flat(d), NEW seg \in Segment, Takes(d, seg), NEW part \in Leaves
  PROVE  Flat(SetKid(d, seg, part))
  <1> DEFINE e == SetKid(d, seg, part)
  <1>1. CASE IsName(seg)
    <2> DEFINE f == [n \in DOMAIN d.fields \cup {seg.name} |->
                       IF n = seg.name THEN part ELSE d.fields[n]]
    <2>1. e = Object(f)
      BY <1>1 DEF SetKid
    <2>2. e.kind = "object" /\ e.fields = f
      BY <2>1 DEF Object
    <2>3. DOMAIN d.fields \subseteq Names /\ \A n \in DOMAIN d.fields : d.fields[n] \in Leaves
      BY <1>1, FlatIs DEF Takes
    <2>4. seg.name \in Names
      BY <1>1, SegmentKinds
    <2> DEFINE names == DOMAIN d.fields \cup {seg.name}
    <2>5. names \in SUBSET Names /\ f \in [names -> Leaves]
      BY <2>3, <2>4
    <2> HIDE DEF e, f, names
    <2>6. Flat(e)
      BY <2>1, <2>5, FlatForms
    <2> QED  BY <2>6 DEF e
  <1>2. CASE ~IsName(seg)
    <2> DEFINE items == d.items
               i == seg.index
               f == [x \in DOMAIN items \cup {i + 1} |-> IF x = i + 1 THEN part ELSE items[x]]
    <2>1. e = List(f)
      BY <1>2 DEF SetKid
    <2>2. e.kind = "list" /\ e.items = f
      BY <2>1 DEF List
    <2>3. items \in Seq(Leaves) /\ i <= Len(items) /\ i \in Nat
      BY <1>2, SegmentKinds, FlatIs DEF Takes, IsName
    <2>4. Len(items) \in Nat /\ DOMAIN items = 1..Len(items) /\ \A x \in 1..Len(items) : items[x] \in Leaves
      BY <2>3, LenProperties, ElementOfSeq
    <2> HIDE DEF items, i, e
    <2>5. \E m \in Nat : DOMAIN items \cup {i + 1} = 1..m
      <3>1. CASE i < Len(items)
        <4>1. DOMAIN items \cup {i + 1} = 1..Len(items)
          BY <2>3, <2>4, <3>1
        <4> QED  BY <2>4, <4>1
      <3>2. CASE i = Len(items)
        <4>1. DOMAIN items \cup {i + 1} = 1..Len(items) + 1
          BY <2>3, <2>4, <3>2
        <4> QED  BY <2>4, <4>1
      <3>3. i < Len(items) \/ i = Len(items)
        <4>1. \A a, b \in Nat : a <= b => a < b \/ a = b
          OBVIOUS
        <4> QED  BY <2>3, <2>4, <4>1
      <3> QED  BY <3>1, <3>2, <3>3
    <2>6. PICK m \in Nat : DOMAIN items \cup {i + 1} = 1..m
      BY <2>5
    <2>7. f \in [1..m -> Leaves]
      <3>1. \A x \in DOMAIN items \cup {i + 1} : f[x] \in Leaves
        BY <2>4
      <3> QED  BY <2>6, <3>1
    <2> HIDE DEF f
    <2>8. f \in Seq(Leaves)
      BY <2>7, SeqDef
    <2>9. Flat(e)
      BY <2>1, <2>8, FlatForms
    <2> QED  BY <2>9 DEF e
  <1> QED  BY <1>1, <1>2

(* A container of leaves stays one without one of them.                    *)
LEMMA FlatDropKid ==
  ASSUME NEW d, Flat(d), NEW seg \in Segment, Kid(d, seg) # Nowhere
  PROVE  Flat(DropKid(d, seg))
  <1> DEFINE e == DropKid(d, seg)
  <1>1. CASE IsName(seg)
    <2> DEFINE f == [n \in DOMAIN d.fields \ {seg.name} |-> d.fields[n]]
    <2>1. e = Object(f)
      BY <1>1 DEF DropKid
    <2>2. e.kind = "object" /\ e.fields = f
      BY <2>1 DEF Object
    <2>3. DOMAIN d.fields \subseteq Names /\ \A n \in DOMAIN d.fields : d.fields[n] \in Leaves
      BY <1>1, FlatIs DEF Kid, IsName
    <2> DEFINE names == DOMAIN d.fields \ {seg.name}
    <2>4. names \in SUBSET Names /\ f \in [names -> Leaves]
      BY <2>3
    <2> HIDE DEF e, f, names
    <2>5. Flat(e)
      BY <2>1, <2>4, FlatForms
    <2> QED  BY <2>5 DEF e
  <1>2. CASE ~IsName(seg)
    <2> DEFINE f == RemoveAt(d.items, seg.index + 1)
    <2>1. e = List(f)
      BY <1>2 DEF DropKid
    <2>2. e.kind = "list" /\ e.items = f
      BY <2>1 DEF List
    <2>3. d.items \in Seq(Leaves) /\ seg.index < Len(d.items) /\ seg.index \in Nat
      BY <1>2, SegmentKinds, FlatIs DEF Kid, IsName
    <2>4. seg.index + 1 \in 1..Len(d.items)
      BY <2>3, LenProperties
    <2>5. f \in Seq(Leaves)
      BY <2>3, <2>4, RemoveAtItems
    <2> HIDE DEF e, f
    <2>6. Flat(e)
      BY <2>1, <2>5, FlatForms
    <2> QED  BY <2>6 DEF e
  <1> QED  BY <1>1, <1>2

(* The document of an entity after a write or a removal at a path into it. *)
LEMMA FlatWith ==
  ASSUME NEW d, Flat(d), NEW p \in Seq(Segment), Len(p) <= 1, Fits(d, p), NEW v \in Values
  PROVE  Flat(With(d, p, Leaf(v)))
  <1>1. Leaf(v) \in Leaves /\ Flat(Leaf(v))
    BY FlatForms
  <1>2. CASE p = <<>>
    BY <1>1, <1>2, WithShort
  <1>3. CASE p # <<>>
    <2> DEFINE c == Through(d, p, 0)
    <2>1. Len(p) = 1 /\ p[1] \in Segment
      <3>1. Len(p) = 1
        <4>1. Len(p) \in Nat /\ Len(p) # 0
          BY <1>3, LenProperties, EmptySeq
        <4> QED  BY <4>1
      <3> QED  BY <3>1, ElementOfSeq
    <2>2. Takes(c, p[1])
      <3>1. 0 \in 0..Len(p) - 1 /\ 0 + 1 = 1
        BY <2>1
      <3>2. Takes(Through(d, p, 0), p[0 + 1])
        BY <3>1 DEF Fits
      <3> QED  BY <3>1, <3>2
    <2>3. Flat(c)
      <3>1. c = IF d = Nowhere THEN Container(IsIndex(p[0 + 1])) ELSE d
        BY AlongShort DEF Through
      <3>2. Flat(EmptyObject) /\ Flat(EmptyList)
        <4>1. <<>> \in Seq(Leaves)
          BY EmptySeq
        <4>2. {} \in SUBSET Names /\ <<>> \in [{} -> Leaves]
          OBVIOUS
        <4> QED  BY <4>1, <4>2, FlatForms DEF EmptyObject, EmptyList
      <3> QED  BY <3>1, <3>2 DEF Container
    <2>4. With(d, p, Leaf(v)) = SetKid(c, p[1], Leaf(v))
      BY <1>3, WithShort
    <2> HIDE DEF c
    <2> QED  BY <1>1, <2>1, <2>2, <2>3, <2>4, FlatSetKid
  <1> QED  BY <1>2, <1>3

(* The blob of an entity stays flat when a part is removed from it.        *)
LEMMA FlatWithout ==
  ASSUME NEW d, Flat(d), NEW p \in Seq(Segment), Len(p) <= 1, p # <<>>
  PROVE  Flat(Without(d, p))
  <1>1. Len(p) = 1 /\ p[1] \in Segment /\ Last(p) = p[1]
    <2>1. Len(p) = 1
      <3>1. Len(p) \in Nat /\ Len(p) # 0
        BY LenProperties, EmptySeq
      <3>2. \A m \in Nat : m <= 1 /\ m # 0 => m = 1
        OBVIOUS
      <3> QED  BY <3>1, <3>2
    <2> QED  BY <2>1, ElementOfSeq DEF Last
  <1>2. At(d, p) = Kid(d, p[1])
    BY <1>1, AlongShort DEF At
  <1>3. Front(p) = <<>> /\ Front(p) \in Seq(Segment) /\ Len(Front(p)) = 0
    <2>1. Front(p) \in Seq(Segment) /\ Len(Front(p)) = 0
      BY <1>1, PathFront
    <2> QED  BY <2>1, EmptySeq
  <1>4. At(d, Front(p)) = d
    <2>1. Len(Front(p)) <= 1
      BY <1>3
    <2>2. Along(d, Front(p))[0] = d
      BY <1>3, <2>1, AlongShort
    <2> QED  BY <1>3, <2>2 DEF At
  <1>5. CASE At(d, p) = Nowhere
    BY <1>5 DEF Without
  <1>6. CASE At(d, p) # Nowhere
    <2>1. Without(d, p) = With(d, Front(p), DropKid(d, p[1]))
      BY <1>1, <1>4, <1>6 DEF Without
    <2>2. With(d, Front(p), DropKid(d, p[1])) = DropKid(d, p[1])
      <3>1. Len(Front(p)) <= 1
        BY <1>3
      <3> QED  BY <1>3, <3>1, WithShort
    <2> QED  BY <1>1, <1>2, <1>6, <2>1, <2>2, FlatDropKid
  <1> QED  BY <1>5, <1>6

------------------------------------------------------------------------------
(* Entities opened                                                         *)

(* g is the table after the first n parts.                                 *)
IsSpill(g, t, k, d, segs, n) ==
  g = [i \in 0..n |-> IF i = 0 THEN t
                      ELSE AddChild(g[i - 1], k, segs[i], LeafNode(Kid(d, segs[i]).val)).s]

(* The function that Spill defines exists: the table after each part.      *)
LEMMA SpillsExist ==
  ASSUME NEW t, NEW k, NEW d, NEW segs
  PROVE  \A n \in Nat : \E g : IsSpill(g, t, k, d, segs, n)
  <1> DEFINE S == {n \in Nat : \E g : IsSpill(g, t, k, d, segs, n)}
             On(r, i) == AddChild(r, k, segs[i], LeafNode(Kid(d, segs[i]).val)).s
  <1>1. 0 \in S
    <2> DEFINE g == [i \in 0..0 |-> t]
    <2>1. IsSpill(g, t, k, d, segs, 0)
      BY DEF IsSpill
    <2> QED  BY <2>1
  <1>2. ASSUME NEW n \in Nat, n \in S PROVE n + 1 \in S
    <2>1. PICK g : IsSpill(g, t, k, d, segs, n)
      BY <1>2
    <2> DEFINE h == [i \in 0..n + 1 |-> IF i = n + 1 THEN On(g[n], n + 1) ELSE g[i]]
    <2>2. \A i \in 0..n : h[i] = g[i]
      OBVIOUS
    <2>3. ASSUME NEW i \in 0..n + 1
          PROVE  h[i] = IF i = 0 THEN t ELSE On(h[i - 1], i)
      <3>1. CASE i = n + 1
        BY <2>2, <3>1
      <3>2. CASE i # n + 1
        <4>1. i \in 0..n /\ (i # 0 => i - 1 \in 0..n)
          BY <3>2
        <4> QED  BY <2>1, <2>2, <4>1 DEF IsSpill
      <3> QED  BY <3>1, <3>2
    <2>4. IsSpill(h, t, k, d, segs, n + 1)
      BY <2>3 DEF IsSpill
    <2> QED  BY <2>4
  <1> HIDE DEF S
  <1>3. Nat \subseteq S
    BY <1>1, <1>2, SetInduction
  <1> QED  BY <1>3 DEF S

(* g is the table after each part.                                         *)
Spills(g, t, k, d, segs) ==
  /\ g[0] = t
  /\ \A i \in 1..Len(segs) :
       g[i] = AddChild(g[i - 1], k, segs[i], LeafNode(Kid(d, segs[i]).val)).s

(* Spill makes one part after the other a child.                           *)
LEMMA SpillSteps ==
  ASSUME NEW t, NEW k, NEW d, NEW segs \in Seq(Segment)
  PROVE  \E g : Spills(g, t, k, d, segs) /\ Spill(t, k, d, segs)[Len(segs)] = g[Len(segs)]
  <1> DEFINE n == Len(segs)
             g == CHOOSE e : IsSpill(e, t, k, d, segs, n)
  <1>1. n \in Nat
    BY LenProperties
  <1>2. Spill(t, k, d, segs) = g
    BY DEF Spill, IsSpill
  <1>3. IsSpill(g, t, k, d, segs, n)
    BY <1>1, SpillsExist
  <1> HIDE DEF g, n
  <1>4. g[0] = t
    BY <1>1, <1>3 DEF IsSpill
  <1>5. \A i \in 1..n : g[i] = AddChild(g[i - 1], k, segs[i], LeafNode(Kid(d, segs[i]).val)).s
    BY <1>1, <1>3 DEF IsSpill
  <1>6. Spills(g, t, k, d, segs)
    BY <1>4, <1>5 DEF n, Spills
  <1> QED  BY <1>2, <1>6 DEF n

(* t has all nodes of s, as they were but for k.                           *)
Apart(s, t, k) ==
  /\ Tree(t) /\ (Full(s) => Full(t))
  /\ DOMAIN s.node \subseteq DOMAIN t.node
  /\ \A m \in DOMAIN s.node : m # k =>
       \A tag \in Segment : ChildKey(t, m, tag) = ChildKey(s, m, tag)

(* The table when the first i parts of d have become children of k.        *)
Spilled(s, k, d, i, u) ==
  /\ Apart(s, u, k)
  /\ Reached(u, k)
  /\ HasKind(u, k, ContainerKind(Is(d, "list")))
  /\ \A j \in 1..Len(Segments(d)) : ChildKey(u, k, Segments(d)[j]) # NoKey <=> j <= i

(* One more part becomes a child of the entity: a list takes it because    *)
(* the parts before it are there.                                          *)
LEMMA SpillEffect ==
  ASSUME NEW s, NEW k \in Nat, NEW d, Flat(d), NEW i \in Nat, i + 1 <= Len(Segments(d)),
         NEW u, Spilled(s, k, d, i, u)
  PROVE  LET seg == Segments(d)[i + 1]
         IN  Spilled(s, k, d, i + 1, AddChild(u, k, seg, LeafNode(Kid(d, seg).val)).s)
  <1> DEFINE segs == Segments(d)
             n == Len(segs)
             seg == segs[i + 1]
             leaf == LeafNode(Kid(d, seg).val)
             r == AddChild(u, k, seg, leaf)
  <1>1. /\ segs \in Seq(Segment) /\ n \in Nat /\ i + 1 \in 1..n
        /\ \A j \in 1..n : segs[j] \in Segment
        /\ seg \in Segment
        /\ IsIndex(seg) = Is(d, "list") /\ Kid(d, seg).val \in Values
        /\ \A j \in 1..n : segs[j] = seg => j = i + 1
        /\ Is(d, "list") => \A j \in 1..n : segs[j] = Index(j - 1)
    <2>1. segs \in Seq(Segment) /\ n \in Nat
      BY LeafParts, LenProperties
    <2> HIDE DEF n
    <2>2. i + 1 \in 1..n
      BY <2>1 DEF n
    <2> HIDE DEF segs
    <2>3. \A j \in 1..n : segs[j] \in Segment
      BY <2>1, ElementOfSeq DEF n
    <2> QED  BY <2>1, <2>2, <2>3, LeafParts DEF segs, n
  <1>2. Bare(leaf)
    BY <1>1, LeafNodeBare
  <1> HIDE DEF segs, n, seg, leaf
  <1>3. /\ Tree(u) /\ k \in DOMAIN u.node /\ Holder(u, k, seg) /\ Reached(u, k)
    BY <1>1 DEF Spilled, Apart, Holder, ContainerKind, HasKind, Live
  <1>4. ChildKey(u, k, seg) = NoKey
    <2>1. ~(i + 1 <= i)
      OBVIOUS
    <2> QED  BY <1>1, <2>1 DEF Spilled, segs, n, seg
  <1>5. Fitting(u, k, seg)
    <2> SUFFICES ASSUME IsIndex(seg), seg.index # 0 PROVE ChildKey(u, k, Index(seg.index - 1)) # NoKey
      BY DEF Fitting, IsName
    <2>1. seg = Index(i) /\ \A j \in 1..n : segs[j] = Index(j - 1)
      <3>1. (i + 1) - 1 = i
        OBVIOUS
      <3>2. \A j \in 1..n : segs[j] = Index(j - 1)
        BY <1>1
      <3>3. seg = Index((i + 1) - 1)
        BY <1>1, <3>2 DEF seg
      <3> QED  BY <3>1, <3>2, <3>3
    <2>2. seg.index = i /\ i # 0
      BY <2>1, IndexSegment
    <2>3. i \in 1..n /\ i <= i
      BY <1>1, <2>2
    <2>4. ChildKey(u, k, segs[i]) # NoKey
      BY <2>3 DEF Spilled, segs, n
    <2> QED  BY <2>1, <2>2, <2>3, <2>4
  <1>6. TreeBut(u, k, seg)
    BY <1>3, <1>4, TreeIsTreeBut
  <1>7. /\ r.ok \in BOOLEAN
        /\ Tree(r.s)
        /\ ~r.ok => ~Fitting(u, k, seg)
        /\ r.ok => Grown(u, r.s, k, seg, r.key, leaf)
    BY <1>1, <1>2, <1>3, <1>6, AddChildEffect
  <1> HIDE DEF r
  <1>8. Grown(u, r.s, k, seg, r.key, leaf)
    BY <1>5, <1>7
  <1>9. Extends(u, r.s) /\ (Full(u) => Full(r.s))
    BY <1>1, <1>3, <1>4, <1>7, <1>8, GrownExtends
  <1>10. \A m \in DOMAIN s.node : m # k =>
           \A tag \in Segment : ChildKey(r.s, m, tag) = ChildKey(s, m, tag)
    <2>1. DOMAIN s.node \subseteq DOMAIN u.node /\ DOMAIN u.node \subseteq Nat
      BY <1>3 DEF Spilled, Apart, Tree, Sound, Shape
    <2> QED  BY <1>8, <2>1 DEF Grown, Spilled, Apart
  <1>11. Apart(s, r.s, k)
    BY <1>7, <1>9, <1>10 DEF Apart, Spilled, Extends
  <1>12. Reached(r.s, k) /\ HasKind(r.s, k, ContainerKind(Is(d, "list")))
    BY <1>3, <1>9 DEF Extends, Spilled
  <1>13. ASSUME NEW j \in 1..n
         PROVE  ChildKey(r.s, k, segs[j]) # NoKey <=> j <= i + 1
    <2>1. CASE j = i + 1
      <3>1. segs[j] = seg /\ r.key # NoKey
        BY <1>8, <2>1 DEF seg, Grown, NoKey
      <3> QED  BY <1>1, <1>8, <2>1, <3>1 DEF Grown
    <2>2. CASE j # i + 1
      <3>1. ChildKey(r.s, k, segs[j]) = ChildKey(u, k, segs[j])
        BY <1>1, <1>8, <2>2 DEF Grown
      <3>2. j <= i <=> j <= i + 1
        BY <1>1, <2>2
      <3> QED  BY <3>1, <3>2 DEF Spilled, segs, n
    <2> QED  BY <2>1, <2>2
  <1>14. Spilled(s, k, d, i + 1, r.s)
    BY <1>11, <1>12, <1>13 DEF Spilled, segs, n
  <1> QED  BY <1>14 DEF r, leaf, seg, segs

(* An entity's parts become nodes: nothing else changes.                   *)
LEMMA UnpackEffect ==
  ASSUME NEW s, Tree(s), NEW k, HasKind(s, k, "packed"), Reached(s, k)
  PROVE  Apart(s, Unpack(s, k), k)
  <1> DEFINE d == s.node[k].doc
             segs == Segments(d)
             n == Len(segs)
  <1>1. /\ k \in Nat /\ k # ROOT /\ Live(s, k) /\ Flat(d)
        /\ \A tag \in Segment : ChildKey(s, k, tag) = NoKey
    BY PackedIsBare
  <1> HIDE DEF d
  <1>2. CASE Is(d, "leaf")
    <2> DEFINE t == WriteNode(s, k, LeafNode(d.val))
    <2>1. Unpack(s, k) = t
      BY <1>2 DEF Unpack, d
    <2>2. Bare(LeafNode(d.val))
      BY <1>1, <1>2, LeafNodeBare, FlatIs
    <2>3. Tree(t) /\ Overwrote(s, t, k, LeafNode(d.val)) /\ (Full(s) => Full(t))
      BY <1>1, <2>2, OverwriteEffect
    <2> HIDE DEF t
    <2>4. DOMAIN s.node \subseteq Nat
      BY DEF Tree, Sound, Shape
    <2> QED  BY <2>1, <2>3, <2>4 DEF Apart, Overwrote
  <1>3. CASE ~Is(d, "leaf")
    <2> DEFINE e == EmptyNode(Is(d, "list"))
               t == WriteNode(s, k, e)
    <2>1. Unpack(s, k) = Spill(t, k, d, segs)[n]
      BY <1>3 DEF Unpack, SpillAll, d
    <2>2. Bare(e) /\ e.kind = ContainerKind(Is(d, "list"))
      <3>1. Is(d, "list") \in BOOLEAN
        BY DEF Is
      <3> QED  BY <3>1, EmptyNodeBare
    <2> HIDE DEF e
    <2>3. Tree(t) /\ Overwrote(s, t, k, e) /\ (Full(s) => Full(t))
      BY <1>1, <2>2, OverwriteEffect
    <2>4. segs \in Seq(Segment) /\ n \in Nat /\ \A j \in 1..n : segs[j] \in Segment
      BY <1>1, LeafParts, LenProperties, ElementOfSeq
    <2> HIDE DEF t, n, segs
    <2>5. Spilled(s, k, d, 0, t)
      <3>1. DOMAIN s.node \subseteq Nat
        BY DEF Tree, Sound, Shape
      <3>2. Apart(s, t, k)
        BY <2>3, <3>1 DEF Apart, Overwrote
      <3>3. Reached(t, k) /\ HasKind(t, k, ContainerKind(Is(d, "list")))
        BY <2>2, <2>3 DEF Overwrote
      <3>4. ASSUME NEW j \in 1..n PROVE ChildKey(t, k, segs[j]) = NoKey /\ ~(j <= 0)
        BY <1>1, <2>3, <2>4 DEF Overwrote
      <3> QED  BY <3>2, <3>3, <3>4 DEF Spilled, segs, n
    <2>6. PICK g : Spills(g, t, k, d, segs) /\ Spill(t, k, d, segs)[n] = g[n]
      BY <2>4, SpillSteps DEF n
    <2> DEFINE S == {i \in Nat : i <= n => Spilled(s, k, d, i, g[i])}
    <2>7. 0 \in S
      BY <2>5, <2>6 DEF Spills
    <2>8. ASSUME NEW i \in Nat, i \in S PROVE i + 1 \in S
      <3> SUFFICES ASSUME i + 1 <= n PROVE Spilled(s, k, d, i + 1, g[i + 1])
        OBVIOUS
      <3>1. i + 1 \in 1..n /\ (i + 1) - 1 = i /\ Spilled(s, k, d, i, g[i])
        BY <2>4, <2>8
      <3>2. g[i + 1] = AddChild(g[i], k, segs[i + 1],
                                LeafNode(Kid(d, segs[i + 1]).val)).s
        BY <2>6, <3>1 DEF Spills, n
      <3> QED  BY <1>1, <3>1, <3>2, SpillEffect DEF segs, n
    <2> HIDE DEF S
    <2>9. Nat \subseteq S
      BY <2>7, <2>8, SetInduction
    <2>10. Spilled(s, k, d, n, g[n])
      BY <2>4, <2>9 DEF S
    <2> QED  BY <2>1, <2>6, <2>10 DEF Spilled
  <1> QED  BY <1>2, <1>3

(* What an accessor opens.                                                 *)
LEMMA OpenedEffect ==
  ASSUME Tree(Table), NEW p \in Seq(Segment)
  PROVE  Tree(Opened(p)) /\ (Full(Table) => Full(Opened(p)))
  <1> DEFINE at == Locate(Table, p)
  <1>1. CASE at.at # "packed"
    BY <1>1 DEF Opened, OpenedAt
  <1>2. CASE at.at = "packed"
    <2>1. Opened(p) = Unpack(Table, at.key)
      BY <1>2 DEF Opened, OpenedAt
    <2>2. HasKind(Table, at.key, "packed") /\ Reached(Table, at.key)
      BY <1>2, PlaceIs DEF NoEntity, ToEntity, IntoEntity, AnEntity
    <2> HIDE DEF at
    <2>3. Apart(Table, Unpack(Table, at.key), at.key)
      BY <2>2, UnpackEffect
    <2> QED  BY <2>1, <2>3 DEF Apart
  <1> QED  BY <1>1, <1>2

------------------------------------------------------------------------------
(* Elements in another order                                               *)

(* f is an order of the first n positions, g its inverse.                  *)
Orders(f, g, n) ==
  /\ f \in [1..n -> 1..n] /\ g \in [1..n -> 1..n]
  /\ \A x \in 1..n : f[g[x]] = x /\ g[f[x]] = x

(* ks holds what items holds, in another order.                            *)
Rearranged(items, ks) ==
  /\ Len(ks) = Len(items)
  /\ \E f, g : Orders(f, g, Len(ks)) /\ \A x \in 1..Len(ks) : ks[x] = items[f[x]]

(* A list with its elements in another order: the tree keeps its nodes,    *)
(* and all that was under the root still is.                               *)
LEMMA RearrangeEffect ==
  ASSUME NEW s, Tree(s), NEW k, HasKind(s, k, "list"),
         NEW ks \in Seq(Nat \ {ROOT}), Rearranged(s.node[k].items, ks)
  PROVE  Good(s, Done(SetItems(s, k, ks), k))
  <1> DEFINE items == s.node[k].items
             n == Len(ks)
             t == SetItems(s, k, ks)
  <1>0. PICK f, g : /\ Orders(f, g, Len(ks)) /\ Len(ks) = Len(items)
                    /\ \A x \in 1..Len(ks) : ks[x] = items[f[x]]
    BY DEF Rearranged
  <1>1. /\ items \in Seq(Nat \ {ROOT}) /\ n \in Nat /\ k \in Nat /\ k \in DOMAIN s.node
        /\ Shape(s) /\ Sound(s)
    BY ListItems, LenProperties DEF Tree, Sound, HasKind, Live
  <1>2. /\ Shape(t)
        /\ DOMAIN t.node = DOMAIN s.node
        /\ \A m, kind : HasKind(t, m, kind) <=> HasKind(s, m, kind)
        /\ \A m, tag : m # k \/ IsName(tag) => ChildKey(t, m, tag) = ChildKey(s, m, tag)
        /\ \A tag : ~IsName(tag) =>
             ChildKey(t, k, tag) = IF tag.index < n THEN ks[tag.index + 1] ELSE NoKey
    BY <1>1, SetItemsEffect
  <1>3. \A tag : ~IsName(tag) =>
          ChildKey(s, k, tag) = IF tag.index < n THEN items[tag.index + 1] ELSE NoKey
    BY <1>0 DEF ChildKey
  <1> DEFINE From(tag) == IF IsName(tag) \/ tag.index >= n THEN tag ELSE Index(f[tag.index + 1] - 1)
             To(tag)   == IF IsName(tag) \/ tag.index >= n THEN tag ELSE Index(g[tag.index + 1] - 1)
  <1>4. ASSUME NEW h, h = f \/ h = g, NEW i \in Nat, i < n
        PROVE  /\ h[i + 1] \in 1..n /\ h[i + 1] - 1 \in Nat /\ h[i + 1] - 1 < n
               /\ (h[i + 1] - 1) + 1 = h[i + 1]
               /\ Index(h[i + 1] - 1) \in Segment /\ ~IsName(Index(h[i + 1] - 1))
               /\ Index(h[i + 1] - 1).index = h[i + 1] - 1
    <2>1. i + 1 \in 1..n
      BY <1>1, <1>4
    <2>2. h[i + 1] \in 1..n
      BY <1>0, <1>4, <2>1 DEF Orders
    <2>3. h[i + 1] - 1 \in Nat /\ h[i + 1] - 1 < n /\ (h[i + 1] - 1) + 1 = h[i + 1]
      BY <1>1, <2>2
    <2> QED  BY <2>2, <2>3, IndexSegment
  <1>5. \A tag \in Segment : ~IsName(tag) => tag.index \in Nat /\ tag = Index(tag.index)
    BY SegmentKinds DEF IsName
  (* The child of k at tag was at From(tag) before, and one at tag is now  *)
  (* at To(tag).                                                           *)
  <1>6. ASSUME NEW tag \in Segment
        PROVE  /\ From(tag) \in Segment /\ To(From(tag)) = tag
               /\ ChildKey(t, k, tag) = ChildKey(s, k, From(tag))
    <2>1. CASE IsName(tag) \/ tag.index >= n
      <3>1. From(tag) = tag /\ To(tag) = tag
        BY <2>1
      <3>2. ~IsName(tag) => ~(tag.index < n)
        BY <1>1, <1>5, <2>1
      <3> HIDE DEF From, To, t
      <3> QED  BY <1>2, <1>3, <3>1, <3>2
    <2>2. CASE ~(IsName(tag) \/ tag.index >= n)
      <3> DEFINE i == tag.index
                 from == Index(f[i + 1] - 1)
      <3>1. i \in Nat /\ i < n /\ tag = Index(i)
        BY <1>1, <1>5, <2>2
      <3>2. /\ f[i + 1] \in 1..n /\ f[i + 1] - 1 < n /\ (f[i + 1] - 1) + 1 = f[i + 1]
            /\ from \in Segment /\ ~IsName(from) /\ from.index = f[i + 1] - 1
            /\ f[i + 1] - 1 \in Nat
        BY <1>4, <3>1
      <3>3. From(tag) = from
        BY <2>2
      <3>4. To(from) = Index(g[f[i + 1]] - 1)
        <4>1. ~(from.index >= n)
          BY <1>1, <3>2
        <4> QED  BY <3>2, <4>1
      <3>5. i + 1 \in 1..n /\ (i + 1) - 1 = i
        BY <1>1, <3>1
      <3>6. g[f[i + 1]] = i + 1
        BY <1>0, <3>5 DEF Orders
      <3>7. To(from) = tag
        BY <3>1, <3>4, <3>5, <3>6
      <3>8. ChildKey(t, k, tag) = ks[i + 1]
        BY <1>2, <2>2, <3>1
      <3>9. ChildKey(s, k, from) = items[f[i + 1]]
        BY <1>3, <3>2
      <3> HIDE DEF From, To, t, i
      <3> QED  BY <1>0, <3>2, <3>3, <3>5, <3>7, <3>8, <3>9
    <2> QED  BY <2>1, <2>2
  <1>7. ASSUME NEW tag \in Segment
        PROVE  To(tag) \in Segment /\ ChildKey(t, k, To(tag)) = ChildKey(s, k, tag)
    <2>1. CASE IsName(tag) \/ tag.index >= n
      <3>1. To(tag) = tag
        BY <2>1
      <3>2. ~IsName(tag) => ~(tag.index < n)
        BY <1>1, <1>5, <2>1
      <3> HIDE DEF To, t
      <3> QED  BY <1>2, <1>3, <3>1, <3>2
    <2>2. CASE ~(IsName(tag) \/ tag.index >= n)
      <3> DEFINE i == tag.index
                 to == Index(g[i + 1] - 1)
      <3>1. i \in Nat /\ i < n
        BY <1>1, <1>5, <2>2
      <3>2. /\ g[i + 1] \in 1..n /\ g[i + 1] - 1 < n /\ (g[i + 1] - 1) + 1 = g[i + 1]
            /\ to \in Segment /\ ~IsName(to) /\ to.index = g[i + 1] - 1
        BY <1>4, <3>1
      <3>3. To(tag) = to
        BY <2>2
      <3>4. ChildKey(t, k, to) = ks[g[i + 1]]
        BY <1>2, <3>2
      <3>5. i + 1 \in 1..n
        BY <1>1, <3>1
      <3>6. ks[g[i + 1]] = items[i + 1]
        BY <1>0, <3>2, <3>5 DEF Orders
      <3>7. ChildKey(s, k, tag) = items[i + 1]
        BY <1>3, <2>2, <3>1
      <3> HIDE DEF To, t, i
      <3> QED  BY <3>2, <3>3, <3>4, <3>6, <3>7
    <2> QED  BY <2>1, <2>2
  <1> HIDE DEF t, From, To, n
  <1>8. ASSUME NEW m \in Nat, NEW tag \in Segment
        PROVE  Holder(t, m, tag) <=> Holder(s, m, tag)
    BY <1>2 DEF Holder
  <1>9. ASSUME NEW m \in Nat, NEW tag \in Segment, ChildKey(t, m, tag) # NoKey
        PROVE  Holder(t, m, tag) /\ ChildKey(t, m, tag) \in DOMAIN t.node
    <2>1. CASE m # k
      BY <1>2, <1>8, <1>9, <2>1 DEF Tree, Sound
    <2>2. CASE m = k
      <3>1. ChildKey(t, k, tag) = ChildKey(s, k, From(tag)) /\ From(tag) \in Segment
        BY <1>6
      <3>2. ChildKey(t, k, tag) \in DOMAIN t.node
        BY <1>1, <1>2, <1>9, <2>2, <3>1 DEF Tree
      <3>3. CASE IsName(tag)
        <4>1. ChildKey(s, k, tag) # NoKey
          BY <1>2, <1>9, <2>2, <3>3
        <4>2. Holder(s, k, tag)
          BY <1>1, <4>1 DEF Sound
        <4> QED  BY <1>1, <1>8, <2>2, <3>2, <4>2
      <3>4. CASE ~IsName(tag)
        <4>1. Holder(t, k, tag)
          BY <1>2, <3>4 DEF Holder, IsName
        <4> QED  BY <2>2, <3>2, <4>1
      <3> QED  BY <3>3, <3>4
    <2> QED  BY <2>1, <2>2
  <1>10. ASSUME NEW m \in Nat, NEW x \in Nat, NEW tag \in Segment, NEW h \in Segment,
                ChildKey(t, m, tag) # NoKey, ChildKey(t, m, tag) = ChildKey(t, x, h)
         PROVE  m = x /\ tag = h
    <2> DEFINE was(y, z) == IF y = k THEN From(z) ELSE z
    <2>1. /\ was(m, tag) \in Segment /\ ChildKey(t, m, tag) = ChildKey(s, m, was(m, tag))
          /\ was(x, h) \in Segment /\ ChildKey(t, x, h) = ChildKey(s, x, was(x, h))
      BY <1>2, <1>6
    <2> HIDE DEF was
    <2>2. ChildKey(s, m, was(m, tag)) # NoKey
            /\ ChildKey(s, m, was(m, tag)) = ChildKey(s, x, was(x, h))
      BY <1>10, <2>1
    <2>3. m = x /\ was(m, tag) = was(x, h)
      BY <1>1, <2>1, <2>2 DEF Sound
    <2>4. CASE m # k
      BY <2>3, <2>4 DEF was
    <2>5. CASE m = k
      <3>1. From(tag) = From(h)
        BY <2>3, <2>5 DEF was
      <3> QED  BY <1>6, <2>3, <3>1
    <2> QED  BY <2>4, <2>5
  <1>11. Tree(t)
    BY <1>2, <1>9, <1>10 DEF Tree, Sound
  <1>12. ASSUME NEW m \in Nat, NEW tag \in Segment, Reached(t, m), ChildKey(s, m, tag) # NoKey
         PROVE  Reached(t, ChildKey(s, m, tag))
    <2>1. PICK h \in Segment : ChildKey(t, m, h) = ChildKey(s, m, tag)
      BY <1>2, <1>7
    <2> QED  BY <1>11, <1>12, <2>1, ReachedChild DEF Tree
  <1>13. \A m : Reached(s, m) => Reached(t, m)
    <2>1. {} \in SUBSET Nat /\ Sound(t)
      BY <1>11 DEF Tree
    <2> QED  BY <1>1, <1>12, <2>1, ReachedStill
  <1>14. Full(s) => Full(t)
    BY <1>2, <1>13 DEF Full, Reached
  <1> QED  BY <1>11, <1>14 DEF Good, Done, t

(* What a sequence is with one element more.                               *)
LEMMA InsertAtItems ==
  ASSUME NEW S, NEW items \in Seq(S), NEW i \in 1..Len(items) + 1, NEW e \in S
  PROVE  /\ InsertAt(items, i, e) \in Seq(S)
         /\ Len(InsertAt(items, i, e)) = Len(items) + 1
         /\ \A j \in 1..Len(items) + 1 :
              InsertAt(items, i, e)[j] = IF j < i THEN items[j]
                                         ELSE IF j = i THEN e ELSE items[j - 1]
  <1> DEFINE n == Len(items)
             a == SubSeq(items, 1, i - 1)
             b == SubSeq(items, i, Len(items))
             c == a \o <<e>>
  <1>1. n \in Nat /\ i \in Nat /\ 1 <= i /\ i <= n + 1
    BY LenProperties
  <1>2. \A j \in 1..n : items[j] \in S
    BY ElementOfSeq
  <1>3. a \in Seq(S) /\ Len(a) = i - 1 /\ \A j \in 1..i - 1 : a[j] = items[j]
    <2>1. /\ a \in Seq(S)
          /\ Len(a) = IF 1 <= i - 1 THEN (i - 1) - 1 + 1 ELSE 0
          /\ \A j \in 1..(i - 1) - 1 + 1 : a[j] = items[1 + j - 1]
      BY <1>1, <1>2, SubSeqProperties
    <2> HIDE DEF a
    <2>2. Len(a) = i - 1
      BY <1>1, <2>1
    <2>3. \A j \in 1..i - 1 : 1 + j - 1 = j /\ j \in 1..(i - 1) - 1 + 1
      BY <1>1
    <2> QED  BY <2>1, <2>2, <2>3
  <1>4. b \in Seq(S) /\ Len(b) = n - i + 1 /\ \A j \in 1..n - i + 1 : b[j] = items[i + j - 1]
    <2>1. /\ b \in Seq(S)
          /\ Len(b) = IF i <= n THEN n - i + 1 ELSE 0
          /\ \A j \in 1..n - i + 1 : b[j] = items[i + j - 1]
      BY <1>1, <1>2, SubSeqProperties
    <2> HIDE DEF b, n
    <2> QED  BY <1>1, <2>1
  <1>5. /\ <<e>> \in Seq(S) /\ Len(<<e>>) = 1 /\ <<e>>[1] = e
    OBVIOUS
  <1> HIDE DEF a, b
  <1>6. /\ c \in Seq(S) /\ Len(c) = i
        /\ \A j \in 1..i : c[j] = IF j < i THEN items[j] ELSE e
    <2>1. /\ c \in Seq(S) /\ Len(c) = Len(a) + Len(<<e>>)
          /\ \A j \in 1..Len(a) + Len(<<e>>) :
               c[j] = IF j <= Len(a) THEN a[j] ELSE <<e>>[j - Len(a)]
      BY <1>3, <1>5, ConcatProperties
    <2>2. Len(a) + Len(<<e>>) = i
      BY <1>1, <1>3, <1>5
    <2> HIDE DEF c
    <2>3. ASSUME NEW j \in 1..i PROVE c[j] = IF j < i THEN items[j] ELSE e
      <3>1. CASE j < i
        <4>1. j <= Len(a) /\ j \in 1..i - 1
          BY <1>1, <1>3, <3>1
        <4> QED  BY <1>3, <2>1, <2>2, <3>1, <4>1
      <3>2. CASE ~(j < i)
        <4>1. ~(j <= Len(a)) /\ j - Len(a) = 1
          BY <1>1, <1>3, <3>2
        <4> QED  BY <1>5, <2>1, <2>2, <3>2, <4>1
      <3> QED  BY <3>1, <3>2
    <2> QED  BY <2>1, <2>2, <2>3
  <1> HIDE DEF c
  <1>7. /\ c \o b \in Seq(S) /\ Len(c \o b) = Len(c) + Len(b)
        /\ \A j \in 1..Len(c) + Len(b) : (c \o b)[j] = IF j <= Len(c) THEN c[j] ELSE b[j - Len(c)]
    BY <1>4, <1>6, ConcatProperties
  <1>8. InsertAt(items, i, e) = c \o b
    BY DEF InsertAt, a, b, c
  <1> HIDE DEF n
  <1>9. Len(c) + Len(b) = n + 1
    BY <1>1, <1>4, <1>6
  <1>10. ASSUME NEW j \in 1..n + 1
         PROVE  (c \o b)[j] = IF j < i THEN items[j] ELSE IF j = i THEN e ELSE items[j - 1]
    <2>1. CASE j <= i
      <3>1. j <= Len(c) /\ j \in 1..i /\ (~(j < i) => j = i)
        BY <1>1, <1>6, <2>1
      <3> QED  BY <1>6, <1>7, <1>9, <3>1
    <2>2. CASE ~(j <= i)
      <3>1. /\ ~(j <= Len(c)) /\ ~(j < i) /\ j # i
            /\ j - Len(c) \in 1..n - i + 1 /\ i + (j - Len(c)) - 1 = j - 1
        BY <1>1, <1>6, <2>2
      <3> QED  BY <1>4, <1>7, <1>9, <3>1
    <2> QED  BY <2>1, <2>2
  <1> QED  BY <1>7, <1>8, <1>9, <1>10 DEF n

(* The elements of MoveIn are those it was given, in another order.        *)
LEMMA MoveOrders ==
  ASSUME NEW S, NEW items \in Seq(S), NEW i \in Nat, i < Len(items), NEW j \in Nat
  PROVE  /\ MoveIn(items, i, j) \in Seq(S)
         /\ Rearranged(items, MoveIn(items, i, j))
  <1> DEFINE n == Len(items)
             rest == RemoveAt(items, i + 1)
             to == IF j <= Len(rest) THEN j ELSE Len(rest)
             moved == InsertAt(rest, to + 1, items[i + 1])
             up(x) == IF x < i + 1 THEN x ELSE x + 1
             down(x) == IF x < i + 1 THEN x ELSE x - 1
             at(x) == IF x < to + 1 THEN up(x) ELSE IF x = to + 1 THEN i + 1 ELSE up(x - 1)
             back(y) == IF y = i + 1 THEN to + 1
                        ELSE IF down(y) < to + 1 THEN down(y) ELSE down(y) + 1
             f == [x \in 1..n |-> at(x)]
             g == [y \in 1..n |-> back(y)]
  <1>1. n \in Nat /\ i + 1 \in 1..n /\ n >= 1
    BY LenProperties
  <1>2. /\ rest \in Seq(S) /\ Len(rest) = n - 1
        /\ \A x \in 1..n - 1 : rest[x] = IF x < i + 1 THEN items[x] ELSE items[x + 1]
    BY <1>1, RemoveAtItems
  <1> HIDE DEF rest
  <1>3. to \in Nat /\ to <= n - 1 /\ to + 1 \in 1..Len(rest) + 1
    BY <1>1, <1>2
  <1>4. items[i + 1] \in S
    BY <1>1, ElementOfSeq
  <1>5. /\ moved \in Seq(S) /\ Len(moved) = Len(rest) + 1
        /\ \A x \in 1..Len(rest) + 1 :
             moved[x] = IF x < to + 1 THEN rest[x]
                        ELSE IF x = to + 1 THEN items[i + 1] ELSE rest[x - 1]
    <2> DEFINE e == items[i + 1]
               m == to + 1
    <2>1. rest \in Seq(S) /\ m \in 1..Len(rest) + 1 /\ e \in S
      BY <1>2, <1>3, <1>4
    <2>2. moved = InsertAt(rest, m, e)
      OBVIOUS
    <2> HIDE DEF moved, e, m, to, n, f, g, at, back, up, down
    <2>3. InsertAt(rest, m, e) \in Seq(S) /\ Len(InsertAt(rest, m, e)) = Len(rest) + 1
      BY <2>1, InsertAtItems
    <2>4. \A x \in 1..Len(rest) + 1 :
            InsertAt(rest, m, e)[x] = IF x < m THEN rest[x]
                                      ELSE IF x = m THEN e ELSE rest[x - 1]
      BY <2>1, InsertAtItems
    <2> QED  BY <2>2, <2>3, <2>4 DEF e, m
  <1>6. MoveIn(items, i, j) = moved
    BY DEF MoveIn, rest
  <1> HIDE DEF to, moved, n
  <1>7. Len(rest) + 1 = n
    BY <1>1, <1>2
  <1>8. \A x \in 1..n : at(x) \in 1..n /\ back(x) \in 1..n
    BY <1>1, <1>3
  <1>9. \A x \in 1..n : at(back(x)) = x /\ back(at(x)) = x
    BY <1>1, <1>3
  <1>10. ASSUME NEW x \in 1..n PROVE moved[x] = items[at(x)]
    <2>1. \A y \in 1..n - 1 : rest[y] = items[up(y)]
      BY <1>1, <1>2
    <2>2. CASE x < to + 1
      <3>1. x \in 1..n - 1
        BY <1>1, <1>3, <2>2
      <3>2. moved[x] = rest[x]
        BY <1>5, <1>7, <2>2
      <3>3. at(x) = up(x)
        BY <2>2
      <3> HIDE DEF up, at
      <3> QED  BY <2>1, <3>1, <3>2, <3>3
    <2>3. CASE x = to + 1
      <3>1. ~(x < to + 1)
        BY <1>3, <2>3
      <3>2. moved[x] = items[i + 1]
        BY <1>5, <1>7, <2>3, <3>1
      <3>3. at(x) = i + 1
        BY <2>3, <3>1
      <3> HIDE DEF up, at
      <3> QED  BY <3>2, <3>3
    <2>4. CASE x > to + 1
      <3>1. x - 1 \in 1..n - 1 /\ ~(x < to + 1) /\ x # to + 1
        BY <1>1, <1>3, <2>4
      <3>2. moved[x] = rest[x - 1]
        BY <1>5, <1>7, <3>1
      <3>3. at(x) = up(x - 1)
        BY <3>1
      <3> HIDE DEF up, at
      <3> QED  BY <2>1, <3>1, <3>2, <3>3
    <2> QED  BY <1>1, <1>3, <2>2, <2>3, <2>4
  <1> HIDE DEF at, back
  <1>11. /\ f \in [1..n -> 1..n] /\ g \in [1..n -> 1..n]
         /\ \A x \in 1..n : f[x] = at(x) /\ g[x] = back(x)
    BY <1>8
  <1> HIDE DEF f, g
  <1>12. Orders(f, g, n)
    BY <1>8, <1>9, <1>11 DEF Orders
  <1>13. \A x \in 1..n : moved[x] = items[f[x]]
    BY <1>10, <1>11
  <1> QED  BY <1>5, <1>6, <1>7, <1>12, <1>13 DEF n, Rearranged

(* So are those of SwapIn.                                                 *)
LEMMA SwapOrders ==
  ASSUME NEW S, NEW items \in Seq(S), NEW i \in Nat, i < Len(items),
         NEW j \in Nat, j < Len(items)
  PROVE  /\ SwapIn(items, i, j) \in Seq(S)
         /\ Rearranged(items, SwapIn(items, i, j))
  <1> DEFINE n == Len(items)
             one == [items EXCEPT ![i + 1] = items[j + 1]]
             two == [one EXCEPT ![j + 1] = items[i + 1]]
             at(x) == IF x = j + 1 THEN i + 1 ELSE IF x = i + 1 THEN j + 1 ELSE x
             f == [x \in 1..n |-> at(x)]
  <1>1. n \in Nat /\ i + 1 \in 1..n /\ j + 1 \in 1..n
    BY LenProperties
  <1>2. items[i + 1] \in S /\ items[j + 1] \in S
    BY <1>1, ElementOfSeq
  <1>3. /\ one \in Seq(S) /\ Len(one) = n
        /\ \A x \in 1..n : one[x] = IF x = i + 1 THEN items[j + 1] ELSE items[x]
    BY <1>1, <1>2, ExceptSeq
  <1> HIDE DEF one
  <1>4. /\ two \in Seq(S) /\ Len(two) = n
        /\ \A x \in 1..n : two[x] = IF x = j + 1 THEN items[i + 1] ELSE one[x]
    BY <1>1, <1>2, <1>3, ExceptSeq
  <1>5. SwapIn(items, i, j) = two
    BY DEF SwapIn, one
  <1> HIDE DEF two, n
  <1>6. \A x \in 1..n : at(x) \in 1..n /\ at(at(x)) = x
    BY <1>1
  <1>7. \A x \in 1..n : two[x] = items[at(x)]
    BY <1>1, <1>3, <1>4
  <1> HIDE DEF at
  <1>8. f \in [1..n -> 1..n] /\ \A x \in 1..n : f[x] = at(x)
    BY <1>6
  <1> HIDE DEF f
  <1>9. Orders(f, f, n)
    BY <1>6, <1>8 DEF Orders
  <1>10. \A x \in 1..n : two[x] = items[f[x]]
    BY <1>7, <1>8
  <1> QED  BY <1>4, <1>5, <1>9, <1>10 DEF n, Rearranged

(* Moving an element keeps the tree.                                       *)
LEMMA ListMoveEffect ==
  ASSUME NEW s, Tree(s), NEW k, HasKind(s, k, "list"), NEW i \in Nat,
         i < Len(s.node[k].items), NEW j \in Nat
  PROVE  Good(s, ListMove(s, k, i, j)) /\ ListMove(s, k, i, j).ok = TRUE
  <1> DEFINE items == s.node[k].items
             ks == MoveIn(items, i, j)
  <1>1. items \in Seq(Nat \ {ROOT})
    BY ListItems DEF Tree, Sound
  <1>2. ks \in Seq(Nat \ {ROOT}) /\ Rearranged(items, ks)
    BY <1>1, MoveOrders
  <1> HIDE DEF ks
  <1>3. Good(s, Done(SetItems(s, k, ks), k))
    BY <1>2, RearrangeEffect
  <1> QED  BY <1>3 DEF ListMove, ks, Done

(* Swapping two elements keeps the tree.                                   *)
LEMMA ListSwapEffect ==
  ASSUME NEW s, Tree(s), NEW k, HasKind(s, k, "list"), NEW i \in Nat,
         i < Len(s.node[k].items), NEW j \in Nat, j < Len(s.node[k].items)
  PROVE  Good(s, ListSwap(s, k, i, j)) /\ ListSwap(s, k, i, j).ok = TRUE
  <1> DEFINE items == s.node[k].items
             ks == SwapIn(items, i, j)
  <1>1. items \in Seq(Nat \ {ROOT})
    BY ListItems DEF Tree, Sound
  <1>2. ks \in Seq(Nat \ {ROOT}) /\ Rearranged(items, ks)
    BY <1>1, SwapOrders
  <1> HIDE DEF ks
  <1>3. Good(s, Done(SetItems(s, k, ks), k))
    BY <1>2, RearrangeEffect
  <1> QED  BY <1>3 DEF ListSwap, ks, Done

------------------------------------------------------------------------------
(* Clearing                                                                *)

(* All children of k are gone.                                             *)
Emptied(s, t, k) ==
  /\ Shape(t)
  /\ DOMAIN t.node = DOMAIN s.node
  /\ \A m, kind : HasKind(t, m, kind) <=> HasKind(s, m, kind)
  /\ \A m \in Nat, tag \in Segment :
       ChildKey(t, m, tag) = IF m = k THEN NoKey ELSE ChildKey(s, m, tag)

(* A container is emptied without its children being visited.              *)
LEMMA EmptyAtEffect ==
  ASSUME NEW s, Sound(s), NEW k, HasKind(s, k, "object") \/ HasKind(s, k, "list")
  PROVE  Emptied(s, EmptyAt(s, k), k)
  <1> DEFINE t == EmptyAt(s, k)
  <1>1. Shape(s) /\ k \in Nat
    BY DEF Sound, Shape, HasKind, Live
  <1>2. CASE HasKind(s, k, "list")
    <2> DEFINE ks == <<>>
               u == SetItems(s, k, ks)
    <2>0. ks \in Seq(Nat \ {ROOT})
      OBVIOUS
    <2>1. t = SetItems(s, k, ks) /\ ks \in Seq(Nat \ {ROOT}) /\ Len(ks) = 0
      BY <1>2 DEF EmptyAt, SetItems
    <2> HIDE DEF t, ks
    <2>7. /\ Shape(u)
          /\ DOMAIN u.node = DOMAIN s.node
          /\ \A m, kind : HasKind(u, m, kind) <=> HasKind(s, m, kind)
      BY <1>1, <1>2, <2>0, SetItemsEffect
    <2>8. \A m, tag : m # k \/ IsName(tag) => ChildKey(u, m, tag) = ChildKey(s, m, tag)
      BY <1>1, <1>2, <2>0, SetItemsEffect
    <2>9. \A tag : ~IsName(tag) =>
               ChildKey(u, k, tag) = IF tag.index < Len(ks) THEN ks[tag.index + 1] ELSE NoKey
      BY <1>1, <1>2, <2>0, SetItemsEffect
    <2>2. /\ Shape(t)
          /\ DOMAIN t.node = DOMAIN s.node
          /\ \A m, kind : HasKind(t, m, kind) <=> HasKind(s, m, kind)
          /\ \A m, tag : m # k \/ IsName(tag) => ChildKey(t, m, tag) = ChildKey(s, m, tag)
          /\ \A tag : ~IsName(tag) =>
               ChildKey(t, k, tag) = IF tag.index < Len(ks) THEN ks[tag.index + 1] ELSE NoKey
      BY <2>1, <2>7, <2>8, <2>9 DEF u
    <2>3. ASSUME NEW tag \in Segment PROVE ChildKey(t, k, tag) = NoKey
      <3>1. CASE IsName(tag)
        <4>1. ~Holder(s, k, tag)
          BY <1>2, <3>1 DEF Holder, IsName, HasKind
        <4> QED  BY <1>1, <2>2, <3>1, <4>1 DEF Sound
      <3>2. CASE ~IsName(tag)
        <4>1. tag.index \in Nat
          BY <3>2, SegmentKinds DEF IsName
        <4>2. ~(tag.index < Len(ks))
          BY <2>1, <4>1
        <4> QED  BY <2>2, <3>2, <4>2
      <3> QED  BY <3>1, <3>2
    <2> QED  BY <2>2, <2>3 DEF Emptied, t
  <1>3. CASE ~HasKind(s, k, "list")
    <2>1. /\ t.node = s.node
          /\ DOMAIN t.link = {x \in DOMAIN s.link : x[1] # k}
          /\ \A l \in DOMAIN t.link : t.link[l] = s.link[l]
      BY <1>3 DEF EmptyAt
    <2> HIDE DEF t
    <2>2. Shape(t)
      BY <1>1, <2>1 DEF Shape, HasKind, Live
    <2>3. \A m, kind : HasKind(t, m, kind) <=> HasKind(s, m, kind)
      BY <2>1 DEF HasKind, Live
    <2>4. ASSUME NEW m \in Nat, NEW tag \in Segment
          PROVE  ChildKey(t, m, tag) = IF m = k THEN NoKey ELSE ChildKey(s, m, tag)
      <3>1. <<m, tag.name>>[1] = m
        OBVIOUS
      <3>2. CASE IsName(tag)
        <4>1. <<m, tag.name>> \in DOMAIN t.link <=> <<m, tag.name>> \in DOMAIN s.link /\ m # k
          BY <2>1, <3>1
        <4>2. CASE m = k
          BY <3>2, <4>1, <4>2 DEF ChildKey
        <4>3. CASE m # k
          <5>1. CASE <<m, tag.name>> \in DOMAIN t.link
            BY <2>1, <3>2, <4>1, <4>3, <5>1 DEF ChildKey
          <5>2. CASE <<m, tag.name>> \notin DOMAIN t.link
            BY <3>2, <4>1, <4>3, <5>2 DEF ChildKey
          <5> QED  BY <5>1, <5>2
        <4> QED  BY <4>2, <4>3
      <3>3. CASE ~IsName(tag)
        BY <1>3, <2>1, <2>3, <3>3 DEF ChildKey
      <3> QED  BY <3>2, <3>3
    <2> QED  BY <2>1, <2>2, <2>3, <2>4 DEF Emptied, t
  <1> QED  BY <1>2, <1>3

(* What is deleted below a reached node does not hold the node.            *)
LEMMA NotBelowItself ==
  ASSUME NEW s, Sound(s), NEW k, Reached(s, k)
  PROVE  /\ k \in Nat /\ Below(s, k) \in SUBSET Nat
         /\ k \notin Visited(s, Below(s, k))
  <1> DEFINE from == Below(s, k)
             A == {m \in Nat : \E c \in from : m \in Visited(s, {c})}
  <1>1. k \in Nat
    BY ReachedType
  <1>2. \A c \in from : c # NoKey /\ \E seg \in Segment : c = ChildKey(s, k, seg)
    BY <1>1, BelowAreChildren
  <1>3. from \in SUBSET Nat
    <2>1. \A seg \in Segment : ChildKey(s, k, seg) \in (Nat \ {ROOT}) \cup {NoKey}
      BY ChildKeyType DEF Sound
    <2> QED  BY <1>2, <2>1
  <1> HIDE DEF from
  <1>4. from \subseteq A
    <2>1. \A c \in from : {c} \subseteq Visited(s, {c})
      BY VisitedFrom DEF Sound
    <2> QED  BY <1>3, <2>1
  <1>5. ASSUME NEW m \in A, NEW seg \in Segment, ChildKey(s, m, seg) # NoKey
        PROVE  ChildKey(s, m, seg) \in A
    <2>1. PICK c \in from : m \in Visited(s, {c})
      OBVIOUS
    <2>2. ChildKey(s, m, seg) \in Visited(s, {c})
      BY <1>5, <2>1, VisitedChild
    <2>3. ChildKey(s, m, seg) \in Nat
      BY <1>5, ChildKeyType DEF Sound
    <2> QED  BY <2>2, <2>3
  <1>6. Visited(s, from) \subseteq A
    <2>1. A \in SUBSET Nat
      OBVIOUS
    <2> HIDE DEF A
    <2> QED  BY <1>4, <1>5, <2>1, VisitedWithin
  <1>7. \A c \in from : k \notin Visited(s, {c})
    BY <1>2, NoCycle
  <1> QED  BY <1>1, <1>3, <1>6, <1>7 DEF from

(* Clearing a container deletes what is below it and nothing else.         *)
LEMMA ClearEffect ==
  ASSUME NEW s, Tree(s), NEW k, HasKind(s, k, "object") \/ HasKind(s, k, "list"),
         Reached(s, k)
  PROVE  Good(s, ClearChildren(s, k))
  <1> DEFINE from == Below(s, k)
             gone == Visited(s, from)
             t == DeleteAll(s, from)
             u == EmptyAt(t, k)
  <1>1. Sound(s) /\ k \in Nat /\ from \in SUBSET Nat /\ k \notin gone /\ from \subseteq gone
    <2>1. Sound(s) /\ Shape(s)
      BY DEF Tree, Sound
    <2> QED  BY <2>1, NotBelowItself, VisitedFrom
  <1>2. from = Refs(s, k)
    BY DEF Below
  <1>3. /\ Sound(t) /\ Pruned(s, t, gone)
        /\ gone \in SUBSET Nat
        /\ \A m \in Nat, tag \in Segment :
             ChildKey(t, m, tag) # NoKey =>
               ChildKey(t, m, tag) \in from \/ ChildKey(t, m, tag) \in DOMAIN t.node
        /\ Full(s) => Full(t)
    <2> HIDE DEF from
    <2> QED  BY <1>1, DeleteAllEffect
  <1>4. \A c : c \in from <=> c # NoKey /\ \E seg \in Segment : c = ChildKey(s, k, seg)
    BY <1>1, BelowAreChildren
  <1> HIDE DEF t, gone, from
  <1>5. Emptied(t, u, k)
    <2>1. HasKind(t, k, "object") \/ HasKind(t, k, "list")
      BY <1>1, <1>3 DEF Pruned
    <2> QED  BY <1>3, <2>1, EmptyAtEffect
  <1> HIDE DEF u
  <1>6. ASSUME NEW m \in Nat, NEW tag \in Segment, ChildKey(u, m, tag) # NoKey
        PROVE  /\ m # k /\ ChildKey(u, m, tag) = ChildKey(t, m, tag)
               /\ ChildKey(u, m, tag) = ChildKey(s, m, tag)
    BY <1>3, <1>5, <1>6 DEF Emptied, Pruned
  <1>7. Sound(u)
    <2>1. Shape(u)
      BY <1>5 DEF Emptied
    <2>2. ASSUME NEW m \in Nat, NEW tag \in Segment, ChildKey(u, m, tag) # NoKey
          PROVE  Holder(u, m, tag)
      <3>1. Holder(t, m, tag)
        BY <1>3, <1>6, <2>2 DEF Sound
      <3> QED  BY <1>5, <3>1 DEF Emptied, Holder
    <2>3. ASSUME NEW m \in Nat, NEW x \in Nat, NEW tag \in Segment, NEW h \in Segment,
                 ChildKey(u, m, tag) # NoKey, ChildKey(u, m, tag) = ChildKey(u, x, h)
          PROVE  m = x /\ tag = h
      <3>1. ChildKey(t, m, tag) # NoKey /\ ChildKey(t, m, tag) = ChildKey(t, x, h)
        BY <1>6, <2>3
      <3> QED  BY <1>3, <3>1 DEF Sound
    <2> QED  BY <2>1, <2>2, <2>3 DEF Sound
  <1>8. ASSUME NEW m \in Nat, NEW tag \in Segment, ChildKey(u, m, tag) # NoKey
        PROVE  ChildKey(u, m, tag) \in DOMAIN u.node
    <2>1. ASSUME ChildKey(u, m, tag) \in from PROVE FALSE
      <3>1. PICK seg \in Segment : ChildKey(u, m, tag) = ChildKey(s, k, seg)
        BY <1>4, <2>1
      <3>2. ChildKey(s, m, tag) # NoKey /\ ChildKey(s, m, tag) = ChildKey(s, k, seg) /\ m # k
        BY <1>6, <1>8, <3>1
      <3> QED  BY <1>1, <3>2 DEF Sound
    <2>2. ChildKey(u, m, tag) = ChildKey(t, m, tag)
      BY <1>6, <1>8
    <2>3. DOMAIN u.node = DOMAIN t.node
      BY <1>5 DEF Emptied
    <2> QED  BY <1>3, <1>8, <2>1, <2>2, <2>3
  <1>9. Tree(u)
    BY <1>7, <1>8 DEF Tree
  <1>10. ASSUME Full(t) PROVE Full(u)
    <2>1. ASSUME NEW m \in gone, NEW tag \in Segment, ChildKey(t, m, tag) # NoKey
          PROVE  ChildKey(t, m, tag) \in gone
      BY <1>3, <2>1 DEF Pruned
    <2>2. ASSUME NEW m \in Nat, NEW tag \in Segment, Reached(u, m), m \notin gone,
                 ChildKey(t, m, tag) # NoKey, ChildKey(t, m, tag) \notin gone
          PROVE  Reached(u, ChildKey(t, m, tag))
      <3>1. ChildKey(t, m, tag) = ChildKey(s, m, tag)
        BY <1>3, <2>2 DEF Pruned
      <3>2. m # k
        BY <1>1, <1>4, <2>2, <3>1
      <3>3. ChildKey(u, m, tag) = ChildKey(t, m, tag)
        BY <1>5, <3>2 DEF Emptied
      <3> QED  BY <1>7, <2>2, <3>3, ReachedChild
    <2>3. \A m : Reached(t, m) /\ m \notin gone => Reached(u, m)
      BY <1>3, <1>7, <2>1, <2>2, ReachedStill
    <2>4. \A m \in DOMAIN u.node : m \in DOMAIN t.node /\ m \notin gone
      BY <1>3, <1>5 DEF Emptied, Pruned
    <2> QED  BY <1>10, <2>3, <2>4 DEF Full, Reached
  <1>11. ClearChildren(s, k) = [ok |-> TRUE, s |-> u, key |-> k]
    BY <1>2 DEF ClearChildren, Done, t, u
  <1> QED  BY <1>3, <1>9, <1>10, <1>11 DEF Good

------------------------------------------------------------------------------
(* The calls                                                               *)

(* An edit of a blob changes the entity alone, which stays packed.         *)
LEMMA EditBlobEffect ==
  ASSUME Tree(Table), NEW k, HasKind(Table, k, "packed"), NEW possible \in BOOLEAN,
         NEW d, possible => Flat(d)
  PROVE  Good(Table, EditBlob(k, possible, d))
  <1> DEFINE t == WriteNode(Table, k, PackedNode(d))
  <1>1. CASE possible
    <2>1. Tree(t) /\ (Full(Table) => Full(t))
      BY <1>1, RepackEffect
    <2>2. EditBlob(k, possible, d) = [ok |-> TRUE, s |-> t, key |-> k]
      BY <1>1 DEF EditBlob, Done
    <2> HIDE DEF t
    <2> QED  BY <2>1, <2>2 DEF Good
  <1>2. CASE ~possible
    <2>1. EditBlob(k, possible, d) = [ok |-> FALSE, s |-> Table, key |-> NoKey]
      BY <1>2 DEF EditBlob, Error
    <2> QED  BY <2>1 DEF Good
  <1> QED  BY <1>1, <1>2

(* put_scalar at any path, into a packed entity or not.                    *)
LEMMA PutEffect ==
  ASSUME Tree(Table), NEW p \in Seq(Segment), Len(p) <= 2, NEW v \in Values
  PROVE  Good(Table, PutStep(p, v))
  <1> DEFINE at == Locate(Table, p)
  <1>1. NoEntity(Table, p, at) \/ ToEntity(Table, p, at) \/ IntoEntity(Table, p, at)
    BY PlaceIs
  <1> HIDE DEF at
  <1>2. CASE at.at = "packed"
    <2> DEFINE d == node[at.key].doc
    <2>1. /\ HasKind(Table, at.key, "packed")
          /\ at.rel \in Seq(Segment) /\ Len(at.rel) <= 1
      <3>1. Len(p) \in Nat
        BY LenProperties
      <3>2. CASE ToEntity(Table, p, at)
        <4>1. <<>> \in Seq(Segment) /\ Len(<<>>) = 0
          BY EmptyPath
        <4> QED  BY <3>2, <4>1 DEF ToEntity, AnEntity
      <3>3. CASE IntoEntity(Table, p, at)
        <4>1. Len(at.rel) \in Nat
          BY <3>3, LenProperties DEF IntoEntity
        <4> QED  BY <3>1, <3>3, <4>1 DEF IntoEntity, AnEntity
      <3> QED  BY <1>1, <1>2, <3>2, <3>3 DEF NoEntity
    <2>2. Flat(d)
      BY <2>1, PackedIsBare DEF Table
    <2>3. Fits(d, at.rel) => Flat(With(d, at.rel, Leaf(v)))
      BY <2>1, <2>2, FlatWith
    <2>4. Fits(d, at.rel) \in BOOLEAN
      BY DEF Fits
    <2>5. Good(Table, EditBlob(at.key, Fits(d, at.rel), With(d, at.rel, Leaf(v))))
      <3> DEFINE fits == Fits(d, at.rel)
                 e == With(d, at.rel, Leaf(v))
      <3>1. fits \in BOOLEAN /\ (fits => Flat(e))
        BY <2>3, <2>4
      <3> HIDE DEF fits, e
      <3>2. Good(Table, EditBlob(at.key, fits, e))
        BY <2>1, <3>1, EditBlobEffect
      <3> QED  BY <3>2 DEF fits, e
    <2> QED  BY <1>2, <2>5 DEF PutStep, PutAt, at
  <1>3. CASE at.at # "packed"
    <2>1. Unpacked(Table, ROOT, p)
      BY <1>1, <1>3 DEF NoEntity, ToEntity, IntoEntity, AnEntity
    <2>2. PutStep(p, v) = PutScalar(Table, ROOT, p, v)
      BY <1>3 DEF PutStep, PutAt, at
    <2>3. CASE p = <<>>
      BY <2>2, <2>3, PutRootEffect DEF Good
    <2>4. CASE p # <<>>
      <3>1. Unpacked(Table, ROOT, Front(p))
        BY <2>1, <2>4, RootIsBase, UnpackedFront
      <3>2. PutDone(Table, ROOT, p, PutScalar(Table, ROOT, p, v))
        BY <2>4, <3>1, RootIsBase, PutLeafEffect
      <3> QED  BY <2>2, <3>2, PutIsValue DEF ValueDone
    <2> QED  BY <2>3, <2>4
  <1> QED  BY <1>2, <1>3

(* remove at any path, into a packed entity or not.                        *)
LEMMA RemoveStepEffect ==
  ASSUME Tree(Table), NEW p \in Seq(Segment), Len(p) <= 2
  PROVE  Good(Table, RemoveStep(p))
  <1> DEFINE at == Locate(Table, p)
  <1>1. NoEntity(Table, p, at) \/ ToEntity(Table, p, at) \/ IntoEntity(Table, p, at)
    BY PlaceIs
  <1> HIDE DEF at
  <1>2. CASE at.at = "packed" /\ at.rel # <<>>
    <2> DEFINE d == node[at.key].doc
               e == Without(d, at.rel)
    <2>1. HasKind(Table, at.key, "packed") /\ at.rel \in Seq(Segment) /\ Len(at.rel) <= 1
      <3>1. IntoEntity(Table, p, at)
        BY <1>1, <1>2 DEF NoEntity, ToEntity
      <3>2. Len(at.rel) \in Nat /\ Len(p) \in Nat
        BY <3>1, LenProperties DEF IntoEntity
      <3> QED  BY <3>1, <3>2 DEF IntoEntity, AnEntity
    <2>2. Flat(d)
      BY <2>1, PackedIsBare DEF Table
    <2>3. Flat(e)
      BY <1>2, <2>1, <2>2, FlatWithout
    <2> HIDE DEF e
    <2>4. Good(Table, EditBlob(at.key, TRUE, e))
      BY <2>1, <2>3, EditBlobEffect
    <2> QED  BY <1>2, <2>4 DEF RemoveStep, RemoveIn, at, e
  <1>3. CASE ~(at.at = "packed" /\ at.rel # <<>>)
    <2>1. RemoveStep(p) = RemovePath(Table, p)
      BY <1>3 DEF RemoveStep, RemoveIn, at
    <2> QED  BY <2>1, RemoveEffect
  <1> QED  BY <1>2, <1>3

(* A store that removes the old subtree and writes the new one.            *)
LEMMA ReplaceEffect ==
  ASSUME ~StoreShifts, ~StoreIntoPacked, Tree(Table), NEW p \in Seq(Segment),
         MayStore(Table, p), NEW d, Flat(d)
  PROVE  Good(Table, Replace(p, d))
  <1>1. WayClear(Table, p) /\ Unshifted(Table, p)
    BY MayStoreIs
  <1> QED  BY <1>1, ReplaceInEffect DEF Replace

(* store: the packed entity at its path is overwritten, or the subtree     *)
(* there is replaced.                                                      *)
LEMMA StoreEffect ==
  ASSUME ~StoreShifts, ~StoreIntoPacked, Tree(Table), NEW p \in Seq(Segment),
         MayStore(Table, p), NEW d, Flat(d)
  PROVE  Good(Table, StoreStep(p, d))
  <1> DEFINE at == Locate(Table, p)
  <1>1. NoEntity(Table, p, at) \/ ToEntity(Table, p, at) \/ IntoEntity(Table, p, at)
    BY PlaceIs
  <1> HIDE DEF at
  <1>2. CASE p \notin shredded /\ at.at = "packed" /\ at.rel = <<>>
    <2>1. HasKind(Table, at.key, "packed")
      BY <1>1, <1>2 DEF NoEntity, ToEntity, IntoEntity, AnEntity
    <2>2. Good(Table, EditBlob(at.key, TRUE, d))
      BY <2>1, EditBlobEffect
    <2>3. StoreStep(p, d) = EditBlob(at.key, TRUE, d)
      BY <1>2 DEF StoreStep, StoreOver, EditBlob, at
    <2> QED  BY <2>2, <2>3
  <1>3. CASE ~(p \notin shredded /\ at.at = "packed" /\ at.rel = <<>>)
    <2>1. StoreStep(p, d) = Replace(p, d)
      BY <1>3 DEF StoreStep, StoreOver, at
    <2> QED  BY <2>1, ReplaceEffect
  <1> QED  BY <1>2, <1>3

(* What a call does to the opened table it does to the table.              *)
LEMMA GoodOpened ==
  ASSUME Tree(Table), NEW p \in Seq(Segment), NEW r, Good(Opened(p), r)
  PROVE  Good(Table, r)
  BY OpenedEffect DEF Good

(* fetch_mut: the entity the path leads to, or into, becomes nodes.        *)
LEMMA OpenEffect ==
  ASSUME Tree(Table), NEW p \in Seq(Segment)
  PROVE  Good(Table, Done(Opened(p), NoKey))
  BY OpenedEffect DEF Good, Done

(* The container an accessor is on.                                        *)
LEMMA AccessorIs ==
  ASSUME NEW s, Tree(s), NEW p \in Seq(Segment),
         NEW kinds \in SUBSET {"object", "list", "leaf"}, NEW k \in Accessor(s, p, kinds)
  PROVE  /\ k = ResolveFrom(s, ROOT, p) /\ k # NoKey
         /\ \E kind \in kinds : HasKind(s, k, kind)
         /\ Reached(s, k) /\ k \in Nat
         /\ Unpacked(s, ROOT, p)
  <1>1. Sound(s) /\ Shape(s) /\ ROOT \in Nat /\ Reached(s, ROOT)
    BY RootIsBase
  <1>2. k = ResolveFrom(s, ROOT, p) /\ \E kind \in kinds : HasKind(s, k, kind)
    BY DEF Accessor
  <1>3. k # NoKey /\ ~HasKind(s, k, "packed")
    <2>1. \A kind : ~HasKind(s, NoKey, kind)
      BY <1>1, NoKeyIsNoNode
    <2> QED  BY <1>2, <2>1 DEF HasKind
  <1>4. Unpacked(s, ROOT, p)
    BY <1>1, <1>2, <1>3, UnpackedTo
  <1>5. Reached(s, k)
    <2>1. Len(p) \in 0..Len(p)
      BY LenProperties
    <2> QED  BY <1>1, <1>2, <1>3, <2>1, WalkReached DEF ResolveFrom
  <1> QED  BY <1>1, <1>2, <1>3, <1>4, <1>5, ReachedType

(* Removing children one after the other                                   *)
IsEach(g, s, p, segs, gone, n) ==
  g = [i \in 0..n |-> IF i = 0 THEN Done(s, NoKey)
                      ELSE IF g[i - 1].ok /\ segs[i] \in gone
                      THEN RemovePath(g[i - 1].s, Append(p, segs[i]))
                      ELSE g[i - 1]]

(* The function that RemoveEach defines exists: the table after each       *)
(* removal.                                                                *)
LEMMA EachExist ==
  ASSUME NEW s, NEW p, NEW segs, NEW gone
  PROVE  \A n \in Nat : \E g : IsEach(g, s, p, segs, gone, n)
  <1> DEFINE N == {n \in Nat : \E g : IsEach(g, s, p, segs, gone, n)}
  <1>1. 0 \in N
    <2>1. IsEach([i \in 0..0 |-> Done(s, NoKey)], s, p, segs, gone, 0)
      BY DEF IsEach
    <2> QED  BY <2>1
  <1>2. ASSUME NEW n \in Nat, n \in N PROVE n + 1 \in N
    <2>1. PICK g : IsEach(g, s, p, segs, gone, n)
      BY <1>2
    <2> DEFINE step(i, last) == IF last.ok /\ segs[i] \in gone
                                THEN RemovePath(last.s, Append(p, segs[i])) ELSE last
               h == [i \in 0..n + 1 |-> IF i = n + 1 THEN step(i, g[n]) ELSE g[i]]
    <2>2. \A i \in 0..n : g[i] = IF i = 0 THEN Done(s, NoKey) ELSE step(i, g[i - 1])
      BY <2>1 DEF IsEach
    <2>3. \A i \in 0..n + 1 : h[i] = IF i = n + 1 THEN step(i, g[n]) ELSE g[i]
      OBVIOUS
    <2>4. h = [i \in 0..n + 1 |-> h[i]]
      OBVIOUS
    <2> HIDE DEF h, step
    <2>5. ASSUME NEW i \in 0..n + 1
          PROVE  h[i] = IF i = 0 THEN Done(s, NoKey) ELSE step(i, h[i - 1])
      <3>1. CASE i = n + 1
        <4>1. i # 0 /\ i - 1 = n /\ n \in 0..n + 1 /\ n # n + 1
          BY <3>1
        <4> QED  BY <2>3, <3>1, <4>1
      <3>2. CASE i # n + 1
        <4>1. i \in 0..n
          BY <3>2
        <4>2. h[i] = g[i]
          BY <2>3, <3>2
        <4>3. CASE i = 0
          BY <2>2, <4>1, <4>2, <4>3
        <4>4. CASE i # 0
          <5>1. i - 1 \in 0..n + 1 /\ i - 1 # n + 1
            BY <4>1, <4>4
          <5>2. h[i - 1] = g[i - 1]
            BY <2>3, <5>1
          <5> QED  BY <2>2, <4>1, <4>2, <4>4, <5>2
        <4> QED  BY <4>3, <4>4
      <3> QED  BY <3>1, <3>2
    <2>6. h = [i \in 0..n + 1 |-> IF i = 0 THEN Done(s, NoKey) ELSE step(i, h[i - 1])]
      BY <2>4, <2>5
    <2>7. IsEach(h, s, p, segs, gone, n + 1)
      BY <2>6 DEF IsEach, step
    <2> QED  BY <2>7
  <1>3. Nat \subseteq N
    <2> HIDE DEF N
    <2> QED  BY <1>1, <1>2, SetInduction
  <1> QED  BY <1>3

(* g is what is left after each removal.                                   *)
Each(g, s, p, segs, gone) ==
  /\ g[0] = Done(s, NoKey)
  /\ \A i \in 1..Len(segs) :
       g[i] = IF g[i - 1].ok /\ segs[i] \in gone
              THEN RemovePath(g[i - 1].s, Append(p, segs[i])) ELSE g[i - 1]

(* RemoveEach removes one child after the other.                           *)
LEMMA EachSteps ==
  ASSUME NEW s, NEW p, NEW segs \in Seq(Segment), NEW gone
  PROVE  \E g : Each(g, s, p, segs, gone) /\ RemoveEach(s, p, segs, gone) = g[Len(segs)]
  <1> DEFINE R == CHOOSE g : IsEach(g, s, p, segs, gone, Len(segs))
  <1>1. Len(segs) \in Nat
    BY LenProperties
  <1>2. IsEach(R, s, p, segs, gone, Len(segs))
    BY <1>1, EachExist
  <1>3. RemoveEach(s, p, segs, gone) = R[Len(segs)]
    BY DEF RemoveEach, IsEach
  <1> HIDE DEF R
  <1>4. \A i \in 0..Len(segs) :
          R[i] = IF i = 0 THEN Done(s, NoKey)
                 ELSE IF R[i - 1].ok /\ segs[i] \in gone
                 THEN RemovePath(R[i - 1].s, Append(p, segs[i])) ELSE R[i - 1]
    BY <1>2 DEF IsEach
  <1>5. Each(R, s, p, segs, gone)
    BY <1>1, <1>4 DEF Each
  <1> QED  BY <1>3, <1>5

(* Removals one after the other, whatever goes.                            *)
LEMMA RemoveEachEffect ==
  ASSUME NEW s, Tree(s), NEW p \in Seq(Segment), NEW segs \in Seq(Segment), NEW gone
  PROVE  Good(s, RemoveEach(s, p, segs, gone))
  <1>1. PICK g : Each(g, s, p, segs, gone) /\ RemoveEach(s, p, segs, gone) = g[Len(segs)]
    BY EachSteps
  <1>2. Len(segs) \in Nat
    BY LenProperties
  <1> DEFINE N == {i \in Nat : i <= Len(segs) => Good(s, g[i])}
  <1>3. 0 \in N
    <2>1. g[0] = [ok |-> TRUE, s |-> s, key |-> NoKey]
      BY <1>1 DEF Each, Done
    <2>2. Good(s, g[0])
      BY <2>1 DEF Good
    <2> QED  BY <2>2
  <1>4. ASSUME NEW i \in Nat, i \in N PROVE i + 1 \in N
    <2>1. SUFFICES ASSUME i + 1 <= Len(segs) PROVE Good(s, g[i + 1])
      OBVIOUS
    <2>2. Good(s, g[i])
      BY <1>2, <1>4, <2>1
    <2> DEFINE seg == segs[i + 1]
    <2>3. /\ i + 1 \in 1..Len(segs) /\ (i + 1) - 1 = i
      BY <1>2, <2>1
    <2>4. seg \in Segment
      BY <2>3, ElementOfSeq
    <2>5. g[i + 1] = IF g[i].ok /\ seg \in gone THEN RemovePath(g[i].s, Append(p, seg)) ELSE g[i]
      BY <1>1, <2>3 DEF Each
    <2>6. CASE g[i].ok /\ seg \in gone
      <3>1. Append(p, seg) \in Seq(Segment)
        BY <2>4, PathAppend
      <3>2. Good(g[i].s, g[i + 1])
        BY <2>2, <2>5, <2>6, <3>1, RemoveEffect DEF Good
      <3> QED  BY <2>2, <2>6, <3>2, GoodOn
    <2>7. CASE ~(g[i].ok /\ seg \in gone)
      BY <2>2, <2>5, <2>7
    <2> QED  BY <2>6, <2>7
  <1>5. Nat \subseteq N
    <2> HIDE DEF N
    <2> QED  BY <1>3, <1>4, SetInduction
  <1> QED  BY <1>1, <1>2, <1>5

(* A finite set put in a sequence.                                         *)
LEMMA SetSequence ==
  ASSUME NEW S, NEW T, T \subseteq S, IsFiniteSet(T)
  PROVE  SetToSeq(T) \in Seq(S)
  <1> DEFINE n == Cardinality(T)
  <1>1. n \in Nat /\ \E f : f \in Bijection(1..n, T)
    BY FS_CardinalityType DEF ExistsBijection
  <1>2. \E f \in [1..n -> T] : IsInjective(f)
    BY <1>1 DEF Bijection, Injection
  <1>3. SetToSeq(T) \in [1..n -> T]
    BY <1>2 DEF SetToSeq
  <1> HIDE DEF n
  <1> QED  BY <1>1, <1>3

(* clear on a container.                                                   *)
LEMMA ClearCallEffect ==
  ASSUME NEW s, Tree(s), NEW p \in Seq(Segment),
         NEW k \in Accessor(s, p, {"object", "list"})
  PROVE  Good(s, ClearChildren(s, k))
  <1>1. {"object", "list"} \in SUBSET {"object", "list", "leaf"}
    OBVIOUS
  <1>2. Reached(s, k) /\ (HasKind(s, k, "object") \/ HasKind(s, k, "list"))
    BY <1>1, AccessorIs
  <1> QED  BY <1>2, ClearEffect

(* What an accessor on a list knows of it.                                 *)
LEMMA ListAccessor ==
  ASSUME NEW s, Tree(s), NEW p \in Seq(Segment), NEW k \in Accessor(s, p, {"list"})
  PROVE  /\ HasKind(s, k, "list") /\ Reached(s, k) /\ k # NoKey
         /\ k = ResolveFrom(s, ROOT, p) /\ Unpacked(s, ROOT, p)
         /\ s.node[k].items \in Seq(Nat \ {ROOT}) /\ Len(s.node[k].items) \in Nat
  <1>1. {"list"} \in SUBSET {"object", "list", "leaf"}
    OBVIOUS
  <1>2. /\ HasKind(s, k, "list") /\ Reached(s, k) /\ k # NoKey
        /\ k = ResolveFrom(s, ROOT, p) /\ Unpacked(s, ROOT, p)
    BY <1>1, AccessorIs
  <1>3. s.node[k].items \in Seq(Nat \ {ROOT})
    BY <1>2, ListItems DEF Tree, Sound
  <1> QED  BY <1>2, <1>3, LenProperties

(* swap_remove: an element changes places with the last one, which is      *)
(* removed.                                                                *)
LEMMA SwapRemoveEffect ==
  ASSUME NEW s, Tree(s), NEW p \in Seq(Segment), NEW k \in Accessor(s, p, {"list"}),
         NEW last, last = Len(s.node[k].items) - 1, NEW i \in 0..last
  PROVE  Good(s, RemovePath(ListSwap(s, k, i, last).s, Append(p, Index(last))))
  <1>1. HasKind(s, k, "list") /\ Len(s.node[k].items) \in Nat
    BY ListAccessor
  <1>2. i \in Nat /\ last \in Nat /\ i < Len(s.node[k].items) /\ last < Len(s.node[k].items)
    BY <1>1
  <1> DEFINE r == ListSwap(s, k, i, last)
             q == Append(p, Index(last))
  <1>3. Good(s, r) /\ r.ok = TRUE
    BY <1>1, <1>2, ListSwapEffect
  <1>4. q \in Seq(Segment)
    BY <1>2, IndexSegment, PathAppend
  <1> HIDE DEF r, q
  <1>5. Good(r.s, RemovePath(r.s, q))
    BY <1>3, <1>4, RemoveEffect DEF Good
  <1> QED  BY <1>3, <1>5, GoodOn DEF r, q

(* insert_at: the element is written at the end and moved to its place.    *)
LEMMA InsertElementEffect ==
  ASSUME NEW s, Tree(s), NEW p \in Seq(Segment), NEW k \in Accessor(s, p, {"list"}),
         NEW d, Flat(d), NEW end, end = Len(s.node[k].items),
         NEW new, new = WriteValue(s, ROOT, Append(p, Index(end)), d), NEW i \in 0..end
  PROVE  Good(s, IF new.ok THEN ListMove(new.s, k, end, i) ELSE new)
  <1> DEFINE seg == Index(end)
             q == Append(p, seg)
  <1>1. /\ HasKind(s, k, "list") /\ k # NoKey
        /\ k = ResolveFrom(s, ROOT, p) /\ Unpacked(s, ROOT, p)
        /\ end \in Nat
    BY ListAccessor
  <1>2. seg \in Segment /\ IsIndex(seg) /\ seg.index = end
    BY <1>1, IndexSegment
  <1>3. /\ q \in Seq(Segment) /\ q # <<>> /\ Len(q) = Len(p) + 1
        /\ Front(q) = p /\ Last(q) = seg /\ Len(p) \in Nat
    BY <1>2, PathAppend, LenProperties
  <1>4. ChildKey(s, k, seg) = NoKey
    BY <1>1, <1>2 DEF ChildKey, IsName
  <1> HIDE DEF seg, q
  <1>5. ResolveFrom(s, ROOT, q) = NoKey
    BY <1>1, <1>3, <1>4, ResolveLast
  <1>6. Unpacked(s, ROOT, q)
    <2>1. ~HasKind(s, NoKey, "packed")
      BY RootIsBase, NoKeyIsNoNode
    <2> QED  BY <1>1, <1>3, <1>5, <2>1, RootIsBase, UnpackedFront
  <1>7. ValueDone(s, ROOT, q, new)
    BY <1>3, <1>6, RootIsBase, WriteValueEffect DEF q, seg
  <1>8. CASE ~new.ok
    BY <1>7, <1>8 DEF ValueDone
  <1>9. CASE new.ok
    <2> DEFINE t == new.s
    <2>1. Good(s, new) /\ Tree(t)
      BY <1>7 DEF ValueDone, Good
    <2>2. Sound(t)
      BY <2>1 DEF Tree
    <2>3. ResolveFrom(t, ROOT, p) = k
      <3>1. Len(q) - 1 = Len(p) /\ Len(p) \in 0..Len(q) - 1
        BY <1>3
      <3>2. Walk(s, ROOT, q)[Len(p)] = k
        <4>1. Walk(s, ROOT, q)[Len(q) - 1] = ResolveFrom(s, ROOT, p)
          BY <1>3, ResolveLast
        <4> QED  BY <1>1, <3>1, <4>1
      <3>3. Walk(t, ROOT, q)[Len(p)] = k
        BY <1>1, <1>3, <1>7, <1>9, <3>1, <3>2 DEF ValueDone
      <3>4. Walk(t, ROOT, q)[Len(p)] = ResolveFrom(t, ROOT, p)
        BY <1>3, <3>1, ResolveLast
      <3> QED  BY <3>3, <3>4
    <2>4. ResolveFrom(t, ROOT, q) # NoKey
      BY <1>3, <1>7, <1>9 DEF ValueDone
    <2>5. ChildKey(t, k, seg) # NoKey
      BY <1>1, <1>3, <2>3, <2>4, ResolveLast
    <2>6. HasKind(t, k, "list") /\ end < Len(t.node[k].items)
      BY <1>2, <2>5 DEF ChildKey, IsName
    <2>7. i \in Nat
      BY <1>1
    <2> HIDE DEF t
    <2>8. Good(t, ListMove(t, k, end, i))
      BY <1>1, <2>1, <2>6, <2>7, ListMoveEffect
    <2>9. Good(s, ListMove(t, k, end, i))
      BY <1>9, <2>1, <2>8, GoodOn DEF t
    <2> QED  BY <1>9, <2>9 DEF t
  <1> QED  BY <1>8, <1>9

(* insert into a map: the old entry is removed and the new one written.    *)
LEMMA InsertEntryEffect ==
  ASSUME NEW s, Tree(s), NEW p \in Seq(Segment), NEW k \in Accessor(s, p, {"object"}),
         NEW n \in Names, NEW d, Flat(d), NEW q, q = Append(p, Name(n))
  PROVE  Good(s, WriteValue(RemovePath(s, q).s, ROOT, q, d))
  <1>1. Unpacked(s, ROOT, p)
    <2>1. {"object"} \in SUBSET {"object", "list", "leaf"}
      OBVIOUS
    <2> QED  BY <2>1, AccessorIs
  <1>2. /\ q \in Seq(Segment) /\ q # <<>> /\ Front(q) = p /\ Last(q) = Name(n)
    BY NameSegment, PathAppend
  <1>3. WayClear(s, q) /\ Unshifted(s, q)
    BY <1>1, <1>2, NameSegment DEF WayClear, Unshifted
  <1> DEFINE r == RemovePath(s, q)
  <1>4. r.ok = TRUE /\ Good(s, r) /\ Unpacked(r.s, ROOT, q)
    BY <1>2, <1>3, RemoveEffect
  <1> HIDE DEF r
  <1>5. ValueDone(r.s, ROOT, q, WriteValue(r.s, ROOT, q, d))
    BY <1>2, <1>4, RootIsBase, WriteValueEffect DEF Good
  <1> QED  BY <1>4, <1>5, GoodOn DEF ValueDone, r

(* set on an optional value: the old one is removed and the new one        *)
(* written.                                                                *)
LEMMA SetOptionEffect ==
  ASSUME ~StoreShifts, ~StoreIntoPacked, NEW s, Tree(s), NEW p \in Seq(Segment),
         MayStore(s, p), NEW d, Flat(d)
  PROVE  Good(s, WriteValue(RemovePath(s, p).s, ROOT, p, d))
  <1>1. WayClear(s, p) /\ Unshifted(s, p)
    BY MayStoreIs
  <1> DEFINE r == RemovePath(s, p)
  <1>2. r.ok = TRUE /\ Good(s, r) /\ Unpacked(r.s, ROOT, p)
    BY <1>1, RemoveEffect
  <1> HIDE DEF r
  <1>3. ValueDone(r.s, ROOT, p, WriteValue(r.s, ROOT, p, d))
    BY <1>2, RootIsBase, WriteValueEffect DEF Good
  <1> QED  BY <1>2, <1>3, GoodOn DEF ValueDone, r

------------------------------------------------------------------------------
(* Batches                                                                 *)

(* A node is the child of one node, at one segment.                        *)
LEMMA OneHolder ==
  ASSUME NEW s, Sound(s), NEW k \in Nat, NEW m \in Nat,
         NEW seg \in Segment, NEW tag \in Segment,
         ChildKey(s, k, seg) # NoKey, ChildKey(s, k, seg) = ChildKey(s, m, tag)
  PROVE  k = m /\ seg = tag
  BY DEF Sound

(* No two ways lead from the root to one node.                             *)
LEMMA WalkUnique ==
  ASSUME NEW s, Tree(s), NEW p \in Seq(Segment), NEW q \in Seq(Segment)
  PROVE  \A i \in 0..Len(p), j \in 0..Len(q) :
           Walk(s, ROOT, p)[i] # NoKey /\ Walk(s, ROOT, p)[i] = Walk(s, ROOT, q)[j] =>
             i = j /\ \A x \in 1..i : p[x] = q[x]
  <1> DEFINE wp == Walk(s, ROOT, p)
             wq == Walk(s, ROOT, q)
             Same(i, j) == wp[i] # NoKey /\ wp[i] = wq[j] =>
                             i = j /\ \A x \in 1..i : p[x] = q[x]
             N == {i \in Nat : i <= Len(p) => \A j \in 0..Len(q) : Same(i, j)}
  <1>1. Len(p) \in Nat /\ Len(q) \in Nat /\ ROOT \in Nat /\ Sound(s)
    BY LenProperties, RootIsBase
  <1>2. wp[0] = ROOT /\ wq[0] = ROOT
    BY WalkSteps
  <1>3. ASSUME NEW i \in 1..Len(p), wp[i] # NoKey
        PROVE  /\ wp[i - 1] # NoKey /\ wp[i] = ChildKey(s, wp[i - 1], p[i])
               /\ p[i] \in Segment /\ wp[i] # ROOT /\ wp[i - 1] \in Nat
    <2>1. /\ wp[i - 1] # NoKey /\ wp[i] = ChildKey(s, wp[i - 1], p[i])
          /\ p[i] \in Segment /\ wp[i] \in Nat \ {ROOT}
      BY <1>1, <1>3, WalkStep
    <2>2. i - 1 \in 0..Len(p)
      BY <1>1
    <2> QED  BY <1>1, <2>1, <2>2, WalkType
  <1>4. ASSUME NEW j \in 1..Len(q), wq[j] # NoKey
        PROVE  /\ wq[j - 1] # NoKey /\ wq[j] = ChildKey(s, wq[j - 1], q[j])
               /\ q[j] \in Segment /\ wq[j] # ROOT /\ wq[j - 1] \in Nat
    <2>1. /\ wq[j - 1] # NoKey /\ wq[j] = ChildKey(s, wq[j - 1], q[j])
          /\ q[j] \in Segment /\ wq[j] \in Nat \ {ROOT}
      BY <1>1, <1>4, WalkStep
    <2>2. j - 1 \in 0..Len(q)
      BY <1>1
    <2> QED  BY <1>1, <2>1, <2>2, WalkType
  <1> HIDE DEF wp, wq
  <1>5. 0 \in N
    <2>1. ASSUME NEW j \in 0..Len(q), wp[0] # NoKey, wp[0] = wq[j]
          PROVE  0 = j /\ \A x \in 1..0 : p[x] = q[x]
      <3>1. j \in 1..Len(q) => wq[j] # ROOT
        BY <1>4, <2>1
      <3> QED  BY <1>1, <1>2, <2>1, <3>1
    <2> QED  BY <2>1
  <1>6. ASSUME NEW i \in Nat, i \in N PROVE i + 1 \in N
    <2>1. SUFFICES ASSUME i + 1 <= Len(p), NEW j \in 0..Len(q), wp[i + 1] # NoKey,
                          wp[i + 1] = wq[j]
                   PROVE  i + 1 = j /\ \A x \in 1..i + 1 : p[x] = q[x]
      OBVIOUS
    <2>2. i + 1 \in 1..Len(p) /\ (i + 1) - 1 = i /\ i <= Len(p)
      BY <1>1, <2>1
    <2>3. /\ wp[i] # NoKey /\ wp[i + 1] = ChildKey(s, wp[i], p[i + 1])
          /\ p[i + 1] \in Segment /\ wp[i + 1] # ROOT /\ wp[i] \in Nat
      BY <1>3, <2>1, <2>2
    <2>4. j \in 1..Len(q) /\ j - 1 \in 0..Len(q)
      <3>1. j # 0
        BY <1>2, <2>1, <2>3
      <3> QED  BY <1>1, <3>1
    <2>5. /\ wq[j - 1] # NoKey /\ wq[j] = ChildKey(s, wq[j - 1], q[j])
          /\ q[j] \in Segment /\ wq[j - 1] \in Nat
      BY <1>4, <2>1, <2>4
    <2>6. wp[i] = wq[j - 1] /\ p[i + 1] = q[j]
      <3>1. ChildKey(s, wp[i], p[i + 1]) # NoKey
              /\ ChildKey(s, wp[i], p[i + 1]) = ChildKey(s, wq[j - 1], q[j])
        BY <2>1, <2>3, <2>5
      <3> QED  BY <1>1, <2>3, <2>5, <3>1, OneHolder
    <2>7. i = j - 1 /\ \A x \in 1..i : p[x] = q[x]
      BY <1>6, <2>2, <2>3, <2>4, <2>6
    <2>8. j = i + 1
      BY <2>4, <2>7
    <2>9. \A x \in 1..i + 1 : x \in 1..i \/ x = i + 1
      OBVIOUS
    <2> QED  BY <2>6, <2>7, <2>8, <2>9
  <1>7. Nat \subseteq N
    <2> HIDE DEF N
    <2> QED  BY <1>5, <1>6, SetInduction
  <1>8. \A i \in 0..Len(p) : i \in N /\ i <= Len(p)
    BY <1>1, <1>7
  <1> QED  BY <1>8 DEF wp, wq

(* p leads to q or through it.                                             *)
Leads(p, q) == Len(p) <= Len(q) /\ \A x \in 1..Len(p) : p[x] = q[x]

(* A way that does not lead through p keeps its nodes when the child at p  *)
(* is replaced.                                                            *)
LEMMA OtherWay ==
  ASSUME NEW s, Tree(s), NEW p \in Seq(Segment), p # <<>>, NEW k, k # NoKey,
         ResolveFrom(s, ROOT, Front(p)) = k,
         NEW t, NEW new, NEW n, Replaced(s, t, k, Last(p), new, n, Dropped(s, k, Last(p))),
         NEW q \in Seq(Segment), ResolveFrom(s, ROOT, q) # NoKey, ~Leads(p, q)
  PROVE  /\ ResolveFrom(t, ROOT, q) = ResolveFrom(s, ROOT, q)
         /\ ResolveFrom(s, ROOT, q) \notin Dropped(s, k, Last(p))
  <1> DEFINE w == Walk(s, ROOT, q)
             m == Len(q)
             c == ChildKey(s, k, Last(p))
             gone == Dropped(s, k, Last(p))
  <1>1. /\ m \in Nat /\ ROOT \in Nat /\ Sound(s) /\ Shape(s) /\ Len(p) \in Nat \ {0}
        /\ Last(p) \in Segment /\ Front(p) \in Seq(Segment) /\ Len(Front(p)) = Len(p) - 1
        /\ Last(p) = p[Len(p)] /\ \A i \in 1..Len(p) - 1 : Front(p)[i] = p[i]
    <2>1. /\ m \in Nat /\ ROOT \in Nat /\ Sound(s) /\ Shape(s)
      BY LenProperties, RootIsBase
    <2>2. /\ Len(p) \in Nat \ {0} /\ Last(p) \in Segment /\ Front(p) \in Seq(Segment)
          /\ Len(Front(p)) = Len(p) - 1
          /\ Last(p) = p[Len(p)] /\ \A i \in 1..Len(p) - 1 : Front(p)[i] = p[i]
      BY PathFront
    <2> QED  BY <2>1, <2>2
  <1>2. \A j \in 0..m : w[j] # NoKey /\ w[j] \in Nat
    <2>1. m \in 0..m /\ w[m] # NoKey
      BY <1>1 DEF ResolveFrom
    <2>2. \A j \in 0..m : w[j] # NoKey
      BY <2>1, WalkThrough
    <2> QED  BY <1>1, <2>2, WalkType
  <1>3. k \in Nat
    <2>1. Len(Front(p)) \in 0..Len(Front(p))
      BY <1>1
    <2> QED  BY <1>1, <2>1, WalkType DEF ResolveFrom
  <1>4. ASSUME NEW i \in 1..m
        PROVE  /\ w[i] = ChildKey(s, w[i - 1], q[i]) /\ q[i] \in Segment
               /\ w[i - 1] \in Nat /\ w[i] # NoKey
    <2>1. i \in 0..m /\ i - 1 \in 0..m
      BY <1>1
    <2>2. w[i] # NoKey /\ w[i - 1] \in Nat
      BY <1>2, <2>1
    <2>3. w[i] = ChildKey(s, w[i - 1], q[i]) /\ q[i] \in Segment
      BY <1>1, <2>2, WalkStep
    <2> QED  BY <2>2, <2>3
  <1> HIDE DEF m
  <1>5. ASSUME NEW i \in 1..m, w[i - 1] = k, q[i] = Last(p)
        PROVE  FALSE
    <2>1. /\ Len(p) - 1 \in 0..Len(Front(p)) /\ i - 1 \in 0..m
          /\ Walk(s, ROOT, Front(p))[Len(p) - 1] = k
      BY <1>1 DEF ResolveFrom
    <2>2. Len(p) - 1 = i - 1 /\ \A x \in 1..Len(p) - 1 : Front(p)[x] = q[x]
      <3>1. /\ Walk(s, ROOT, Front(p))[Len(p) - 1] # NoKey
            /\ Walk(s, ROOT, Front(p))[Len(p) - 1] = Walk(s, ROOT, q)[i - 1]
            /\ i - 1 \in 0..Len(q)
        BY <1>5, <2>1 DEF m
      <3>2. \A x \in 0..Len(Front(p)), y \in 0..Len(q) :
              Walk(s, ROOT, Front(p))[x] # NoKey
                /\ Walk(s, ROOT, Front(p))[x] = Walk(s, ROOT, q)[y] =>
                x = y /\ \A z \in 1..x : Front(p)[z] = q[z]
        BY <1>1, WalkUnique
      <3> QED  BY <2>1, <3>1, <3>2
    <2>3. i = Len(p)
      BY <1>1, <2>2
    <2>4. \A x \in 1..Len(p) : x \in 1..Len(p) - 1 \/ x = Len(p)
      BY <1>1
    <2>5. \A x \in 1..Len(p) : p[x] = q[x]
      BY <1>1, <1>5, <2>2, <2>3, <2>4
    <2>6. Len(p) <= m
      BY <1>1, <2>3
    <2> QED  BY <2>5, <2>6 DEF Leads, m
  <1> DEFINE N == {i \in Nat : i <= m => w[i] \notin gone}
  <1>6. 0 \in N
    <2>1. w[0] = ROOT
      BY WalkSteps
    <2>2. ASSUME ROOT \in gone PROVE FALSE
      <3>1. c # NoKey /\ gone = Visited(s, {c})
        BY <2>2 DEF Dropped
      <3>2. c \in Nat \ {ROOT}
        BY <1>1, <3>1, ChildKeyType
      <3>3. {c} \in SUBSET Nat /\ ROOT \notin {c}
        BY <3>2
      <3>4. PICK x \in Visited(s, {c}), seg \in Segment :
              x \in Nat /\ ROOT # NoKey /\ ROOT = ChildKey(s, x, seg)
        BY <1>1, <2>2, <3>1, <3>3, VisitedParent
      <3> QED  BY <1>1, <3>4, ChildKeyType
    <2> QED  BY <2>1, <2>2
  <1>7. ASSUME NEW i \in Nat, i \in N PROVE i + 1 \in N
    <2>1. SUFFICES ASSUME i + 1 <= m, w[i + 1] \in gone PROVE FALSE
      OBVIOUS
    <2>2. i + 1 \in 1..m /\ (i + 1) - 1 = i /\ i <= m
      BY <1>1, <2>1
    <2>3. /\ w[i + 1] = ChildKey(s, w[i], q[i + 1]) /\ q[i + 1] \in Segment
          /\ w[i] \in Nat /\ w[i + 1] # NoKey
      BY <1>4, <2>2
    <2>4. w[i] \notin gone
      BY <1>7, <2>2
    <2>5. c # NoKey /\ gone = Visited(s, {c})
      BY <2>1 DEF Dropped
    <2>6. {c} \in SUBSET Nat
      BY <1>1, <2>5, ChildKeyType
    <2> HIDE DEF w, gone
    <2>7. CASE w[i + 1] = c
      <3>1. w[i] = k /\ q[i + 1] = Last(p)
        <4>1. ChildKey(s, w[i], q[i + 1]) # NoKey
                /\ ChildKey(s, w[i], q[i + 1]) = ChildKey(s, k, Last(p))
          BY <2>3, <2>7
        <4> QED  BY <1>1, <1>3, <2>3, <4>1, OneHolder
      <3> QED  BY <1>5, <2>2, <3>1
    <2>8. CASE w[i + 1] # c
      <3>1. PICK x \in Visited(s, {c}), seg \in Segment :
              x \in Nat /\ w[i + 1] = ChildKey(s, x, seg)
        <4> DEFINE y == w[i + 1]
                   from == {c}
        <4>1. y \in Visited(s, from) /\ y \notin from /\ from \in SUBSET Nat
          BY <2>1, <2>5, <2>6, <2>8
        <4> HIDE DEF y, from
        <4>2. \E x \in Visited(s, from), seg \in Segment :
                x \in Nat /\ y # NoKey /\ y = ChildKey(s, x, seg)
          BY <1>1, <4>1, VisitedParent
        <4> QED  BY <4>2 DEF y, from
      <3>2. x = w[i]
        <4>1. ChildKey(s, w[i], q[i + 1]) # NoKey
                /\ ChildKey(s, w[i], q[i + 1]) = ChildKey(s, x, seg)
          BY <2>3, <3>1
        <4>2. w[i] = x
          BY <1>1, <2>3, <3>1, <4>1, OneHolder
        <4> QED  BY <4>2
      <3> QED  BY <2>4, <2>5, <3>1, <3>2
    <2> QED  BY <2>7, <2>8
  <1>8. \A i \in 0..m : w[i] \notin gone
    <2>1. Nat \subseteq N
      <3> HIDE DEF N
      <3> QED  BY <1>6, <1>7, SetInduction
    <2> QED  BY <1>1, <2>1
  <1>9. \A i \in 1..m : ChildKey(t, w[i - 1], q[i]) = ChildKey(s, w[i - 1], q[i])
    <2> TAKE i \in 1..m
    <2>1. i - 1 \in 0..m
      BY <1>1
    <2>2. w[i - 1] \notin gone
      BY <1>8, <2>1
    <2> HIDE DEF w, gone
    <2> QED  BY <1>4, <1>5, <2>2 DEF Replaced, gone
  <1>10. \A i \in 0..m : Walk(t, ROOT, q)[i] = w[i]
    <2>1. m \in 0..Len(q)
      BY <1>1 DEF m
    <2> QED  BY <1>9, <2>1, WalksAgree DEF m
  <1> QED  BY <1>1, <1>8, <1>10 DEF ResolveFrom, m
(* A batch                                                                 *)
FirstBatch == [r |-> Done(Table, NoKey), parents |-> <<>>]

(* The step of a batch for one pair.                                       *)
NextBatch(b, item) ==
  IF b.r.ok /\ Packs(item)
  THEN StoreBatched(BatchParent(b.r.s, b.parents, item[1]), b.parents, item[1], item[2])
  ELSE b

(* g is what the batch has done after the first n pairs.                   *)
IsBatch(g, items, n) ==
  g = [i \in 0..n |-> IF i = 0 THEN FirstBatch ELSE NextBatch(g[i - 1], items[i])]

(* The function that PackedSteps defines exists: what the batch has done   *)
(* after each pair.                                                        *)
LEMMA BatchesExist ==
  ASSUME NEW items
  PROVE  \A n \in Nat : \E g : IsBatch(g, items, n)
  <1> DEFINE S == {n \in Nat : \E g : IsBatch(g, items, n)}
  <1>1. 0 \in S
    <2> DEFINE g == [i \in 0..0 |-> FirstBatch]
    <2>1. IsBatch(g, items, 0)
      BY DEF IsBatch
    <2> QED  BY <2>1
  <1>2. ASSUME NEW n \in Nat, n \in S PROVE n + 1 \in S
    <2>1. PICK g : IsBatch(g, items, n)
      BY <1>2
    <2> DEFINE h == [i \in 0..n + 1 |-> IF i = n + 1 THEN NextBatch(g[n], items[n + 1]) ELSE g[i]]
    <2>2. \A i \in 0..n : h[i] = g[i]
      OBVIOUS
    <2>3. \A i \in 0..n + 1 : h[i] = IF i = 0 THEN FirstBatch ELSE NextBatch(h[i - 1], items[i])
      BY <2>1, <2>2 DEF IsBatch
    <2>4. IsBatch(h, items, n + 1)
      BY <2>3 DEF IsBatch
    <2> QED  BY <2>4
  <1> HIDE DEF S
  <1>3. Nat \subseteq S
    BY <1>1, <1>2, SetInduction
  <1> QED  BY <1>3 DEF S

(* PackedSteps packs one pair after the other.                             *)
LEMMA BatchSteps ==
  ASSUME NEW items, Len(items) \in Nat
  PROVE  /\ PackedSteps(items)[0] = FirstBatch
         /\ \A i \in 1..Len(items) :
              PackedSteps(items)[i] = NextBatch(PackedSteps(items)[i - 1], items[i])
  <1> DEFINE n == Len(items)
             B == PackedSteps(items)
  <1>1. B = CHOOSE g : IsBatch(g, items, n)
    BY DEF PackedSteps, IsBatch, FirstBatch, NextBatch
  <1>2. IsBatch(B, items, n)
    BY <1>1, BatchesExist
  <1> HIDE DEF n, B
  <1>3. B[0] = FirstBatch /\ \A i \in 1..n : B[i] = NextBatch(B[i - 1], items[i])
    BY <1>2 DEF IsBatch, n
  <1> QED  BY <1>3 DEF n, B

(* The step of what is stored node by node for one pair.                   *)
NextPlain(r, item) ==
  IF r.ok /\ ~Packs(item) THEN ReplaceIn(r.s, item[1], item[2]) ELSE r

(* g is what that has done after the first n pairs.                        *)
IsPlain(g, packed, items, n) ==
  g = [i \in 0..n |-> IF i = 0 THEN packed ELSE NextPlain(g[i - 1], items[i])]

(* The function that PlainSteps defines exists: the table after each pair. *)
LEMMA PlainsExist ==
  ASSUME NEW packed, NEW items
  PROVE  \A n \in Nat : \E g : IsPlain(g, packed, items, n)
  <1> DEFINE S == {n \in Nat : \E g : IsPlain(g, packed, items, n)}
  <1>1. 0 \in S
    <2> DEFINE g == [i \in 0..0 |-> packed]
    <2>1. IsPlain(g, packed, items, 0)
      BY DEF IsPlain
    <2> QED  BY <2>1
  <1>2. ASSUME NEW n \in Nat, n \in S PROVE n + 1 \in S
    <2>1. PICK g : IsPlain(g, packed, items, n)
      BY <1>2
    <2> DEFINE h == [i \in 0..n + 1 |-> IF i = n + 1 THEN NextPlain(g[n], items[n + 1]) ELSE g[i]]
    <2>2. \A i \in 0..n : h[i] = g[i]
      OBVIOUS
    <2>3. \A i \in 0..n + 1 : h[i] = IF i = 0 THEN packed ELSE NextPlain(h[i - 1], items[i])
      BY <2>1, <2>2 DEF IsPlain
    <2>4. IsPlain(h, packed, items, n + 1)
      BY <2>3 DEF IsPlain
    <2> QED  BY <2>4
  <1> HIDE DEF S
  <1>3. Nat \subseteq S
    BY <1>1, <1>2, SetInduction
  <1> QED  BY <1>3 DEF S

(* PlainSteps stores one pair after the other.                             *)
LEMMA PlainRun ==
  ASSUME NEW packed, NEW items, Len(items) \in Nat
  PROVE  /\ PlainSteps(packed, items)[0] = packed
         /\ \A i \in 1..Len(items) :
              PlainSteps(packed, items)[i] = NextPlain(PlainSteps(packed, items)[i - 1], items[i])
  <1> DEFINE n == Len(items)
             B == PlainSteps(packed, items)
  <1>1. B = CHOOSE g : IsPlain(g, packed, items, n)
    BY DEF PlainSteps, IsPlain, NextPlain
  <1>2. IsPlain(B, packed, items, n)
    BY <1>1, PlainsExist
  <1> HIDE DEF n, B
  <1>3. B[0] = packed /\ \A i \in 1..n : B[i] = NextPlain(B[i - 1], items[i])
    BY <1>2 DEF IsPlain, n
  <1> QED  BY <1>3 DEF n, B

(* The parents a batch remembers are where it says.                        *)
Known(s, items, i, parents) ==
  \A q \in DOMAIN parents :
    \E x \in 1..i :
      /\ Packs(items[x]) /\ q = Front(items[x][1])
      /\ parents[q] = ResolveFrom(s, ROOT, q)
      /\ Holder(s, parents[q], Last(items[x][1]))

(* What a batch has packed of its first i pairs.                           *)
Batched(items, i, b) ==
  Good(Table, b.r) /\ (b.r.ok => Known(b.r.s, items, i, b.parents))

(* What a batch asks of two of its paths.                                  *)
Compatible(items) ==
  \A x, y \in 1..Len(items) :
    /\ items[x][1] # <<>> => ~IsStrictPrefix(items[x][1], items[y][1])
    /\ items[x][1] # <<>> /\ items[y][1] # <<>> /\ Front(items[x][1]) = Front(items[y][1]) =>
         IsIndex(Last(items[x][1])) = IsIndex(Last(items[y][1]))

(* A path that leads to the parent of another is an ancestor of that       *)
(* other.                                                                  *)
LEMMA LeadsToStrict ==
  ASSUME NEW p \in Seq(Segment), NEW y \in Seq(Segment), y # <<>>, Leads(p, Front(y))
  PROVE  IsStrictPrefix(p, y)
  <1>1. /\ Len(p) \in Nat /\ Len(y) \in Nat \ {0} /\ Len(Front(y)) = Len(y) - 1
        /\ \A i \in 1..Len(y) - 1 : Front(y)[i] = y[i]
    BY LenProperties, PathFront
  <1>2. Len(p) <= Len(y) - 1 /\ \A i \in 1..Len(p) : i \in 1..Len(y) - 1 /\ p[i] = y[i]
    BY <1>1 DEF Leads
  <1>3. p # y
    BY <1>1, <1>2
  <1>4. Len(p) <= Len(y)
    BY <1>1, <1>2
  <1>5. SubSeq(p, 1, Len(p)) = SubSeq(y, 1, Len(p))
    <2> DEFINE a == SubSeq(p, 1, Len(p))
               b == SubSeq(y, 1, Len(p))
               n == Len(p)
    <2>1. /\ a \in Seq(Segment) /\ Len(a) = IF 1 <= n THEN n - 1 + 1 ELSE 0
          /\ \A i \in 1..n - 1 + 1 : a[i] = p[1 + i - 1]
      <3>1. \A i \in 1..n : p[i] \in Segment
        BY ElementOfSeq
      <3> QED  BY <1>1, <3>1, SubSeqProperties
    <2>2. /\ b \in Seq(Segment) /\ Len(b) = IF 1 <= n THEN n - 1 + 1 ELSE 0
          /\ \A i \in 1..n - 1 + 1 : b[i] = y[1 + i - 1]
      <3>1. \A i \in 1..n : y[i] \in Segment
        <4>1. \A i \in 1..n : i \in 1..Len(y)
          BY <1>1, <1>4
        <4> QED  BY <4>1, ElementOfSeq
      <3> QED  BY <1>1, <3>1, SubSeqProperties
    <2> HIDE DEF a, b, n
    <2>3. n \in Nat
      BY <1>1 DEF n
    <2>4. Len(a) = n /\ Len(b) = n /\ n - 1 + 1 = n /\ \A i \in 1..n : 1 + i - 1 = i
      BY <2>1, <2>2, <2>3
    <2>5. \A i \in 1..n : a[i] = b[i]
      BY <1>2, <2>1, <2>2, <2>4 DEF n
    <2> QED  BY <2>1, <2>2, <2>4, <2>5, SeqEqual DEF a, b, n
  <1> QED  BY <1>3, <1>4, <1>5 DEF IsStrictPrefix, IsPrefix
(* The pairs are paths and flat documents.                                 *)
Items(items) ==
  /\ Len(items) \in Nat
  /\ \A x \in 1..Len(items) : items[x][1] \in Seq(Segment) /\ Flat(items[x][2])

(* A container is a live node.                                             *)
LEMMA HolderIsKey ==
  ASSUME NEW s, Tree(s), NEW m, NEW seg, Holder(s, m, seg)
  PROVE  m # NoKey /\ m \in DOMAIN s.node
  <1>1. \A kind : ~HasKind(s, NoKey, kind)
    BY RootIsBase, NoKeyIsNoNode
  <1> QED  BY <1>1 DEF Holder, HasKind, Live

(* The pairs a batch has packed have a parent.                             *)
LEMMA KnownPath ==
  ASSUME NEW items, Items(items), NEW i \in 0..Len(items), NEW x \in 1..i, Packs(items[x])
  PROVE  /\ items[x][1] \in Seq(Segment) /\ items[x][1] # <<>>
         /\ Front(items[x][1]) \in Seq(Segment) /\ x \in 1..Len(items)
  <1>1. x \in 1..Len(items)
    BY DEF Items
  <1>2. items[x][1] \in Seq(Segment) /\ items[x][1] # <<>>
    BY <1>1 DEF Items, Packs
  <1> QED  BY <1>1, <1>2, PathFront

(* What a batch remembers stays true when the table gets more.             *)
LEMMA KnownExtends ==
  ASSUME NEW items, Items(items), NEW i \in 0..Len(items), NEW s, Tree(s), NEW t, Extends(s, t),
         NEW parents, Known(s, items, i, parents)
  PROVE  Known(t, items, i, parents)
  <1>1. SUFFICES ASSUME NEW q \in DOMAIN parents
                 PROVE  \E x \in 1..i :
                          /\ Packs(items[x]) /\ q = Front(items[x][1])
                          /\ parents[q] = ResolveFrom(t, ROOT, q)
                          /\ Holder(t, parents[q], Last(items[x][1]))
    BY DEF Known
  <1>2. PICK x \in 1..i :
          /\ Packs(items[x]) /\ q = Front(items[x][1])
          /\ parents[q] = ResolveFrom(s, ROOT, q)
          /\ Holder(s, parents[q], Last(items[x][1]))
    BY DEF Known
  <1>3. q \in Seq(Segment) /\ Len(q) \in 0..Len(q)
    BY <1>2, KnownPath, LenProperties
  <1>4. parents[q] # NoKey /\ parents[q] \in DOMAIN s.node
    BY <1>2, HolderIsKey
  <1>5. ResolveFrom(t, ROOT, q) = parents[q]
    <2>1. Walk(s, ROOT, q)[Len(q)] # NoKey
      BY <1>2, <1>4 DEF ResolveFrom
    <2>2. Walk(t, ROOT, q)[Len(q)] = Walk(s, ROOT, q)[Len(q)]
      BY <1>3, <2>1, RootIsBase, ExtendsWalk
    <2> QED  BY <1>2, <2>2 DEF ResolveFrom
  <1>6. Holder(t, parents[q], Last(items[x][1]))
    BY <1>2, <1>4 DEF Extends, Holder
  <1> QED  BY <1>2, <1>5, <1>6

(* What a batch remembers stays true when it replaces an entity: no        *)
(* remembered parent is below an entity of the batch, for that would put   *)
(* one of its paths below another.                                         *)
LEMMA KnownReplaced ==
  ASSUME NEW items, Items(items), Compatible(items), NEW i \in 1..Len(items), Packs(items[i]),
         NEW s, Tree(s), NEW parents, Known(s, items, i, parents),
         NEW k, ResolveFrom(s, ROOT, Front(items[i][1])) = k, k # NoKey,
         NEW seg, seg = Last(items[i][1]),
         NEW t, NEW new, NEW n, Replaced(s, t, k, seg, new, n, Dropped(s, k, seg))
  PROVE  Known(t, items, i, parents)
  <1> DEFINE p == items[i][1]
             gone == Dropped(s, k, seg)
  <1>0. i \in 0..Len(items) /\ i \in 1..i
    BY DEF Items
  <1>1. p \in Seq(Segment) /\ p # <<>> /\ Front(p) \in Seq(Segment)
    BY <1>0, KnownPath
  <1>2. SUFFICES ASSUME NEW q \in DOMAIN parents
                 PROVE  \E x \in 1..i :
                          /\ Packs(items[x]) /\ q = Front(items[x][1])
                          /\ parents[q] = ResolveFrom(t, ROOT, q)
                          /\ Holder(t, parents[q], Last(items[x][1]))
    BY DEF Known
  <1>3. PICK x \in 1..i :
          /\ Packs(items[x]) /\ q = Front(items[x][1])
          /\ parents[q] = ResolveFrom(s, ROOT, q)
          /\ Holder(s, parents[q], Last(items[x][1]))
    BY DEF Known
  <1>4. /\ q \in Seq(Segment) /\ items[x][1] \in Seq(Segment) /\ items[x][1] # <<>>
        /\ x \in 1..Len(items)
    BY <1>0, <1>3, KnownPath
  <1>5. parents[q] # NoKey /\ parents[q] \in DOMAIN s.node
    BY <1>3, HolderIsKey
  <1>6. ~Leads(p, q)
    <2>1. ASSUME Leads(p, q) PROVE FALSE
      <3>1. IsStrictPrefix(p, items[x][1])
        BY <1>1, <1>3, <1>4, <2>1, LeadsToStrict
      <3> QED  BY <1>1, <1>4, <3>1 DEF Compatible
    <2> QED  BY <2>1
  <1>7. ResolveFrom(t, ROOT, q) = parents[q] /\ parents[q] \notin gone
    <2>1. ResolveFrom(s, ROOT, q) # NoKey
      BY <1>3, <1>5
    <2>2. ResolveFrom(s, ROOT, Front(p)) = k
      OBVIOUS
    <2>3. Replaced(s, t, k, Last(p), new, n, Dropped(s, k, Last(p)))
      OBVIOUS
    <2> HIDE DEF p
    <2>4. /\ ResolveFrom(t, ROOT, q) = ResolveFrom(s, ROOT, q)
          /\ ResolveFrom(s, ROOT, q) \notin Dropped(s, k, Last(p))
      BY <1>1, <1>4, <1>6, <2>1, <2>2, <2>3, OtherWay
    <2> QED  BY <1>3, <2>4 DEF p
  <1>8. Holder(t, parents[q], Last(items[x][1]))
    BY <1>3, <1>5, <1>7 DEF Replaced, Holder
  <1> QED  BY <1>3, <1>7, <1>8

(* A path that leads into no packed entity meets none before its end.      *)
LEMMA WayClearOutside ==
  ASSUME NEW s, Tree(s), NEW p \in Seq(Segment), ~IntoPacked(s, p)
  PROVE  WayClear(s, p)
  <1> DEFINE at == Locate(s, p)
  <1>1. ~IntoEntity(s, p, at)
    BY DEF IntoPacked, IntoEntity, AnEntity
  <1>2. NoEntity(s, p, at) \/ ToEntity(s, p, at)
    BY <1>1, PlaceIs
  <1>3. ASSUME p # <<>>, Unpacked(s, ROOT, p) PROVE Unpacked(s, ROOT, Front(p))
    BY <1>3, UnpackedFront, RootIsBase
  <1> QED  BY <1>2, <1>3 DEF WayClear, NoEntity, ToEntity

(* What a batch remembers of the pairs so far it remembers of one more.    *)
LEMMA KnownWider ==
  ASSUME NEW items, NEW i \in Nat \ {0}, NEW s, NEW parents, Known(s, items, i - 1, parents)
  PROVE  Known(s, items, i, parents)
  <1>1. \A x \in 1..i - 1 : x \in 1..i
    OBVIOUS
  <1> QED  BY <1>1 DEF Known

(* The parent of one entity of a batch.                                    *)
Parented(s, items, i, parents, parent) ==
  /\ Good(s, parent)
  /\ parent.ok =>
       /\ Known(parent.s, items, i, parents)
       /\ ResolveFrom(parent.s, ROOT, Front(items[i][1])) = parent.key
       /\ Holder(parent.s, parent.key, Last(items[i][1]))
       /\ Reached(parent.s, parent.key)

(* The parent is the remembered one, or it is found or made.               *)
LEMMA BatchParentEffect ==
  ASSUME NEW items, Items(items), Compatible(items), NEW i \in 1..Len(items), Packs(items[i]),
         NEW s, Tree(s), NEW parents, Known(s, items, i - 1, parents),
         ~IntoPacked(s, items[i][1])
  PROVE  Parented(s, items, i, parents, BatchParent(s, parents, items[i][1]))
  <1> DEFINE p == items[i][1]
             parent == BatchParent(s, parents, p)
  <1>0. i \in 0..Len(items) /\ i \in 1..i /\ i \in Nat \ {0} /\ i - 1 \in 0..Len(items)
    BY DEF Items
  <1>1. p \in Seq(Segment) /\ p # <<>> /\ Front(p) \in Seq(Segment)
    BY <1>0, KnownPath
  <1>2. Known(s, items, i, parents)
    BY <1>0, KnownWider
  <1>3. CASE Front(p) \in DOMAIN parents
    <2> DEFINE k == parents[Front(p)]
    <2>1. PICK x \in 1..i - 1 :
            /\ Packs(items[x]) /\ Front(p) = Front(items[x][1])
            /\ k = ResolveFrom(s, ROOT, Front(p))
            /\ Holder(s, k, Last(items[x][1]))
      BY <1>3 DEF Known
    <2>2. x \in 1..Len(items) /\ items[x][1] # <<>>
      BY <1>0, <2>1, KnownPath
    <2>3. IsIndex(Last(items[x][1])) = IsIndex(Last(p))
      BY <1>1, <2>1, <2>2 DEF Compatible
    <2>4. Holder(s, k, Last(p))
      BY <2>1, <2>3 DEF Holder
    <2>5. k # NoKey
      BY <2>4, HolderIsKey
    <2>6. Reached(s, k)
      <3>1. Len(Front(p)) \in 0..Len(Front(p))
        BY <1>1, LenProperties
      <3> QED  BY <1>1, <2>1, <2>5, <3>1, RootIsBase, WalkReached DEF ResolveFrom
    <2>7. parent = [ok |-> TRUE, s |-> s, key |-> k]
      BY <1>3 DEF BatchParent, Done
    <2> HIDE DEF parent
    <2> QED  BY <1>2, <2>1, <2>4, <2>6, <2>7 DEF Parented, Good, parent
  <1>4. CASE Front(p) \notin DOMAIN parents
    <2>1. parent = EnsureParent(s, ROOT, p)
      BY <1>4 DEF BatchParent
    <2>2. Unpacked(s, ROOT, Front(p))
      BY <1>1, WayClearOutside DEF WayClear
    <2>3. /\ Good(s, parent)
          /\ parent.ok => /\ Extends(s, parent.s)
                          /\ Holder(parent.s, parent.key, Last(p))
                          /\ Reached(parent.s, parent.key)
                          /\ ResolveFrom(parent.s, ROOT, Front(p)) = parent.key
      <3> HIDE DEF p, parent
      <3> QED  BY <1>1, <2>1, <2>2, EnsureParentEffect
    <2> HIDE DEF parent
    <2>4. parent.ok => Known(parent.s, items, i, parents)
      BY <1>0, <1>2, <2>3, KnownExtends
    <2> QED  BY <2>3, <2>4 DEF Parented, parent
  <1> QED  BY <1>3, <1>4
(* One pair of the batch: the entity is stored and its parent remembered.  *)
LEMMA BatchStepEffect ==
  ASSUME Tree(Table), NEW items, Items(items), Compatible(items), NEW i \in 1..Len(items),
         NEW b, Batched(items, i - 1, b),
         Packs(items[i]) => ~IntoPacked(b.r.s, items[i][1])
  PROVE  Batched(items, i, NextBatch(b, items[i]))
  <1>0. i \in 0..Len(items) /\ i \in 1..i /\ i \in Nat \ {0}
    BY DEF Items
  <1>1. CASE ~(b.r.ok /\ Packs(items[i]))
    <2>1. NextBatch(b, items[i]) = b
      BY <1>1 DEF NextBatch
    <2>2. b.r.ok => Known(b.r.s, items, i, b.parents)
      BY <1>0, KnownWider DEF Batched
    <2> QED  BY <2>1, <2>2 DEF Batched
  <1>2. CASE b.r.ok /\ Packs(items[i])
    <2> DEFINE p == items[i][1]
               d == items[i][2]
               seg == Last(p)
               parent == BatchParent(b.r.s, b.parents, p)
               r == StorePackedUnder(parent, seg, d)
               more == Remember(b.parents, Front(p), parent.key)
    <2>1. /\ p \in Seq(Segment) /\ p # <<>> /\ Front(p) \in Seq(Segment) /\ seg \in Segment
          /\ Flat(d)
      <3>1. p \in Seq(Segment) /\ p # <<>> /\ Front(p) \in Seq(Segment)
        BY <1>0, <1>2, KnownPath
      <3> QED  BY <3>1, PathFront DEF Items
    <2>2. Good(Table, b.r) /\ Tree(b.r.s) /\ Known(b.r.s, items, i - 1, b.parents)
      BY <1>2 DEF Batched, Good
    <2>3. Parented(b.r.s, items, i, b.parents, parent)
      BY <1>2, <2>2, BatchParentEffect
    <2>4. NextBatch(b, items[i]) =
            [r |-> r, parents |-> IF parent.ok THEN more ELSE b.parents]
      BY <1>2 DEF NextBatch, StoreBatched
    <2> HIDE DEF parent
    <2>5. Good(Table, parent)
      BY <1>2, <2>2, <2>3, GoodOn DEF Parented
    <2>6. CASE ~parent.ok
      <3>1. r = parent
        BY <2>6 DEF StorePackedUnder, ReplaceChild
      <3> HIDE DEF r, more
      <3>2. NextBatch(b, items[i]).r = parent
        BY <2>4, <3>1
      <3> QED  BY <2>5, <2>6, <3>2 DEF Batched
    <2>7. CASE parent.ok
      <3>1. /\ Tree(parent.s) /\ Known(parent.s, items, i, b.parents)
            /\ ResolveFrom(parent.s, ROOT, Front(p)) = parent.key
            /\ Holder(parent.s, parent.key, seg)
            /\ Reached(parent.s, parent.key)
        BY <2>3, <2>7 DEF Parented, Good
      <3>2. /\ Good(parent.s, r)
            /\ r.ok => \/ Extends(parent.s, r.s)
                       \/ Replaced(parent.s, r.s, parent.key, seg, r.key, PackedNode(d),
                                   Dropped(parent.s, parent.key, seg))
        <4> HIDE DEF seg, d
        <4> QED  BY <2>1, <2>7, <3>1, StorePackedUnderEffect
      <3>3. Known(parent.s, items, i, more)
        <4>1. DOMAIN more = DOMAIN b.parents \cup {Front(p)}
          BY DEF Remember
        <4>2. \A q \in DOMAIN more :
                more[q] = IF q = Front(p) THEN parent.key ELSE b.parents[q]
          BY DEF Remember
        <4> HIDE DEF more
        <4> SUFFICES ASSUME NEW q \in DOMAIN more
                     PROVE  \E x \in 1..i :
                              /\ Packs(items[x]) /\ q = Front(items[x][1])
                              /\ more[q] = ResolveFrom(parent.s, ROOT, q)
                              /\ Holder(parent.s, more[q], Last(items[x][1]))
          BY DEF Known
        <4>3. CASE q = Front(p)
          BY <1>0, <1>2, <3>1, <4>2, <4>3
        <4>4. CASE q # Front(p)
          BY <3>1, <4>1, <4>2, <4>4 DEF Known
        <4> QED  BY <4>3, <4>4
      <3>4. NextBatch(b, items[i]).r = r /\ NextBatch(b, items[i]).parents = more
        BY <2>4, <2>7
      <3> HIDE DEF r, more
      <3>5. Good(Table, r)
        BY <2>5, <2>7, <3>2, GoodOn
      <3>6. ASSUME r.ok PROVE Known(r.s, items, i, more)
        <4>1. CASE Extends(parent.s, r.s)
          BY <1>0, <3>1, <3>3, <4>1, KnownExtends
        <4>2. CASE Replaced(parent.s, r.s, parent.key, seg, r.key, PackedNode(d),
                            Dropped(parent.s, parent.key, seg))
          <5>1. parent.key # NoKey
            BY <3>1, HolderIsKey
          <5>2. seg = Last(items[i][1]) /\ ResolveFrom(parent.s, ROOT, Front(items[i][1])) = parent.key
            BY <3>1
          <5> HIDE DEF seg
          <5> QED  BY <1>2, <3>1, <3>3, <4>2, <5>1, <5>2, KnownReplaced
        <4> QED  BY <3>2, <3>6, <4>1, <4>2
      <3> QED  BY <3>4, <3>5, <3>6 DEF Batched
    <2> QED  BY <2>6, <2>7
  <1> QED  BY <1>1, <1>2

(* What a batch may meet, as its guard says it.                            *)
Meets(items, met) ==
  \A x \in 1..Len(items) :
    IF Packs(items[x]) THEN ~IntoPacked(met[x], items[x][1])
    ELSE MayStore(met[x], items[x][1])

(* What a batch packs leaves a tree with nothing lost.                     *)
LEMMA BatchEffect ==
  ASSUME Tree(Table), NEW items, Items(items), Compatible(items),
         NEW met, Meets(items, met),
         \A x \in 1..Len(items) : Packs(items[x]) => met[x] = PackedSteps(items)[x - 1].r.s
  PROVE  Good(Table, PackedSteps(items)[Len(items)].r)
  <1> DEFINE B == PackedSteps(items)
             N == {i \in Nat : i <= Len(items) => Batched(items, i, B[i])}
  <1>1. Len(items) \in Nat
    BY DEF Items
  <1>2. /\ B[0] = FirstBatch
        /\ \A i \in 1..Len(items) : B[i] = NextBatch(B[i - 1], items[i])
    BY <1>1, BatchSteps
  <1> HIDE DEF B
  <1>3. 0 \in N
    <2>1. B[0].r = [ok |-> TRUE, s |-> Table, key |-> NoKey] /\ B[0].parents = <<>>
      BY <1>2 DEF FirstBatch, Done
    <2>2. Good(Table, B[0].r)
      BY <2>1 DEF Good
    <2>3. DOMAIN B[0].parents = {}
      BY <2>1
    <2>4. Batched(items, 0, B[0])
      BY <2>2, <2>3 DEF Batched, Known
    <2> QED  BY <2>4
  <1>4. ASSUME NEW i \in Nat, i \in N PROVE i + 1 \in N
    <2>1. SUFFICES ASSUME i + 1 <= Len(items) PROVE Batched(items, i + 1, B[i + 1])
      OBVIOUS
    <2>2. i + 1 \in 1..Len(items) /\ (i + 1) - 1 = i /\ i <= Len(items)
      BY <1>1, <2>1
    <2>3. Batched(items, i, B[i]) /\ B[i + 1] = NextBatch(B[i], items[i + 1])
      BY <1>2, <1>4, <2>2
    <2>4. Packs(items[i + 1]) => ~IntoPacked(B[i].r.s, items[i + 1][1])
      BY <2>2 DEF Meets, B
    <2> DEFINE j == i + 1
    <2>5. j \in 1..Len(items) /\ j - 1 = i /\ B[j] = NextBatch(B[i], items[j])
          /\ (Packs(items[j]) => ~IntoPacked(B[i].r.s, items[j][1]))
      BY <2>2, <2>3, <2>4
    <2> HIDE DEF j
    <2>6. Batched(items, j, NextBatch(B[i], items[j]))
      BY <2>3, <2>5, BatchStepEffect
    <2> QED  BY <2>5, <2>6 DEF j
  <1>5. Len(items) \in N
    <2>1. Nat \subseteq N
      <3> HIDE DEF N
      <3> QED  BY <1>3, <1>4, SetInduction
    <2> QED  BY <1>1, <2>1
  <1> QED  BY <1>1, <1>5 DEF Batched, B

(* So does what a batch stores node by node.                               *)
LEMMA PlainEffect ==
  ASSUME ~StoreShifts, ~StoreIntoPacked, Tree(Table), NEW items, Items(items),
         NEW packed, Good(Table, packed), NEW met, Meets(items, met),
         \A x \in 1..Len(items) : ~Packs(items[x]) => met[x] = PlainSteps(packed, items)[x - 1].s
  PROVE  Good(Table, PlainSteps(packed, items)[Len(items)])
  <1> DEFINE B == PlainSteps(packed, items)
             N == {i \in Nat : i <= Len(items) => Good(Table, B[i])}
  <1>1. Len(items) \in Nat
    BY DEF Items
  <1>2. /\ B[0] = packed
        /\ \A i \in 1..Len(items) : B[i] = NextPlain(B[i - 1], items[i])
    BY <1>1, PlainRun
  <1> HIDE DEF B
  <1>3. 0 \in N
    BY <1>2
  <1>4. ASSUME NEW i \in Nat, i \in N PROVE i + 1 \in N
    <2>1. SUFFICES ASSUME i + 1 <= Len(items) PROVE Good(Table, B[i + 1])
      OBVIOUS
    <2> DEFINE j == i + 1
    <2>2. j \in 1..Len(items) /\ j - 1 = i /\ i <= Len(items)
      BY <1>1, <2>1
    <2>3. Good(Table, B[i]) /\ B[j] = NextPlain(B[i], items[j])
      BY <1>2, <1>4, <2>2
    <2> HIDE DEF j
    <2>4. CASE ~(B[i].ok /\ ~Packs(items[j]))
      BY <2>3, <2>4 DEF NextPlain, j
    <2>5. CASE B[i].ok /\ ~Packs(items[j])
      <3>1. items[j][1] \in Seq(Segment) /\ Flat(items[j][2])
        BY <2>2 DEF Items
      <3>2. MayStore(B[i].s, items[j][1])
        BY <2>2, <2>5 DEF Meets, B
      <3>3. Tree(B[i].s)
        BY <2>3 DEF Good
      <3>4. WayClear(B[i].s, items[j][1]) /\ Unshifted(B[i].s, items[j][1])
        BY <3>1, <3>2, <3>3, MayStoreIs
      <3>5. Good(B[i].s, ReplaceIn(B[i].s, items[j][1], items[j][2]))
        BY <3>1, <3>3, <3>4, ReplaceInEffect
      <3>6. Good(Table, B[j])
        BY <2>3, <2>5, <3>5, GoodOn DEF NextPlain
      <3> QED  BY <3>6 DEF j
    <2> QED  BY <2>4, <2>5
  <1>5. Len(items) \in N
    <2>1. Nat \subseteq N
      <3> HIDE DEF N
      <3> QED  BY <1>3, <1>4, SetInduction
    <2> QED  BY <1>1, <2>1
  <1> QED  BY <1>1, <1>5 DEF B

(* The pairs of a batch are paths and flat documents.                      *)
LEMMA BatchItems ==
  ASSUME NEW items \in Batches
  PROVE  Items(items)
  <1>1. /\ items \in Seq(ToSet(items))
        /\ \A item \in ToSet(items) : item[1] \in Paths /\ Flat(item[2])
    BY TreeAssumption
  <1>2. Len(items) \in Nat /\ \A x \in 1..Len(items) : items[x] \in ToSet(items)
    BY <1>1, LenProperties, ElementOfSeq
  <1> QED  BY <1>1, <1>2, TreeAssumption DEF Items

(* store_many on what it may be given.                                     *)
LEMMA StoreManyEffect ==
  ASSUME ~StoreShifts, ~StoreIntoPacked, Tree(Table), NEW items \in Batches,
         NEW B, B = PackedSteps(items),
         NEW packed, packed = B[Len(items)].r,
         NEW plain, plain = PlainSteps(packed, items),
         MayBatch(items, [x \in DOMAIN items |->
                            IF Packs(items[x]) THEN B[x - 1].r.s ELSE plain[x - 1].s])
  PROVE  Good(Table, plain[Len(items)])
  <1> DEFINE met == [x \in DOMAIN items |->
                       IF Packs(items[x]) THEN B[x - 1].r.s ELSE plain[x - 1].s]
  <1>1. Items(items)
    BY BatchItems
  <1>2. DOMAIN items = 1..Len(items)
    BY TreeAssumption, LenProperties
  <1>3. \A x \in 1..Len(items) :
          met[x] = IF Packs(items[x]) THEN B[x - 1].r.s ELSE plain[x - 1].s
    BY <1>2
  <1>4. MayBatch(items, met)
    OBVIOUS
  <1> HIDE DEF met
  <1>5. Compatible(items)
    BY <1>2, <1>4 DEF MayBatch, Compatible
  <1>6. Meets(items, met)
    <2>1. ASSUME NEW x \in 1..Len(items)
          PROVE  IF Packs(items[x]) THEN ~IntoPacked(met[x], items[x][1])
                 ELSE MayStore(met[x], items[x][1])
      <3>1. x \in DOMAIN items
        BY <1>2
      <3>2. IF Packs(items[x]) THEN IntoPacked(met[x], items[x][1]) => StoreIntoPacked
            ELSE MayStore(met[x], items[x][1])
        BY <1>4, <3>1 DEF MayBatch
      <3> QED  BY <3>2
    <2> QED  BY <2>1 DEF Meets
  <1>7. Good(Table, packed)
    BY <1>1, <1>3, <1>5, <1>6, BatchEffect
  <1> QED  BY <1>1, <1>3, <1>6, <1>7, PlainEffect

------------------------------------------------------------------------------
(* The invariant                                                           *)

(* Two tables with the same entries.                                       *)
LEMMA SameEntries ==
  ASSUME NEW s, NEW t, t.node = s.node, t.link = s.link
  PROVE  /\ Tree(s) => Tree(t)
         /\ Tree(s) /\ Full(s) => Full(t)
  <1>1. /\ \A m, kind : HasKind(t, m, kind) <=> HasKind(s, m, kind)
        /\ \A m : Live(t, m) <=> Live(s, m)
    BY DEF HasKind, Live
  <1>2. \A m, tag : ChildKey(t, m, tag) = ChildKey(s, m, tag)
    BY <1>1 DEF ChildKey
  <1>3. Shape(s) => Shape(t)
    BY <1>1 DEF Shape
  <1>4. \A m, tag : Holder(t, m, tag) <=> Holder(s, m, tag)
    BY <1>1 DEF Holder
  <1>5. Sound(s) => Sound(t)
    BY <1>2, <1>3, <1>4 DEF Sound
  <1>6. ASSUME Tree(s) PROVE Tree(t)
    BY <1>2, <1>5, <1>6 DEF Tree
  <1>7. ASSUME Tree(s), Full(s) PROVE Full(t)
    <2>1. IsFiniteSet(DOMAIN s.node)
      BY <1>7 DEF Tree, Sound, Shape
    <2>2. \A m : Refs(t, m) = Refs(s, m)
      BY <1>1 DEF Refs
    <2>3. \A m : Below(t, m) = Below(s, m)
      BY <1>1, <2>2 DEF Below
    <2> DEFINE A == Visited(t, {ROOT})
    <2>4. {ROOT} \subseteq A /\ Closed(t, A)
      BY <2>1, VisitedClosed
    <2>5. Closed(s, A)
      BY <2>3, <2>4 DEF Closed
    <2>6. Visited(s, {ROOT}) \subseteq A
      <3> HIDE DEF A
      <3> QED  BY <2>1, <2>4, <2>5, VisitedLeast
    <2> QED  BY <1>7, <2>6 DEF Full
  <1> QED  BY <1>6, <1>7

(* What holds between calls.                                               *)
TreeInv ==
  /\ Tree(Table)
  /\ ~failed => Full(Table)
  /\ DOMAIN node \subseteq Keys \cup {ROOT}
  /\ shredded \in Schemas
  /\ failed \in BOOLEAN

(* A call that was good leaves the invariant as it was.                    *)
LEMMA FinishKeeps ==
  ASSUME TreeInv, NEW c, NEW r, Good(Table, r), Finish(c, r)
  PROVE  TreeInv'
  <1>1. Table'.node = r.s.node /\ Table'.link = r.s.link
    BY DEF Finish, Table
  <1>2. Tree(r.s) /\ r.ok \in BOOLEAN /\ (r.ok /\ Full(Table) => Full(r.s))
    BY DEF Good
  <1>3. Tree(Table')
    BY <1>1, <1>2, SameEntries
  <1>4. Full(r.s) => Full(Table')
    BY <1>1, <1>2, SameEntries
  <1>5. Tree(Table)' /\ (Full(r.s) => Full(Table)')
    BY <1>3, <1>4
  <1>6. /\ failed' = (failed \/ ~r.ok) /\ shredded' = shredded
        /\ (DOMAIN node \subseteq Keys \cup {ROOT})'
    BY DEF Finish, Keys, ROOT
  <1>7. (failed \in BOOLEAN)'
    BY <1>2, <1>6 DEF TreeInv
  <1>8. (~failed => Full(Table))'
    BY <1>2, <1>5, <1>6 DEF TreeInv
  <1> QED  BY <1>5, <1>6, <1>7, <1>8 DEF TreeInv

(* An empty table is a tree.                                               *)
LEMMA InitTree ==
  ASSUME Init
  PROVE  TreeInv
  <1>1. /\ Table.node = <<>> /\ Table.link = <<>>
        /\ DOMAIN Table.node = {} /\ DOMAIN Table.link = {}
    BY DEF Init, Table
  <1>2. \A m, kind : ~HasKind(Table, m, kind)
    BY <1>1 DEF HasKind, Live
  <1>3. \A m, tag : ChildKey(Table, m, tag) = NoKey
    BY <1>1, <1>2 DEF ChildKey
  <1>4. IsFiniteSet(DOMAIN Table.node)
    BY <1>1, FS_EmptySet
  <1>5. Shape(Table)
    BY <1>1, <1>2, <1>4 DEF Shape
  <1>6. Tree(Table)
    BY <1>3, <1>5 DEF Tree, Sound
  <1>7. Full(Table)
    BY <1>1 DEF Full
  <1>8. DOMAIN node = {}
    BY <1>1 DEF Table
  <1> QED  BY <1>6, <1>7, <1>8 DEF TreeInv, Init

(* Every call is one of the steps proved above.                            *)
LEMMA CallKeeps ==
  ASSUME ~StoreShifts, ~StoreIntoPacked, TreeInv, NEW p \in Paths,
         \/ \E v \in Values : Put(p, v)
         \/ RemoveAtPath(p)
         \/ \E d \in Stored : Store(p, d) \/ StoreValue(p, d)
         \/ FetchMut(p) \/ Clear(p) \/ Swap(p) \/ SwapRemove(p)
         \/ RemoveRange(p) \/ RetainElements(p) \/ RetainEntries(p)
         \/ \E d \in Stored : SetOption(p, d)
         \/ p \in Inner /\ \E d \in Stored : InsertElement(p, d)
         \/ \E d \in Stored, n \in FieldsOf(p) : InsertEntry(p, n, d)
  PROVE  TreeInv'
  <1>1. /\ Tree(Table) /\ p \in Seq(Segment) /\ Len(p) <= 2
        /\ \A d \in Stored : Flat(d)
    BY TreeAssumption DEF TreeInv
  <1>2. Tree(Opened(p))
    BY <1>1, OpenedEffect
  <1>3. ASSUME NEW v \in Values, Put(p, v) PROVE TreeInv'
    BY <1>1, <1>3, PutEffect, FinishKeeps DEF Put
  <1>4. CASE RemoveAtPath(p)
    BY <1>1, <1>4, RemoveStepEffect, FinishKeeps DEF RemoveAtPath
  <1>5. ASSUME NEW d \in Stored, Store(p, d) PROVE TreeInv'
    BY <1>1, <1>5, StoreEffect, FinishKeeps DEF Store
  <1>6. ASSUME NEW d \in Stored, StoreValue(p, d) PROVE TreeInv'
    BY <1>1, <1>6, ReplaceEffect, FinishKeeps DEF StoreValue
  <1>7. CASE FetchMut(p)
    BY <1>1, <1>7, OpenEffect, FinishKeeps DEF FetchMut
  <1>8. CASE Clear(p)
    <2>1. PICK k \in Accessor(Opened(p), p, {"object", "list"}) :
            Finish(Call("clear", p, Nowhere), ClearChildren(Opened(p), k))
      BY <1>8 DEF Clear
    <2>2. Good(Opened(p), ClearChildren(Opened(p), k))
      BY <1>1, <1>2, ClearCallEffect
    <2> QED  BY <1>1, <2>1, <2>2, GoodOpened, FinishKeeps
  <1>9. CASE Swap(p)
    <2>1. PICK k \in Accessor(Opened(p), p, {"list"}) :
            \E i, j \in 0..Len(Opened(p).node[k].items) - 1 :
              Finish(Call("swap", p, <<i, j>>), ListSwap(Opened(p), k, i, j))
      BY <1>9 DEF Swap
    <2>2. HasKind(Opened(p), k, "list") /\ Len(Opened(p).node[k].items) \in Nat
      BY <1>1, <1>2, ListAccessor
    <2>3. PICK i \in 0..Len(Opened(p).node[k].items) - 1,
               j \in 0..Len(Opened(p).node[k].items) - 1 :
            Finish(Call("swap", p, <<i, j>>), ListSwap(Opened(p), k, i, j))
      BY <2>1
    <2>4. /\ i \in Nat /\ i < Len(Opened(p).node[k].items)
          /\ j \in Nat /\ j < Len(Opened(p).node[k].items)
      BY <2>2
    <2>5. Good(Opened(p), ListSwap(Opened(p), k, i, j))
      BY <1>2, <2>2, <2>4, ListSwapEffect
    <2> QED  BY <1>1, <2>3, <2>5, GoodOpened, FinishKeeps
  <1>10. CASE SwapRemove(p)
    <2>1. PICK k \in Accessor(Opened(p), p, {"list"}) :
            \E i \in 0..Len(Opened(p).node[k].items) - 1 :
              Finish(Call("swap_remove", p, i),
                     RemovePath(ListSwap(Opened(p), k, i, Len(Opened(p).node[k].items) - 1).s,
                                Append(p, Index(Len(Opened(p).node[k].items) - 1))))
      BY <1>10 DEF SwapRemove
    <2>2. PICK i \in 0..Len(Opened(p).node[k].items) - 1 :
            Finish(Call("swap_remove", p, i),
                   RemovePath(ListSwap(Opened(p), k, i, Len(Opened(p).node[k].items) - 1).s,
                              Append(p, Index(Len(Opened(p).node[k].items) - 1))))
      BY <2>1
    <2>3. Good(Opened(p),
               RemovePath(ListSwap(Opened(p), k, i, Len(Opened(p).node[k].items) - 1).s,
                          Append(p, Index(Len(Opened(p).node[k].items) - 1))))
      BY <1>1, <1>2, SwapRemoveEffect
    <2> QED  BY <1>1, <2>2, <2>3, GoodOpened, FinishKeeps
  <1>11. CASE RemoveRange(p)
    <2>1. PICK k \in Accessor(Opened(p), p, {"list"}) :
            \E i, n \in 0..Len(Opened(p).node[k].items) :
              Finish(Call("retain", p, Nowhere),
                     RemoveEach(Opened(p), p, [x \in 1..n |-> Index(i)], {Index(i)}))
      BY <1>11 DEF RemoveRange
    <2>2. Len(Opened(p).node[k].items) \in Nat
      BY <1>1, <1>2, ListAccessor
    <2>3. PICK i \in 0..Len(Opened(p).node[k].items), n \in 0..Len(Opened(p).node[k].items) :
            Finish(Call("retain", p, Nowhere),
                   RemoveEach(Opened(p), p, [x \in 1..n |-> Index(i)], {Index(i)}))
      BY <2>1
    <2>4. [x \in 1..n |-> Index(i)] \in Seq(Segment)
      <3>1. n \in Nat /\ Index(i) \in Segment
        BY <2>2, IndexSegment
      <3> QED  BY <3>1
    <2>5. Good(Opened(p), RemoveEach(Opened(p), p, [x \in 1..n |-> Index(i)], {Index(i)}))
      BY <1>1, <1>2, <2>4, RemoveEachEffect
    <2> QED  BY <1>1, <2>3, <2>5, GoodOpened, FinishKeeps
  <1>12. CASE RetainElements(p)
    <2>1. PICK k \in Accessor(Opened(p), p, {"list"}) :
            \E gone \in SUBSET {Index(i) : i \in 0..Len(Opened(p).node[k].items) - 1} :
              Finish(Call("retain", p, Nowhere),
                     RemoveEach(Opened(p), p, BackToFront(Len(Opened(p).node[k].items)), gone))
      BY <1>12 DEF RetainElements
    <2>2. PICK gone :
            Finish(Call("retain", p, Nowhere),
                   RemoveEach(Opened(p), p, BackToFront(Len(Opened(p).node[k].items)), gone))
      BY <2>1
    <2>3. BackToFront(Len(Opened(p).node[k].items)) \in Seq(Segment)
      <3> DEFINE n == Len(Opened(p).node[k].items)
      <3>1. n \in Nat
        BY <1>1, <1>2, ListAccessor
      <3> HIDE DEF n
      <3>2. \A x \in 1..n : n - x \in Nat
        BY <3>1
      <3>3. \A x \in 1..n : Index(n - x) \in Segment
        BY <3>2, IndexSegment
      <3>4. BackToFront(n) \in [1..n -> Segment]
        BY <3>3 DEF BackToFront
      <3>5. BackToFront(n) \in Seq(Segment)
        BY <3>1, <3>4, SeqDef
      <3> QED  BY <3>5 DEF n
    <2>4. Good(Opened(p),
               RemoveEach(Opened(p), p, BackToFront(Len(Opened(p).node[k].items)), gone))
      BY <1>1, <1>2, <2>3, RemoveEachEffect
    <2> QED  BY <1>1, <2>2, <2>4, GoodOpened, FinishKeeps
  <1>13. CASE RetainEntries(p)
    <2>1. PICK gone \in SUBSET {Name(n) : n \in Names} :
            Finish(Call("retain", p, Nowhere),
                   RemoveEach(Opened(p), p, SetToSeq(gone), gone))
      BY <1>13 DEF RetainEntries
    <2>2. SetToSeq(gone) \in Seq(Segment)
      <3>1. gone \subseteq Segment
        BY NameSegment
      <3>2. IsFiniteSet({Name(n) : n \in Names})
        <4> DEFINE f == [n \in Names |-> Name(n)]
        <4>1. f \in Surjection(Names, {Name(n) : n \in Names})
          BY DEF Surjection
        <4> HIDE DEF f
        <4> QED  BY <4>1, TreeAssumption, FS_Surjection
      <3>3. IsFiniteSet(gone)
        BY <3>2, FS_Subset
      <3> QED  BY <3>1, <3>3, SetSequence
    <2>3. Good(Opened(p), RemoveEach(Opened(p), p, SetToSeq(gone), gone))
      BY <1>1, <1>2, <2>2, RemoveEachEffect
    <2> QED  BY <1>1, <2>1, <2>3, GoodOpened, FinishKeeps
  <1>14. ASSUME NEW d \in Stored, SetOption(p, d) PROVE TreeInv'
    <2>1. PICK k \in Accessor(Opened(p), p, {"object", "list", "leaf"}) :
            /\ MayStore(Opened(p), p)
            /\ Finish(Call("store", p, d),
                      WriteValue(RemovePath(Opened(p), p).s, ROOT, p, d))
      BY <1>14 DEF SetOption
    <2>2. Good(Opened(p), WriteValue(RemovePath(Opened(p), p).s, ROOT, p, d))
      BY <1>1, <1>2, <2>1, SetOptionEffect
    <2> QED  BY <1>1, <2>1, <2>2, GoodOpened, FinishKeeps
  <1>15. ASSUME NEW d \in Stored, InsertElement(p, d) PROVE TreeInv'
    <2>1. PICK k \in Accessor(Opened(p), p, {"list"}) :
            LET end == Len(Opened(p).node[k].items)
            IN  \E new \in {WriteValue(Opened(p), ROOT, Append(p, Index(end)), d)}, i \in 0..end :
                  Finish(Call("insert", p, <<i, d>>),
                         IF new.ok THEN ListMove(new.s, k, end, i) ELSE new)
      BY <1>15 DEF InsertElement
    <2> DEFINE end == Len(Opened(p).node[k].items)
               new == WriteValue(Opened(p), ROOT, Append(p, Index(end)), d)
    <2>2. PICK i \in 0..end :
            Finish(Call("insert", p, <<i, d>>),
                   IF new.ok THEN ListMove(new.s, k, end, i) ELSE new)
      BY <2>1
    <2>3. Good(Opened(p), IF new.ok THEN ListMove(new.s, k, end, i) ELSE new)
      BY <1>1, <1>2, InsertElementEffect
    <2> HIDE DEF new, end
    <2> QED  BY <1>1, <2>2, <2>3, GoodOpened, FinishKeeps
  <1>16. ASSUME NEW d \in Stored, NEW n \in Names, InsertEntry(p, n, d) PROVE TreeInv'
    <2> DEFINE q == Append(p, Name(n))
               r == WriteValue(RemovePath(Opened(p), q).s, ROOT, q, d)
    <2>1. PICK k \in Accessor(Opened(p), p, {"object"}) : Finish(Call("store", q, d), r)
      BY <1>16 DEF InsertEntry
    <2>2. Good(Opened(p), r)
      BY <1>1, <1>2, InsertEntryEffect
    <2> HIDE DEF r
    <2> QED  BY <1>1, <2>1, <2>2, GoodOpened, FinishKeeps
  <1>17. FieldsOf(p) \subseteq Names
    BY DEF FieldsOf
  <1> QED  BY <1>3, <1>4, <1>5, <1>6, <1>7, <1>8, <1>9, <1>10, <1>11, <1>12, <1>13, <1>14,
              <1>15, <1>16, <1>17

(* Every batch keeps the invariant.                                        *)
LEMMA BatchKeeps ==
  ASSUME ~StoreShifts, ~StoreIntoPacked, TreeInv, NEW items \in Batches, StoreMany(items)
  PROVE  TreeInv'
  <1> DEFINE B == PackedSteps(items)
             packed == B[Len(items)].r
             plain == PlainSteps(packed, items)
  <1>1. /\ MayBatch(items, [x \in DOMAIN items |->
                            IF Packs(items[x]) THEN B[x - 1].r.s ELSE plain[x - 1].s])
        /\ Finish(Call("batch", <<>>, items), plain[Len(items)])
    BY DEF StoreMany
  <1>2. Tree(Table)
    BY DEF TreeInv
  <1>3. Good(Table, plain[Len(items)])
    BY <1>1, <1>2, StoreManyEffect
  <1> HIDE DEF plain
  <1> QED  BY <1>1, <1>3, FinishKeeps

(* Between calls the entries of the table form a tree.                     *)
THEOREM TreeStays ==
  ASSUME ~StoreShifts, ~StoreIntoPacked
  PROVE  Spec => []TreeInv
  <1>1. Init => TreeInv
    BY InitTree
  <1>2. TreeInv /\ [Next]_vars => TreeInv'
    <2> SUFFICES ASSUME TreeInv, [Next]_vars PROVE TreeInv'
      OBVIOUS
    <2>1. CASE OneCall
      <3>1. PICK p \in Paths :
              \/ \E v \in Values : Put(p, v)
              \/ RemoveAtPath(p)
              \/ \E d \in Stored : Store(p, d) \/ StoreValue(p, d)
              \/ FetchMut(p) \/ Clear(p) \/ Swap(p) \/ SwapRemove(p)
              \/ RemoveRange(p) \/ RetainElements(p) \/ RetainEntries(p)
              \/ \E d \in Stored : SetOption(p, d)
              \/ p \in Inner /\ \E d \in Stored : InsertElement(p, d)
              \/ \E d \in Stored, n \in FieldsOf(p) : InsertEntry(p, n, d)
        BY <2>1 DEF OneCall
      <3> QED  BY <3>1, CallKeeps
    <2>2. CASE \E items \in Batches : StoreMany(items)
      BY <2>2, BatchKeeps
    <2>3. CASE UNCHANGED vars
      <3>1. Table'.node = Table.node /\ Table'.link = Table.link
        BY <2>3 DEF vars, Table
      <3>2. Tree(Table') /\ (Full(Table) => Full(Table'))
        BY <3>1, SameEntries DEF TreeInv
      <3>3. Tree(Table)' /\ (Full(Table) => Full(Table)')
        BY <3>2
      <3>4. failed' = failed /\ shredded' = shredded /\ node' = node
        BY <2>3 DEF vars
      <3>5. (DOMAIN node \subseteq Keys \cup {ROOT})'
        BY <3>4 DEF TreeInv, Keys, ROOT
      <3> QED  BY <3>3, <3>4, <3>5 DEF TreeInv
    <2> QED  BY <2>1, <2>2, <2>3 DEF Next
  <1> QED  BY <1>1, <1>2, PTL DEF Spec

(* The entries of a tree have their types: no key is out of bounds, for    *)
(* every child is live.                                                    *)
LEMMA TreeIsTyped ==
  ASSUME TreeInv
  PROVE  TypeOK
  <1>1. /\ Tree(Table) /\ Sound(Table) /\ Shape(Table) /\ Table.node = node /\ Table.link = link
        /\ DOMAIN node \subseteq Keys \cup {ROOT}
    BY DEF TreeInv, Tree, Sound, Table
  <1>2. \A m \in Nat, tag \in Segment : ChildKey(Table, m, tag) # NoKey =>
          ChildKey(Table, m, tag) \in Keys /\ m \in DOMAIN node
    <2> TAKE m \in Nat, tag \in Segment
    <2> HAVE ChildKey(Table, m, tag) # NoKey
    <2>1. ChildKey(Table, m, tag) \in DOMAIN node /\ Holder(Table, m, tag)
      BY <1>1 DEF Tree, Sound
    <2>2. ChildKey(Table, m, tag) # ROOT
      <3>1. ChildKey(Table, m, tag) \in (Nat \ {ROOT}) \cup {NoKey}
        BY <1>1, ChildKeyType
      <3> QED  BY <3>1
    <2> QED  BY <1>1, <2>1, <2>2 DEF Holder, HasKind, Live
  <1>3. ASSUME NEW l \in DOMAIN link
        PROVE  l \in (Keys \cup {ROOT}) \X Names /\ link[l] \in Keys
    <2>1. PICK m \in Nat, n \in Names : l = <<m, n>>
      BY <1>1 DEF Shape
    <2>2. Name(n) \in Segment /\ ChildKey(Table, m, Name(n)) = link[l]
      BY <1>1, <2>1, NameSegment DEF ChildKey
    <2>3. link[l] # NoKey
      BY <1>1 DEF Shape, NoKey
    <2>4. m \in DOMAIN node /\ link[l] \in Keys
      BY <1>2, <2>2, <2>3
    <2> QED  BY <1>1, <2>1, <2>4
  <1>4. ASSUME NEW k \in DOMAIN node
        PROVE  node[k] \in Node \/ node[k].kind = "packed"
    <2>1. NodeOK(node[k]) /\ k \in Nat
      BY <1>1 DEF Shape
    <2>2. CASE node[k].kind = "object"
      BY <2>1, <2>2 DEF NodeOK, ObjectNode, Node
    <2>3. CASE node[k].kind = "leaf"
      BY <2>1, <2>3 DEF NodeOK, LeafNode, Node
    <2>4. CASE node[k].kind = "list"
      <3>1. HasKind(Table, k, "list")
        BY <1>1, <2>4 DEF HasKind, Live
      <3>2. node[k].items \in Seq(Nat \ {ROOT}) /\ node[k] = ListNode(node[k].items)
        BY <1>1, <3>1, ListItems
      <3> DEFINE items == node[k].items
                 n == Len(items)
      <3>3. n \in Nat /\ items \in [1..n -> Nat \ {ROOT}]
        BY <3>2, LenProperties
      <3>4. ASSUME NEW i \in 1..n PROVE items[i] \in Keys
        <4>1. i - 1 \in Nat /\ i - 1 < n /\ (i - 1) + 1 = i
          BY <3>3
        <4>2. /\ Index(i - 1) \in Segment /\ ~IsName(Index(i - 1)) /\ Index(i - 1).index = i - 1
          BY <4>1, IndexSegment
        <4>3. ChildKey(Table, k, Index(i - 1)) = items[i]
          BY <1>1, <3>1, <4>1, <4>2 DEF ChildKey
        <4>4. items[i] # NoKey
          BY <3>3 DEF NoKey
        <4> QED  BY <1>2, <2>1, <4>2, <4>3, <4>4
      <3>5. items \in Seq(Keys)
        <4> HIDE DEF items, n
        <4>1. items \in [1..n -> Keys]
          BY <3>3, <3>4
        <4> QED  BY <3>3, <4>1, SeqDef
      <3> QED  BY <3>2, <3>5 DEF Node, ListNode
    <2> QED  BY <2>1, <2>2, <2>3, <2>4 DEF NodeOK
  <1> QED  BY <1>1, <1>3, <1>4 DEF TypeOK, TreeInv

(* A tree is one in the sense of EntriesFormATree: a node with two places  *)
(* would be a child twice.                                                 *)
LEMMA TreeIsATree ==
  ASSUME TreeInv
  PROVE  EntriesFormATree
  <1>1. /\ Tree(Table) /\ Sound(Table) /\ Shape(Table) /\ Table.node = node /\ Table.link = link
    BY DEF TreeInv, Tree, Sound, Table
  <1>2. ASSUME NEW l \in DOMAIN link
        PROVE  /\ l[1] \in Nat /\ l[2] \in Names /\ l = <<l[1], l[2]>>
               /\ Name(l[2]) \in Segment /\ IsName(Name(l[2])) /\ Name(l[2]).name = l[2]
               /\ ChildKey(Table, l[1], Name(l[2])) = link[l] /\ link[l] # NoKey
    <2>1. PICK m \in Nat, n \in Names : l = <<m, n>>
      BY <1>1 DEF Shape
    <2>2. l[1] = m /\ l[2] = n
      BY <2>1
    <2>3. Name(n) \in Segment /\ IsName(Name(n)) /\ Name(n).name = n
      BY NameSegment
    <2>4. ChildKey(Table, m, Name(n)) = link[l]
      BY <1>1, <2>1, <2>3 DEF ChildKey
    <2>5. link[l] # NoKey
      BY <1>1 DEF Shape, NoKey
    <2> QED  BY <2>1, <2>2, <2>3, <2>4, <2>5
  <1>3. ASSUME NEW k \in DOMAIN node, HasKind(Table, k, "list"), NEW i \in DOMAIN node[k].items
        PROVE  /\ k \in Nat /\ i - 1 \in Nat /\ (i - 1) + 1 = i
               /\ Index(i - 1) \in Segment /\ IsIndex(Index(i - 1)) /\ Index(i - 1).index = i - 1
               /\ ChildKey(Table, k, Index(i - 1)) = node[k].items[i] /\ node[k].items[i] # NoKey
    <2> DEFINE items == node[k].items
               n == Len(items)
    <2>1. k \in Nat /\ items \in Seq(Nat \ {ROOT})
      BY <1>1, <1>3, ListItems
    <2>2. n \in Nat /\ items \in [1..n -> Nat \ {ROOT}] /\ DOMAIN items = 1..n
      BY <2>1, LenProperties
    <2>3. i \in 1..n
      BY <2>2
    <2>4. i - 1 \in Nat /\ i - 1 < n /\ (i - 1) + 1 = i
      BY <2>2, <2>3
    <2>5. /\ Index(i - 1) \in Segment /\ ~IsName(Index(i - 1)) /\ IsIndex(Index(i - 1))
          /\ Index(i - 1).index = i - 1
      BY <2>4, IndexSegment
    <2>6. ChildKey(Table, k, Index(i - 1)) = items[i]
      BY <1>1, <1>3, <2>4, <2>5 DEF ChildKey
    <2>7. items[i] # NoKey
      BY <2>2, <2>3 DEF NoKey
    <2> QED  BY <2>1, <2>4, <2>5, <2>6, <2>7
  <1>4. ASSUME NEW l \in DOMAIN link
        PROVE  HasKind(Table, l[1], "object") /\ Live(Table, link[l])
    <2>1. Holder(Table, l[1], Name(l[2])) /\ link[l] \in DOMAIN node
      BY <1>1, <1>2 DEF Tree, Sound
    <2> QED  BY <1>1, <1>2, <2>1 DEF Holder, IsName, Live
  <1>5. ASSUME NEW k \in DOMAIN node, HasKind(Table, k, "list"), NEW i \in DOMAIN node[k].items
        PROVE  Live(Table, node[k].items[i])
    <2>1. ChildKey(Table, k, Index(i - 1)) \in DOMAIN node
      BY <1>1, <1>3, <1>5 DEF Tree
    <2> QED  BY <1>1, <1>3, <1>5, <2>1 DEF Live
  <1>6. ASSUME NEW k \in DOMAIN node PROVE Cardinality(Places(k)) <= 1
    <2> DEFINE links == {l \in DOMAIN link : link[l] = k}
               elements == {e \in (DOMAIN node) \X (1..MaxKey) :
                              HasKind(Table, e[1], "list") /\ e[2] \in DOMAIN node[e[1]].items
                                /\ node[e[1]].items[e[2]] = k}
               Step(x) == IF x \in links THEN Name(x[2]) ELSE Index(x[2] - 1)
    <2>1. Places(k) = links \cup elements
      BY DEF Places
    <2>2. ASSUME NEW x \in links
          PROVE  /\ x[1] \in Nat /\ Name(x[2]) \in Segment /\ IsName(Name(x[2]))
                 /\ ChildKey(Table, x[1], Name(x[2])) = k /\ k # NoKey
                 /\ x = <<x[1], Name(x[2]).name>>
      BY <1>2
    <2>3. ASSUME NEW x \in elements
          PROVE  /\ x[1] \in Nat /\ Index(x[2] - 1) \in Segment /\ ~IsName(Index(x[2] - 1))
                 /\ ChildKey(Table, x[1], Index(x[2] - 1)) = k /\ k # NoKey
                 /\ x = <<x[1], Index(x[2] - 1).index + 1>>
      <3>1. x[1] \in DOMAIN node /\ x = <<x[1], x[2]>>
        OBVIOUS
      <3>2. HasKind(Table, x[1], "list") /\ x[2] \in DOMAIN node[x[1]].items
              /\ node[x[1]].items[x[2]] = k
        OBVIOUS
      <3>3. /\ x[1] \in Nat /\ x[2] - 1 \in Nat /\ (x[2] - 1) + 1 = x[2]
            /\ Index(x[2] - 1) \in Segment /\ IsIndex(Index(x[2] - 1))
            /\ Index(x[2] - 1).index = x[2] - 1
            /\ ChildKey(Table, x[1], Index(x[2] - 1)) = k /\ k # NoKey
        BY <1>3, <3>1, <3>2
      <3> QED  BY <3>1, <3>3 DEF IsName
    <2> HIDE DEF links, elements
    <2>4. ASSUME NEW x \in Places(k), NEW y \in Places(k) PROVE x = y
      <3>1. CASE x \in links /\ y \in links
        <4>1. x[1] = y[1] /\ Name(x[2]) = Name(y[2])
          BY <1>1, <2>2, <3>1, OneHolder
        <4> QED  BY <2>2, <3>1, <4>1
      <3>2. CASE x \in elements /\ y \in elements
        <4>1. x[1] = y[1] /\ Index(x[2] - 1) = Index(y[2] - 1)
          BY <1>1, <2>3, <3>2, OneHolder
        <4> QED  BY <2>3, <3>2, <4>1
      <3>3. CASE x \in links /\ y \in elements
        <4>1. Name(x[2]) = Index(y[2] - 1)
          BY <1>1, <2>2, <2>3, <3>3, OneHolder
        <4> QED  BY <2>2, <2>3, <3>3, <4>1
      <3>4. CASE x \in elements /\ y \in links
        <4>1. Name(y[2]) = Index(x[2] - 1)
          BY <1>1, <2>2, <2>3, <3>4, OneHolder
        <4> QED  BY <2>2, <2>3, <3>4, <4>1
      <3> QED  BY <2>1, <3>1, <3>2, <3>3, <3>4
    <2>5. CASE Places(k) = {}
      BY <2>5, FS_EmptySet
    <2>6. CASE Places(k) # {}
      <3>1. PICK x : x \in Places(k)
        BY <2>6
      <3>2. Places(k) = {x}
        BY <2>4, <3>1
      <3>3. Cardinality(Places(k)) = 1
        BY <3>2, FS_Singleton
      <3> QED  BY <3>3
    <2> QED  BY <2>5, <2>6
  <1> QED  BY <1>4, <1>5, <1>6 DEF EntriesFormATree

(* The entries of a table have their types after every call (tree.rs,      *)
(* links.rs and packed.rs write no other).                                 *)
THEOREM TreeTypeOK ==
  ASSUME ~StoreShifts, ~StoreIntoPacked
  PROVE  Spec => []TypeOK
  BY TreeStays, TreeIsTyped, PTL

(* After every call links lead from live objects to live nodes, list       *)
(* elements are live and no node is in two places: a child that resolves   *)
(* is live.                                                                *)
THEOREM TreeEntriesFormATree ==
  ASSUME ~StoreShifts, ~StoreIntoPacked
  PROVE  Spec => []EntriesFormATree
  BY TreeStays, TreeIsATree, PTL

(* Until a call fails, all nodes hang under the root: what is removed or   *)
(* replaced leaves no entries behind.                                      *)
THEOREM TreeNothingLeaks ==
  ASSUME ~StoreShifts, ~StoreIntoPacked
  PROVE  Spec => []NothingLeaks
  <1>1. Table.node = node
    BY DEF Table
  <1>2. TreeInv => NothingLeaks
    BY <1>1 DEF TreeInv, NothingLeaks, Full
  <1> QED  BY <1>2, TreeStays, PTL
=============================================================================
