------------------------- MODULE IndexedTree_proofs -------------------------
(***************************************************************************)
(* A table with indexes keeps the entries of those that maintenance has in *)
(* sight in step with their entities.  The invariant (IndexInv) says which *)
(* entries there are in terms of the paths that patterns match, and where  *)
(* nothing is packed; each call and each index definition keeps it.  Last, *)
(* what it says of the document.                                           *)
(***************************************************************************)
EXTENDS IndexedTree_frames

------------------------------------------------------------------------------
(* Where nothing may be packed                                             *)

(* The patterns of what is above the entities of an index.                 *)
AboveOf(def) == {Prefix(def.pattern, i) : i \in 0..Len(def.pattern) - 1}
AboveW(D)    == UNION {AboveOf(def) : def \in D}

(* The patterns of what is between the entities of an index and their      *)
(* columns.                                                                *)
ColumnPart(def, c, n) == def.pattern \o Prefix(def.columns[c].path, n)
ColumnOf(def) ==
  UNION {{ColumnPart(def, c, n) : n \in 1..Len(def.columns[c].path)} : c \in DOMAIN def.columns}
ColumnW(D)   == UNION {ColumnOf(def) : def \in D}

(* A path that another leads to is the other with the rest after it.       *)
LEMMA SplitPath ==
  ASSUME NEW r \in Seq(Segment), NEW q \in Seq(Segment), Leads(r, q)
  PROVE  \E e \in Seq(Segment) : q = r \o e /\ Len(e) = Len(q) - Len(r)
  <1> DEFINE m == Len(r)
             n == Len(q)
             e == [i \in 1..n - m |-> q[m + i]]
  <1>1. m \in Nat /\ n \in Nat /\ m <= n /\ n - m \in Nat /\ \A i \in 1..m : r[i] = q[i]
    BY LenProperties DEF Leads
  <1>2. \A i \in 1..n : q[i] \in Segment
    BY ElementOfSeq, <1>1
  <1>3. \A i \in 1..n - m : m + i \in 1..n
    BY <1>1
  <1>4. e \in [1..n - m -> Segment]
    BY <1>2, <1>3
  <1>5. e \in Seq(Segment) /\ Len(e) = n - m
    <2> HIDE DEF e
    <2>1. QED
      BY <1>1, <1>4, FunLen
  <1>6. \A i \in 1..n - m : e[i] = q[m + i]
    OBVIOUS
  <1> HIDE DEF e
  <1>7. /\ r \o e \in Seq(Segment) /\ Len(r \o e) = Len(r) + Len(e)
        /\ \A i \in 1..Len(r) : (r \o e)[i] = r[i]
        /\ \A i \in 1..Len(e) : (r \o e)[Len(r) + i] = e[i]
    BY <1>5, ConcatPath
  <1>8. Len(r \o e) = n
    BY <1>1, <1>5, <1>7
  <1>9. ASSUME NEW i \in 1..n
        PROVE  (r \o e)[i] = q[i]
    <2>1. CASE i <= m
      BY <1>1, <1>7, <2>1
    <2>2. CASE ~(i <= m)
      <3> DEFINE j == i - m
      <3>1. j \in 1..n - m /\ m + j = i
        BY <1>1, <2>2
      <3> HIDE DEF j
      <3>2. QED
        BY <1>5, <1>6, <1>7, <3>1
    <2>3. QED
      BY <2>1, <2>2
  <1>10. r \o e = q
    BY <1>7, <1>8, <1>9, SeqEqual
  <1>11. QED
    BY <1>5, <1>10

(* The patterns of a plain definition.                                     *)
LEMMA PartPattern ==
  ASSUME NEW def, PlainDef(def), NEW c \in DOMAIN def.columns,
         NEW n \in 0..Len(def.columns[c].path)
  PROVE  LET path == def.columns[c].path
         IN  /\ path \in Seq(Segment) /\ Prefix(path, n) \in NamePaths
             /\ Prefix(path, n) \in Seq(Segment) /\ Prefix(path, n) \in Seq(PatternParts)
             /\ Len(Prefix(path, n)) = n
             /\ def.pattern \in Seq(PatternParts)
             /\ ColumnPart(def, c, n) \in Seq(PatternParts)
  <1> DEFINE path == def.columns[c].path
             e == Prefix(path, n)
             N == {Name(x) : x \in Names}
  <1>1. path \in NamePaths /\ def.pattern \in Seq(PatternParts)
    BY DEF PlainDef
  <1>2. path \in Seq(N)
    BY <1>1 DEF NamePaths
  <1>3. path \in Seq(Segment)
    BY <1>1, NamePathIs
  <1> HIDE DEF path
  <1>4. /\ e \in Seq(Segment) /\ Len(e) = n
        /\ \A i \in 1..n : e[i] = path[i]
    BY <1>3, PrefixIs DEF path
  <1>5. n \in Nat /\ n <= Len(path) /\ Len(path) \in Nat
    BY <1>3, LenProperties DEF path
  <1>6. \A i \in 1..n : path[i] \in N
    BY <1>2, <1>5, ElementOfSeq
  <1> HIDE DEF e, N
  <1>7. e \in Seq(N) /\ DOMAIN e = 1..n /\ e = [i \in 1..n |-> e[i]]
    <2>1. e = [i \in 1..n |-> e[i]] /\ DOMAIN e = 1..n
      BY <1>4, <1>5, LenProperties
    <2>2. \A i \in 1..n : e[i] \in N
      BY <1>4, <1>6
    <2>3. e \in [1..n -> N]
      BY <2>1, <2>2
    <2>4. QED
      BY <1>5, <2>1, <2>3, FunLen
  <1>8. N \subseteq PatternParts
    BY DEF N, PatternParts
  <1>9. e \in [1..n -> PatternParts]
    <2>1. \A i \in 1..n : e[i] \in PatternParts
      BY <1>4, <1>6, <1>8
    <2>2. QED
      BY <1>7, <2>1
  <1>10. e \in Seq(PatternParts)
    BY <1>5, <1>9, FunLen
  <1>11. def.pattern \o e \in Seq(PatternParts)
    BY <1>1, <1>10, ConcatProperties
  <1>12. QED
    BY <1>1, <1>3, <1>4, <1>7, <1>10, <1>11 DEF e, path, N, NamePaths, ColumnPart

(* The sets of patterns are patterns.                                      *)
LEMMA WaysType ==
  ASSUME NEW D, PlainDefs(D)
  PROVE  AboveW(D) \subseteq Seq(PatternParts) /\ ColumnW(D) \subseteq Seq(PatternParts)
  <1>1. ASSUME NEW def \in D, NEW w \in AboveOf(def)
        PROVE  w \in Seq(PatternParts)
    <2>1. PICK i \in 0..Len(def.pattern) - 1 : w = Prefix(def.pattern, i)
      BY <1>1 DEF AboveOf
    <2>2. def.pattern \in Seq(PatternParts)
      BY DEF PlainDefs, PlainDef
    <2> DEFINE pattern == def.pattern
    <2>3. Len(pattern) \in Nat /\ i \in Nat /\ i <= Len(pattern)
      BY <2>1, <2>2, LenProperties
    <2>4. \A x \in 1..i : pattern[x] \in PatternParts
      BY <2>2, <2>3, ElementOfSeq
    <2>5. QED
      BY <2>1, <2>2, <2>3, <2>4, SubSeqProperties DEF Prefix
  <1>2. ASSUME NEW def \in D, NEW w \in ColumnOf(def)
        PROVE  w \in Seq(PatternParts)
    <2>1. PICK c \in DOMAIN def.columns : \E n \in 1..Len(def.columns[c].path) :
            w = ColumnPart(def, c, n)
      BY <1>2 DEF ColumnOf
    <2>2. PICK n \in 1..Len(def.columns[c].path) : w = ColumnPart(def, c, n)
      BY <2>1
    <2>3. PlainDef(def)
      BY DEF PlainDefs
    <2>4. def.columns[c].path \in Seq(Segment)
      BY <2>3, NamePathIs DEF PlainDef
    <2>5. n \in 0..Len(def.columns[c].path)
      BY <2>2, <2>4, LenProperties
    <2>6. QED
      BY <2>2, <2>3, <2>5, PartPattern
  <1>3. QED
    BY <1>1, <1>2 DEF AboveW, ColumnW

(* A pattern of two parts.                                                 *)
LEMMA ConcatPattern ==
  ASSUME NEW a \in Seq(PatternParts), NEW b \in Seq(PatternParts), NEW m, m = Len(a),
         NEW n, n = Len(b)
  PROVE  /\ a \o b \in Seq(PatternParts) /\ Len(a \o b) = m + n
         /\ \A i \in 1..m : (a \o b)[i] = a[i]
         /\ \A i \in 1..n : (a \o b)[m + i] = b[i]
  <1>1. m \in Nat /\ n \in Nat
    BY LenProperties
  <1>2. /\ a \o b \in Seq(PatternParts) /\ Len(a \o b) = m + n
        /\ \A i \in 1..m + n : (a \o b)[i] = IF i <= m THEN a[i] ELSE b[i - m]
    BY ConcatProperties
  <1>3. ASSUME NEW i \in 1..m PROVE (a \o b)[i] = a[i]
    BY <1>1, <1>2
  <1>4. ASSUME NEW i \in 1..n PROVE (a \o b)[m + i] = b[i]
    <2> DEFINE j == m + i
    <2>1. j \in 1..m + n /\ ~(j <= m) /\ j - m = i
      BY <1>1
    <2> HIDE DEF j
    <2>2. (a \o b)[j] = b[i]
      BY <1>2, <2>1
    <2>3. QED
      BY <2>2 DEF j
  <1>5. QED
    BY <1>2, <1>3, <1>4

(* What matches the pattern of an entity goes on to its columns.           *)
LEMMA MatchesOn ==
  ASSUME NEW def, PlainDef(def), NEW c \in DOMAIN def.columns,
         NEW n \in 0..Len(def.columns[c].path), NEW r, Matches(def.pattern, r)
  PROVE  Matches(ColumnPart(def, c, n), r \o Prefix(def.columns[c].path, n))
  <1> DEFINE pattern == def.pattern
             e == Prefix(def.columns[c].path, n)
             m == Len(pattern)
  <1>1. /\ e \in NamePaths /\ e \in Seq(Segment) /\ e \in Seq(PatternParts) /\ Len(e) = n
        /\ pattern \in Seq(PatternParts) /\ ColumnPart(def, c, n) = pattern \o e
    BY PartPattern DEF ColumnPart
  <1>2. /\ r \in Seq(Segment) /\ Len(r) = m /\ m \in Nat /\ n \in Nat
        /\ \A i \in 1..m : MatchesSegment(pattern[i], r[i])
    BY <1>1, LenProperties DEF Matches
  <1>a. Len(pattern) = m
    OBVIOUS
  <1> HIDE DEF e, pattern, m
  <1>3. /\ r \o e \in Seq(Segment) /\ Len(r \o e) = m + n
        /\ \A i \in 1..m : (r \o e)[i] = r[i]
        /\ \A i \in 1..n : (r \o e)[m + i] = e[i]
    BY <1>1, <1>2, ConcatPath
  <1>4. /\ Len(pattern \o e) = m + n
        /\ \A i \in 1..m : (pattern \o e)[i] = pattern[i]
        /\ \A i \in 1..n : (pattern \o e)[m + i] = e[i]
    BY <1>1, <1>a, ConcatPattern
  <1>5. ASSUME NEW i \in 1..m + n
        PROVE  MatchesSegment((pattern \o e)[i], (r \o e)[i])
    <2>1. CASE i <= m
      BY <1>2, <1>3, <1>4, <2>1
    <2>2. CASE ~(i <= m)
      <3> DEFINE j == i - m
      <3>1. j \in 1..n /\ m + j = i
        BY <1>2, <2>2
      <3> HIDE DEF j
      <3>2. (pattern \o e)[i] = e[j] /\ (r \o e)[i] = e[j]
        BY <1>3, <1>4, <3>1
      <3>3. QED
        BY <3>2 DEF MatchesSegment
    <2>3. QED
      BY <2>1, <2>2
  <1>6. QED
    BY <1>1, <1>3, <1>4, <1>5 DEF Matches, e, pattern

(* What matches the pattern of a part of an entity is in an entity.        *)
LEMMA MatchesBack ==
  ASSUME NEW def, PlainDef(def), NEW c \in DOMAIN def.columns,
         NEW n \in 0..Len(def.columns[c].path), NEW q, Matches(ColumnPart(def, c, n), q)
  PROVE  \E r : Matches(def.pattern, r) /\ q = r \o Prefix(def.columns[c].path, n)
  <1> DEFINE pattern == def.pattern
             e == Prefix(def.columns[c].path, n)
             m == Len(pattern)
             whole == ColumnPart(def, c, n)
             r == Prefix(q, m)
  <1>1. /\ e \in NamePaths /\ e \in Seq(Segment) /\ e \in Seq(PatternParts) /\ Len(e) = n
        /\ pattern \in Seq(PatternParts) /\ whole = pattern \o e /\ whole \in Seq(PatternParts)
    BY PartPattern DEF ColumnPart
  <1>2. m \in Nat /\ n \in Nat
    BY <1>1, LenProperties
  <1>a. Len(pattern) = m
    OBVIOUS
  <1> HIDE DEF e, pattern, whole, m
  <1>3. Len(whole) = m + n /\ (\A i \in 1..m : whole[i] = pattern[i])
        /\ \A i \in 1..n : whole[m + i] = e[i]
    <2>1. /\ Len(pattern \o e) = m + n
          /\ \A i \in 1..m : (pattern \o e)[i] = pattern[i]
          /\ \A i \in 1..n : (pattern \o e)[m + i] = e[i]
      <3>1. pattern \in Seq(PatternParts) /\ e \in Seq(PatternParts) /\ m = Len(pattern) /\ n = Len(e)
        BY <1>1, <1>a
      <3>2. QED
        BY <3>1, ConcatPattern
    <2>2. QED
      BY <1>1, <2>1
  <1>4. /\ q \in Seq(Segment) /\ Len(q) = m + n
        /\ \A i \in 1..m + n : MatchesSegment(whole[i], q[i])
    BY <1>3 DEF Matches, whole
  <1>5. m \in 0..Len(q)
    BY <1>2, <1>4
  <1>6. /\ r \in Seq(Segment) /\ Len(r) = m /\ \A i \in 1..m : r[i] = q[i]
    BY <1>4, <1>5, PrefixIs
  <1> HIDE DEF r
  <1>7. Matches(pattern, r)
    <2>1. \A i \in 1..m : MatchesSegment(pattern[i], r[i])
      BY <1>2, <1>3, <1>4, <1>6
    <2>2. QED
      BY <1>6, <2>1 DEF Matches, m
  <1>8. /\ r \o e \in Seq(Segment) /\ Len(r \o e) = m + n
        /\ \A i \in 1..m : (r \o e)[i] = r[i]
        /\ \A i \in 1..n : (r \o e)[m + i] = e[i]
    BY <1>1, <1>6, ConcatPath
  <1>9. ASSUME NEW i \in 1..m + n
        PROVE  (r \o e)[i] = q[i]
    <2>1. CASE i <= m
      BY <1>2, <1>6, <1>8, <2>1
    <2>2. CASE ~(i <= m)
      <3> DEFINE j == i - m
      <3>1. j \in 1..n /\ m + j = i
        BY <1>2, <2>2
      <3> HIDE DEF j
      <3>2. whole[i] = e[j] /\ (r \o e)[i] = e[j]
        BY <1>3, <1>8, <3>1
      <3>3. IsName(e[j]) /\ e[j] \in PatternParts
        BY <1>1, <3>1, NamePathIs, ElementOfSeq
      <3>4. ~IsStar(e[j])
        <4>1. e[j] \in Segment
          BY <1>1, <3>1, ElementOfSeq
        <4>2. QED
          BY <3>3, <4>1, SegmentKinds DEF IsStar, Name
      <3>5. MatchesSegment(e[j], q[i])
        BY <1>4, <3>2
      <3>6. QED
        BY <3>2, <3>4, <3>5 DEF MatchesSegment
    <2>3. QED
      BY <2>1, <2>2
  <1>10. r \o e = q
    BY <1>4, <1>8, <1>9, SeqEqual
  <1>11. QED
    BY <1>7, <1>10 DEF e, pattern

(* A walk has as many keys as its path has segments, and one more.         *)
LEMMA WalkDomain ==
  ASSUME NEW s, NEW base, NEW p \in Seq(Segment)
  PROVE  DOMAIN Walk(s, base, p) = 0..Len(p)
  <1>1. Len(p) \in Nat
    BY LenProperties
  <1>2. Walk(s, base, p) = CHOOSE g : IsWalk(g, s, base, p, Len(p))
    BY DEF Walk, IsWalk
  <1>3. IsWalk(Walk(s, base, p), s, base, p, Len(p))
    BY <1>1, <1>2, WalksExist
  <1>4. QED
    BY <1>3 DEF IsWalk

(* Between an entity and its columns nothing is packed when the paths      *)
(* there are clear.                                                        *)
LEMMA BaredByClear ==
  ASSUME NEW s, Tree(s), NEW D, PlainDefs(D), ClearOf(s, ColumnW(D)), NEW def \in D,
         NEW r, NEW k, EntityAt(s, def.pattern, r, k)
  PROVE  Bared(s, def, k)
  <1> SUFFICES ASSUME ~HasKind(s, k, "packed"), NEW c \in DOMAIN def.columns,
                      NEW i \in 0..Len(def.columns[c].path),
                      HasKind(s, Walk(s, k, def.columns[c].path)[i], "packed")
               PROVE  FALSE
    BY DEF Bared
  <1> DEFINE path == def.columns[c].path
             e == Prefix(path, i)
  <1>1. PlainDef(def)
    BY DEF PlainDefs
  <1>2. path \in Seq(Segment) /\ e \in Seq(Segment)
    BY <1>1, PartPattern
  <1>3. r \in Seq(Segment) /\ k = Res(s, r) /\ Matches(def.pattern, r)
    BY DEF EntityAt, Matches
  <1>4. Walk(s, k, path)[i] = ResolveFrom(s, k, e)
    BY <1>2, WalkIs
  <1>5. i # 0
    <2>1. ASSUME i = 0 PROVE FALSE
      <3>1. Walk(s, k, path)[0] = k
        BY <1>2, WalkSteps
      <3>2. QED
        BY <2>1, <3>1
    <2>2. QED
      BY <2>1
  <1>6. i \in 1..Len(path)
    BY <1>2, <1>5, LenProperties
  <1>7. Matches(ColumnPart(def, c, i), r \o e)
    BY <1>1, <1>3, MatchesOn
  <1>8. ColumnPart(def, c, i) \in ColumnW(D)
    BY <1>6 DEF ColumnW, ColumnOf
  <1> HIDE DEF e
  <1>9. ResolveFrom(s, k, e) = Res(s, r \o e)
    BY <1>2, <1>3, ResOn
  <1>10. r \o e \in Seq(Segment)
    BY <1>2, <1>3, ConcatPath
  <1>11. PackedAt(s, r \o e)
    BY <1>4, <1>9, <1>10 DEF PackedAt
  <1>12. QED
    BY <1>7, <1>8, <1>11 DEF ClearOf

(* Below a packed node there is no entity of an index when the paths above *)
(* the entities are clear.                                                 *)
LEMMA ClearAbove ==
  ASSUME NEW s, NEW D, PlainDefs(D), ClearOf(s, AboveW(D)), NEW def \in D,
         NEW q, PackedAt(s, q), NEW r, Matches(def.pattern, r), Leads(q, r), r # q
  PROVE  FALSE
  <1> DEFINE pattern == def.pattern
             m == Len(q)
             w == Prefix(pattern, m)
  <1>1. q \in Seq(Segment) /\ r \in Seq(Segment) /\ Len(r) = Len(pattern)
        /\ \A i \in 1..Len(pattern) : MatchesSegment(pattern[i], r[i])
    BY DEF PackedAt, Matches
  <1>2. m \in Nat /\ Len(r) \in Nat /\ m <= Len(r) /\ \A i \in 1..m : q[i] = r[i]
    BY <1>1, LenProperties DEF Leads
  <1>3. m # Len(r)
    <2>1. ASSUME m = Len(r) PROVE FALSE
      <3>1. q = r
        BY <1>1, <1>2, <2>1, SeqEqual
      <3>2. QED
        BY <3>1
    <2>2. QED
      BY <2>1
  <1>4. pattern \in Seq(PatternParts)
    BY DEF PlainDefs, PlainDef
  <1> HIDE DEF pattern
  <1>5. m \in 0..Len(pattern) - 1 /\ m <= Len(pattern) /\ Len(pattern) \in Nat
    BY <1>1, <1>2, <1>3
  <1>6. Len(w) = m /\ \A i \in 1..m : w[i] = pattern[i]
    <2>1. \A x \in 1..m : pattern[x] \in PatternParts
      BY <1>4, <1>5, ElementOfSeq
    <2>2. /\ Len(w) = IF 1 <= m THEN m - 1 + 1 ELSE 0
          /\ \A i \in 1..m - 1 + 1 : w[i] = pattern[1 + i - 1]
      BY <1>2, <2>1, SubSeqProperties DEF Prefix
    <2>3. QED
      BY <1>2, <2>2
  <1>7. Matches(w, q)
    BY <1>1, <1>2, <1>5, <1>6 DEF Matches
  <1>8. w \in AboveW(D)
    BY <1>5 DEF AboveW, AboveOf, pattern
  <1>9. QED
    BY <1>7, <1>8 DEF ClearOf

(* When nothing is packed between an entity and its columns, the paths to  *)
(* the columns are clear.                                                  *)
LEMMA ColumnGuard ==
  ASSUME NEW s, Tree(s), NEW D, PlainDefs(D), ~ColumnPacked(s, D)
  PROVE  ClearOf(s, ColumnW(D))
  <1> SUFFICES ASSUME NEW def \in D, NEW w \in ColumnOf(def), NEW q, Matches(w, q), PackedAt(s, q)
               PROVE  FALSE
    BY DEF ClearOf, ColumnW
  <1>1. PICK c \in DOMAIN def.columns : \E n \in 1..Len(def.columns[c].path) :
          w = ColumnPart(def, c, n)
    BY DEF ColumnOf
  <1>2. PICK n \in 1..Len(def.columns[c].path) : w = ColumnPart(def, c, n)
    BY <1>1
  <1>3. PlainDef(def)
    BY DEF PlainDefs
  <1> DEFINE path == def.columns[c].path
             e == Prefix(path, n)
  <1>4. path \in Seq(Segment) /\ def.pattern \in Seq(PatternParts)
    BY <1>3, NamePathIs DEF PlainDef
  <1>5. n \in 0..Len(path) /\ n \in Nat /\ n # 0
    BY <1>2, <1>4, LenProperties
  <1>6. e \in Seq(Segment) /\ Len(e) = n
    BY <1>3, <1>5, PartPattern
  <1>7. PICK r : Matches(def.pattern, r) /\ q = r \o e
    <2>1. PlainDef(def) /\ c \in DOMAIN def.columns /\ n \in 0..Len(def.columns[c].path)
      BY <1>3, <1>5
    <2>2. Matches(ColumnPart(def, c, n), q)
      BY <1>2
    <2>3. \E r : Matches(def.pattern, r) /\ q = r \o Prefix(def.columns[c].path, n)
      BY <2>1, <2>2, MatchesBack
    <2>4. QED
      BY <2>3
  <1>8. Walk(s, Res(s, r), path)[n] = ResolveFrom(s, Res(s, r), e)
    BY <1>4, <1>5, WalkIs
  <1> HIDE DEF e
  <1>9. r \in Seq(Segment)
    BY <1>7 DEF Matches
  <1>10. /\ q \in Seq(Segment) /\ Leads(r, q) /\ Res(s, q) # NoKey
         /\ HasKind(s, Res(s, q), "packed")
    <2>1. Leads(r, r \o e)
      BY <1>6, <1>9, ConcatLeads
    <2>2. Res(s, q) # NoKey
      BY PackedKey
    <2>3. QED
      BY <1>7, <2>1, <2>2 DEF PackedAt
  <1>11. r # q
    <2>1. Len(q) = Len(r) + n
      BY <1>6, <1>7, <1>9, ConcatPath
    <2>2. Len(r) \in Nat
      BY <1>9, LenProperties
    <2>3. QED
      BY <1>5, <2>1, <2>2
  <1> DEFINE k == Res(s, r)
  <1>12. k # NoKey
    BY <1>9, <1>10, ResBeyond
  <1>13. ~HasKind(s, k, "packed")
    <2>1. ASSUME HasKind(s, k, "packed") PROVE FALSE
      <3>1. \A tag \in Segment : ChildKey(s, k, tag) = NoKey
        BY <2>1, PackedIsBare
      <3>2. QED
        BY <1>9, <1>10, <1>11, <3>1, ResBeyond
    <2>2. QED
      BY <2>1
  <1>14. ResolveFrom(s, k, e) = Res(s, q)
    BY <1>6, <1>7, <1>9, ResOn
  <1>15. AnyEntity(s, def.pattern, k)
    BY <1>7, <1>12 DEF AnyEntity, EntityAt
  <1>16. k \in ToSet(AffectedEntities(s, def.pattern, <<>>))
    BY <1>4, <1>15, AffectedAll, PlainParts
  <1>17. HasKind(s, Walk(s, k, path)[n], "packed")
    BY <1>8, <1>10, <1>14
  <1>18. n \in DOMAIN Walk(s, k, path)
    BY <1>4, <1>5, WalkDomain
  <1> HIDE DEF k
  <1>19. QED
    BY <1>13, <1>16, <1>17, <1>18 DEF ColumnPacked

(* An index in sight has nothing packed above its entities.                *)
LEMMA AboveGuard ==
  ASSUME Tree(Table), NEW def, PlainDef(def), ~PackedAbove(def.pattern)
  PROVE  ClearOf(Table, AboveOf(def))
  <1> SUFFICES ASSUME NEW w \in AboveOf(def), NEW q, Matches(w, q), PackedAt(Table, q)
               PROVE  FALSE
    BY DEF ClearOf
  <1>1. PICK i \in 0..Len(def.pattern) - 1 : w = Prefix(def.pattern, i)
    BY DEF AboveOf
  <1> DEFINE s == Table
             k == Res(s, q)
  <1>2. w \in Seq(PatternParts)
    <2> DEFINE D == {def}
    <2>1. PlainDefs(D) /\ w \in AboveW(D)
      BY DEF PlainDefs, AboveW
    <2> HIDE DEF D
    <2>2. QED
      BY <2>1, WaysType
  <1> HIDE DEF s
  <1>3. Tree(s) /\ PackedAt(s, q)
    BY DEF s
  <1>4. k # NoKey
    BY <1>3, PackedKey
  <1>5. AnyEntity(s, w, k)
    BY <1>4 DEF AnyEntity, EntityAt
  <1>6. k \in ToSet(AffectedEntities(s, w, <<>>))
    BY <1>2, <1>3, <1>5, AffectedAll, PlainParts
  <1>7. HasKind(s, k, "packed")
    BY <1>3 DEF PackedAt
  <1>8. QED
    BY <1>1, <1>6, <1>7 DEF PackedAbove, s

(* Two sets of patterns are clear together.                                *)
LEMMA ClearBoth ==
  ASSUME NEW s, NEW V, NEW W
  PROVE  ClearOf(s, V \cup W) <=> ClearOf(s, V) /\ ClearOf(s, W)
BY DEF ClearOf

------------------------------------------------------------------------------
(* Unpacked entities keep their entries                                    *)

(* t is s with the packed entity k at q unpacked.                          *)
Unpacks(s, t, q, k) ==
  /\ Tree(s) /\ Tree(t) /\ q \in Seq(Segment) /\ Res(s, q) = k /\ k # NoKey
  /\ HasKind(s, k, "packed") /\ Confined(s, t, k)
  /\ Brings(s, t, {}) /\ DocUnder(t, k) = DocUnder(s, k)

(* An entity above an unpacked node keeps its key and its columns.         *)
LEMMA UnpackAbove ==
  ASSUME NEW s, NEW t, NEW q, NEW k, Unpacks(s, t, q, k),
         NEW D, PlainDefs(D), ClearOf(s, ColumnW(D)), NEW def \in D,
         NEW r, NEW e, EntityAt(s, def.pattern, r, e), ~Leads(q, r)
  PROVE  EntityAt(t, def.pattern, r, e) /\ IndexKey(t, def, e) = IndexKey(s, def, e)
  <1>1. /\ Tree(s) /\ Tree(t) /\ q \in Seq(Segment) /\ Res(s, q) = k /\ k # NoKey
        /\ Confined(s, t, k) /\ HasKind(s, k, "packed")
    BY DEF Unpacks
  <1>2. \A x \in Seq(Segment) : ~Leads(q, x) => SameAt(s, t, x)
    BY <1>1, ConfinedElse
  <1>3. r \in Seq(Segment) /\ Matches(def.pattern, r) /\ e = Res(s, r) /\ e # NoKey
    BY DEF EntityAt, Matches
  <1>4. Res(t, r) = e /\ SameNode(s, t, e)
    BY <1>2, <1>3 DEF SameAt
  <1>5. SameHeld(s, t, e)
    BY <1>4, SameNodeHeld
  <1>6. ASSUME NEW c \in DOMAIN def.columns
        PROVE  /\ ResolveFrom(t, e, def.columns[c].path) = ResolveFrom(s, e, def.columns[c].path)
               /\ SameHeld(s, t, ResolveFrom(s, e, def.columns[c].path))
    <2> DEFINE path == def.columns[c].path
               x == r \o path
    <2>1. PlainDef(def)
      BY DEF PlainDefs
    <2>2. path \in Seq(Segment)
      BY <2>1, NamePathIs DEF PlainDef
    <2>3. x \in Seq(Segment) /\ Len(x) = Len(r) + Len(path)
      BY <1>3, <2>2, ConcatPath
    <2> HIDE DEF path
    <2>4. ResolveFrom(s, e, path) = Res(s, x) /\ ResolveFrom(t, e, path) = Res(t, x)
      BY <1>3, <1>4, <2>2, ResOn
    <2>5. ~Leads(q, x)
      <3> SUFFICES ASSUME Leads(q, x) PROVE FALSE
        OBVIOUS
      <3>1. Leads(r, x)
        BY <1>3, <2>2, ConcatLeads
      <3> HIDE DEF x
      <3>2. Leads(r, q)
        BY <1>1, <1>3, <2>3, <3>1, LeadsBoth DEF OneLine
      <3>3. PICK f \in Seq(Segment) : q = r \o f /\ Len(f) = Len(q) - Len(r)
        BY <1>1, <1>3, <3>2, SplitPath
      <3> DEFINE n == Len(f)
                 m == Len(r)
      <3>4. n \in Nat /\ m \in Nat /\ Len(q) = m + n /\ Len(path) \in Nat
            /\ Len(x) = m + Len(path) /\ m + n <= Len(x)
            /\ \A i \in 1..m + n : q[i] = x[i]
        BY <1>1, <1>3, <2>2, <2>3, <3>3, LenProperties DEF Leads
      <3>5. n # 0
        <4>1. ASSUME n = 0 PROVE FALSE
          <5>1. m = Len(q) /\ \A i \in 1..m : r[i] = q[i]
            BY <1>1, <1>3, <3>2, <3>4, <4>1 DEF Leads
          <5>2. Leads(q, r)
            BY <5>1 DEF Leads
          <5>3. QED
            BY <5>2
        <4>2. QED
          BY <4>1
      <3>6. n \in 1..Len(path) /\ n \in 0..Len(path)
        BY <3>4, <3>5
      <3>7. /\ Prefix(path, n) \in Seq(Segment) /\ Len(Prefix(path, n)) = n
            /\ \A i \in 1..n : Prefix(path, n)[i] = path[i]
        BY <2>2, <3>6, PrefixIs
      <3>8. /\ \A i \in 1..m : (r \o f)[i] = r[i]
            /\ \A i \in 1..n : (r \o f)[m + i] = f[i]
        BY <1>3, <3>3, ConcatPath
      <3>9. \A i \in 1..Len(path) : x[m + i] = path[i]
        BY <1>3, <2>2, ConcatPath DEF x
      <3>10. ASSUME NEW i \in 1..n
             PROVE  f[i] = Prefix(path, n)[i]
        <4> DEFINE j == m + i
        <4>1. j \in 1..m + n /\ i \in 1..Len(path)
          BY <3>4, <3>6
        <4>2. q[j] = x[j]
          BY <3>4, <4>1
        <4>3. q[j] = f[i]
          BY <3>3, <3>8
        <4>4. x[j] = path[i]
          BY <3>9, <4>1
        <4>5. QED
          BY <3>7, <4>2, <4>3, <4>4
      <3>11. f = Prefix(path, n)
        BY <3>3, <3>7, <3>10, SeqEqual
      <3> HIDE DEF n
      <3>12. q = r \o Prefix(path, n)
        BY <3>3, <3>11
      <3>13. Matches(ColumnPart(def, c, n), r \o Prefix(path, n))
        BY <1>3, <2>1, <3>6, MatchesOn DEF path
      <3>14. ColumnPart(def, c, n) \in ColumnW(D)
        BY <3>6 DEF ColumnW, ColumnOf, path
      <3>15. PackedAt(s, q)
        BY <1>1 DEF PackedAt
      <3>16. QED
        BY <3>12, <3>13, <3>14, <3>15 DEF ClearOf
    <2>6. SameAt(s, t, x)
      BY <1>2, <2>3, <2>5
    <2>7. SameHeld(s, t, Res(s, x))
      <3>1. CASE Res(s, x) = NoKey
        BY <1>1, <3>1, NoneHeld
      <3>2. CASE Res(s, x) # NoKey
        BY <2>6, <3>2, SameNodeHeld DEF SameAt
      <3>3. QED
        BY <3>1, <3>2
    <2>8. QED
      BY <2>4, <2>6, <2>7 DEF SameAt, path
  <1>7. IndexKey(t, def, e) = IndexKey(s, def, e)
    BY <1>5, <1>6, SameKey
  <1>8. QED
    BY <1>3, <1>4, <1>7 DEF EntityAt

(* The unpacked entity keeps its columns.                                  *)
LEMMA UnpackHere ==
  ASSUME NowhereApart, NEW s, NEW t, NEW q, NEW k, Unpacks(s, t, q, k),
         NEW D, PlainDefs(D), ClearOf(s, ColumnW(D)), NEW def \in D,
         Matches(def.pattern, q)
  PROVE  EntityAt(t, def.pattern, q, k) /\ IndexKey(t, def, k) = IndexKey(s, def, k)
  <1>1. /\ Tree(s) /\ Tree(t) /\ q \in Seq(Segment) /\ Res(s, q) = k /\ k # NoKey
        /\ Confined(s, t, k) /\ HasKind(s, k, "packed") /\ Brings(s, t, {})
        /\ DocUnder(t, k) = DocUnder(s, k)
    BY DEF Unpacks
  <1>2. Res(t, q) = k /\ Reached(t, k) /\ Reached(s, k)
    BY <1>1, StillLeads, ResLive DEF Res
  <1>3. EntityAt(s, def.pattern, q, k) /\ EntityAt(t, def.pattern, q, k)
    BY <1>1, <1>2 DEF EntityAt
  <1> DEFINE W == ColumnW(D)
             A == {}
  <1>4. W \subseteq Seq(PatternParts)
    BY WaysType
  <1>5. ClearOf(s, W) /\ Brings(s, t, A) /\ \A w \in W, a \in A : ~Matches(w, a)
    BY <1>1
  <1> HIDE DEF W, A
  <1>6. ClearOf(t, W)
    BY <1>4, <1>5, StaysClear
  <1>7. ClearOf(t, ColumnW(D))
    BY <1>6 DEF W
  <1>8. Bared(s, def, k) /\ Bared(t, def, k)
    BY <1>1, <1>3, <1>7, BaredByClear
  <1>9. PlainDef(def)
    BY DEF PlainDefs
  <1>10. Columns(s, def, k) = DocColumns(def, DocUnder(s, k))
    BY <1>1, <1>2, <1>8, <1>9, ColumnsAreDoc
  <1>11. Columns(t, def, k) = DocColumns(def, DocUnder(t, k))
    BY <1>1, <1>2, <1>8, <1>9, ColumnsAreDoc
  <1>12. Columns(t, def, k) = Columns(s, def, k)
    BY <1>1, <1>10, <1>11
  <1>13. QED
    BY <1>3, <1>12 DEF IndexKey

(* Unpacking an entity keeps every entry.                                  *)
LEMMA UnpackKeeps ==
  ASSUME NowhereApart, PlainDefs(tracked), NEW s, NEW t, NEW q, NEW k, Unpacks(s, t, q, k),
         ClearOf(s, AboveW(tracked)), ClearOf(s, ColumnW(tracked))
  PROVE  Keeps(s, t)
  <1> DEFINE D == tracked
  <1>1. /\ Tree(s) /\ Tree(t) /\ q \in Seq(Segment) /\ Res(s, q) = k /\ k # NoKey
        /\ Confined(s, t, k) /\ HasKind(s, k, "packed") /\ Brings(s, t, {})
    BY DEF Unpacks
  <1> HIDE DEF D
  <1>2. PlainDefs(D) /\ ClearOf(s, AboveW(D)) /\ ClearOf(s, ColumnW(D))
    BY DEF D
  <1>3. \A x \in Seq(Segment) : ~Leads(q, x) => SameAt(s, t, x)
    BY <1>1, ConfinedElse
  <1>4. Res(t, q) = k
    BY <1>1, StillLeads DEF Res
  <1>5. ASSUME NEW def \in D, NEW e, AnyEntity(s, def.pattern, e)
        PROVE  AnyEntity(t, def.pattern, e) /\ IndexKey(t, def, e) = IndexKey(s, def, e)
    <2>1. PICK r : EntityAt(s, def.pattern, r, e)
      BY <1>5 DEF AnyEntity
    <2>2. r \in Seq(Segment) /\ Matches(def.pattern, r) /\ e = Res(s, r) /\ e # NoKey
      BY <2>1 DEF EntityAt, Matches
    <2>3. CASE ~Leads(q, r)
      <3>1. EntityAt(t, def.pattern, r, e) /\ IndexKey(t, def, e) = IndexKey(s, def, e)
        BY <1>2, <2>1, <2>3, UnpackAbove
      <3>2. QED
        BY <3>1 DEF AnyEntity
    <2>4. CASE r = q
      <3>1. EntityAt(t, def.pattern, q, k) /\ IndexKey(t, def, k) = IndexKey(s, def, k)
        BY <1>2, <2>2, <2>4, UnpackHere
      <3>2. e = k
        BY <1>1, <2>2, <2>4
      <3>3. QED
        BY <3>1, <3>2 DEF AnyEntity
    <2>5. CASE Leads(q, r) /\ r # q
      <3>1. \A tag \in Segment : ChildKey(s, k, tag) = NoKey
        BY <1>1, PackedIsBare
      <3>2. Res(s, r) = NoKey
        BY <1>1, <2>2, <2>5, <3>1, ResBeyond
      <3>3. QED
        BY <2>2, <3>2
    <2>6. QED
      BY <2>3, <2>4, <2>5
  <1>6. ASSUME NEW def \in D, NEW e, AnyEntity(t, def.pattern, e)
        PROVE  AnyEntity(s, def.pattern, e)
    <2>1. PICK r : EntityAt(t, def.pattern, r, e)
      BY <1>6 DEF AnyEntity
    <2>2. r \in Seq(Segment) /\ Matches(def.pattern, r) /\ e = Res(t, r) /\ e # NoKey
      BY <2>1 DEF EntityAt, Matches
    <2>3. Res(t, r) = Res(s, r)
      <3>1. CASE ~Leads(q, r)
        BY <1>3, <2>2, <3>1 DEF SameAt
      <3>2. CASE r = q
        BY <1>1, <1>4, <3>2
      <3>3. CASE Leads(q, r) /\ r # q
        <4>1. PackedAt(s, q)
          BY <1>1 DEF PackedAt
        <4>2. QED
          BY <1>2, <2>2, <3>3, <4>1, ClearAbove
      <3>4. QED
        BY <3>1, <3>2, <3>3
    <2>4. QED
      BY <2>2, <2>3 DEF AnyEntity, EntityAt
  <1>7. QED
    BY <1>1, <1>5, <1>6 DEF Keeps, D

(* Nothing changed.                                                        *)
LEMMA KeepsSelf ==
  ASSUME NEW s, Tree(s)
  PROVE  Keeps(s, s)
BY BringsSelf DEF Keeps

(* WriteTxn::fetch_mut keeps every entry.                                  *)
LEMMA OpenedKeeps ==
  ASSUME NowhereApart, PlainDefs(tracked), Tree(Table), NEW p \in Seq(Segment),
         ClearOf(Table, AboveW(tracked)), ClearOf(Table, ColumnW(tracked))
  PROVE  Keeps(Table, Opened(p))
  <1> DEFINE at == Locate(Table, p)
             s == Table
  <1>1. CASE at.at = "packed"
    <2> DEFINE k == at.key
               t == Unpack(s, k)
    <2>1. Opened(p) = t
      BY <1>1 DEF Opened, OpenedAt
    <2>2. PICK m \in 0..Len(p) : EntityOn(s, p, at, m)
      BY <1>1, EntityFound
    <2> DEFINE q == Prefix(p, m)
    <2> HIDE DEF at, s
    <2>3. Tree(s)
      BY DEF s
    <2>4. /\ k # NoKey /\ Reached(s, k) /\ HasKind(s, k, "packed")
          /\ q \in Seq(Segment) /\ ResolveFrom(s, ROOT, q) = k
          /\ DocUnder(s, k) = s.node[k].doc
      <3>1. HasKind(s, k, "packed")
        BY <2>2 DEF EntityOn
      <3>2. QED
        BY <2>2, <2>3, <3>1, EntityWay
    <2> HIDE DEF k, q
    <2>5. Tree(t) /\ Confined(s, t, k) /\ DocUnder(t, k) = s.node[k].doc
      BY <2>3, <2>4, UnpackDoc
    <2>6. Brings(s, t, {})
      BY <2>3, <2>4, UnpackBrings DEF Res
    <2> HIDE DEF t
    <2>7. Unpacks(s, t, q, k)
      BY <2>3, <2>4, <2>5, <2>6 DEF Unpacks, Res
    <2>8. Keeps(s, t)
      BY <2>7, UnpackKeeps DEF s
    <2>9. QED
      BY <2>1, <2>8 DEF s
  <1>2. CASE at.at # "packed"
    <2>1. Opened(p) = Table
      BY <1>2 DEF Opened, OpenedAt
    <2>2. QED
      BY <2>1, KeepsSelf
  <1>3. QED
    BY <1>1, <1>2

------------------------------------------------------------------------------
(* The inductive invariant                                                 *)

(* Emptying a container is what a bracket at its path needs.               *)
LEMMA ClearSteady ==
  ASSUME NEW s, NEW p, NEW k, Opening(s, p, k),
         HasKind(s, k, "object") \/ HasKind(s, k, "list")
  PROVE  LET r == ClearChildren(s, k)
         IN  r.ok = TRUE /\ Steady(s, r.s, p, {})
  <1> DEFINE r == ClearChildren(s, k)
             u == r.s
             N == {}
             A == {}
  <1>1. r.ok = TRUE /\ Cleared(s, u, k)
    BY ClearedIs
  <1>2. Tree(s) /\ p \in Seq(Segment) /\ Res(s, p) = k /\ k # NoKey
    BY DEF Opening, Res
  <1> HIDE DEF r
  <1>3. Tree(u) /\ Confined(s, u, k)
    BY <1>1 DEF Cleared
  <1>4. ComesFrom(s, u, N)
    <2>1. ASSUME NEW m \in Nat, NEW seg \in Segment, ChildKey(u, m, seg) # NoKey
          PROVE  CameFrom(s, m, seg, ChildKey(u, m, seg))
      <3>1. ChildKey(u, m, seg) = ChildKey(s, m, seg)
        BY <1>1, <2>1 DEF Cleared
      <3>2. QED
        BY <3>1, CameSame
    <2>2. QED
      BY <2>1 DEF ComesFrom
  <1>5. /\ \A m \in N : ~HasKind(u, m, "packed")
        /\ \A m : m \notin N /\ HasKind(u, m, "packed") => HasKind(s, m, "packed")
    BY <1>1 DEF Cleared
  <1> HIDE DEF N, A, u
  <1>6. Brings(s, u, A)
    BY <1>3, <1>4, <1>5, BringsFrom
  <1>7. Frame(s, u, p, A)
    BY <1>2, <1>3, <1>6, ConfinedFrame
  <1>8. Loc(s, u, p)
    BY <1>7 DEF Frame
  <1>9. ASSUME NEW def, PlainDef(def)
        PROVE  EntitiesStay(s, u, p, def) /\ NoneAppear(s, u, p, def)
    BY <1>2, <1>3, <1>8, <1>9, LocSteady
  <1>10. Steady(s, u, p, A)
    BY <1>3, <1>6, <1>9 DEF Steady
  <1>11. QED
    BY <1>1, <1>10 DEF r, u, A

(* The patterns at which nothing is packed: above the entities and between *)
(* them and their columns.                                                 *)
Clearance == AboveW(tracked) \cup ColumnW(tracked)

(* The inductive invariant: every entry was right when it was made, and of *)
(* the indexes that maintenance has had in sight none is wrong, none is    *)
(* missing unless a call has failed, and where an entity or a column may   *)
(* be nothing is packed.                                                   *)
IndexInv ==
  /\ Registry /\ indexes \subseteq Defs
  /\ shredded = ShreddedBy(indexes)
  /\ DOMAIN node \subseteq Keys \cup {ROOT}
  /\ failed \in BOOLEAN
  /\ Right(Now, Clearance)

(* The parts of the invariant that calls start from.                       *)
LEMMA InvParts ==
  ASSUME IndexInv
  PROVE  /\ Registry /\ PlainDefs(tracked) /\ Tree(Table)
         /\ Clearance \subseteq Seq(PatternParts)
         /\ AboveW(tracked) \subseteq Seq(PatternParts)
         /\ ClearOf(Table, AboveW(tracked)) /\ ClearOf(Table, ColumnW(tracked))
         /\ Right(Now, Clearance) /\ Now.ok = TRUE /\ Now.s = Table
  <1>1. Registry /\ PlainDefs(tracked) /\ Right(Now, Clearance)
    BY DEF IndexInv, Registry
  <1>2. Now.ok = TRUE /\ Now.s = Table
    BY DEF Now
  <1>3. AboveW(tracked) \subseteq Seq(PatternParts) /\ ColumnW(tracked) \subseteq Seq(PatternParts)
    BY <1>1, WaysType
  <1>4. Tree(Table) /\ ClearOf(Table, Clearance)
    BY <1>1, <1>2 DEF Right
  <1>5. ClearOf(Table, AboveW(tracked)) /\ ClearOf(Table, ColumnW(tracked))
    BY <1>4, ClearBoth DEF Clearance
  <1>6. QED
    BY <1>1, <1>2, <1>3, <1>4, <1>5 DEF Clearance

(* Two tables with the same entries.                                       *)
LEMMA TwinKeeps ==
  ASSUME PlainDefs(tracked), NEW s, Tree(s), NEW t, t.node = s.node, t.link = s.link
  PROVE  Keeps(s, t)
  <1>1. /\ \A m, tag : ChildKey(t, m, tag) = ChildKey(s, m, tag)
        /\ \A m, kind : HasKind(t, m, kind) <=> HasKind(s, m, kind)
    BY DEF ChildKey, HasKind, Live
  <1>2. Tree(t)
    <2>1. Shape(t)
      BY <1>1 DEF Tree, Sound, Shape
    <2>2. Sound(t)
      BY <1>1, <2>1 DEF Tree, Sound, Holder
    <2>3. QED
      BY <1>1, <2>2 DEF Tree
  <1>3. ComesFrom(s, t, {}) /\ ComesFrom(t, s, {})
    <2>1. ASSUME NEW m \in Nat, NEW seg \in Segment
          PROVE  CameFrom(s, m, seg, ChildKey(t, m, seg)) /\ CameFrom(t, m, seg, ChildKey(s, m, seg))
      BY <1>1, CameSame
    <2>2. QED
      BY <2>1 DEF ComesFrom
  <1>4. \A m : SameHeld(s, t, m)
    BY <1>1 DEF SameHeld
  <1>5. LikeBefore(s, t)
    BY <1>1, <1>3, <1>4 DEF LikeBefore
  <1>6. QED
    BY <1>2, <1>5, LikeKeeps

(* A state that is right where two sets of patterns are clear.             *)
LEMMA RightBoth ==
  ASSUME NEW t, NEW V, NEW W
  PROVE  Right(t, V \cup W) <=> Right(t, V) /\ ClearOf(t.s, W)
  <1>1. ClearOf(t.s, V \cup W) <=> ClearOf(t.s, V) /\ ClearOf(t.s, W)
    BY ClearBoth
  <1>2. QED
    BY <1>1 DEF Right

(* A state of the table and the entries that is right keeps the invariant  *)
(* when a call ends with it, and the indexes whose columns are clear in it *)
(* are still in sight.                                                     *)
LEMMA WriteKeeps ==
  ASSUME IndexInv, NEW c, NEW t, Right(t, AboveW(tracked)), Write(c, t),
         NEW T, tracked' = T, T \subseteq tracked, ClearOf(t.s, ColumnW(T))
  PROVE  IndexInv'
  <1>1. /\ DOMAIN t.s.node \subseteq Keys \cup {ROOT}
        /\ node' = t.s.node /\ link' = t.s.link
        /\ failed' = (failed \/ ~t.ok) /\ shredded' = shredded
        /\ posting' = t.post /\ indexes' = indexes
    BY DEF Write, Finish
  <1>2. t.ok \in BOOLEAN /\ Tree(t.s)
    BY DEF Right, IsState
  <1> DEFINE s == [node |-> t.s.node, link |-> t.s.link]
             u == [ok |-> t.ok, s |-> s, post |-> t.post]
             D == indexes
             W == AboveW(tracked) \cup ColumnW(T)
             w == [ok |-> TRUE, s |-> s, post |-> t.post]
  <1>3. s.node = t.s.node /\ s.link = t.s.link
    OBVIOUS
  <1>4. IsState(u) /\ u.s = s /\ u.post = t.post /\ u.ok = t.ok
    BY <1>2 DEF IsState
  <1>5. Table' = s /\ Now' = w
    BY <1>1 DEF Table, Now
  <1>6. PlainDefs(T) /\ W \subseteq Seq(PatternParts)
    <2>1. PlainDefs(T)
      BY InvParts DEF PlainDefs
    <2>2. QED
      BY <2>1, InvParts, WaysType
  <1>7. Right(t, W)
    BY RightBoth
  <1>8. ClearOf(s, W) => ClearOf(s, Clearance')
    <2>1. Clearance' = AboveW(T) \cup ColumnW(T)
      BY DEF Clearance, AboveW, ColumnW
    <2>2. AboveW(T) \subseteq AboveW(tracked)
      BY DEF AboveW
    <2> HIDE DEF s
    <2>3. QED
      BY <2>1, <2>2 DEF ClearOf
  <1> HIDE DEF s, u, W
  <1>9. Keeps(t.s, s)
    BY <1>2, <1>3, InvParts, TwinKeeps
  <1>10. Right(u, W)
    BY <1>4, <1>6, <1>7, <1>9, PlainRight
  <1>11. IsState(w) /\ w.s = s /\ w.post = t.post /\ w.ok = TRUE
    BY DEF IsState
  <1>12. /\ Tree(s) /\ WellKept(t.post) /\ Once(t.post, D)
         /\ NoneWrong(t.post, s, tracked)
         /\ t.ok /\ ~failed => NoneMissing(t.post, s, tracked)
         /\ ClearOf(s, W)
    BY <1>4, <1>10 DEF Right
  <1>13. /\ NoneWrong(t.post, s, T)
         /\ t.ok /\ ~failed => NoneMissing(t.post, s, T)
    BY <1>12 DEF NoneWrong, NoneMissing
  <1> HIDE DEF w, D
  <1>14. Right(Now, Clearance)'
    <2>1. Now' = w
      BY <1>5
    <2>2. /\ IsState(w) /\ Tree(w.s) /\ WellKept(w.post)
          /\ Once(w.post, D) /\ NoneWrong(w.post, w.s, T)
          /\ ClearOf(w.s, Clearance')
          /\ ~failed' => NoneMissing(w.post, w.s, T)
      BY <1>1, <1>2, <1>8, <1>11, <1>12, <1>13
    <2>3. indexes' = D
      BY <1>1 DEF D
    <2>4. QED
      BY <2>1, <2>2, <2>3 DEF Right
  <1>15. failed' \in BOOLEAN
    BY <1>1, <1>2 DEF IndexInv
  <1>16. Registry'
    <2>1. IsFiniteSet(D) /\ WellDefs(D) /\ OwnNames(D) /\ T \subseteq D /\ PlainDefs(T)
      BY <1>6 DEF IndexInv, Registry, D
    <2>2. indexes' = D
      BY <1>1 DEF D
    <2>3. QED
      BY <2>1, <2>2 DEF Registry
  <1>17. (indexes \subseteq Defs)' /\ (shredded = ShreddedBy(indexes))'
    BY <1>1 DEF IndexInv, ShreddedBy
  <1>18. (DOMAIN node \subseteq Keys \cup {ROOT})'
    BY <1>1 DEF Keys
  <1>19. QED
    BY <1>14, <1>15, <1>16, <1>17, <1>18 DEF IndexInv

(* A call that leaves the columns clear.                                   *)
LEMMA CommitKeeps ==
  ASSUME IndexInv, NEW c, NEW t, Right(t, Clearance), Commit(c, t)
  PROVE  IndexInv'
  <1> DEFINE T == tracked
  <1>1. Right(t, AboveW(tracked)) /\ ClearOf(t.s, ColumnW(T))
    BY RightBoth DEF Clearance
  <1>2. Write(c, t) /\ tracked' = T /\ T \subseteq tracked
    BY DEF Commit
  <1> HIDE DEF T
  <1>3. QED
    BY <1>1, <1>2, WriteKeeps

(* A call that may pack: an index whose columns it has packed is out of    *)
(* sight.                                                                  *)
LEMMA CommitStoreKeeps ==
  ASSUME IndexInv, NEW c, NEW t, Right(t, AboveW(tracked)), CommitStore(c, t)
  PROVE  IndexInv'
  <1> DEFINE T == {def \in tracked : ~ColumnPacked(t.s, {def})}
  <1>1. Write(c, t) /\ tracked' = T /\ T \subseteq tracked
    BY DEF CommitStore
  <1>2. ASSUME NEW def \in T PROVE ClearOf(t.s, ColumnW({def}))
    <2> DEFINE one == {def}
    <2>1. PlainDefs(one) /\ ~ColumnPacked(t.s, one)
      BY InvParts DEF PlainDefs
    <2>2. Tree(t.s)
      BY DEF Right
    <2> HIDE DEF one
    <2>3. ClearOf(t.s, ColumnW(one))
      BY <2>1, <2>2, ColumnGuard
    <2>4. QED
      BY <2>3 DEF one
  <1>3. \A w : w \in ColumnW(T) => \E def \in T : w \in ColumnW({def})
    BY DEF ColumnW
  <1> HIDE DEF T
  <1>4. ClearOf(t.s, ColumnW(T))
    BY <1>2, <1>3 DEF ClearOf
  <1>5. QED
    BY <1>1, <1>4, WriteKeeps

------------------------------------------------------------------------------
(* Calls                                                                   *)

(* What a bracket needs of the change it is around.                        *)
Bracketed(t, p, r) == p \in Seq(Segment) /\ r.ok \in BOOLEAN /\ Steady(t.s, r.s, p, {})

(* A bracket leaves a right state right.                                   *)
LEMMA BracketOn ==
  ASSUME IndexInv, NEW t, Right(t, Clearance), t.ok, NEW p, NEW r, Bracketed(t, p, r)
  PROVE  LET u == ReindexAround(t, p, r)
         IN  Right(u, Clearance) /\ u.s = r.s /\ (u.ok => r.ok)
  <1> DEFINE W == Clearance
             A == {}
  <1>1. Registry /\ W \subseteq Seq(PatternParts) /\ Right(t, W)
    BY InvParts
  <1>2. p \in Seq(Segment) /\ r.ok \in BOOLEAN /\ Steady(t.s, r.s, p, A)
    BY DEF Bracketed
  <1>3. Away(W, A)
    BY DEF Away
  <1> DEFINE u == ReindexAround(t, p, r)
  <1> HIDE DEF A, W
  <1>4. Right(u, W) /\ u.s = r.s /\ (u.ok => r.ok)
    <2>1. /\ Registry /\ W \subseteq Seq(PatternParts) /\ Right(t, W) /\ t.ok
          /\ p \in Seq(Segment) /\ r.ok \in BOOLEAN /\ Steady(t.s, r.s, p, A)
          /\ Away(W, A)
      BY <1>1, <1>2, <1>3
    <2>2. QED
      BY <2>1, BracketRight
  <1>5. QED
    BY <1>4 DEF W, u

(* A bracket in the state the call found.                                  *)
LEMMA BracketNow ==
  ASSUME IndexInv, NEW p \in Seq(Segment), NEW r, r.ok \in BOOLEAN, Steady(Table, r.s, p, {})
  PROVE  Right(ReindexAround(Now, p, r), Clearance)
  <1>1. Right(Now, Clearance) /\ Now.ok /\ Now.s = Table
    BY InvParts
  <1>2. Bracketed(Now, p, r)
    BY <1>1 DEF Bracketed
  <1>3. QED
    BY <1>1, <1>2, BracketOn

(* Putting a scalar.                                                       *)
LEMMA PutRight ==
  ASSUME NowhereApart, IndexInv, NEW p \in Paths, NEW v \in Values
  PROVE  Right(ReindexAround(Now, p, PutStep(p, v)), Clearance)
  <1> DEFINE r == PutStep(p, v)
             A == {}
  <1>1. p \in Seq(Segment) /\ Len(p) <= 2 /\ Tree(Table)
    BY TreeAssumption, InvParts
  <1>2. Framed(Table, p, A, r)
    BY <1>1, PutStepFrame
  <1> HIDE DEF r, A
  <1>3. Steady(Table, r.s, p, A) /\ r.ok \in BOOLEAN
    BY <1>1, <1>2, FramedSteady
  <1>4. QED
    BY <1>1, <1>3, BracketNow DEF r, A

(* Removing.                                                               *)
LEMMA RemoveRight ==
  ASSUME NowhereApart, IndexInv, NEW p \in Paths
  PROVE  Right(ReindexAround(Now, p, RemoveStep(p)), Clearance)
  <1> DEFINE r == RemoveStep(p)
             A == {}
  <1>1. p \in Seq(Segment) /\ Len(p) <= 2 /\ Tree(Table)
    BY TreeAssumption, InvParts
  <1>2. Framed(Table, p, A, r) \/ r = RemovePath(Table, p)
    BY <1>1, RemoveStepIs
  <1>3. ASSUME r = RemovePath(Table, p) PROVE Steady(Table, r.s, p, A) /\ r.ok \in BOOLEAN
    BY <1>1, <1>3, RemoveSteady
  <1> HIDE DEF r, A
  <1>4. ASSUME Framed(Table, p, A, r) PROVE Steady(Table, r.s, p, A) /\ r.ok \in BOOLEAN
    BY <1>1, <1>4, FramedSteady
  <1>5. QED
    BY <1>1, <1>2, <1>3, <1>4, BracketNow DEF r, A

(* What a pattern leads above is below which an index reaches.             *)
LEMMA AboveIsShredded ==
  ASSUME NEW D, PlainDefs(D), NEW p \in Paths, NEW w \in AboveW(D), Matches(w, p)
  PROVE  p \in ShreddedBy(D)
  <1>1. PICK def \in D : w \in AboveOf(def)
    BY DEF AboveW
  <1>2. def.pattern \in Seq(PatternParts)
    BY DEF PlainDefs, PlainDef
  <1>3. PICK i \in 0..Len(def.pattern) - 1 : w = Prefix(def.pattern, i)
    BY <1>1 DEF AboveOf
  <1>4. /\ i \in Nat /\ i < Len(def.pattern) /\ Len(w) = i
        /\ \A j \in 1..i : w[j] = def.pattern[j]
    BY <1>2, <1>3 DEF Prefix
  <1>5. /\ p \in Seq(Segment) /\ Len(p) = i
        /\ \A j \in 1..i : MatchesSegment(def.pattern[j], p[j])
    BY <1>4 DEF Matches
  <1>6. DOMAIN p = 1..i
    BY <1>5
  <1>7. CoversStrictlyBelow(def.pattern, p)
    BY <1>4, <1>5, <1>6 DEF CoversStrictlyBelow
  <1>8. QED
    BY <1>7 DEF ShreddedBy

(* What a store packs is not above an entity.                              *)
LEMMA PackingClear ==
  ASSUME IndexInv, NEW p \in Paths
  PROVE  Away(AboveW(tracked), Packing(p))
  <1>1. SUFFICES ASSUME NEW w \in AboveW(tracked), NEW a \in Packing(p), Matches(w, a)
                 PROVE  FALSE
    BY DEF Away
  <1>2. a = p /\ p \notin shredded
    BY DEF Packing
  <1>3. p \in ShreddedBy(tracked)
    BY <1>1, <1>2, InvParts, AboveIsShredded
  <1>4. ShreddedBy(tracked) \subseteq ShreddedBy(indexes)
    BY DEF ShreddedBy, IndexInv, Registry
  <1>5. QED
    BY <1>2, <1>3, <1>4 DEF IndexInv

(* Storing: what lies above the entities stays unpacked.                   *)
LEMMA StoreRight ==
  ASSUME NowhereApart, ~StoreShifts, ~StoreIntoPacked, IndexInv, NEW p \in Paths,
         MayStore(Table, p), NEW d, Flat(d), NEW r \in {StoreStep(p, d), Replace(p, d)}
  PROVE  Right(ReindexAround(Now, p, r), AboveW(tracked))
  <1> DEFINE A == Packing(p)
             W == AboveW(tracked)
             t == Now
             u == ReindexAround(t, p, r)
  <1>1. p \in Seq(Segment) /\ Tree(Table)
    BY TreeAssumption, InvParts
  <1>2. Framed(Table, p, A, r)
    BY <1>1, StoreStepFrame, ReplaceStepFrame
  <1>3. Registry /\ PlainDefs(tracked) /\ W \subseteq Seq(PatternParts)
    BY InvParts
  <1>4. Away(W, A)
    BY PackingClear
  <1>5. Right(t, Clearance) /\ t.ok /\ t.s = Table
    BY InvParts
  <1>6. Right(t, W)
    BY <1>5, RightBoth DEF Clearance
  <1> HIDE DEF A, W, t
  <1>7. Steady(t.s, r.s, p, A) /\ r.ok \in BOOLEAN
    BY <1>1, <1>2, <1>5, FramedSteady
  <1>8. Right(u, W)
    <2>1. /\ Registry /\ W \subseteq Seq(PatternParts) /\ Right(t, W) /\ t.ok
          /\ p \in Seq(Segment) /\ r.ok \in BOOLEAN /\ Steady(t.s, r.s, p, A)
          /\ Away(W, A)
      BY <1>1, <1>3, <1>4, <1>5, <1>6, <1>7
    <2>2. QED
      BY <2>1, BracketRight
  <1>9. QED
    BY <1>8 DEF u, t, W

(* Opening an accessor.                                                    *)
LEMMA HoldingRight ==
  ASSUME NowhereApart, IndexInv, NEW p \in Paths
  PROVE  LET s == Opened(p)
         IN  /\ Right(Holding(s), Clearance) /\ Holding(s).ok = TRUE /\ Holding(s).s = s
             /\ Tree(s) /\ p \in Seq(Segment) /\ Keeps(Table, s)
  <1> DEFINE s == Opened(p)
             W == Clearance
             t == Now
             u == Holding(s)
  <1>1. p \in Seq(Segment) /\ Tree(Table)
    BY TreeAssumption, InvParts
  <1>2. Keeps(Table, s) /\ Tree(s)
    BY <1>1, InvParts, OpenedKeeps, OpenedEffect
  <1>3. W \subseteq Seq(PatternParts) /\ Right(t, W) /\ t.s = Table
    BY InvParts
  <1>4. t = [ok |-> TRUE, s |-> Table, post |-> posting]
    BY DEF Now
  <1>5. u.ok = TRUE /\ u.s = s /\ u.post = posting /\ t.post = posting /\ t.ok = TRUE
    <2> HIDE DEF s
    <2>1. u = [t EXCEPT !.s = s]
      BY DEF Holding
    <2>2. QED
      BY <1>4, <2>1
  <1>6. IsState(u) /\ u.post = t.post /\ u.ok = t.ok
    <2>1. u = [ok |-> TRUE, s |-> s, post |-> posting]
      <3> HIDE DEF s
      <3>1. u = [t EXCEPT !.s = s]
        BY DEF Holding
      <3>2. QED
        BY <1>4, <3>1
    <2>2. QED
      BY <1>5, <2>1 DEF IsState
  <1> HIDE DEF u, t, W, s
  <1>7. Right(u, W)
    BY <1>2, <1>3, <1>5, <1>6, PlainRight
  <1>8. QED
    BY <1>1, <1>2, <1>5, <1>7 DEF u, W, s

(* A step of a write, with its bracket and without: the same table, as     *)
(* long as nothing has failed.                                             *)
InStep(x, g) == Right(x, Clearance) /\ (x.ok => x.s = g.s /\ g.ok)

(* Around a state that has failed a bracket does nothing.                  *)
LEMMA BracketStops ==
  ASSUME NEW x, ~x.ok, NEW p, NEW r
  PROVE  ReindexAround(x, p, r) = x
BY DEF ReindexAround

(* A scalar put into a container in its own bracket.                       *)
LEMMA PartThrough ==
  ASSUME NowhereApart, IndexInv, NEW s, NEW p \in Seq(Segment), NEW isList,
         NEW x, NEW g, InStep(x, g), Filling(s, ROOT, p, isList, g),
         NEW seg \in Segment, NEW part, part.val \in Values
  PROVE  InStep(PutThrough(x, Append(p, seg), part.val), WritePart(g, ROOT, Append(p, seg), part))
  <1> DEFINE q == Append(p, seg)
             v == part.val
             h == WritePart(g, ROOT, q, part)
             y == PutThrough(x, q, v)
             r == PutScalar(x.s, ROOT, q, v)
  <1>1. Right(x, Clearance) /\ x.ok \in BOOLEAN
    BY DEF InStep, Right, IsState
  <1>2. y = ReindexAround(x, q, r)
    BY DEF PutThrough
  <1>3. CASE ~x.ok
    <2>1. y = x
      BY <1>2, <1>3, BracketStops
    <2>2. QED
      BY <1>1, <1>3, <2>1 DEF InStep
  <1>4. CASE x.ok
    <2>1. x.s = g.s /\ g.ok
      BY <1>4 DEF InStep
    <2>2. q \in Seq(Segment) /\ q # <<>> /\ Front(q) = p
      BY PathAppend
    <2>3. /\ Tree(g.s) /\ Base(g.s, ROOT)
          /\ HasKind(g.s, ResolveFrom(g.s, ROOT, p), ContainerKind(isList))
      BY <2>1 DEF Filling, Good
    <2>4. Unpacked(g.s, ROOT, p)
      <3>1. ResolveFrom(g.s, ROOT, p) # NoKey
        BY <2>3, NoKeyIsNoNode DEF Tree, Sound
      <3>2. ~HasKind(g.s, ResolveFrom(g.s, ROOT, p), "packed")
        BY <2>3 DEF HasKind, ContainerKind
      <3>3. ROOT \in Nat
        BY <2>3, FromRoot
      <3>4. QED
        BY <2>3, <3>1, <3>2, <3>3, UnpackedTo DEF Tree
    <2>5. h = r
      BY <2>1 DEF WritePart
    <2> DEFINE b == <<>>
               A == {}
    <2>6. b \in Seq(Segment) /\ Res(g.s, b) = ROOT /\ b \o q = q
      BY <2>2, <2>3, FromRoot, NoPath
    <2>7. v \in Values
      OBVIOUS
    <2>8. r = PutScalar(g.s, ROOT, q, v)
      BY <2>1
    <2> HIDE DEF q, r, y, h, v, b
    <2>9. Tree(r.s) /\ r.ok \in BOOLEAN /\ Frame(g.s, r.s, b \o q, {})
      BY <2>2, <2>3, <2>4, <2>6, <2>7, <2>8, PutFrame
    <2>10. Framed(g.s, q, A, r)
      BY <2>6, <2>9 DEF Framed
    <2> HIDE DEF A
    <2>11. Steady(g.s, r.s, q, A)
      BY <2>2, <2>3, <2>10, FramedSteady
    <2>12. Bracketed(x, q, r)
      BY <2>1, <2>2, <2>9, <2>11 DEF Bracketed, A
    <2>13. Right(y, Clearance) /\ y.s = r.s /\ (y.ok => r.ok)
      BY <1>1, <1>2, <1>4, <2>12, BracketOn
    <2>14. QED
      BY <2>5, <2>13 DEF InStep, y, h, q, v
  <1>5. QED
    BY <1>1, <1>3, <1>4

(* The function that PartsThrough defines exists: the state after each     *)
(* part.                                                                   *)
IsThrough(g, container, p, d, segs, n) ==
  g = [i \in 0..n |-> IF i = 0 THEN container
                      ELSE PutThrough(g[i - 1], Append(p, segs[i]), Kid(d, segs[i]).val)]

(* It exists for every number of parts.                                    *)
LEMMA ThroughExist ==
  ASSUME NEW container, NEW p, NEW d, NEW segs
  PROVE  \A n \in Nat : \E g : IsThrough(g, container, p, d, segs, n)
  <1> DEFINE S == {n \in Nat : \E g : IsThrough(g, container, p, d, segs, n)}
  <1>1. 0 \in S
    <2> DEFINE g == [i \in 0..0 |-> container]
    <2>1. IsThrough(g, container, p, d, segs, 0)
      BY DEF IsThrough
    <2>2. QED
      BY <2>1
  <1>2. ASSUME NEW n \in Nat, n \in S PROVE n + 1 \in S
    <2>1. PICK g : IsThrough(g, container, p, d, segs, n)
      BY <1>2
    <2> DEFINE h == [i \in 0..n + 1 |->
                       IF i = 0 THEN container
                       ELSE PutThrough(g[i - 1], Append(p, segs[i]), Kid(d, segs[i]).val)]
    <2>2. \A i \in 0..n : h[i] = g[i]
      BY <2>1 DEF IsThrough
    <2>3. h = [i \in 0..n + 1 |->
                 IF i = 0 THEN container
                 ELSE PutThrough(h[i - 1], Append(p, segs[i]), Kid(d, segs[i]).val)]
      BY <2>1, <2>2 DEF IsThrough
    <2>4. IsThrough(h, container, p, d, segs, n + 1)
      BY <2>3 DEF IsThrough
    <2>5. QED
      BY <2>4
  <1> HIDE DEF S
  <1>3. Nat \subseteq S
    BY <1>1, <1>2, SetInduction
  <1>4. QED
    BY <1>3 DEF S

(* PartsThrough writes one part after the other.                           *)
LEMMA ThroughSteps ==
  ASSUME NEW container, NEW p, NEW d, NEW segs \in Seq(Segment)
  PROVE  \E g : /\ PartsThrough(container, p, d, segs)[Len(segs)] = g[Len(segs)]
                /\ g[0] = container
                /\ \A i \in 1..Len(segs) :
                     g[i] = PutThrough(g[i - 1], Append(p, segs[i]), Kid(d, segs[i]).val)
  <1> DEFINE n == Len(segs)
             g == CHOOSE e : IsThrough(e, container, p, d, segs, n)
  <1>1. n \in Nat
    BY LenProperties
  <1>2. PartsThrough(container, p, d, segs) = g
    BY DEF PartsThrough, IsThrough
  <1>3. IsThrough(g, container, p, d, segs, n)
    BY <1>1, ThroughExist
  <1> HIDE DEF g
  <1>4. g[0] = container
    BY <1>1, <1>3 DEF IsThrough
  <1>5. \A i \in 1..n : g[i] = PutThrough(g[i - 1], Append(p, segs[i]), Kid(d, segs[i]).val)
    BY <1>1, <1>3 DEF IsThrough
  <1>6. QED
    BY <1>2, <1>4, <1>5

(* A document written part by part, each in its own bracket, leaves the    *)
(* table the whole write would.                                            *)
LEMMA WriteThroughRight ==
  ASSUME NowhereApart, IndexInv, NEW t, Right(t, Clearance), t.ok, NEW p \in Seq(Segment),
         Unpacked(t.s, ROOT, p), p # <<>>, NEW d, Flat(d)
  PROVE  InStep(WriteThrough(t, p, d), WriteValue(t.s, ROOT, p, d))
  <1> DEFINE s == t.s
             r == WriteValue(s, ROOT, p, d)
             b == <<>>
             A == {}
  <1>1. Tree(s)
    BY DEF Right
  <1>2. /\ b \in Seq(Segment) /\ Res(s, b) = ROOT /\ Base(s, ROOT) /\ ROOT \in Nat
        /\ b \o p = p
    BY <1>1, FromRoot, NoPath
  <1>3. CASE Is(d, "leaf")
    <2> DEFINE x == PutScalar(s, ROOT, p, d.val)
    <2>1. r = x
      BY <1>3 DEF WriteValue
    <2>2. WriteThrough(t, p, d) = ReindexAround(t, p, x)
      BY <1>3 DEF WriteThrough, PutThrough
    <2> HIDE DEF b, s
    <2>3. Tree(r.s) /\ r.ok \in BOOLEAN /\ Frame(s, r.s, b \o p, {})
      BY <1>1, <1>2, WriteFrame DEF s
    <2> HIDE DEF r, x
    <2>4. Framed(s, p, A, r)
      BY <1>2, <2>3 DEF Framed
    <2> HIDE DEF A
    <2>5. Steady(s, r.s, p, A)
      BY <1>1, <2>4, FramedSteady
    <2>6. Bracketed(t, p, r)
      BY <2>3, <2>5 DEF Bracketed, A, s
    <2>7. LET u == ReindexAround(t, p, r)
          IN  Right(u, Clearance) /\ u.s = r.s /\ (u.ok => r.ok)
      BY <2>6, BracketOn
    <2>8. QED
      BY <2>1, <2>2, <2>7 DEF InStep, r, s
  <1>4. CASE ~Is(d, "leaf")
    <2> DEFINE segs == Segments(d)
               isList == Is(d, "list")
               c == EnsureContainer(s, ROOT, p, isList)
               n == Len(segs)
               w == ReindexAround(t, p, c)
               Q(x, g) == InStep(x, g) /\ Filling(s, ROOT, p, isList, g)
    <2>1. r = WriteParts(c, ROOT, p, d, segs)[n]
      BY <1>4 DEF WriteValue
    <2>2. WriteThrough(t, p, d) = PartsThrough(w, p, d, segs)[n]
      BY <1>4 DEF WriteThrough
    <2>3. /\ segs \in Seq(Segment) /\ n \in Nat
          /\ \A i \in 1..n : /\ segs[i] \in Segment /\ IsIndex(segs[i]) = isList
                             /\ Kid(d, segs[i]).val \in Values
      BY LeafParts, LenProperties, ElementOfSeq
    <2>4. isList \in BOOLEAN
      BY DEF Is
    <2> HIDE DEF segs, isList, n, r, s
    <2>5. /\ c.ok \in BOOLEAN
          /\ Tree(c.s)
          /\ c.ok => /\ Extends(s, c.s)
                     /\ Full(s) => Full(c.s)
                     /\ HasKind(c.s, c.key, ContainerKind(isList))
                     /\ Reached(c.s, c.key)
                     /\ ResolveFrom(c.s, ROOT, p) = c.key
      BY <1>1, <1>2, <2>4, EnsureEffect DEF Base, s
    <2>6. Grows(s, c.s, p)
      <3> HIDE DEF b
      <3>1. Unpacked(s, ROOT, p)
        BY DEF s
      <3>2. Grows(s, EnsureContainer(s, ROOT, p, isList).s, b \o p)
        BY <1>1, <1>2, <2>4, <3>1, EnsureGrows
      <3>3. QED
        BY <1>2, <3>2
    <2> HIDE DEF c, b, w
    <2>7. Filling(s, ROOT, p, isList, c)
      <3>1. c.ok => Base(c.s, ROOT)
        <4>1. Reached(c.s, ROOT)
          BY <2>5, RootReached DEF Tree, Sound
        <4>2. QED
          BY <1>2, <2>5, <4>1 DEF Base
      <3>2. ASSUME c.ok, NEW j \in 0..Len(p), Walk(s, ROOT, p)[j] # NoKey
            PROVE  Walk(c.s, ROOT, p)[j] = Walk(s, ROOT, p)[j]
        <4>1. j \in 0..j
          BY LenProperties
        <4>2. QED
          BY <1>1, <1>2, <2>5, <3>2, <4>1, ExtendsWalk DEF Tree
      <3>3. QED
        BY <2>5, <3>1, <3>2 DEF Filling, Good
    <2>8. InStep(w, c)
      <3>1. p \in Seq(Segment) /\ Leads(p, p)
        BY PrefixLeads, LenProperties DEF Leads
      <3>2. Frame(s, c.s, p, A)
        BY <2>6, <3>1, GrowsFrame
      <3> HIDE DEF A
      <3>3. Framed(s, p, A, c)
        BY <2>5, <3>2 DEF Framed
      <3>4. Steady(s, c.s, p, A)
        BY <1>1, <3>3, FramedSteady
      <3>5. Bracketed(t, p, c)
        BY <2>5, <3>4 DEF Bracketed, A, s
      <3>6. LET u == ReindexAround(t, p, c)
            IN  Right(u, Clearance) /\ u.s = c.s /\ (u.ok => c.ok)
        BY <3>5, BracketOn
      <3>7. QED
        BY <3>6 DEF InStep, w
    <2>9. PICK g : /\ r = g[n]
                   /\ g[0] = c
                   /\ \A i \in 1..n :
                        g[i] = WritePart(g[i - 1], ROOT, Append(p, segs[i]), Kid(d, segs[i]))
      BY <2>1, <2>3, PartsSteps DEF n
    <2>10. PICK h : /\ WriteThrough(t, p, d) = h[n]
                    /\ h[0] = w
                    /\ \A i \in 1..n :
                         h[i] = PutThrough(h[i - 1], Append(p, segs[i]), Kid(d, segs[i]).val)
      BY <2>2, <2>3, ThroughSteps DEF n
    <2> DEFINE S == {i \in Nat : i <= n => Q(h[i], g[i])}
    <2>11. 0 \in S
      BY <2>7, <2>8, <2>9, <2>10
    <2>12. ASSUME NEW i \in Nat, i \in S PROVE i + 1 \in S
      <3> SUFFICES ASSUME i + 1 <= n PROVE Q(h[i + 1], g[i + 1])
        OBVIOUS
      <3>1. i + 1 \in 1..n /\ (i + 1) - 1 = i /\ InStep(h[i], g[i])
            /\ Filling(s, ROOT, p, isList, g[i])
        BY <2>3, <2>12
      <3> DEFINE seg == segs[i + 1]
                 part == Kid(d, segs[i + 1])
      <3>2. seg \in Segment /\ IsIndex(seg) = isList /\ part.val \in Values
        BY <2>3, <3>1
      <3>3. /\ g[i + 1] = WritePart(g[i], ROOT, Append(p, seg), part)
            /\ h[i + 1] = PutThrough(h[i], Append(p, seg), part.val)
        BY <2>9, <2>10, <3>1
      <3> HIDE DEF seg, part
      <3>4. InStep(h[i + 1], g[i + 1])
        BY <3>1, <3>2, <3>3, PartThrough
      <3>5. Filling(s, ROOT, p, isList, g[i + 1])
        BY <3>1, <3>2, <3>3, WritePartEffect
      <3>6. QED
        BY <3>4, <3>5
    <2> HIDE DEF S
    <2>13. Nat \subseteq S
      BY <2>11, <2>12, SetInduction
    <2>14. InStep(h[n], g[n])
      BY <2>3, <2>13 DEF S
    <2>15. QED
      BY <2>9, <2>10, <2>14 DEF r, s
  <1>5. QED
    BY <1>3, <1>4

(* Emptying a container through an accessor.                               *)
LEMMA ClearRight ==
  ASSUME NowhereApart, IndexInv, NEW p \in Paths, NEW s, s = Opened(p),
         NEW k \in Accessor(s, p, {"object", "list"})
  PROVE  Right(ReindexAround(Holding(s), p, ClearChildren(s, k)), Clearance)
  <1> DEFINE t == Holding(s)
             r == ClearChildren(s, k)
  <1>1. Right(t, Clearance) /\ t.ok /\ t.s = s /\ Tree(s) /\ p \in Seq(Segment)
    BY HoldingRight
  <1>2. Opening(s, p, k) /\ (HasKind(s, k, "list") \/ HasKind(s, k, "object"))
    <2> DEFINE kinds == {"object", "list"}
    <2>1. kinds \in SUBSET {"object", "list", "leaf"} /\ k \in Accessor(s, p, kinds)
      OBVIOUS
    <2>2. \A kind \in kinds : kind = "list" \/ kind = "object"
      OBVIOUS
    <2> HIDE DEF kinds
    <2>3. Opening(s, p, k) /\ \E kind \in kinds : HasKind(s, k, kind)
      BY <1>1, <2>1, OpeningIs
    <2>4. QED
      BY <2>2, <2>3
  <1>3. r.ok = TRUE /\ Steady(s, r.s, p, {})
    BY <1>2, ClearSteady
  <1>4. Bracketed(t, p, r)
    BY <1>1, <1>3 DEF Bracketed
  <1> HIDE DEF t, r
  <1>5. Right(ReindexAround(t, p, r), Clearance)
    BY <1>1, <1>4, BracketOn
  <1>6. QED
    BY <1>5 DEF t, r

(* Two elements change places in a right state.                            *)
LEMMA SwappedRight ==
  ASSUME NowhereApart, IndexInv, NEW p \in Paths, NEW s, s = Opened(p),
         NEW k \in Accessor(s, p, {"list"}),
         NEW i \in Nat, i < Len(s.node[k].items), NEW j \in Nat, j < Len(s.node[k].items)
  PROVE  LET u == Unbracketed(Holding(s), ListSwap(s, k, i, j))
         IN  Right(u, Clearance) /\ u.ok /\ u.s = ListSwap(s, k, i, j).s /\ Tree(u.s)
  <1> DEFINE t == Holding(s)
             r == ListSwap(s, k, i, j)
             W == Clearance
             u == Unbracketed(t, r)
  <1>1. Right(t, W) /\ t.ok /\ t.s = s /\ Tree(s) /\ p \in Seq(Segment)
    BY HoldingRight
  <1>2. HasKind(s, k, "list")
    BY <1>1, ListAccessor
  <1>3. PlainDefs(tracked) /\ W \subseteq Seq(PatternParts)
    BY InvParts
  <1>4. r.ok = TRUE /\ Keeps(s, r.s)
    BY <1>1, <1>2, <1>3, SwapKeeps
  <1>5. t.ok => Keeps(t.s, r.s)
    BY <1>1, <1>4
  <1> HIDE DEF t, r, W
  <1>6. Right(u, W) /\ (t.ok => u.s = r.s /\ u.ok)
    BY <1>1, <1>3, <1>4, <1>5, UnbracketedRight
  <1>7. Tree(r.s)
    BY <1>4 DEF Keeps
  <1>8. QED
    BY <1>1, <1>6, <1>7 DEF u, t, r, W

(* The removal of an element by a swap with the last one.                  *)
LEMMA SwapRemoveRight ==
  ASSUME NowhereApart, IndexInv, NEW p \in Paths, NEW s, s = Opened(p),
         NEW k \in Accessor(s, p, {"list"}), NEW last, last = Len(s.node[k].items) - 1,
         NEW i \in 0..last, NEW u, u = Unbracketed(Holding(s), ListSwap(s, k, i, last)),
         NEW end, end = Append(p, Index(last))
  PROVE  Right(ReindexAround(u, end, RemovePath(u.s, end)), Clearance)
  <1> DEFINE r == RemovePath(u.s, end)
  <1>1. Tree(s) /\ p \in Seq(Segment)
    BY HoldingRight
  <1>2. Len(s.node[k].items) \in Nat
    BY <1>1, ListAccessor
  <1>3. i \in Nat /\ last \in Nat /\ i < Len(s.node[k].items) /\ last < Len(s.node[k].items)
    BY <1>2
  <1>4. Right(u, Clearance) /\ u.ok /\ Tree(u.s)
    BY <1>3, SwappedRight
  <1>5. end \in Seq(Segment)
    BY <1>1, <1>3, IndexSegment, PathAppend
  <1>6. r.ok = TRUE /\ Steady(u.s, r.s, end, {})
    BY <1>4, <1>5, RemoveSteady
  <1>7. Bracketed(u, end, r)
    BY <1>5, <1>6 DEF Bracketed
  <1> HIDE DEF r
  <1>8. Right(ReindexAround(u, end, r), Clearance)
    BY <1>4, <1>7, BracketOn
  <1>9. QED
    BY <1>8 DEF r

(* A list that gets a new element at its end is a list with that element.  *)
LEMMA ElementWritten ==
  ASSUME NowhereApart, NEW s, Tree(s), NEW p \in Seq(Segment), NEW k \in Accessor(s, p, {"list"}),
         NEW d, Flat(d), NEW end, end = Len(s.node[k].items),
         NEW q, q = Append(p, Index(end)), NEW r, r = WriteValue(s, ROOT, q, d)
  PROVE  /\ q \in Seq(Segment) /\ q # <<>> /\ Unpacked(s, ROOT, q) /\ end \in Nat
         /\ Tree(r.s) /\ HasKind(r.s, k, "list") /\ end < Len(r.s.node[k].items)
  <1>1. /\ HasKind(s, k, "list") /\ k # NoKey
        /\ k = ResolveFrom(s, ROOT, p) /\ Unpacked(s, ROOT, p)
        /\ end \in Nat
    BY ListAccessor
  <1> DEFINE seg == Index(end)
  <1>2. seg \in Segment /\ IsIndex(seg) /\ seg.index = end
    BY <1>1, IndexSegment
  <1>3. q \in Seq(Segment) /\ q # <<>> /\ Front(q) = p /\ Last(q) = seg
    BY <1>2, PathAppend
  <1>4. ChildKey(s, k, seg) = NoKey
    BY <1>1, <1>2 DEF ChildKey, IsName
  <1>5. Opening(s, p, k)
    <2> DEFINE kinds == {"list"}
    <2>1. kinds \in SUBSET {"object", "list", "leaf"} /\ k \in Accessor(s, p, kinds)
      OBVIOUS
    <2> HIDE DEF kinds
    <2>2. QED
      BY <2>1, OpeningIs
  <1>6. Extended(s, p, k, d, r)
    BY <1>1, <1>5, ExtendDoc
  <1> HIDE DEF seg
  <1>7. ResolveFrom(s, ROOT, q) = NoKey
    <2>1. ROOT \in Nat /\ ResolveFrom(s, ROOT, Front(q)) = k
      BY <1>1, <1>3, RootIsBase
    <2>2. QED
      <3>1. ResolveFrom(s, ROOT, q) =
              IF ResolveFrom(s, ROOT, Front(q)) = NoKey THEN NoKey
              ELSE ChildKey(s, ResolveFrom(s, ROOT, Front(q)), Last(q))
        BY <1>3, ResolveLast, Zenon
      <3>2. QED
        BY <1>1, <1>3, <1>4, <2>1, <3>1, Zenon
  <1>8. Unpacked(s, ROOT, q)
    <2>1. ~HasKind(s, NoKey, "packed")
      BY RootIsBase, NoKeyIsNoNode
    <2>2. QED
      BY <1>1, <1>3, <1>7, <2>1, RootIsBase, UnpackedFront
  <1> DEFINE D == DocUnder(s, ROOT)
             ds == At(D, p).items
             t == r.s
  <1>9. Tree(t) /\ Opening(t, p, k) /\ HasKind(t, k, "list") /\ DocUnder(t, k) = List(Append(ds, d))
    BY <1>6 DEF Extended
  <1>10. PICK S : ds \in Seq(S) /\ Len(ds) = end
    <2>1. At(D, p) = DocUnder(s, k)
      BY <1>5, OpeningDoc
    <2>2. QED
      BY <1>1, <1>5, <2>1, ItemDocsIs
  <1> HIDE DEF t, ds, D
  <1>11. Len(DocUnder(t, k).items) = Len(t.node[k].items)
    BY <1>9, ItemDocsIs
  <1>12. DocUnder(t, k).items = Append(ds, d)
    BY <1>9 DEF List
  <1>13. Len(Append(ds, d)) = end + 1
    <2>1. ds \in Seq(S \cup {d}) /\ d \in S \cup {d}
      BY <1>10
    <2>2. QED
      BY <1>10, <2>1
  <1>14. end < Len(t.node[k].items)
    BY <1>1, <1>11, <1>12, <1>13
  <1>15. QED
    BY <1>1, <1>3, <1>8, <1>9, <1>14 DEF t

(* The insertion of an element: written at the end of the list, then moved *)
(* to its place.                                                           *)
LEMMA InsertElementRight ==
  ASSUME NowhereApart, IndexInv, NEW p \in Paths, NEW s, s = Opened(p),
         NEW k \in Accessor(s, p, {"list"}), NEW d, Flat(d),
         NEW end, end = Len(s.node[k].items), NEW q, q = Append(p, Index(end)),
         NEW new, new = WriteThrough(Holding(s), q, d), NEW i \in 0..end
  PROVE  Right(Unbracketed(new, ListMove(new.s, k, end, i)), Clearance)
  <1> DEFINE t == Holding(s)
             r == WriteValue(s, ROOT, q, d)
             m == ListMove(new.s, k, end, i)
             W == Clearance
  <1>1. Right(t, W) /\ t.ok /\ t.s = s /\ Tree(s) /\ p \in Seq(Segment)
    BY HoldingRight
  <1>2. /\ q \in Seq(Segment) /\ q # <<>> /\ Unpacked(s, ROOT, q) /\ end \in Nat
        /\ Tree(r.s) /\ HasKind(r.s, k, "list") /\ end < Len(r.s.node[k].items)
    <2>1. r = WriteValue(s, ROOT, q, d) /\ Tree(s) /\ p \in Seq(Segment)
      BY <1>1
    <2> HIDE DEF r, t, m, W
    <2>2. QED
      BY <2>1, ElementWritten
  <1>3. PlainDefs(tracked) /\ W \subseteq Seq(PatternParts)
    BY InvParts
  <1>4. i \in Nat
    BY <1>2
  <1> HIDE DEF t
  <1>5. InStep(new, r)
    <2>1. Unpacked(t.s, ROOT, q)
      BY <1>1, <1>2
    <2>2. InStep(WriteThrough(t, q, d), WriteValue(t.s, ROOT, q, d))
      BY <1>1, <1>2, <2>1, WriteThroughRight
    <2>3. QED
      BY <1>1, <2>2 DEF t
  <1>6. m.ok = TRUE
    BY DEF ListMove, Done
  <1>7. new.ok => Keeps(new.s, m.s)
    <2> SUFFICES ASSUME new.ok PROVE Keeps(new.s, m.s)
      OBVIOUS
    <2>1. new.s = r.s
      BY <1>5 DEF InStep
    <2> DEFINE x == r.s
    <2>2. Tree(x) /\ HasKind(x, k, "list") /\ end < Len(x.node[k].items) /\ new.s = x
      BY <1>2, <2>1
    <2> HIDE DEF x
    <2>3. Keeps(x, ListMove(x, k, end, i).s)
      BY <1>2, <1>3, <1>4, <2>2, MoveKeeps
    <2>4. QED
      BY <2>2, <2>3
  <1>8. Right(new, W)
    BY <1>5 DEF InStep
  <1> HIDE DEF m, W
  <1>9. Right(Unbracketed(new, m), W)
    BY <1>3, <1>6, <1>7, <1>8, UnbracketedRight
  <1>10. QED
    BY <1>9 DEF m, W

(* Writes after an error do nothing.                                       *)
LEMMA WriteStops ==
  ASSUME NEW t, ~t.ok, NEW p, NEW d, Flat(d)
  PROVE  WriteThrough(t, p, d) = t
  <1>1. \A q, v : PutThrough(t, q, v) = t
    BY BracketStops DEF PutThrough
  <1>2. CASE Is(d, "leaf")
    BY <1>1, <1>2 DEF WriteThrough
  <1>3. CASE ~Is(d, "leaf")
    <2> DEFINE segs == Segments(d)
               c == ReindexAround(t, p, EnsureContainer(t.s, ROOT, p, Is(d, "list")))
               n == Len(segs)
    <2>1. WriteThrough(t, p, d) = PartsThrough(c, p, d, segs)[n]
      BY <1>3 DEF WriteThrough
    <2>2. c = t
      BY BracketStops
    <2>3. segs \in Seq(Segment) /\ n \in Nat
      BY LeafParts, LenProperties
    <2> HIDE DEF c, segs
    <2>4. PICK h : /\ PartsThrough(c, p, d, segs)[n] = h[n]
                   /\ h[0] = c
                   /\ \A i \in 1..n :
                        h[i] = PutThrough(h[i - 1], Append(p, segs[i]), Kid(d, segs[i]).val)
      BY <2>3, ThroughSteps
    <2> DEFINE S == {i \in Nat : i <= n => h[i] = t}
    <2> HIDE DEF n
    <2>5. 0 \in S
      BY <2>2, <2>4
    <2>6. ASSUME NEW i \in Nat, i \in S PROVE i + 1 \in S
      <3> SUFFICES ASSUME i + 1 <= n PROVE h[i + 1] = t
        OBVIOUS
      <3>1. i + 1 \in 1..n /\ (i + 1) - 1 = i /\ h[i] = t
        BY <2>3, <2>6
      <3>2. h[i + 1] = PutThrough(h[i], Append(p, segs[i + 1]), Kid(d, segs[i + 1]).val)
        BY <2>4, <3>1
      <3>3. QED
        BY <1>1, <3>1, <3>2
    <2> HIDE DEF S
    <2>7. Nat \subseteq S
      BY <2>5, <2>6, SetInduction
    <2>8. h[n] = t
      BY <2>3, <2>7 DEF S
    <2>9. QED
      BY <2>1, <2>4, <2>8
  <1>4. QED
    BY <1>2, <1>3

(* The insertion of an entry: the old one is removed, then the new one     *)
(* written.                                                                *)
LEMMA InsertEntryRight ==
  ASSUME NowhereApart, IndexInv, NEW p \in Paths, NEW s, s = Opened(p),
         NEW k \in Accessor(s, p, {"object"}), NEW n \in Names, NEW d, Flat(d),
         NEW q, q = Append(p, Name(n))
  PROVE  Right(WriteThrough(ReindexAround(Holding(s), q, RemovePath(s, q)), q, d), Clearance)
  <1> DEFINE t == Holding(s)
             r == RemovePath(s, q)
             u == ReindexAround(t, q, r)
  <1>1. Right(t, Clearance) /\ t.ok /\ t.s = s /\ Tree(s) /\ p \in Seq(Segment)
    BY HoldingRight
  <1>2. Unpacked(s, ROOT, p)
    <2> DEFINE kinds == {"object"}
    <2>1. kinds \in SUBSET {"object", "list", "leaf"} /\ k \in Accessor(s, p, kinds)
      OBVIOUS
    <2> HIDE DEF kinds
    <2>2. QED
      BY <1>1, <2>1, AccessorIs
  <1>3. /\ q \in Seq(Segment) /\ q # <<>> /\ Front(q) = p /\ Last(q) = Name(n)
    BY <1>1, NameSegment, PathAppend
  <1>4. WayClear(s, q) /\ Unshifted(s, q)
    BY <1>2, <1>3, NameSegment DEF WayClear, Unshifted
  <1>5. r.ok = TRUE /\ Unpacked(r.s, ROOT, q)
    BY <1>1, <1>3, <1>4, RemoveEffect
  <1>6. Steady(s, r.s, q, {})
    BY <1>1, <1>3, RemoveSteady
  <1>7. Bracketed(t, q, r)
    BY <1>1, <1>3, <1>5, <1>6 DEF Bracketed
  <1> HIDE DEF t, r
  <1>8. Right(u, Clearance) /\ u.s = r.s
    BY <1>1, <1>7, BracketOn
  <1>9. u.ok \in BOOLEAN
    BY <1>8 DEF Right, IsState
  <1> HIDE DEF u
  <1>10. CASE u.ok
    <2>1. Unpacked(u.s, ROOT, q)
      BY <1>5, <1>8
    <2>2. InStep(WriteThrough(u, q, d), WriteValue(u.s, ROOT, q, d))
      BY <1>3, <1>8, <1>10, <2>1, WriteThroughRight
    <2>3. QED
      BY <2>2 DEF InStep, u, r, t
  <1>11. CASE ~u.ok
    <2>1. WriteThrough(u, q, d) = u
      BY <1>11, WriteStops
    <2>2. QED
      BY <1>8, <2>1 DEF u, r, t
  <1>12. QED
    BY <1>9, <1>10, <1>11

------------------------------------------------------------------------------
(* Batches                                                                 *)

(* One packed entity of a batch changes the tree at its path only.         *)
LEMMA BatchFrame ==
  ASSUME NowhereApart, NEW items, Items(items), Compatible(items), NEW i \in 1..Len(items),
         Packs(items[i]), NEW b, Tree(b.r.s), b.r.ok, Known(b.r.s, items, i - 1, b.parents),
         ~IntoPacked(b.r.s, items[i][1])
  PROVE  Framed(b.r.s, items[i][1], Packing(items[i][1]), NextBatch(b, items[i]).r)
  <1> DEFINE p == items[i][1]
             d == items[i][2]
             s == b.r.s
             parent == BatchParent(s, b.parents, p)
             r == StorePackedUnder(parent, Last(p), d)
  <1>1. /\ p \in Seq(Segment) /\ p # <<>> /\ Front(p) \in Seq(Segment) /\ Flat(d)
        /\ i \in 0..Len(items) /\ i \in 1..i
    <2>1. i \in 0..Len(items) /\ i \in 1..i /\ Len(items) \in Nat
      BY DEF Items
    <2>2. p \in Seq(Segment) /\ p # <<>> /\ Front(p) \in Seq(Segment)
      BY <2>1, KnownPath
    <2>3. QED
      BY <2>1, <2>2 DEF Items
  <1>2. NextBatch(b, items[i]).r = r
    BY DEF NextBatch, StoreBatched
  <1>3. WayClear(s, p)
    <2> HIDE DEF p
    <2>1. QED
      BY <1>1, WayClearOutside DEF p
  <1>4. Packing(p) = {p}
    BY DEF Packing, Packs
  <1>5. Tree(r.s) /\ r.ok \in BOOLEAN /\ Frame(s, r.s, p, {p})
    <2>1. CASE Front(p) \notin DOMAIN b.parents
      <3>1. parent = EnsureParent(s, ROOT, p)
        BY <2>1 DEF BatchParent
      <3>2. r = StorePacked(s, p, d)
        <4> HIDE DEF parent
        <4>1. QED
          BY <3>1 DEF StorePacked
      <3>3. Unpacked(s, ROOT, Front(p)) /\ Tree(s)
        BY <1>1, <1>3 DEF WayClear
      <3> HIDE DEF p, d, s, parent, r
      <3>4. QED
        BY <1>1, <3>2, <3>3, PackedFrame
    <2>2. CASE Front(p) \in DOMAIN b.parents
      <3>1. parent = Done(s, b.parents[Front(p)])
        BY <2>2 DEF BatchParent
      <3>2. Parented(s, items, i, b.parents, parent)
        <4> HIDE DEF parent
        <4>1. QED
          BY BatchParentEffect DEF parent
      <3> DEFINE k == b.parents[Front(p)]
      <3>3. parent.ok = TRUE /\ parent.s = s /\ parent.key = k
        BY <3>1 DEF Done
      <3>4. ResolveFrom(s, ROOT, Front(p)) = k /\ Holder(s, k, Last(p))
        <4> HIDE DEF parent, k
        <4>1. QED
          BY <3>2, <3>3 DEF Parented
      <3>5. k # NoKey
        BY <3>4, HolderIsKey
      <3> HIDE DEF p, d, parent, k, s
      <3>6. Parent(s, p, k)
        BY <1>1, <3>4, <3>5 DEF Parent
      <3>7. Tree(s)
        BY DEF s
      <3>8. LET x == StorePackedUnder(parent, Last(p), d)
            IN  Tree(x.s) /\ x.ok \in BOOLEAN /\ Frame(s, x.s, p, {p})
        BY <1>1, <3>3, <3>6, <3>7, EntityFrame
      <3>9. QED
        BY <3>8
    <2>3. QED
      BY <2>1, <2>2
  <1> HIDE DEF r, p
  <1>6. Framed(s, p, {p}, r)
    BY <1>5 DEF Framed
  <1>7. QED
    BY <1>2, <1>4, <1>6 DEF p, s

(* What a batch has done after some of its pairs, with the brackets.       *)
Bracketing(items, i, b) ==
  /\ Right(b.t, AboveW(tracked))
  /\ b.t.ok => Batched(items, i, [r |-> Done(b.t.s, NoKey), parents |-> b.parents])

(* The step of such a batch for one pair.                                  *)
NextThrough(b, item) ==
  IF Packs(item)
  THEN BatchThrough(b.t, item, StoreBatched(BatchParent(b.t.s, b.parents, item[1]),
                                            b.parents, item[1], item[2]))
  ELSE b

(* A bracket around what packs at p.                                       *)
LEMMA PackBracket ==
  ASSUME IndexInv, NEW t, Right(t, AboveW(tracked)), t.ok, NEW p \in Paths, NEW r,
         Framed(t.s, p, Packing(p), r)
  PROVE  LET u == ReindexAround(t, p, r)
         IN  Right(u, AboveW(tracked)) /\ u.s = r.s /\ (u.ok => r.ok)
  <1> DEFINE A == Packing(p)
             W == AboveW(tracked)
             u == ReindexAround(t, p, r)
  <1>1. p \in Seq(Segment) /\ Tree(t.s)
    BY TreeAssumption DEF Right
  <1>2. Registry /\ W \subseteq Seq(PatternParts) /\ Away(W, A)
    BY InvParts, PackingClear
  <1> HIDE DEF A
  <1>3. Framed(t.s, p, A, r)
    BY DEF A
  <1>4. Steady(t.s, r.s, p, A) /\ r.ok \in BOOLEAN
    BY <1>1, <1>3, FramedSteady
  <1> HIDE DEF W
  <1>5. Right(u, W) /\ u.s = r.s /\ (u.ok => r.ok)
    <2>1. Right(t, W)
      BY DEF W
    <2>2. QED
      BY <1>1, <1>2, <1>4, <2>1, BracketRight
  <1>6. QED
    BY <1>5 DEF u, W

(* One pair of the batch.                                                  *)
LEMMA ThroughStep ==
  ASSUME NowhereApart, IndexInv, NEW items \in Batches, Compatible(items),
         NEW i \in 1..Len(items), NEW b, Bracketing(items, i - 1, b),
         Packs(items[i]) => ~IntoPacked(b.t.s, items[i][1])
  PROVE  Bracketing(items, i, NextThrough(b, items[i]))
  <1> DEFINE p == items[i][1]
             d == items[i][2]
             s == b.t.s
             c == [r |-> Done(s, NoKey), parents |-> b.parents]
             st == StoreBatched(BatchParent(s, b.parents, p), b.parents, p, d)
             u == ReindexAround(b.t, p, st.r)
             W == AboveW(tracked)
  <1>1. Items(items) /\ Tree(Table)
    BY BatchItems, InvParts
  <1>2. p \in Paths
    <2>1. items \in Seq(ToSet(items)) /\ \A item \in ToSet(items) : item[1] \in Paths
      BY TreeAssumption
    <2>2. items[i] \in ToSet(items)
      BY <2>1, ElementOfSeq
    <2>3. QED
      BY <2>1, <2>2
  <1>3. c.r.ok = TRUE /\ c.r.s = s /\ c.parents = b.parents
    BY DEF Done
  <1>4. Right(b.t, W) /\ b.t.ok \in BOOLEAN /\ (b.t.ok => Batched(items, i - 1, c))
    BY DEF Bracketing, Right, IsState
  <1>5. i \in Nat \ {0} /\ i \in 1..Len(items)
    BY <1>1 DEF Items
  <1>6. CASE ~Packs(items[i])
    <2>1. NextThrough(b, items[i]) = b
      BY <1>6 DEF NextThrough
    <2>2. b.t.ok => Batched(items, i, c)
      <3> HIDE DEF c
      <3>1. SUFFICES ASSUME b.t.ok PROVE Batched(items, i, c)
        OBVIOUS
      <3>2. Good(Table, c.r) /\ Known(c.r.s, items, i - 1, c.parents)
        BY <1>3, <1>4, <3>1 DEF Batched
      <3>3. Known(c.r.s, items, i, c.parents)
        BY <1>5, <3>2, KnownWider
      <3>4. QED
        BY <3>2, <3>3 DEF Batched
    <2>3. QED
      BY <1>4, <2>1, <2>2 DEF Bracketing
  <1>7. CASE Packs(items[i])
    <2>1. NextThrough(b, items[i]) = [t |-> u, parents |-> st.parents]
      BY <1>7 DEF NextThrough, BatchThrough
    <2>2. CASE ~b.t.ok
      <3>1. u = b.t
        BY <2>2, BracketStops
      <3>2. NextThrough(b, items[i]).t = b.t
        BY <2>1, <3>1
      <3>3. QED
        BY <1>4, <2>2, <3>2 DEF Bracketing
    <2>3. CASE b.t.ok
      <3>1. NextBatch(c, items[i]) = st
        BY <1>3, <1>7 DEF NextBatch
      <3> HIDE DEF c
      <3>2. Batched(items, i - 1, c) /\ Good(Table, c.r) /\ Tree(c.r.s)
            /\ Known(c.r.s, items, i - 1, c.parents)
        BY <1>3, <1>4, <2>3 DEF Batched, Good
      <3>3. ~IntoPacked(c.r.s, items[i][1])
        BY <1>3, <1>7
      <3>4. Framed(c.r.s, items[i][1], Packing(items[i][1]), NextBatch(c, items[i]).r)
        BY <1>1, <1>3, <1>5, <1>7, <3>2, <3>3, BatchFrame
      <3>5. Batched(items, i, NextBatch(c, items[i]))
        BY <1>1, <1>5, <3>2, <3>3, BatchStepEffect
      <3> HIDE DEF st, u, W
      <3>6. Framed(b.t.s, p, Packing(p), st.r)
        BY <1>3, <3>1, <3>4
      <3> HIDE DEF p, d
      <3>7. LET x == ReindexAround(b.t, p, st.r)
            IN  Right(x, AboveW(tracked)) /\ x.s = st.r.s /\ (x.ok => st.r.ok)
        BY <1>2, <1>4, <2>3, <3>6, PackBracket DEF W
      <3>8. Right(u, AboveW(tracked)) /\ u.s = st.r.s /\ (u.ok => st.r.ok)
        BY <3>7 DEF u
      <3>9. u.ok => Batched(items, i, [r |-> Done(u.s, NoKey), parents |-> st.parents])
        <4> SUFFICES ASSUME u.ok
                     PROVE  Batched(items, i, [r |-> Done(u.s, NoKey), parents |-> st.parents])
          OBVIOUS
        <4>1. Good(Table, st.r) /\ Known(st.r.s, items, i, st.parents) /\ st.r.ok
          BY <3>1, <3>5, <3>8 DEF Batched
        <4> DEFINE e == [r |-> Done(u.s, NoKey), parents |-> st.parents]
        <4>2. e.r.ok = TRUE /\ e.r.s = st.r.s /\ e.parents = st.parents
          BY <3>8 DEF Done
        <4> HIDE DEF e
        <4>3. Good(Table, e.r)
          BY <4>1, <4>2 DEF Good
        <4>4. Batched(items, i, e)
          BY <4>1, <4>2, <4>3 DEF Batched
        <4>5. QED
          BY <4>4 DEF e
      <3> DEFINE z == NextThrough(b, items[i])
      <3>10. z.t = u /\ z.parents = st.parents
        BY <2>1
      <3> HIDE DEF z
      <3>11. Bracketing(items, i, z)
        BY <3>8, <3>9, <3>10 DEF Bracketing
      <3>12. QED
        BY <3>11 DEF z
    <2>4. QED
      BY <1>4, <2>2, <2>3
  <1>8. QED
    BY <1>6, <1>7

(* The function that PackThrough defines.                                  *)
IsPacking(g, items, n) ==
  g = [i \in 0..n |-> IF i = 0 THEN [t |-> Now, parents |-> <<>>]
                      ELSE NextThrough(g[i - 1], items[i])]

(* It exists for every number of pairs.                                    *)
LEMMA PackingExist ==
  ASSUME NEW items
  PROVE  \A n \in Nat : \E g : IsPacking(g, items, n)
  <1> DEFINE S == {n \in Nat : \E g : IsPacking(g, items, n)}
             start == [t |-> Now, parents |-> <<>>]
  <1>1. 0 \in S
    <2> DEFINE g == [i \in 0..0 |-> start]
    <2>1. IsPacking(g, items, 0)
      BY DEF IsPacking
    <2>2. QED
      BY <2>1
  <1>2. ASSUME NEW n \in Nat, n \in S PROVE n + 1 \in S
    <2>1. PICK g : IsPacking(g, items, n)
      BY <1>2
    <2> DEFINE h == [i \in 0..n + 1 |-> IF i = 0 THEN start ELSE NextThrough(g[i - 1], items[i])]
    <2>2. \A i \in 0..n : h[i] = g[i]
      BY <2>1 DEF IsPacking
    <2>3. h = [i \in 0..n + 1 |-> IF i = 0 THEN start ELSE NextThrough(h[i - 1], items[i])]
      BY <2>1, <2>2 DEF IsPacking
    <2>4. IsPacking(h, items, n + 1)
      BY <2>3 DEF IsPacking
    <2>5. QED
      BY <2>4
  <1> HIDE DEF S
  <1>3. Nat \subseteq S
    BY <1>1, <1>2, SetInduction
  <1>4. QED
    BY <1>3 DEF S

(* PackThrough goes through the pairs one by one.                          *)
LEMMA PackSteps ==
  ASSUME NEW items, Len(items) \in Nat
  PROVE  /\ PackThrough(items)[0] = [t |-> Now, parents |-> <<>>]
         /\ \A i \in 1..Len(items) :
              PackThrough(items)[i] = NextThrough(PackThrough(items)[i - 1], items[i])
  <1> DEFINE n == Len(items)
             g == CHOOSE e : IsPacking(e, items, n)
  <1>1. PackThrough(items) = g
    BY DEF PackThrough, IsPacking, NextThrough
  <1>2. IsPacking(g, items, n)
    BY PackingExist
  <1> HIDE DEF g
  <1>3. g[0] = [t |-> Now, parents |-> <<>>]
    BY <1>2 DEF IsPacking
  <1>4. \A i \in 1..n : g[i] = NextThrough(g[i - 1], items[i])
    BY <1>2 DEF IsPacking
  <1>5. QED
    BY <1>1, <1>3, <1>4

(* The step of a batch for a pair that it does not pack.                   *)
NextStored(t, item) ==
  IF Packs(item) THEN t
  ELSE ReindexAround(t, item[1], ReplaceIn(t.s, item[1], item[2]))

(* The function that StoreThrough defines.                                 *)
IsStoring(g, packed, items, n) ==
  g = [i \in 0..n |-> IF i = 0 THEN packed ELSE NextStored(g[i - 1], items[i])]

(* It exists for every number of pairs.                                    *)
LEMMA StoringExist ==
  ASSUME NEW packed, NEW items
  PROVE  \A n \in Nat : \E g : IsStoring(g, packed, items, n)
  <1> DEFINE S == {n \in Nat : \E g : IsStoring(g, packed, items, n)}
  <1>1. 0 \in S
    <2> DEFINE g == [i \in 0..0 |-> packed]
    <2>1. IsStoring(g, packed, items, 0)
      BY DEF IsStoring
    <2>2. QED
      BY <2>1
  <1>2. ASSUME NEW n \in Nat, n \in S PROVE n + 1 \in S
    <2>1. PICK g : IsStoring(g, packed, items, n)
      BY <1>2
    <2> DEFINE h == [i \in 0..n + 1 |-> IF i = 0 THEN packed ELSE NextStored(g[i - 1], items[i])]
    <2>2. \A i \in 0..n : h[i] = g[i]
      BY <2>1 DEF IsStoring
    <2>3. h = [i \in 0..n + 1 |-> IF i = 0 THEN packed ELSE NextStored(h[i - 1], items[i])]
      BY <2>1, <2>2 DEF IsStoring
    <2>4. IsStoring(h, packed, items, n + 1)
      BY <2>3 DEF IsStoring
    <2>5. QED
      BY <2>4
  <1> HIDE DEF S
  <1>3. Nat \subseteq S
    BY <1>1, <1>2, SetInduction
  <1>4. QED
    BY <1>3 DEF S

(* StoreThrough goes through the pairs one by one.                         *)
LEMMA StoringSteps ==
  ASSUME NEW packed, NEW items, Len(items) \in Nat
  PROVE  /\ StoreThrough(packed, items)[0] = packed
         /\ \A i \in 1..Len(items) :
              StoreThrough(packed, items)[i]
                = NextStored(StoreThrough(packed, items)[i - 1], items[i])
  <1> DEFINE n == Len(items)
             g == CHOOSE e : IsStoring(e, packed, items, n)
  <1>1. StoreThrough(packed, items) = g
    BY DEF StoreThrough, IsStoring, NextStored
  <1>2. IsStoring(g, packed, items, n)
    BY StoringExist
  <1> HIDE DEF g
  <1>3. g[0] = packed
    BY <1>2 DEF IsStoring
  <1>4. \A i \in 1..n : g[i] = NextStored(g[i - 1], items[i])
    BY <1>2 DEF IsStoring
  <1>5. QED
    BY <1>1, <1>3, <1>4

(* One pair of a batch that it does not pack.                              *)
LEMMA StoredStep ==
  ASSUME NowhereApart, ~StoreShifts, ~StoreIntoPacked, IndexInv, NEW items \in Batches,
         NEW i \in 1..Len(items), NEW t, Right(t, AboveW(tracked)),
         ~Packs(items[i]) => MayStore(t.s, items[i][1])
  PROVE  Right(NextStored(t, items[i]), AboveW(tracked))
  <1> DEFINE p == items[i][1]
             d == items[i][2]
             r == ReplaceIn(t.s, p, d)
             u == ReindexAround(t, p, r)
  <1>1. p \in Paths /\ p \in Seq(Segment) /\ Flat(d)
    <2>1. items \in Seq(ToSet(items)) /\ \A item \in ToSet(items) : item[1] \in Paths
      BY TreeAssumption
    <2>2. items[i] \in ToSet(items)
      BY <2>1, ElementOfSeq
    <2>3. QED
      BY <2>1, <2>2, BatchItems DEF Items
  <1>2. Tree(t.s)
    BY DEF Right
  <1>3. CASE Packs(items[i])
    BY <1>3 DEF NextStored
  <1>4. CASE ~Packs(items[i])
    <2>1. NextStored(t, items[i]) = u
      BY <1>4 DEF NextStored
    <2>2. CASE ~t.ok
      <3>1. u = t
        BY <2>2, BracketStops
      <3>2. QED
        BY <2>1, <3>1
    <2>3. CASE t.ok
      <3>1. MayStore(t.s, p)
        BY <1>4
      <3> HIDE DEF p, d
      <3>2. WayClear(t.s, p) /\ Unshifted(t.s, p)
        BY <1>1, <1>2, <3>1, MayStoreIs
      <3>3. Framed(t.s, p, Packing(p), r)
        BY <1>1, <1>2, <3>2, ReplaceInFrame DEF Framed
      <3> HIDE DEF r
      <3>4. Right(u, AboveW(tracked))
        BY <1>1, <2>3, <3>3, PackBracket
      <3>5. QED
        BY <2>1, <3>4
    <2>4. QED
      BY <2>2, <2>3
  <1>5. QED
    BY <1>3, <1>4

(* What the guard of a batch says of its pairs.                            *)
LEMMA BatchGuard ==
  ASSUME ~StoreShifts, ~StoreIntoPacked, NEW items \in Batches, NEW met, MayBatch(items, met)
  PROVE  Compatible(items) /\ Meets(items, met)
  <1>1. DOMAIN items = 1..Len(items)
    BY TreeAssumption, LenProperties
  <1>2. Compatible(items)
    BY <1>1 DEF MayBatch, Compatible
  <1>3. ASSUME NEW x \in 1..Len(items)
        PROVE  IF Packs(items[x]) THEN ~IntoPacked(met[x], items[x][1])
               ELSE MayStore(met[x], items[x][1])
    <2>1. x \in DOMAIN items
      BY <1>1
    <2>2. IF Packs(items[x]) THEN IntoPacked(met[x], items[x][1]) => StoreIntoPacked
          ELSE MayStore(met[x], items[x][1])
      BY <2>1 DEF MayBatch
    <2>3. QED
      BY <2>2
  <1>4. QED
    BY <1>2, <1>3 DEF Meets

(* The pairs that a batch packs.                                           *)
LEMMA PackedRight ==
  ASSUME NowhereApart, IndexInv, NEW items \in Batches, Compatible(items),
         NEW B, B = PackThrough(items),
         \A x \in 1..Len(items) : Packs(items[x]) => ~IntoPacked(B[x - 1].t.s, items[x][1])
  PROVE  Right(B[Len(items)].t, AboveW(tracked))
  <1> DEFINE n == Len(items)
             start == [t |-> Now, parents |-> <<>>]
  <1>1. Items(items) /\ n \in Nat
    BY BatchItems DEF Items
  <1>2. /\ B[0] = start
        /\ \A i \in 1..n : B[i] = NextThrough(B[i - 1], items[i])
    BY <1>1, PackSteps
  <1>3. Bracketing(items, 0, start)
    <2>1. Right(Now, AboveW(tracked)) /\ Now.s = Table /\ Tree(Table)
      <3>1. Right(Now, Clearance) /\ Now.s = Table /\ Tree(Table)
        BY InvParts
      <3> DEFINE W == AboveW(tracked)
                 V == ColumnW(tracked)
                 t == Now
      <3>2. Right(t, W \cup V)
        BY <3>1 DEF Clearance
      <3> HIDE DEF W, V, t
      <3>3. Right(t, W)
        BY <3>2, RightBoth
      <3>4. QED
        BY <3>1, <3>3 DEF W, t
    <2> DEFINE c == [r |-> Done(Now.s, NoKey), parents |-> <<>>]
    <2>2. c.r.ok = TRUE /\ c.r.s = Table /\ DOMAIN c.parents = {}
      BY <2>1 DEF Done
    <2> HIDE DEF c
    <2>3. Good(Table, c.r)
      BY <2>1, <2>2 DEF Good
    <2>4. Known(c.r.s, items, 0, c.parents)
      BY <2>2 DEF Known
    <2>5. Batched(items, 0, c)
      BY <2>3, <2>4 DEF Batched
    <2>6. start.t = Now /\ start.parents = <<>>
      OBVIOUS
    <2> HIDE DEF start
    <2>7. QED
      BY <2>1, <2>5, <2>6 DEF Bracketing, c
  <1> DEFINE N == {i \in Nat : i <= n => Bracketing(items, i, B[i])}
  <1>4. 0 \in N
    BY <1>2, <1>3
  <1> HIDE DEF start
  <1>5. ASSUME NEW i \in Nat, i \in N PROVE i + 1 \in N
    <2>1. SUFFICES ASSUME i + 1 <= n PROVE Bracketing(items, i + 1, B[i + 1])
      OBVIOUS
    <2> DEFINE j == i + 1
    <2>2. j \in 1..n /\ j - 1 = i /\ i <= n
      BY <1>1, <2>1
    <2>3. Bracketing(items, j - 1, B[j - 1]) /\ B[j] = NextThrough(B[j - 1], items[j])
      BY <1>2, <1>5, <2>2
    <2>4. Packs(items[j]) => ~IntoPacked(B[j - 1].t.s, items[j][1])
      BY <2>2
    <2> DEFINE b == B[j - 1]
    <2> HIDE DEF j, b
    <2>5. Bracketing(items, j, NextThrough(b, items[j]))
      BY <2>2, <2>3, <2>4, ThroughStep DEF b
    <2>6. QED
      BY <2>3, <2>5 DEF j, b
  <1> HIDE DEF N
  <1>6. Nat \subseteq N
    BY <1>4, <1>5, SetInduction
  <1>7. Bracketing(items, n, B[n])
    BY <1>1, <1>6 DEF N
  <1>8. QED
    BY <1>7 DEF Bracketing

(* Those that it does not pack.                                            *)
LEMMA StoredRight ==
  ASSUME NowhereApart, ~StoreShifts, ~StoreIntoPacked, IndexInv, NEW items \in Batches,
         NEW packed, Right(packed, AboveW(tracked)),
         NEW B, B = StoreThrough(packed, items),
         \A x \in 1..Len(items) : ~Packs(items[x]) => MayStore(B[x - 1].s, items[x][1])
  PROVE  Right(B[Len(items)], AboveW(tracked))
  <1> DEFINE n == Len(items)
             W == AboveW(tracked)
             N == {i \in Nat : i <= n => Right(B[i], W)}
  <1>1. n \in Nat
    BY BatchItems DEF Items
  <1>2. /\ B[0] = packed
        /\ \A i \in 1..n : B[i] = NextStored(B[i - 1], items[i])
    BY <1>1, StoringSteps
  <1>3. 0 \in N
    BY <1>2
  <1>4. ASSUME NEW i \in Nat, i \in N PROVE i + 1 \in N
    <2>1. SUFFICES ASSUME i + 1 <= n PROVE Right(B[i + 1], W)
      OBVIOUS
    <2> DEFINE j == i + 1
               t == B[i]
    <2>2. j \in 1..n /\ j - 1 = i /\ i <= n
      BY <1>1, <2>1
    <2>3. Right(t, W) /\ B[j] = NextStored(t, items[j])
      BY <1>2, <1>4, <2>2
    <2>4. ~Packs(items[j]) => MayStore(t.s, items[j][1])
      BY <2>2
    <2> HIDE DEF j, t
    <2>5. Right(NextStored(t, items[j]), W)
      BY <2>2, <2>3, <2>4, StoredStep
    <2>6. QED
      BY <2>3, <2>5 DEF j
  <1> HIDE DEF N
  <1>5. Nat \subseteq N
    BY <1>3, <1>4, SetInduction
  <1>6. Right(B[n], W)
    BY <1>1, <1>5 DEF N
  <1>7. QED
    BY <1>6

(* A batch.                                                                *)
LEMMA BatchRight ==
  ASSUME NowhereApart, ~StoreShifts, ~StoreIntoPacked, IndexInv, NEW items \in Batches,
         NEW B, B = PackThrough(items),
         NEW packed, packed = B[Len(items)].t,
         NEW plain, plain = StoreThrough(packed, items),
         MayBatch(items, [x \in DOMAIN items |->
                            IF Packs(items[x]) THEN B[x - 1].t.s ELSE plain[x - 1].s])
  PROVE  Right(plain[Len(items)], AboveW(tracked))
  <1> DEFINE met == [x \in DOMAIN items |->
                       IF Packs(items[x]) THEN B[x - 1].t.s ELSE plain[x - 1].s]
  <1>1. DOMAIN items = 1..Len(items)
    BY TreeAssumption, LenProperties
  <1>2. \A x \in 1..Len(items) :
          met[x] = IF Packs(items[x]) THEN B[x - 1].t.s ELSE plain[x - 1].s
    BY <1>1
  <1>3. MayBatch(items, met)
    OBVIOUS
  <1> HIDE DEF met
  <1>4. Compatible(items) /\ Meets(items, met)
    BY <1>3, BatchGuard
  <1>5. \A x \in 1..Len(items) : Packs(items[x]) => ~IntoPacked(B[x - 1].t.s, items[x][1])
    BY <1>2, <1>4 DEF Meets
  <1>6. \A x \in 1..Len(items) : ~Packs(items[x]) => MayStore(plain[x - 1].s, items[x][1])
    BY <1>2, <1>4 DEF Meets
  <1>7. Right(packed, AboveW(tracked))
    BY <1>4, <1>5, PackedRight
  <1>8. QED
    BY <1>6, <1>7, StoredRight

------------------------------------------------------------------------------
(* Index definitions come and go                                           *)

(* A table, entries and indexes that fit together, T of them in sight.     *)
FitTogether(s, post, D, T) ==
  /\ IsFiniteSet(D) /\ WellDefs(D) /\ OwnNames(D) /\ D \subseteq Defs
  /\ T \subseteq D /\ PlainDefs(T)
  /\ WellKept(post) /\ Once(post, D) /\ NoneWrong(post, s, T)
  /\ ~failed => NoneMissing(post, s, T)
  /\ ClearOf(s, AboveW(T)) /\ ClearOf(s, ColumnW(T))

(* Between calls they do.                                                  *)
LEMMA FitNow ==
  ASSUME IndexInv
  PROVE  FitTogether(Table, posting, indexes, tracked)
  <1>1. /\ Registry /\ PlainDefs(tracked) /\ ClearOf(Table, AboveW(tracked))
        /\ ClearOf(Table, ColumnW(tracked)) /\ Right(Now, Clearance)
    BY InvParts
  <1>2. Now.s = Table /\ Now.post = posting /\ Now.ok = TRUE
    BY DEF Now
  <1>3. /\ WellKept(posting) /\ Once(posting, indexes)
        /\ NoneWrong(posting, Table, tracked)
        /\ ~failed => NoneMissing(posting, Table, tracked)
    BY <1>1, <1>2 DEF Right
  <1>4. QED
    BY <1>1, <1>3 DEF FitTogether, IndexInv, Registry

(* A step that changes the entries and the indexes only.                   *)
LEMMA FitKeeps ==
  ASSUME IndexInv, node' = node, link' = link, failed' = failed,
         shredded' = ShreddedBy(indexes'),
         NEW D, NEW T, NEW post, indexes' = D, tracked' = T, posting' = post,
         FitTogether(Table, post, D, T)
  PROVE  IndexInv'
  <1> DEFINE s == Table
             w == [ok |-> TRUE, s |-> s, post |-> post]
             W == AboveW(T) \cup ColumnW(T)
  <1>1. Table' = s /\ Now' = w
    BY DEF Table, Now
  <1>2. Tree(s)
    BY InvParts
  <1>3. Clearance' = W
    BY DEF Clearance, AboveW, ColumnW
  <1> HIDE DEF s
  <1>4. IsState(w) /\ w.s = s /\ w.post = post /\ w.ok = TRUE
    BY DEF IsState
  <1> HIDE DEF w
  <1>5. ClearOf(s, W)
    BY ClearBoth DEF FitTogether, s
  <1> HIDE DEF W
  <1>6. /\ IsState(w) /\ Tree(w.s) /\ WellKept(w.post) /\ Once(w.post, D)
        /\ NoneWrong(w.post, w.s, T)
        /\ ~failed' => NoneMissing(w.post, w.s, T)
        /\ ClearOf(w.s, W)
    BY <1>2, <1>4, <1>5 DEF FitTogether, s
  <1>7. Right(Now, Clearance)'
    BY <1>1, <1>3, <1>6 DEF Right
  <1>8. Registry' /\ (indexes \subseteq Defs)'
    BY DEF FitTogether, Registry
  <1>9. (shredded = ShreddedBy(indexes))' /\ (failed \in BOOLEAN)'
    BY DEF IndexInv, ShreddedBy
  <1>10. (DOMAIN node \subseteq Keys \cup {ROOT})'
    BY DEF IndexInv, Keys
  <1>11. QED
    BY <1>7, <1>8, <1>9, <1>10 DEF IndexInv

(* The columns of an index: as many as it has, each with a path.           *)
LEMMA ColumnsWell ==
  ASSUME NEW def, WellDef(def)
  PROVE  /\ Len(def.columns) \in Nat /\ DOMAIN def.columns = 1..Len(def.columns)
         /\ \A c \in DOMAIN def.columns : def.columns[c].path \in Seq(Segment)
  <1> DEFINE q == def.columns
             S == [path : Seq(Segment), desc : BOOLEAN]
  <1>1. q \in Seq(S)
    BY DEF WellDef
  <1> HIDE DEF q
  <1>2. Len(q) \in Nat /\ DOMAIN q = 1..Len(q) /\ \A c \in 1..Len(q) : q[c] \in S
    BY <1>1, LenProperties, ElementOfSeq
  <1>3. QED
    BY <1>2 DEF q

(* Every definition is well-formed; one without a position is plain.       *)
LEMMA DefIsWell ==
  ASSUME NEW def \in Defs
  PROVE  WellDef(def) /\ (~Positioned(def) => PlainDef(def))
  <1>1. WellDef(def)
    BY DefsAssumption DEF WellDef, Parts
  <1>2. ASSUME NEW seg \in Segment, IsName(seg) PROVE \E n \in Names : seg = Name(n)
    BY <1>2 DEF Segment, IsName, IsIndex, Name
  <1>3. ASSUME ~Positioned(def) PROVE PlainDef(def)
    <2> DEFINE N == Len(def.pattern)
    <2>1. N \in Nat /\ def.pattern \in [1..N -> Parts] /\ DOMAIN def.pattern = 1..N
      BY <1>1, LenProperties DEF WellDef
    <2>2. \A i \in 1..N : def.pattern[i] \in PatternParts
      <3>1. SUFFICES ASSUME NEW i \in 1..N PROVE def.pattern[i] \in PatternParts
        OBVIOUS
      <3> DEFINE pat == def.pattern[i]
      <3>2. pat \in Parts /\ (IsStar(pat) \/ IsName(pat))
        BY <1>3, <2>1 DEF Positioned
      <3> HIDE DEF pat
      <3>3. CASE pat = Star
        BY <3>3 DEF PatternParts, pat
      <3>4. CASE pat \in Segment
        <4>1. ~IsStar(pat)
          BY <3>4 DEF IsStar, Segment
        <4>2. QED
          BY <1>2, <3>2, <3>4, <4>1 DEF PatternParts, pat
      <3>5. QED
        BY <3>2, <3>3, <3>4 DEF Parts
    <2>3. def.pattern \in Seq(PatternParts)
      BY <2>1, <2>2, FunLen
    <2>4. ASSUME NEW c \in DOMAIN def.columns PROVE def.columns[c].path \in NamePaths
      <3> DEFINE path == def.columns[c].path
                 n    == Len(path)
                 M    == {Name(x) : x \in Names}
      <3>1. path \in Seq(Segment)
        BY <1>1, ColumnsWell
      <3>2. n \in Nat /\ path \in [1..n -> Segment] /\ DOMAIN path = 1..n
        BY <3>1, LenProperties
      <3>3. \A i \in 1..n : IsName(path[i])
        BY <1>3, <3>2 DEF Positioned
      <3>4. \A i \in 1..n : path[i] \in M
        BY <1>2, <3>2, <3>3
      <3> HIDE DEF path, n, M
      <3>5. path \in [1..n -> M]
        BY <3>2, <3>4
      <3>6. path \in Seq(M)
        BY <3>2, <3>5, FunLen
      <3>7. QED
        BY <3>6 DEF NamePaths, path, M
    <2>5. QED
      BY <2>3, <2>4 DEF PlainDef
  <1>4. QED
    BY <1>1, <1>3

(* The index that an entry names.                                          *)
LEMMA NameOnce ==
  ASSUME NEW post, NEW D, Once(post, D), NEW x, NEW y, Posts(post, x, y)
  PROVE  \E def \in D : x.index = def.name
  <1>1. PICK def \in D : \E s : Tree(s) /\ Entry(s, def, <<x, y>>)
    BY DEF Once
  <1>2. PICK s : Entry(s, def, <<x, y>>)
    BY <1>1
  <1>3. PICK k : <<x, y>> = Pair(s, def, k)
    BY <1>2 DEF Entry
  <1>4. QED
    BY <1>3, PairIs

(* The name in an entry.                                                   *)
LEMMA EntryName ==
  ASSUME NEW s, NEW def, NEW x, NEW y, Entry(s, def, <<x, y>>)
  PROVE  x.index = def.name
  <1>1. PICK k : <<x, y>> = Pair(s, def, k)
    BY DEF Entry
  <1>2. QED
    BY <1>1, PairIs

(* The entries of an index of all entities.                                *)
LEMMA LineFromRoot ==
  ASSUME NEW s, NEW def, NEW x
  PROVE  LineEntry(s, def, <<>>, x) <=> Entry(s, def, x)
  <1>1. \A r : r \in Seq(Segment) => OneLine(r, <<>>)
    <2>1. \A r : Leads(<<>>, r)
      BY DEF Leads
    <2>2. QED
      BY <2>1 DEF OneLine
  <1>2. \A k : LineEntity(s, def.pattern, <<>>, k) <=> AnyEntity(s, def.pattern, k)
    BY <1>1 DEF LineEntity, AnyEntity, EntityAt, Matches
  <1>3. QED
    BY <1>2 DEF LineEntry, Entry

(* Table::create_index.                                                    *)
LEMMA CreateKeeps ==
  ASSUME IndexInv, NEW def \in Defs, CreateIndex(def)
  PROVE  IndexInv'
  <1> DEFINE D == indexes \cup {def}
             T == tracked \cup {x \in {def} : InSight(x)}
             defs == <<def>>
             t == Now
             scope == <<>>
             filled == Reindexed(t, defs, scope)
  <1>1. /\ \A other \in indexes : other.name # def.name
        /\ filled.ok /\ posting' = filled.post /\ indexes' = D /\ tracked' = T
        /\ shredded' = ShreddedBy(indexes')
        /\ node' = node /\ link' = link /\ failed' = failed
    BY DEF CreateIndex
  <1>2. FitTogether(Table, posting, indexes, tracked) /\ Tree(Table)
    BY FitNow, InvParts
  <1>3. IsFiniteSet(D) /\ WellDefs(D) /\ D \subseteq Defs
    <2>1. WellDef(def)
      BY DefIsWell
    <2>2. QED
      BY <1>2, <2>1, FS_AddElement DEF FitTogether, WellDefs
  <1>4. OwnNames(D)
    BY <1>1, <1>2 DEF FitTogether, OwnNames
  <1>5. T \subseteq D /\ \A e \in T : e \in tracked \/ (e = def /\ InSight(def))
    BY <1>2 DEF FitTogether
  <1>6. IsState(t) /\ t.s = Table /\ t.post = posting /\ t.ok = TRUE
    BY DEF Now, IsState
  <1>7. scope \in Seq(Segment) /\ defs \in Seq(D) /\ ToSet(defs) = {def}
    <2>1. scope \in Seq(Segment)
      OBVIOUS
    <2>2. defs \in Seq(D)
      OBVIOUS
    <2>3. Len(defs) = 1 /\ defs[1] = def
      OBVIOUS
    <2> HIDE DEF defs
    <2>4. ToSet(defs) = {def}
      BY <2>2, <2>3, SeqHolds
    <2>5. QED
      BY <2>1, <2>2, <2>4
  <1>8. WellKept(t.post) /\ Tree(t.s)
    BY <1>2, <1>6 DEF FitTogether
  <1>9. \A x : LineEntry(Table, def, scope, x) <=> Entry(Table, def, x)
    BY LineFromRoot
  <1> HIDE DEF D, T, defs, t, scope
  <1> DEFINE u == filled
  <1>10. /\ WellKept(u.post)
         /\ u.ok => \A e \in ToSet(defs) : \A x, y :
                      LineEntry(t.s, e, scope, <<x, y>>) => Posts(u.post, x, y)
         /\ \A x, y : Posts(t.post, x, y) => Posts(u.post, x, y)
         /\ \A x, y : Posts(u.post, x, y) =>
              Posts(t.post, x, y) \/ \E e \in ToSet(defs) : LineEntry(t.s, e, scope, <<x, y>>)
    BY <1>3, <1>6, <1>7, <1>8, ReindexedEffect
  <1> HIDE DEF filled
  <1>11. /\ \A x, y : Entry(Table, def, <<x, y>>) => Posts(u.post, x, y)
         /\ \A x, y : Posts(posting, x, y) => Posts(u.post, x, y)
         /\ \A x, y : Posts(u.post, x, y) =>
              Posts(posting, x, y) \/ Entry(Table, def, <<x, y>>)
    BY <1>1, <1>6, <1>7, <1>9, <1>10
  <1>12. \A x, y : Posts(posting, x, y) => x.index # def.name
    BY <1>1, <1>2, NameOnce DEF FitTogether
  <1>13. Once(u.post, D)
    <2>1. SUFFICES ASSUME NEW x, NEW y, Posts(u.post, x, y)
                   PROVE  \E e \in D : \E s : Tree(s) /\ Entry(s, e, <<x, y>>)
      BY DEF Once
    <2>2. CASE Posts(posting, x, y)
      <3>1. \E e \in indexes : \E s : Tree(s) /\ Entry(s, e, <<x, y>>)
        BY <1>2, <2>2 DEF FitTogether, Once
      <3>2. QED
        BY <3>1 DEF D
    <2>3. CASE Entry(Table, def, <<x, y>>)
      BY <1>2, <2>3 DEF D
    <2>4. QED
      BY <1>11, <2>1, <2>2, <2>3
  <1>14. NoneWrong(u.post, Table, T)
    <2>1. SUFFICES ASSUME NEW e \in T, NEW x, NEW y, Posts(u.post, x, y), x.index = e.name
                   PROVE  Entry(Table, e, <<x, y>>)
      BY DEF NoneWrong
    <2>2. CASE e \in tracked
      <3>1. e \in indexes /\ e.name # def.name
        BY <1>1, <1>2, <2>2 DEF FitTogether
      <3>2. ~Entry(Table, def, <<x, y>>)
        BY <2>1, <3>1, EntryName
      <3>3. Posts(posting, x, y)
        BY <1>11, <2>1, <3>2
      <3>4. QED
        BY <1>2, <2>1, <2>2, <3>3 DEF FitTogether, NoneWrong
    <2>3. CASE e = def
      BY <1>11, <1>12, <2>1, <2>3
    <2>4. QED
      BY <1>5, <2>2, <2>3
  <1>15. ~failed => NoneMissing(u.post, Table, T)
    BY <1>2, <1>5, <1>11 DEF FitTogether, NoneMissing
  <1>16. InSight(def) => /\ PlainDef(def) /\ ClearOf(Table, AboveOf(def))
                         /\ ClearOf(Table, ColumnOf(def))
    <2>1. SUFFICES ASSUME InSight(def)
                   PROVE  /\ PlainDef(def) /\ ClearOf(Table, AboveOf(def))
                          /\ ClearOf(Table, ColumnOf(def))
      OBVIOUS
    <2>2. PlainDef(def) /\ ~PackedAbove(def.pattern) /\ ~ColumnPacked(Table, {def})
      BY <2>1, DefIsWell DEF InSight
    <2>3. ClearOf(Table, AboveOf(def))
      BY <1>2, <2>2, AboveGuard
    <2> DEFINE one == {def}
    <2>4. PlainDefs(one) /\ ~ColumnPacked(Table, one) /\ ColumnW(one) = ColumnOf(def)
      BY <2>2 DEF PlainDefs, ColumnW
    <2> HIDE DEF one
    <2>5. ClearOf(Table, ColumnW(one))
      BY <1>2, <2>4, ColumnGuard
    <2>6. QED
      BY <2>2, <2>3, <2>4, <2>5
  <1>17. PlainDefs(T)
    BY <1>2, <1>5, <1>16 DEF FitTogether, PlainDefs
  <1>18. ClearOf(Table, AboveW(T)) /\ ClearOf(Table, ColumnW(T))
    <2>1. /\ \A w \in AboveW(T) : w \in AboveW(tracked) \/ (InSight(def) /\ w \in AboveOf(def))
          /\ \A w \in ColumnW(T) : w \in ColumnW(tracked) \/ (InSight(def) /\ w \in ColumnOf(def))
      BY <1>5 DEF AboveW, ColumnW
    <2>2. QED
      BY <1>2, <1>16, <2>1 DEF FitTogether, ClearOf
  <1>19. FitTogether(Table, u.post, D, T)
    BY <1>3, <1>4, <1>5, <1>10, <1>13, <1>14, <1>15, <1>17, <1>18 DEF FitTogether
  <1>20. QED
    BY <1>1, <1>19, FitKeeps

(* Table::delete_index.                                                    *)
LEMMA DropKeeps ==
  ASSUME IndexInv, NEW def \in Defs, DropIndex(def)
  PROVE  IndexInv'
  <1> DEFINE D == indexes \ {def}
             T == tracked \ {def}
             post == [key \in {x \in DOMAIN posting : x.index # def.name} |-> posting[key]]
  <1>1. /\ def \in indexes /\ posting' = post /\ indexes' = D /\ tracked' = T
        /\ shredded' = ShreddedBy(indexes')
        /\ node' = node /\ link' = link /\ failed' = failed
    BY DEF DropIndex
  <1>2. FitTogether(Table, posting, indexes, tracked)
    BY FitNow
  <1>3. \A x, y : Posts(post, x, y) <=> Posts(posting, x, y) /\ x.index # def.name
    BY DEF Posts
  <1>4. WellKept(post)
    BY <1>2 DEF FitTogether, WellKept
  <1> HIDE DEF post
  <1>5. /\ IsFiniteSet(D) /\ WellDefs(D) /\ OwnNames(D) /\ D \subseteq Defs
        /\ T \subseteq D /\ PlainDefs(T)
    <2>1. IsFiniteSet(D)
      BY <1>2, FS_Subset DEF FitTogether
    <2>2. QED
      BY <1>2, <2>1 DEF FitTogether, WellDefs, PlainDefs, OwnNames
  <1>6. Once(post, D)
    <2>1. SUFFICES ASSUME NEW x, NEW y, Posts(post, x, y)
                   PROVE  \E e \in D : \E s : Tree(s) /\ Entry(s, e, <<x, y>>)
      BY DEF Once
    <2>2. Posts(posting, x, y) /\ x.index # def.name
      BY <1>3, <2>1
    <2>3. PICK e \in indexes : \E s : Tree(s) /\ Entry(s, e, <<x, y>>)
      BY <1>2, <2>2 DEF FitTogether, Once
    <2>4. e # def
      BY <2>2, <2>3, EntryName
    <2>5. QED
      BY <2>3, <2>4
  <1>7. NoneWrong(post, Table, T)
    BY <1>2, <1>3 DEF FitTogether, NoneWrong
  <1>8. ~failed => NoneMissing(post, Table, T)
    <2>1. ASSUME ~failed, NEW e \in T, NEW x, NEW y, Entry(Table, e, <<x, y>>)
          PROVE  Posts(post, x, y)
      <3>1. Posts(posting, x, y)
        BY <1>2, <2>1 DEF FitTogether, NoneMissing
      <3>2. x.index = e.name /\ e.name # def.name
        BY <1>1, <1>2, <2>1, EntryName DEF FitTogether, OwnNames
      <3>3. QED
        BY <1>3, <3>1, <3>2
    <2>2. QED
      BY <2>1 DEF NoneMissing
  <1>9. ClearOf(Table, AboveW(T)) /\ ClearOf(Table, ColumnW(T))
    BY <1>2 DEF FitTogether, ClearOf, AboveW, ColumnW
  <1> HIDE DEF D, T
  <1>10. FitTogether(Table, post, D, T)
    BY <1>2, <1>4, <1>5, <1>6, <1>7, <1>8, <1>9 DEF FitTogether
  <1>11. QED
    BY <1>1, <1>10, FitKeeps

------------------------------------------------------------------------------
(* The invariant holds                                                     *)

(* The configurations that the theorems are about: stores go where the     *)
(* documented ones go.                                                     *)
Guarded == NowhereApart /\ ~StoreShifts /\ ~StoreIntoPacked

(* Before the first call there is neither a node nor an entry.             *)
LEMMA IndexedStarts ==
  ASSUME IndexedInit
  PROVE  IndexInv
  <1>1. TreeInv /\ indexes = {} /\ tracked = {} /\ posting = <<>> /\ shredded = {}
    BY InitTree DEF IndexedInit
  <1>2. Tree(Table) /\ DOMAIN node \subseteq Keys \cup {ROOT} /\ failed \in BOOLEAN
    BY <1>1 DEF TreeInv
  <1>3. DOMAIN posting = {}
    BY <1>1
  <1>4. /\ WellKept(posting) /\ Once(posting, indexes) /\ NoneWrong(posting, Table, tracked)
        /\ NoneMissing(posting, Table, tracked)
    BY <1>1, <1>3 DEF WellKept, Once, NoneWrong, NoneMissing, Posts
  <1>5. ClearOf(Table, Clearance)
    <2>1. Clearance = {}
      BY <1>1 DEF Clearance, AboveW, ColumnW
    <2>2. QED
      BY <2>1 DEF ClearOf
  <1>6. Now.ok = TRUE /\ Now.s = Table /\ Now.post = posting /\ IsState(Now)
    BY DEF Now, IsState
  <1>7. Right(Now, Clearance)
    BY <1>2, <1>4, <1>5, <1>6 DEF Right
  <1>8. Registry /\ indexes \subseteq Defs
    BY <1>1, FS_EmptySet DEF Registry, PlainDefs, WellDefs, OwnNames
  <1>9. ShreddedBy(indexes) = shredded
    BY <1>1 DEF ShreddedBy
  <1>10. QED
    BY <1>2, <1>7, <1>8, <1>9 DEF IndexInv

(* The calls at a path.                                                    *)
LEMMA IndexedWrites ==
  ASSUME Guarded, IndexInv, NEW p \in Paths,
         \/ \E v \in Values : IndexedPut(p, v)
         \/ IndexedRemove(p)
         \/ \E d \in Stored : IndexedStore(p, d)
         \/ IndexedFetchMut(p)
  PROVE  IndexInv'
  <1>1. NowhereApart /\ ~StoreShifts /\ ~StoreIntoPacked
    BY DEF Guarded
  <1>2. ASSUME NEW v \in Values, IndexedPut(p, v) PROVE IndexInv'
    <2>1. Right(ReindexAround(Now, p, PutStep(p, v)), Clearance)
      BY <1>1, PutRight
    <2>2. QED
      BY <1>2, <2>1, CommitKeeps DEF IndexedPut
  <1>3. ASSUME IndexedRemove(p) PROVE IndexInv'
    <2>1. Right(ReindexAround(Now, p, RemoveStep(p)), Clearance)
      BY <1>1, RemoveRight
    <2>2. QED
      BY <1>3, <2>1, CommitKeeps DEF IndexedRemove
  <1>4. ASSUME NEW d \in Stored, IndexedStore(p, d) PROVE IndexInv'
    <2>1. PICK r \in {StoreStep(p, d), Replace(p, d)} :
            CommitStore(Call("store", p, d), ReindexAround(Now, p, r))
      BY <1>4 DEF IndexedStore
    <2>2. MayStore(Table, p) /\ Flat(d)
      BY <1>4, TreeAssumption DEF IndexedStore
    <2>3. Right(ReindexAround(Now, p, r), AboveW(tracked))
      BY <1>1, <2>2, StoreRight
    <2>4. QED
      BY <2>1, <2>3, CommitStoreKeeps
  <1>5. ASSUME IndexedFetchMut(p) PROVE IndexInv'
    <2>1. Right(Holding(Opened(p)), Clearance)
      BY <1>1, HoldingRight
    <2>2. QED
      BY <1>5, <2>1, CommitKeeps DEF IndexedFetchMut
  <1>6. QED
    BY <1>2, <1>3, <1>4, <1>5

(* The calls of an accessor.                                               *)
LEMMA IndexedAccessors ==
  ASSUME Guarded, IndexInv, NEW p \in Paths,
         \/ IndexedClear(p) \/ IndexedSwap(p) \/ IndexedSwapRemove(p)
         \/ \E d \in Stored : IndexedInsertElement(p, d)
         \/ \E d \in Stored, n \in Names : IndexedInsertEntry(p, n, d)
  PROVE  IndexInv'
  <1> DEFINE s == Opened(p)
  <1>1. NowhereApart /\ \A d \in Stored : Flat(d)
    BY TreeAssumption DEF Guarded
  <1>2. Tree(s)
    BY <1>1, HoldingRight
  <1>3. ASSUME IndexedClear(p) PROVE IndexInv'
    <2>1. PICK k \in Accessor(s, p, {"object", "list"}) :
            Commit(Call("clear", p, Nowhere), ReindexAround(Holding(s), p, ClearChildren(s, k)))
      BY <1>3 DEF IndexedClear
    <2>2. Right(ReindexAround(Holding(s), p, ClearChildren(s, k)), Clearance)
      BY <1>1, ClearRight
    <2> HIDE DEF s
    <2>3. QED
      BY <2>1, <2>2, CommitKeeps
  <1>4. ASSUME NEW k \in Accessor(s, p, {"list"})
        PROVE  Len(s.node[k].items) \in Nat
    <2> HIDE DEF s
    <2>1. p \in Seq(Segment)
      BY TreeAssumption
    <2>2. QED
      BY <1>2, <2>1, ListAccessor
  <1>5. ASSUME IndexedSwap(p) PROVE IndexInv'
    <2>1. PICK k \in Accessor(s, p, {"list"}) :
            \E i, j \in 0..Len(s.node[k].items) - 1 :
              Commit(Call("swap", p, <<i, j>>), Unbracketed(Holding(s), ListSwap(s, k, i, j)))
      BY <1>5 DEF IndexedSwap
    <2>2. PICK i \in 0..Len(s.node[k].items) - 1, j \in 0..Len(s.node[k].items) - 1 :
            Commit(Call("swap", p, <<i, j>>), Unbracketed(Holding(s), ListSwap(s, k, i, j)))
      BY <2>1
    <2> DEFINE n == Len(s.node[k].items)
    <2>3. i \in Nat /\ i < n /\ j \in Nat /\ j < n
      <3>1. n \in Nat
        BY <1>4
      <3> HIDE DEF n
      <3>2. i \in 0..n - 1 /\ j \in 0..n - 1
        BY <2>2 DEF n
      <3>3. QED
        BY <3>1, <3>2
    <2>4. Right(Unbracketed(Holding(s), ListSwap(s, k, i, j)), Clearance)
      BY <1>1, <2>3, SwappedRight
    <2> HIDE DEF s
    <2>5. QED
      BY <2>2, <2>4, CommitKeeps
  <1>6. ASSUME IndexedSwapRemove(p) PROVE IndexInv'
    <2>1. PICK k \in Accessor(s, p, {"list"}) :
            LET last == Len(s.node[k].items) - 1
                end  == Append(p, Index(last))
            IN  \E i \in 0..last :
                  \E swapped \in {Unbracketed(Holding(s), ListSwap(s, k, i, last))} :
                    Commit(Call("swap_remove", p, i),
                           ReindexAround(swapped, end, RemovePath(swapped.s, end)))
      BY <1>6 DEF IndexedSwapRemove
    <2> DEFINE last == Len(s.node[k].items) - 1
               end  == Append(p, Index(last))
    <2>2. PICK i \in 0..last :
            \E swapped \in {Unbracketed(Holding(s), ListSwap(s, k, i, last))} :
              Commit(Call("swap_remove", p, i),
                     ReindexAround(swapped, end, RemovePath(swapped.s, end)))
      BY <2>1
    <2> DEFINE u == Unbracketed(Holding(s), ListSwap(s, k, i, last))
    <2>3. Commit(Call("swap_remove", p, i), ReindexAround(u, end, RemovePath(u.s, end)))
      BY <2>2
    <2> HIDE DEF u, last, end
    <2>4. Right(ReindexAround(u, end, RemovePath(u.s, end)), Clearance)
      BY <1>1, SwapRemoveRight DEF u, last, end
    <2> HIDE DEF s
    <2>5. QED
      BY <2>3, <2>4, CommitKeeps
  <1>7. ASSUME NEW d \in Stored, IndexedInsertElement(p, d) PROVE IndexInv'
    <2>1. PICK k \in Accessor(s, p, {"list"}) :
            LET end == Len(s.node[k].items)
            IN  \E new \in {WriteThrough(Holding(s), Append(p, Index(end)), d)}, i \in 0..end :
                  Commit(Call("insert", p, <<i, d>>),
                         Unbracketed(new, ListMove(new.s, k, end, i)))
      BY <1>7 DEF IndexedInsertElement
    <2> DEFINE end == Len(s.node[k].items)
               q   == Append(p, Index(end))
               new == WriteThrough(Holding(s), q, d)
    <2>2. PICK i \in 0..end :
            Commit(Call("insert", p, <<i, d>>), Unbracketed(new, ListMove(new.s, k, end, i)))
      BY <2>1
    <2>3. Flat(d)
      BY <1>1
    <2> HIDE DEF end, q, new
    <2>4. Right(Unbracketed(new, ListMove(new.s, k, end, i)), Clearance)
      BY <1>1, <2>2, <2>3, InsertElementRight DEF end, q, new
    <2> HIDE DEF s
    <2>5. QED
      BY <2>2, <2>4, CommitKeeps
  <1>8. ASSUME NEW d \in Stored, NEW n \in Names, IndexedInsertEntry(p, n, d) PROVE IndexInv'
    <2> DEFINE q == Append(p, Name(n))
               t == WriteThrough(ReindexAround(Holding(s), q, RemovePath(s, q)), q, d)
    <2>1. PICK k \in Accessor(s, p, {"object"}) : Commit(Call("store", q, d), t)
      BY <1>8 DEF IndexedInsertEntry
    <2>2. Flat(d)
      BY <1>1
    <2> HIDE DEF q
    <2>3. Right(t, Clearance)
      BY <1>1, <2>1, <2>2, InsertEntryRight DEF q
    <2> HIDE DEF s, t
    <2>4. QED
      BY <2>1, <2>3, CommitKeeps
  <1>9. QED
    BY <1>3, <1>5, <1>6, <1>7, <1>8

(* A batch.                                                                *)
LEMMA IndexedBatch ==
  ASSUME Guarded, IndexInv, NEW items \in Batches, IndexedStoreMany(items)
  PROVE  IndexInv'
  <1> DEFINE B == PackThrough(items)
             packed == B[Len(items)].t
             plain == StoreThrough(packed, items)
             t == plain[Len(items)]
  <1>1. NowhereApart /\ ~StoreShifts /\ ~StoreIntoPacked
    BY DEF Guarded
  <1>2. /\ MayBatch(items, [x \in DOMAIN items |->
                              IF Packs(items[x]) THEN B[x - 1].t.s ELSE plain[x - 1].s])
        /\ CommitStore(Call("batch", <<>>, items), t)
    BY DEF IndexedStoreMany
  <1> HIDE DEF B, packed, plain
  <1>3. Right(t, AboveW(tracked))
    BY <1>1, <1>2, BatchRight DEF B, packed, plain
  <1> HIDE DEF t
  <1>4. QED
    BY <1>2, <1>3, CommitStoreKeeps

(* Every step keeps the invariant.                                         *)
LEMMA IndexInvKept ==
  ASSUME Guarded, IndexInv, [IndexedNext]_allVars
  PROVE  IndexInv'
  <1>1. CASE UNCHANGED allVars
    <2>1. /\ node' = node /\ link' = link /\ failed' = failed /\ shredded' = shredded
          /\ posting' = posting /\ indexes' = indexes /\ tracked' = tracked
      BY <1>1 DEF allVars, vars
    <2>2. shredded' = ShreddedBy(indexes')
      BY <2>1 DEF IndexInv
    <2>3. QED
      BY <2>1, <2>2, FitNow, FitKeeps
  <1>2. CASE \E p \in Paths :
               \/ \E v \in Values : IndexedPut(p, v)
               \/ IndexedRemove(p)
               \/ \E d \in Stored : IndexedStore(p, d)
               \/ IndexedFetchMut(p) \/ IndexedClear(p)
               \/ IndexedSwap(p) \/ IndexedSwapRemove(p)
               \/ p \in Inner /\ \E d \in Stored : IndexedInsertElement(p, d)
               \/ p \in Inner /\ \E d \in Stored, n \in Names : IndexedInsertEntry(p, n, d)
    BY <1>2, IndexedWrites, IndexedAccessors
  <1>3. CASE \E items \in Batches : IndexedStoreMany(items)
    BY <1>3, IndexedBatch
  <1>4. CASE \E def \in Defs : CreateIndex(def) \/ DropIndex(def)
    BY <1>4, CreateKeeps, DropKeeps
  <1>5. QED
    BY <1>1, <1>2, <1>3, <1>4 DEF IndexedNext

(* The invariant of a table with indexes: whatever calls reindex_around    *)
(* brackets, however they end, and whenever create_index and delete_index  *)
(* come between them, every entry was right when it was made, and those of *)
(* the indexes in sight stay those of the entities that the patterns lead  *)
(* to.                                                                     *)
THEOREM IndexesFit ==
  ASSUME Guarded
  PROVE  IndexedSpec => []IndexInv
  <1>1. IndexedInit => IndexInv
    BY IndexedStarts
  <1>2. IndexInv /\ [IndexedNext]_allVars => IndexInv'
    BY IndexInvKept
  <1>3. QED
    BY <1>1, <1>2, PTL DEF IndexedSpec

------------------------------------------------------------------------------
(* The entities in the document                                            *)

(* The segments of a document are those that name a part of it.            *)
LEMMA SegmentsAre ==
  ASSUME NowhereApart, NEW d, Proper(d) \/ d = Nowhere
  PROVE  \A seg : seg \in ToSet(Segments(d)) <=> seg \in Segment /\ Kid(d, seg) # Nowhere
  <1>1. CASE Is(d, "list")
    <2> DEFINE items == d.items
               n == Len(items)
    <2>1. ~Is(d, "object") /\ ~Is(d, "leaf") /\ d # Nowhere
      BY <1>1 DEF Is
    <2>2. PICK S : Nowhere \notin S /\ items \in Seq(S)
      BY <1>1, <2>1 DEF Proper
    <2>3. n \in Nat /\ DOMAIN items = 1..n
      BY <2>2, LenProperties
    <2>4. \A i \in 1..n : items[i] # Nowhere
      BY <2>2, ElementOfSeq
    <2>5. Segments(d) = [x \in 1..n |-> Index(x - 1)]
      BY <1>1, <2>3 DEF Segments
    <2>6. ASSUME NEW seg, seg \in ToSet(Segments(d))
          PROVE  seg \in Segment /\ Kid(d, seg) # Nowhere
      <3>1. PICK x \in 1..n : seg = Index(x - 1)
        BY <2>5, <2>6 DEF ToSet
      <3>2. x - 1 \in Nat /\ x - 1 < n /\ (x - 1) + 1 = x
        BY <2>3
      <3>3. seg \in Segment /\ IsIndex(seg) /\ ~IsName(seg) /\ seg.index = x - 1
        BY <3>1, <3>2, IndexSegment
      <3>4. Kid(d, seg) = items[x]
        BY <1>1, <2>1, <3>2, <3>3 DEF Kid
      <3>5. QED
        BY <2>4, <3>3, <3>4
    <2>7. ASSUME NEW seg \in Segment, Kid(d, seg) # Nowhere
          PROVE  seg \in ToSet(Segments(d))
      <3>1. IsIndex(seg) /\ seg.index < n
        BY <2>1, <2>7 DEF Kid
      <3>2. seg.index \in Nat /\ seg = Index(seg.index)
        BY <3>1, SegmentKinds
      <3> DEFINE x == seg.index + 1
      <3>3. x \in 1..n /\ x - 1 = seg.index
        BY <2>3, <3>1, <3>2
      <3>4. Segments(d)[x] = seg /\ x \in DOMAIN Segments(d)
        BY <2>5, <3>2, <3>3
      <3>5. QED
        BY <3>4 DEF ToSet
    <2>8. QED
      BY <2>6, <2>7
  <1>2. CASE Is(d, "object")
    <2> DEFINE F == DOMAIN d.fields
               S == {Name(n) : n \in F}
    <2>1. ~Is(d, "list") /\ ~Is(d, "leaf") /\ d # Nowhere
      BY <1>2 DEF Is
    <2>2. F \subseteq Names /\ \E T : Nowhere \notin T /\ d.fields \in [F -> T]
      BY <1>2, <2>1 DEF Proper
    <2>3. Segments(d) = SetToSeq(S)
      BY <1>2, <2>1 DEF Segments
    <2>4. IsFiniteSet(S)
      <3>1. IsFiniteSet(F)
        BY <2>2, TreeAssumption, FS_Subset
      <3> DEFINE f == [n \in F |-> Name(n)]
      <3>2. f \in Surjection(F, S)
        BY DEF Surjection
      <3> HIDE DEF f
      <3>3. QED
        BY <3>1, <3>2, FS_Surjection
    <2>5. \A seg : seg \in S <=> seg \in Segment /\ Kid(d, seg) # Nowhere
      <3>1. \A seg \in Segment : IsName(seg) => seg = Name(seg.name)
        BY SegmentKinds
      <3>2. \A seg \in Segment : Kid(d, seg) # Nowhere => IsName(seg) /\ seg.name \in F
        BY <2>1 DEF Kid
      <3>3. \A n \in F : /\ Name(n) \in Segment /\ IsName(Name(n)) /\ Name(n).name = n
        BY <2>2, NameSegment
      <3>4. \A n \in F : Kid(d, Name(n)) # Nowhere
        <4>1. \A n \in F : Kid(d, Name(n)) = d.fields[n]
          BY <1>2, <3>3 DEF Kid
        <4>2. \A n \in F : d.fields[n] # Nowhere
          BY <2>2
        <4>3. QED
          BY <4>1, <4>2
      <3>5. QED
        BY <3>1, <3>2, <3>3, <3>4
    <2> HIDE DEF S
    <2> DEFINE c == Cardinality(S)
    <2>6. /\ c \in Nat /\ Segments(d) \in [1..c -> S]
          /\ \A x \in S : \E i \in 1..c : Segments(d)[i] = x
      BY <2>3, <2>4, SetSequenceAll
    <2>7. \A seg : seg \in ToSet(Segments(d)) <=> seg \in S
      BY <2>6 DEF ToSet
    <2>8. QED
      BY <2>5, <2>7
  <1>3. CASE ~Is(d, "list") /\ ~Is(d, "object")
    <2>1. Segments(d) = <<>> /\ \A seg : Kid(d, seg) = Nowhere
      BY <1>3 DEF Segments, Kid
    <2>2. \A seg : seg \notin ToSet(<<>>)
      BY DEF ToSet
    <2>3. QED
      BY <2>1, <2>2
  <1>4. QED
    BY <1>1, <1>2, <1>3

(* The node at p is one that the first i segments of the pattern lead to.  *)
OnPattern(s, pattern, i, p) ==
  /\ p \in Seq(Segment) /\ Len(p) = i /\ Res(s, p) # NoKey
  /\ \A j \in 1..i : MatchesSegment(pattern[j], p[j])

(* p is such a path with one segment more, seg.                            *)
Longer(s, pattern, i, q, seg, p) ==
  /\ OnPattern(s, pattern, i - 1, q) /\ seg \in Segment
  /\ MatchesSegment(pattern[i], seg)
  /\ ChildKey(s, Res(s, q), seg) # NoKey /\ p = Append(q, seg)
OneLonger(s, pattern, i, p) == \E q, seg : Longer(s, pattern, i, q, seg, p)

(* One segment more.                                                       *)
LEMMA OnPatternNext ==
  ASSUME NEW s, NEW pattern, NEW i \in Nat \ {0}, NEW p
  PROVE  OnPattern(s, pattern, i, p) <=> OneLonger(s, pattern, i, p)
  <1>1. ASSUME OnPattern(s, pattern, i, p)
        PROVE  OneLonger(s, pattern, i, p)
    <2> DEFINE q == Front(p)
               seg == Last(p)
    <2>1. p \in Seq(Segment) /\ Len(p) = i /\ Res(s, p) # NoKey
          /\ \A j \in 1..i : MatchesSegment(pattern[j], p[j])
      BY <1>1 DEF OnPattern
    <2>2. p # <<>>
      BY <2>1
    <2>3. /\ q \in Seq(Segment) /\ seg \in Segment /\ Len(q) = i - 1
          /\ Leads(q, p)
      BY <2>1, <2>2, FrontLeads
    <2>4. Res(s, p) = IF Res(s, q) = NoKey THEN NoKey ELSE ChildKey(s, Res(s, q), seg)
      BY <2>1, <2>2, ResLast
    <2>5. seg = p[i] /\ p = Append(q, seg)
      <3>1. seg = p[i]
        BY <2>1 DEF Last
      <3> DEFINE r == Append(q, seg)
      <3>2. /\ r \in Seq(Segment) /\ Len(r) = Len(q) + 1
            /\ \A j \in 1..Len(q) : r[j] = q[j]
            /\ r[Len(q) + 1] = seg
        <4> HIDE DEF q, seg
        <4>1. QED
          BY <2>3, AppendProperties, PathAppend
      <3>3. \A j \in 1..Len(q) : q[j] = p[j]
        BY <2>3 DEF Leads
      <3>4. Len(r) = i /\ \A j \in 1..i : r[j] = p[j]
        <4> HIDE DEF q, seg, r
        <4>1. QED
          BY <2>3, <3>1, <3>2, <3>3
      <3> HIDE DEF r
      <3>5. p = r
        BY <2>1, <3>2, <3>4, SeqEqual
      <3>6. QED
        BY <3>1, <3>5 DEF r
    <2> HIDE DEF q, seg
    <2>6. \A j \in 1..i - 1 : q[j] = p[j] /\ j \in 1..i
      BY <2>3 DEF Leads
    <2>7. OnPattern(s, pattern, i - 1, q)
      BY <2>1, <2>3, <2>4, <2>6 DEF OnPattern
    <2>8. MatchesSegment(pattern[i], seg) /\ ChildKey(s, Res(s, q), seg) # NoKey
      BY <2>1, <2>4, <2>5
    <2>9. Longer(s, pattern, i, q, seg, p)
      BY <2>3, <2>5, <2>7, <2>8 DEF Longer
    <2>10. QED
      BY <2>9 DEF OneLonger
  <1>2. ASSUME NEW q, NEW seg, OnPattern(s, pattern, i - 1, q), seg \in Segment,
               MatchesSegment(pattern[i], seg), ChildKey(s, Res(s, q), seg) # NoKey,
               p = Append(q, seg)
        PROVE  OnPattern(s, pattern, i, p)
    <2>1. q \in Seq(Segment) /\ Len(q) = i - 1 /\ Res(s, q) # NoKey
          /\ \A j \in 1..i - 1 : MatchesSegment(pattern[j], q[j])
      BY <1>2 DEF OnPattern
    <2>2. p \in Seq(Segment) /\ p # <<>> /\ Len(p) = (i - 1) + 1 /\ Front(p) = q /\ Last(p) = seg
      BY <1>2, <2>1, PathAppend
    <2>3. Res(s, p) = ChildKey(s, Res(s, q), seg)
      <3>1. Res(s, p) = IF Res(s, Front(p)) = NoKey THEN NoKey
                        ELSE ChildKey(s, Res(s, Front(p)), Last(p))
        BY <2>2, ResLast
      <3>2. QED
        BY <2>1, <2>2, <3>1
    <2>4. \A j \in 1..i : p[j] = IF j = i THEN seg ELSE q[j]
      BY <1>2, <2>1, AppendProperties
    <2>5. \A j \in 1..i : MatchesSegment(pattern[j], p[j])
      BY <1>2, <2>1, <2>4
    <2>6. QED
      BY <1>2, <2>2, <2>3, <2>5 DEF OnPattern
  <1>3. QED
    BY <1>1, <1>2 DEF OneLonger, Longer

(* The step of EntityPaths: the paths with one segment more.               *)
PathsBelow(d, pattern, i, P) ==
  UNION {{Append(p, seg) : seg \in {x \in ToSet(Segments(At(d, p))) :
                                      MatchesSegment(pattern[i], x)}} : p \in P}

(* The function that EntityPaths defines.                                  *)
IsPaths(g, d, pattern, n) ==
  g = [i \in 0..n |-> IF i = 0 THEN {<<>>} ELSE PathsBelow(d, pattern, i, g[i - 1])]

(* It exists for patterns of every length.                                 *)
LEMMA PathsExist ==
  ASSUME NEW d, NEW pattern
  PROVE  \A n \in Nat : \E g : IsPaths(g, d, pattern, n)
  <1> DEFINE S == {n \in Nat : \E g : IsPaths(g, d, pattern, n)}
             start == {<<>>}
  <1>1. 0 \in S
    <2> DEFINE g == [i \in 0..0 |-> start]
    <2>1. IsPaths(g, d, pattern, 0)
      BY DEF IsPaths
    <2>2. QED
      BY <2>1
  <1>2. ASSUME NEW n \in Nat, n \in S PROVE n + 1 \in S
    <2>1. PICK g : IsPaths(g, d, pattern, n)
      BY <1>2
    <2>a. g = [i \in 0..n |-> IF i = 0 THEN start ELSE PathsBelow(d, pattern, i, g[i - 1])]
      BY <2>1 DEF IsPaths
    <2> HIDE DEF start
    <2> DEFINE h == [i \in 0..n + 1 |-> IF i = 0 THEN start
                                        ELSE PathsBelow(d, pattern, i, g[i - 1])]
    <2>2. \A i \in 0..n : h[i] = g[i]
      BY <2>a
    <2>3. h = [i \in 0..n + 1 |-> IF i = 0 THEN start
                                  ELSE PathsBelow(d, pattern, i, h[i - 1])]
      BY <2>a, <2>2
    <2>4. IsPaths(h, d, pattern, n + 1)
      BY <2>3 DEF IsPaths, start
    <2>5. QED
      BY <2>4
  <1> HIDE DEF S
  <1>3. Nat \subseteq S
    BY <1>1, <1>2, SetInduction
  <1>4. QED
    BY <1>3 DEF S

(* The nodes above the entities are not packed.                            *)
Open(s, pattern) ==
  \A i \in 0..Len(pattern) - 1 : \A q : OnPattern(s, pattern, i, q) => ~HasKind(s, Res(s, q), "packed")

(* They are not where no packed node is above an entity.                   *)
LEMMA ClearOpen ==
  ASSUME NEW s, NEW D, PlainDefs(D), ClearOf(s, AboveW(D)), NEW def \in D
  PROVE  Open(s, def.pattern)
  <1> DEFINE pattern == def.pattern
  <1>1. pattern \in Seq(PatternParts)
    BY DEF PlainDefs, PlainDef
  <1>2. SUFFICES ASSUME NEW i \in 0..Len(pattern) - 1, NEW q, OnPattern(s, pattern, i, q),
                        HasKind(s, Res(s, q), "packed")
                 PROVE  FALSE
    BY DEF Open
  <1> DEFINE w == Prefix(pattern, i)
  <1>3. w \in AboveW(D)
    BY <1>2 DEF AboveW, AboveOf
  <1> HIDE DEF pattern
  <1>4. Len(pattern) \in Nat /\ i \in Nat /\ i <= Len(pattern)
    BY <1>1, <1>2, LenProperties
  <1>5. Len(w) = i /\ \A j \in 1..i : w[j] = pattern[j]
    <2>1. \A x \in 1..i : pattern[x] \in PatternParts
      BY <1>1, <1>4, ElementOfSeq
    <2>2. /\ Len(w) = IF 1 <= i THEN i - 1 + 1 ELSE 0
          /\ \A j \in 1..i - 1 + 1 : w[j] = pattern[1 + j - 1]
      BY <1>4, <2>1, SubSeqProperties DEF Prefix
    <2>3. QED
      BY <1>4, <2>2
  <1> HIDE DEF w
  <1>6. Matches(w, q)
    BY <1>2, <1>5 DEF OnPattern, Matches
  <1>7. PackedAt(s, q)
    BY <1>2 DEF OnPattern, PackedAt
  <1>8. QED
    BY <1>3, <1>6, <1>7 DEF ClearOf

(* The paths of one level and what the document has there.                 *)
LevelHolds(s, d, pattern, i, P) ==
  \A p : /\ p \in P <=> OnPattern(s, pattern, i, p)
         /\ p \in P => At(d, p) = DocUnder(s, Res(s, p))

(* One level more.                                                         *)
LEMMA LevelNext ==
  ASSUME NowhereApart, NEW s, Tree(s), NEW d, NEW pattern, NEW i \in 1..Len(pattern),
         Len(pattern) \in Nat, Open(s, pattern), NEW P, LevelHolds(s, d, pattern, i - 1, P)
  PROVE  LevelHolds(s, d, pattern, i, PathsBelow(d, pattern, i, P))
  <1>1. i \in Nat \ {0} /\ i - 1 \in 0..Len(pattern) - 1
    OBVIOUS
  <1>2. ASSUME NEW q, OnPattern(s, pattern, i - 1, q)
        PROVE  /\ q \in P /\ q \in Seq(Segment) /\ At(d, q) = DocUnder(s, Res(s, q))
               /\ \A seg : seg \in ToSet(Segments(At(d, q))) <=>
                             seg \in Segment /\ ChildKey(s, Res(s, q), seg) # NoKey
               /\ \A seg \in Segment :
                    Kid(At(d, q), seg) = DocUnder(s, ChildKey(s, Res(s, q), seg))
    <2> DEFINE k == Res(s, q)
               e == DocUnder(s, k)
    <2>1. q \in P /\ At(d, q) = e
      BY <1>2 DEF LevelHolds
    <2>2. q \in Seq(Segment) /\ k # NoKey /\ ~HasKind(s, k, "packed")
      BY <1>1, <1>2 DEF OnPattern, Open
    <2>3. Reached(s, k)
      BY <2>2, ResLive
    <2> HIDE DEF k
    <2>4. Proper(e) \/ e = Nowhere
      <3>1. CASE Live(s, k)
        BY <2>3, <3>1, DocIs
      <3>2. CASE ~Live(s, k)
        BY <3>2 DEF DocUnder
      <3>3. QED
        BY <3>1, <3>2
    <2>5. \A seg \in Segment : /\ Kid(e, seg) # Nowhere <=> ChildKey(s, k, seg) # NoKey
                               /\ Kid(e, seg) = DocUnder(s, ChildKey(s, k, seg))
      BY <2>2, <2>3, KidThere, KidOf
    <2> HIDE DEF e
    <2>6. \A seg : seg \in ToSet(Segments(e)) <=> seg \in Segment /\ Kid(e, seg) # Nowhere
      BY <2>4, SegmentsAre
    <2>7. \A seg : seg \in ToSet(Segments(e)) <=> seg \in Segment /\ ChildKey(s, k, seg) # NoKey
      BY <2>5, <2>6
    <2> HIDE DEF LevelHolds
    <2>8. At(d, q) = e /\ e = DocUnder(s, Res(s, q))
      BY <2>1 DEF e, k
    <2>9. /\ \A seg : seg \in ToSet(Segments(At(d, q))) <=>
                        seg \in Segment /\ ChildKey(s, k, seg) # NoKey
          /\ \A seg \in Segment : Kid(At(d, q), seg) = DocUnder(s, ChildKey(s, k, seg))
      BY <2>5, <2>7, <2>8
    <2>10. QED
      BY <2>1, <2>2, <2>8, <2>9 DEF k
  <1> DEFINE B == PathsBelow(d, pattern, i, P)
  <1>3. ASSUME NEW p PROVE p \in B <=> OnPattern(s, pattern, i, p)
    <2>1. p \in B <=> \E q, seg : /\ q \in P /\ seg \in ToSet(Segments(At(d, q)))
                                  /\ MatchesSegment(pattern[i], seg) /\ p = Append(q, seg)
      BY DEF PathsBelow
    <2>2. OnPattern(s, pattern, i, p) <=>
            \E q, seg : /\ OnPattern(s, pattern, i - 1, q) /\ seg \in Segment
                        /\ MatchesSegment(pattern[i], seg)
                        /\ ChildKey(s, Res(s, q), seg) # NoKey /\ p = Append(q, seg)
      <3>1. OnPattern(s, pattern, i, p) <=> OneLonger(s, pattern, i, p)
        BY <1>1, OnPatternNext
      <3>2. QED
        BY <3>1 DEF OneLonger, Longer
    <2>3. \A q : q \in P <=> OnPattern(s, pattern, i - 1, q)
      BY DEF LevelHolds
    <2> HIDE DEF B
    <2>4. \A q, seg : q \in P => (seg \in ToSet(Segments(At(d, q))) <=>
                                   seg \in Segment /\ ChildKey(s, Res(s, q), seg) # NoKey)
      BY <1>2, <2>3
    <2>5. QED
      BY <2>1, <2>2, <2>3, <2>4
  <1>4. ASSUME NEW p, OnPattern(s, pattern, i, p) PROVE At(d, p) = DocUnder(s, Res(s, p))
    <2>1. PICK q, seg : /\ OnPattern(s, pattern, i - 1, q) /\ seg \in Segment
                        /\ p = Append(q, seg)
      <3>1. OneLonger(s, pattern, i, p)
        BY <1>1, <1>4, OnPatternNext
      <3>2. QED
        BY <3>1 DEF OneLonger, Longer
    <2>2. q \in Seq(Segment) /\ Res(s, q) # NoKey
          /\ Kid(At(d, q), seg) = DocUnder(s, ChildKey(s, Res(s, q), seg))
      BY <1>2, <2>1 DEF OnPattern
    <2>3. p \in Seq(Segment) /\ p # <<>> /\ Front(p) = q /\ Last(p) = seg
      BY <2>1, <2>2, PathAppend
    <2>4. At(d, p) = Kid(At(d, q), seg)
      BY <2>3, AtSnoc
    <2>5. Res(s, p) = ChildKey(s, Res(s, q), seg)
      <3>1. Res(s, p) = IF Res(s, Front(p)) = NoKey THEN NoKey
                        ELSE ChildKey(s, Res(s, Front(p)), Last(p))
        BY <2>3, ResLast
      <3>2. QED
        BY <2>2, <2>3, <3>1
    <2>6. QED
      BY <2>2, <2>4, <2>5
  <1> HIDE DEF B
  <1>5. LevelHolds(s, d, pattern, i, B)
    BY <1>3, <1>4 DEF LevelHolds
  <1>6. QED
    BY <1>5 DEF B

(* The entities in the document are those of the table.                    *)
LEMMA EntityPathsAre ==
  ASSUME NowhereApart, NEW s, Tree(s), NEW D, PlainDefs(D), ClearOf(s, AboveW(D)),
         NEW def \in D, NEW d, d = DocUnder(s, ROOT)
  PROVE  \A p : /\ p \in EntityPaths(d, def.pattern) <=>
                     Matches(def.pattern, p) /\ Res(s, p) # NoKey
                /\ p \in EntityPaths(d, def.pattern) => At(d, p) = DocUnder(s, Res(s, p))
  <1> DEFINE pattern == def.pattern
             n == Len(pattern)
             g == CHOOSE h : IsPaths(h, d, pattern, n)
  <1>1. pattern \in Seq(PatternParts) /\ n \in Nat
    BY LenProperties DEF PlainDefs, PlainDef
  <1>2. Open(s, pattern)
    BY ClearOpen
  <1> HIDE DEF pattern
  <1>3. EntityPaths(d, pattern) = g[n]
    BY DEF EntityPaths, IsPaths, PathsBelow
  <1>4. IsPaths(g, d, pattern, n)
    BY <1>1, PathsExist
  <1> HIDE DEF g
  <1>5. g[0] = {<<>>} /\ \A i \in 1..n : g[i] = PathsBelow(d, pattern, i, g[i - 1])
    <2>1. \A i \in 0..n : g[i] = IF i = 0 THEN {<<>>} ELSE PathsBelow(d, pattern, i, g[i - 1])
      BY <1>4 DEF IsPaths
    <2>2. 0 \in 0..n /\ \A i \in 1..n : i \in 0..n /\ i # 0
      BY <1>1
    <2>3. QED
      BY <2>1, <2>2
  <1> DEFINE S == {i \in Nat : i <= n => LevelHolds(s, d, pattern, i, g[i])}
  <1>6. 0 \in S
    <2>1. <<>> \in Seq(Segment) /\ Len(<<>>) = 0 /\ Res(s, <<>>) = ROOT /\ ROOT # NoKey
      BY EmptyPath, RootIsBase DEF Res
    <2>2. At(d, <<>>) = d
      BY AtNone
    <2>3. \A p : OnPattern(s, pattern, 0, p) => p = <<>>
      BY EmptySeq DEF OnPattern
    <2>4. OnPattern(s, pattern, 0, <<>>)
      BY <2>1 DEF OnPattern
    <2>5. LevelHolds(s, d, pattern, 0, {<<>>})
      BY <2>1, <2>2, <2>3, <2>4 DEF LevelHolds
    <2>6. QED
      BY <1>5, <2>5
  <1>7. ASSUME NEW i \in Nat, i \in S PROVE i + 1 \in S
    <2>1. SUFFICES ASSUME i + 1 <= n PROVE LevelHolds(s, d, pattern, i + 1, g[i + 1])
      OBVIOUS
    <2> DEFINE j == i + 1
    <2>2. j \in 1..n /\ j - 1 = i /\ i <= n
      BY <1>1, <2>1
    <2>3. LevelHolds(s, d, pattern, j - 1, g[j - 1]) /\ g[j] = PathsBelow(d, pattern, j, g[j - 1])
      BY <1>5, <1>7, <2>2
    <2> HIDE DEF j
    <2> DEFINE P == g[j - 1]
    <2> HIDE DEF P
    <2>4. LevelHolds(s, d, pattern, j, PathsBelow(d, pattern, j, P))
      BY <1>1, <1>2, <2>2, <2>3, LevelNext DEF P
    <2>5. QED
      BY <2>3, <2>4 DEF j, P
  <1> HIDE DEF S
  <1>8. Nat \subseteq S
    BY <1>6, <1>7, SetInduction
  <1>9. LevelHolds(s, d, pattern, n, g[n])
    BY <1>1, <1>8 DEF S
  <1>10. \A p : OnPattern(s, pattern, n, p) <=> Matches(pattern, p) /\ Res(s, p) # NoKey
    BY DEF OnPattern, Matches
  <1>11. QED
    BY <1>3, <1>9, <1>10 DEF LevelHolds, pattern

------------------------------------------------------------------------------
(* What the invariant says of the document                                 *)

(* What the invariant says of one entity.                                  *)
LEMMA EntityIs ==
  ASSUME NowhereApart, IndexInv, NEW def \in tracked, NEW r, NEW k,
         EntityAt(Table, def.pattern, r, k)
  PROVE  /\ k \in Keys \cup {ROOT} /\ Reached(Table, k) /\ k # NoKey
         /\ Bared(Table, def, k) /\ PlainDef(def)
         /\ Columns(Table, def, k) = DocColumns(def, DocUnder(Table, k))
  <1>1. /\ Tree(Table) /\ PlainDefs(tracked) /\ ClearOf(Table, ColumnW(tracked))
        /\ DOMAIN node \subseteq Keys \cup {ROOT} /\ Table.node = node
    BY InvParts DEF IndexInv, Table
  <1> DEFINE s == Table
             D == tracked
  <1>2. PlainDef(def)
    BY <1>1 DEF PlainDefs
  <1> HIDE DEF s, D
  <1>3. Tree(s) /\ PlainDefs(D) /\ ClearOf(s, ColumnW(D)) /\ def \in D
        /\ EntityAt(s, def.pattern, r, k)
    BY <1>1 DEF s, D
  <1>4. Bared(s, def, k)
    BY <1>3, BaredByClear
  <1>5. Reached(s, k) /\ k # NoKey
    BY <1>3, EntityReached
  <1>6. k \in DOMAIN s.node \/ k = ROOT
    BY <1>3, ResLive DEF EntityAt, Matches
  <1>7. Columns(s, def, k) = DocColumns(def, DocUnder(s, k))
    BY <1>2, <1>3, <1>4, <1>5, ColumnsAreDoc
  <1>8. QED
    BY <1>1, <1>2, <1>4, <1>5, <1>6, <1>7 DEF s

(* An entry that the document implies, at one path.                        *)
DocEntry(def, p) == DocPosting(def, Entity(p, At(doc, p)))

(* The entities of an index, in the document and in the table.             *)
LEMMA DocEntityIs ==
  ASSUME NowhereApart, IndexInv, NEW def \in tracked
  PROVE  \A p : /\ p \in EntityPaths(doc, def.pattern) <=>
                     EntityAt(Table, def.pattern, p, Res(Table, p))
                /\ p \in EntityPaths(doc, def.pattern) =>
                     /\ At(doc, p) = DocUnder(Table, Res(Table, p))
                     /\ DocEntry(def, p) = Pair(Table, def, Res(Table, p))
  <1>1. Tree(Table) /\ PlainDefs(tracked) /\ ClearOf(Table, AboveW(tracked))
    BY InvParts
  <1>2. \A p : /\ p \in EntityPaths(doc, def.pattern) <=>
                    Matches(def.pattern, p) /\ Res(Table, p) # NoKey
               /\ p \in EntityPaths(doc, def.pattern) =>
                    At(doc, p) = DocUnder(Table, Res(Table, p))
    <2> DEFINE s == Table
               D == tracked
               d == doc
    <2>1. Tree(s) /\ PlainDefs(D) /\ ClearOf(s, AboveW(D)) /\ def \in D /\ d = DocUnder(s, ROOT)
      BY <1>1 DEF doc
    <2> HIDE DEF s, D, d
    <2>2. \A p : /\ p \in EntityPaths(d, def.pattern) <=>
                      Matches(def.pattern, p) /\ Res(s, p) # NoKey
                 /\ p \in EntityPaths(d, def.pattern) => At(d, p) = DocUnder(s, Res(s, p))
      BY <2>1, EntityPathsAre
    <2>3. QED
      BY <2>2 DEF s, D, d
  <1>3. \A p : p \in EntityPaths(doc, def.pattern) <=>
                 EntityAt(Table, def.pattern, p, Res(Table, p))
    BY <1>2 DEF EntityAt
  <1>4. ASSUME NEW p, p \in EntityPaths(doc, def.pattern)
        PROVE  DocEntry(def, p) = Pair(Table, def, Res(Table, p))
    <2> DEFINE k == Res(Table, p)
               c == At(doc, p)
               e == Entity(p, c)
    <2>1. c = DocUnder(Table, k) /\ EntityAt(Table, def.pattern, p, k)
      BY <1>2, <1>3, <1>4
    <2>2. Columns(Table, def, k) = DocColumns(def, c)
      <3> HIDE DEF k, c
      <3>1. Columns(Table, def, k) = DocColumns(def, DocUnder(Table, k))
        BY <2>1, EntityIs
      <3>2. QED
        BY <2>1, <3>1
    <2>3. e.key = k /\ e.doc = c
      BY DEF Entity, Res
    <2> HIDE DEF k, c, e
    <2>4. DocPosting(def, e) = Pair(Table, def, k)
      BY <2>2, <2>3 DEF DocPosting, Pair, IndexKey
    <2>5. QED
      BY <2>4 DEF DocEntry, e, c, k
  <1>5. QED
    BY <1>2, <1>3, <1>4

(* The entries that the document implies are those that the table implies. *)
LEMMA PostingsAre ==
  ASSUME NowhereApart, IndexInv
  PROVE  \A x : x \in DocPostings(tracked) <=> \E def \in tracked : Entry(Table, def, x)
  <1>1. \A x : x \in DocPostings(tracked) <=>
                 \E def \in tracked : \E p \in EntityPaths(doc, def.pattern) : x = DocEntry(def, p)
    BY DEF DocPostings, DocEntities, DocEntry
  <1>2. ASSUME NEW x, NEW def \in tracked
        PROVE  (\E p \in EntityPaths(doc, def.pattern) : x = DocEntry(def, p)) <=>
                 Entry(Table, def, x)
    <2>1. ASSUME NEW p \in EntityPaths(doc, def.pattern), x = DocEntry(def, p)
          PROVE  Entry(Table, def, x)
      <3>1. EntityAt(Table, def.pattern, p, Res(Table, p)) /\ x = Pair(Table, def, Res(Table, p))
        BY <2>1, DocEntityIs
      <3>2. QED
        BY <3>1 DEF Entry, AnyEntity
    <2>2. ASSUME Entry(Table, def, x)
          PROVE  \E p \in EntityPaths(doc, def.pattern) : x = DocEntry(def, p)
      <3>1. PICK k : AnyEntity(Table, def.pattern, k) /\ x = Pair(Table, def, k)
        BY <2>2 DEF Entry
      <3>2. PICK p : EntityAt(Table, def.pattern, p, k)
        BY <3>1 DEF AnyEntity
      <3>3. k = Res(Table, p)
        BY <3>2 DEF EntityAt
      <3>4. p \in EntityPaths(doc, def.pattern) /\ x = DocEntry(def, p)
        BY <3>1, <3>2, <3>3, DocEntityIs
      <3>5. QED
        BY <3>4
    <2>3. QED
      BY <2>1, <2>2
  <1>3. QED
    BY <1>1, <1>2

(* The entries of indexes in sight, as pairs.                              *)
LEMMA PostingsIs ==
  \A x, y : <<x, y>> \in Postings(tracked) <=>
              Posts(posting, x, y) /\ \E def \in tracked : x.index = def.name
  <1>1. QED
    BY DEF Postings, Posts

(* No entry is wrong, and none is missing unless a call has failed.        *)
LEMMA EntriesFit ==
  ASSUME NowhereApart, IndexInv
  PROVE  NoWrongEntry /\ EntriesShowDocument
  <1>1. /\ NoneWrong(posting, Table, tracked)
        /\ ~failed => NoneMissing(posting, Table, tracked)
    BY FitNow DEF FitTogether
  <1> DEFINE P == Postings(tracked)
             Q == DocPostings(tracked)
  <1>2. P \subseteq Q
    <2>1. ASSUME NEW z \in P PROVE z \in Q
      <3>1. PICK key \in DOMAIN posting : z = <<key, posting[key]>>
        BY <2>1 DEF Postings
      <3> DEFINE y == posting[key]
      <3>2. Posts(posting, key, y) /\ z = <<key, y>>
        BY <3>1 DEF Posts
      <3> HIDE DEF y
      <3>3. PICK def \in tracked : key.index = def.name
        BY <2>1, <3>2, PostingsIs
      <3>4. Entry(Table, def, <<key, y>>)
        BY <1>1, <3>2, <3>3 DEF NoneWrong
      <3>5. QED
        BY <3>2, <3>4, PostingsAre
    <2> HIDE DEF P, Q
    <2>2. QED
      BY <2>1
  <1>3. ASSUME ~failed PROVE Q \subseteq P
    <2>1. ASSUME NEW z \in Q PROVE z \in P
      <3>1. PICK def \in tracked : Entry(Table, def, z)
        BY <2>1, PostingsAre
      <3>2. PICK k : z = Pair(Table, def, k)
        BY <3>1 DEF Entry
      <3>3. z = <<z[1], z[2]>> /\ z[1].index = def.name
        BY <3>2, PairIs
      <3> DEFINE x == z[1]
                 y == z[2]
      <3> HIDE DEF x, y
      <3>4. z = <<x, y>> /\ Entry(Table, def, <<x, y>>) /\ x.index = def.name
        BY <3>1, <3>3 DEF x, y
      <3>5. Posts(posting, x, y)
        BY <1>1, <1>3, <3>4 DEF NoneMissing
      <3>6. QED
        BY <3>4, <3>5, PostingsIs
    <2> HIDE DEF P, Q
    <2>2. QED
      BY <2>1
  <1>4. QED
    BY <1>2, <1>3 DEF NoWrongEntry, EntriesShowDocument

(* No two entities of a unique index have the same columns.                *)
LEMMA UniqueFits ==
  ASSUME NowhereApart, IndexInv
  PROVE  UniqueIndexHolds
  <1>1. SUFFICES ASSUME ~failed, NEW def \in tracked, def.unique,
                        NEW e \in DocEntities(def), NEW f \in DocEntities(def),
                        DocColumns(def, e.doc) = DocColumns(def, f.doc)
                 PROVE  e = f
    BY DEF UniqueIndexHolds
  <1>2. PICK p \in EntityPaths(doc, def.pattern) : e = Entity(p, At(doc, p))
    BY DEF DocEntities
  <1>3. PICK q \in EntityPaths(doc, def.pattern) : f = Entity(q, At(doc, q))
    BY DEF DocEntities
  <1> DEFINE k == Res(Table, p)
             m == Res(Table, q)
  <1>4. /\ EntityAt(Table, def.pattern, p, k) /\ DocEntry(def, p) = Pair(Table, def, k)
        /\ EntityAt(Table, def.pattern, q, m) /\ DocEntry(def, q) = Pair(Table, def, m)
    BY DocEntityIs
  <1> DEFINE x == DocEntry(def, p)[1]
             y == DocEntry(def, q)[1]
  <1>5. DocEntry(def, p) = DocPosting(def, e) /\ DocEntry(def, q) = DocPosting(def, f)
    BY <1>2, <1>3 DEF DocEntry
  <1>6. x = y
    <2>1. x = [index |-> def.name, cols |-> DocColumns(def, e.doc), entity |-> NoKey]
      BY <1>1, <1>5 DEF DocPosting
    <2>2. y = [index |-> def.name, cols |-> DocColumns(def, f.doc), entity |-> NoKey]
      BY <1>1, <1>5 DEF DocPosting
    <2>3. QED
      BY <1>1, <2>1, <2>2
  <1>7. DocEntry(def, p) = <<x, k>> /\ DocEntry(def, q) = <<y, m>>
    BY <1>4 DEF Pair
  <1> HIDE DEF k, m, x, y
  <1>8. Posts(posting, x, k) /\ Posts(posting, y, m)
    <2>1. Entry(Table, def, <<x, k>>) /\ Entry(Table, def, <<y, m>>)
      BY <1>4, <1>7 DEF Entry, AnyEntity
    <2>2. QED
      BY <1>1, <2>1, FitNow DEF FitTogether, NoneMissing
  <1>9. k = m
    BY <1>6, <1>8 DEF Posts
  <1>10. p = q
    <2>1. Tree(Table) /\ p \in Seq(Segment) /\ q \in Seq(Segment)
          /\ Res(Table, p) = Res(Table, q) /\ Res(Table, p) # NoKey
      BY <1>4, <1>9, InvParts DEF EntityAt, Matches, k, m
    <2>2. QED
      BY <2>1, OnePath
  <1>11. QED
    BY <1>2, <1>3, <1>10

------------------------------------------------------------------------------
(* Types                                                                   *)

(* What a path leads to in a packed document is flat, or nothing.          *)
LEMMA FlatAt ==
  ASSUME NowhereApart, NEW d, Flat(d), NEW p \in Seq(Segment)
  PROVE  Flat(At(d, p)) \/ At(d, p) = Nowhere
  <1> DEFINE S == {i \in Nat : \A q \in Seq(Segment) :
                     Len(q) = i => Flat(At(d, q)) \/ At(d, q) = Nowhere}
  <1>1. 0 \in S
    <2>1. ASSUME NEW q \in Seq(Segment), Len(q) = 0 PROVE Flat(At(d, q))
      <3>1. q = <<>>
        BY <2>1, EmptySeq
      <3>2. At(d, q) = d
        BY <3>1, AtNone
      <3>3. QED
        BY <3>2
    <2>2. QED
      BY <2>1
  <1>2. ASSUME NEW i \in Nat, i \in S PROVE i + 1 \in S
    <2>1. ASSUME NEW q \in Seq(Segment), Len(q) = i + 1
          PROVE  Flat(At(d, q)) \/ At(d, q) = Nowhere
      <3> DEFINE f == Front(q)
                 seg == Last(q)
                 x == At(d, f)
      <3>1. q # <<>>
        BY <2>1, LenProperties
      <3>2. f \in Seq(Segment) /\ Len(f) = i /\ seg \in Segment
        <4>1. f \in Seq(Segment) /\ Len(f) = Len(q) - 1
          BY <3>1, PathFront
        <4>2. seg \in Segment
          BY <3>1, PathFront
        <4>3. QED
          BY <2>1, <4>1, <4>2
      <3>3. Flat(x) \/ x = Nowhere
        BY <1>2, <3>2
      <3>4. At(d, q) = Kid(x, seg)
        BY <3>1, AtSnoc
      <3> HIDE DEF f, seg, x
      <3>5. CASE Flat(x)
        <4>1. Kid(x, seg) \in Leaves \cup {Nowhere}
          BY <3>2, <3>5, FlatKid
        <4>2. QED
          BY <3>4, <4>1 DEF Flat
      <3>6. CASE x = Nowhere
        <4>1. Kid(x, seg) = Nowhere
          BY <3>6, NowhereBelow
        <4>2. QED
          BY <3>4, <4>1
      <3>7. QED
        BY <3>3, <3>5, <3>6
    <2>2. QED
      BY <2>1
  <1> HIDE DEF S
  <1>3. Nat \subseteq S
    BY <1>1, <1>2, SetInduction
  <1>4. Len(p) \in S
    BY <1>3, LenProperties
  <1>5. QED
    BY <1>4 DEF S

(* A column holds the value of a leaf, or nothing.                         *)
LEMMA ScalarIs ==
  ASSUME NowhereApart, NEW s, Tree(s), NEW k, NEW path \in Seq(Segment)
  PROVE  ColumnScalar(s, k, path) \in Values \cup {Null}
  <1>1. ASSUME NEW m \in DOMAIN s.node PROVE NodeOK(s.node[m])
    BY DEF Tree, Sound, Shape
  <1>2. CASE HasKind(s, k, "packed")
    <2>1. k \in DOMAIN s.node /\ s.node[k].kind = "packed"
      BY <1>2 DEF HasKind, Live
    <2> DEFINE d == s.node[k].doc
               x == At(d, path)
    <2>2. Flat(d)
      BY <1>1, <2>1 DEF NodeOK
    <2> HIDE DEF d
    <2>3. Flat(x) \/ x = Nowhere
      BY <2>2, FlatAt
    <2> HIDE DEF x
    <2>4. ScalarOr(x) \in Values \cup {Null}
      <3>1. CASE Flat(x)
        BY <3>1, FlatIs DEF ScalarOr
      <3>2. CASE x = Nowhere
        <4>1. ~Is(x, "leaf")
          BY <3>2 DEF Is
        <4>2. QED
          BY <4>1 DEF ScalarOr
      <3>3. QED
        BY <2>3, <3>1, <3>2
    <2>5. QED
      BY <1>2, <2>4 DEF ColumnScalar, x, d
  <1>3. CASE ~HasKind(s, k, "packed")
    <2> DEFINE m == ResolveFrom(s, k, path)
    <2>1. ColumnScalar(s, k, path) = IF HasKind(s, m, "leaf") THEN s.node[m].val ELSE Null
      BY <1>3 DEF ColumnScalar
    <2> HIDE DEF m
    <2>2. CASE HasKind(s, m, "leaf")
      <3>1. m \in DOMAIN s.node /\ s.node[m].kind = "leaf"
        BY <2>2 DEF HasKind, Live
      <3>2. PICK v \in Values : s.node[m] = LeafNode(v)
        BY <1>1, <3>1 DEF NodeOK
      <3>3. s.node[m].val = v
        BY <3>2 DEF LeafNode
      <3>4. QED
        BY <2>1, <2>2, <3>3
    <2>3. QED
      BY <2>1, <2>2
  <1>4. QED
    BY <1>2, <1>3

(* The columns of an entity are scalars.                                   *)
LEMMA ColumnsTyped ==
  ASSUME NowhereApart, NEW s, Tree(s), NEW def, WellDef(def), NEW k
  PROVE  Columns(s, def, k) \in [DOMAIN def.columns -> Values \cup {Null}]
  <1>1. ASSUME NEW c \in DOMAIN def.columns
        PROVE  ColumnScalar(s, k, def.columns[c].path) \in Values \cup {Null}
    <2> DEFINE path == def.columns[c].path
    <2>1. path \in Seq(Segment)
      BY ColumnsWell
    <2> HIDE DEF path
    <2>2. ColumnScalar(s, k, path) \in Values \cup {Null}
      BY <2>1, ScalarIs
    <2>3. QED
      BY <2>2 DEF path
  <1>2. QED
    BY <1>1 DEF Columns

(* What the type invariant says of the entries, those of indexes out of    *)
(* sight included.                                                         *)
LEMMA TypeFits ==
  ASSUME NowhereApart, IndexInv
  PROVE  IndexedTypeOK
  <1>1. /\ Once(posting, indexes) /\ WellDefs(indexes)
        /\ indexes \subseteq Defs /\ tracked \subseteq indexes
    BY FitNow DEF FitTogether
  <1>2. ASSUME NEW key \in DOMAIN posting
        PROVE  /\ posting[key] \in Nat
               /\ \E def \in indexes :
                    /\ key.index = def.name
                    /\ key.cols \in [DOMAIN def.columns -> Values \cup {Null}]
                    /\ key.entity = IF def.unique THEN NoKey ELSE posting[key]
    <2> DEFINE y == posting[key]
               z == <<key, y>>
    <2>1. Posts(posting, key, y)
      BY DEF Posts
    <2> HIDE DEF y
    <2>2. PICK def \in indexes : \E s : Tree(s) /\ Entry(s, def, z)
      BY <1>1, <2>1 DEF Once
    <2>3. PICK s : Tree(s) /\ Entry(s, def, z)
      BY <2>2
    <2>4. PICK k : AnyEntity(s, def.pattern, k) /\ z = Pair(s, def, k)
      BY <2>3 DEF Entry
    <2>5. k \in Nat /\ WellDef(def)
      BY <1>1, <2>3, <2>4, EntityReached DEF AnyEntity, WellDefs
    <2>6. z[1] = key /\ z[2] = y
      OBVIOUS
    <2> HIDE DEF z
    <2>7. /\ key.index = def.name /\ y = k
          /\ key.entity = IF def.unique THEN NoKey ELSE k
          /\ key.cols = Columns(s, def, k)
      BY <2>4, <2>6, PairIs
    <2>8. key.cols \in [DOMAIN def.columns -> Values \cup {Null}]
      BY <2>3, <2>5, <2>7, ColumnsTyped
    <2>9. QED
      BY <2>5, <2>7, <2>8 DEF y
  <1>3. QED
    BY <1>1, <1>2 DEF IndexedTypeOK

(* An index entry is under the key that index_key makes for a registered   *)
(* index: a scalar for each column, and the entity, or none if the index   *)
(* is unique.                                                              *)
THEOREM IndexedTypes ==
  ASSUME Guarded
  PROVE  IndexedSpec => []IndexedTypeOK
  <1>1. IndexInv => IndexedTypeOK
    BY TypeFits DEF Guarded
  <1>2. IndexedSpec => []IndexInv
    BY IndexesFit
  <1>3. QED
    BY <1>1, <1>2, PTL

(* Delete before the change and insert after it covers every case: unless  *)
(* a call has failed, the entries of the indexes that maintenance has had  *)
(* in sight are exactly those that the document of the table implies.      *)
THEOREM IndexesShowDocument ==
  ASSUME Guarded
  PROVE  IndexedSpec => []EntriesShowDocument
  <1>1. IndexInv => EntriesShowDocument
    BY EntriesFit DEF Guarded
  <1>2. IndexedSpec => []IndexInv
    BY IndexesFit
  <1>3. QED
    BY <1>1, <1>2, PTL

(* A call that fails in delete, in the change or in insert leaves no entry *)
(* of an index in sight that the document does not imply, and nor do the   *)
(* calls after it.                                                         *)
THEOREM FailedCallsLeaveNoWrongEntry ==
  ASSUME Guarded
  PROVE  IndexedSpec => []NoWrongEntry
  <1>1. IndexInv => NoWrongEntry
    BY EntriesFit DEF Guarded
  <1>2. IndexedSpec => []IndexInv
    BY IndexesFit
  <1>3. QED
    BY <1>1, <1>2, PTL

(* guard_unique keeps unique indexes: unless a call has failed, no two     *)
(* entities of one that maintenance has had in sight have the same         *)
(* columns.                                                                *)
THEOREM UniqueIndexesAreUnique ==
  ASSUME Guarded
  PROVE  IndexedSpec => []UniqueIndexHolds
  <1>1. IndexInv => UniqueIndexHolds
    BY UniqueFits DEF Guarded
  <1>2. IndexedSpec => []IndexInv
    BY IndexesFit
  <1>3. QED
    BY <1>1, <1>2, PTL

------------------------------------------------------------------------------
(* The contract of index maintenance                                       *)

(* The columns of an index for an entity, if it covers it.                 *)
EntryTuple(def, e) ==
  IF def \in tracked /\ AnyEntity(Table, def.pattern, e)
  THEN Columns(Table, def, e) ELSE Uncovered

(* The tuples of an index are the columns of its entities.                 *)
LEMMA TuplesAre ==
  ASSUME IndexInv, NEW def \in Defs
  PROVE  EntityTuples(def) = [e \in Keys \cup {ROOT} |-> EntryTuple(def, e)]
  <1> DEFINE E == Keys \cup {ROOT}
             tab == Table
             set == Covered(def)
             f == [e \in E |-> IF e \in set THEN Columns(tab, def, e) ELSE Uncovered]
  <1>1. EntityTuples(def) = f
    <2>1. EntityTuples(def) =
            CHOOSE tuples \in {TuplesIn(s, def, covered) : s \in {tab}, covered \in {set}} : TRUE
      BY DEF EntityTuples
    <2>2. TuplesIn(tab, def, set) = f
      BY DEF TuplesIn
    <2> HIDE DEF f, set, tab
    <2>3. {TuplesIn(s, def, covered) : s \in {tab}, covered \in {set}} = {f}
      BY <2>2
    <2>4. EntityTuples(def) = CHOOSE tuples \in {f} : TRUE
      BY <2>1, <2>3
    <2>5. QED
      BY <2>4
  <1>2. ASSUME NEW e
        PROVE  e \in set <=> def \in tracked /\ AnyEntity(Table, def.pattern, e)
    <2>1. CASE def \in tracked
      <3> DEFINE pattern == def.pattern
      <3>1. Tree(tab) /\ pattern \in Seq(PatternParts)
        BY <2>1, InvParts DEF PlainDefs, PlainDef
      <3>2. set = ToSet(AffectedEntities(tab, pattern, <<>>))
        BY <2>1 DEF Covered
      <3> HIDE DEF tab, pattern, set
      <3>3. e \in ToSet(AffectedEntities(tab, pattern, <<>>)) <=> AnyEntity(tab, pattern, e)
        BY <3>1, AffectedAll, PlainParts
      <3>4. QED
        BY <2>1, <3>2, <3>3 DEF tab, pattern
    <2>2. CASE def \notin tracked
      BY <2>2 DEF Covered
    <2>3. QED
      BY <2>1, <2>2
  <1> HIDE DEF set
  <1>3. \A e \in E : (IF e \in set THEN Columns(tab, def, e) ELSE Uncovered) = EntryTuple(def, e)
    BY <1>2 DEF EntryTuple
  <1>4. QED
    BY <1>1, <1>3

(* The columns of an entity are a tuple of the contract, and never the one *)
(* that says that an index does not cover it.                              *)
LEMMA TupleIs ==
  ASSUME NowhereApart, IndexInv, NEW def \in tracked, NEW k
  PROVE  /\ Columns(Table, def, k) \in ColumnTuples
         /\ Columns(Table, def, k) # Uncovered
  <1> DEFINE x == Columns(Table, def, k)
             V == Values \cup {Null}
  <1>1. Tree(Table) /\ WellDef(def) /\ def \in Defs
    BY InvParts, FitNow DEF FitTogether, WellDefs
  <1>2. x \in [DOMAIN def.columns -> V]
    BY <1>1, ColumnsTyped
  <1> HIDE DEF x
  <1>3. x \in ColumnTuples
    BY <1>1, <1>2 DEF ColumnTuples
  <1>4. QED
    BY <1>3, UncoveredAssumption DEF x

(* The tuples and the entries as the contract has them.                    *)
TuplesNow  == [def \in Defs |-> EntityTuples(def)]
EntriesNow == {<<x[1], posting[x[2]], x[2].cols>> : x \in TrackedEntries}
ImpliedNow == Contract!Implied(TuplesNow, Keys \cup {ROOT})

(* Each index has one tuple for every entity.                              *)
LEMMA TuplesTyped ==
  ASSUME NowhereApart, IndexInv
  PROVE  TuplesNow \in Contract!Assignments
  <1> DEFINE E == Keys \cup {ROOT}
             T == ColumnTuples \cup {Uncovered}
  <1>1. ASSUME NEW def \in Defs PROVE EntityTuples(def) \in [E -> T]
    <2>1. \A e : EntryTuple(def, e) \in T
      BY TupleIs DEF EntryTuple
    <2> HIDE DEF E, T
    <2>2. EntityTuples(def) = [e \in E |-> EntryTuple(def, e)]
      BY TuplesAre DEF E
    <2>3. QED
      BY <2>1, <2>2
  <1>2. Contract!Assignments = [Defs -> [E -> T]]
    BY DEF Contract!Assignments
  <1> HIDE DEF E, T
  <1>3. TuplesNow \in [Defs -> [E -> T]]
    BY <1>1 DEF TuplesNow
  <1>4. QED
    BY <1>2, <1>3

(* The entry of an entity as the contract has it.                          *)
Told(def, k) == <<def, k, Columns(Table, def, k)>>

(* What the contract implies are the entries of the entities.              *)
LEMMA ImpliedAre ==
  ASSUME NowhereApart, IndexInv
  PROVE  \A x : x \in ImpliedNow <=>
           \E def \in tracked : \E k : AnyEntity(Table, def.pattern, k) /\ x = Told(def, k)
  <1> DEFINE E == Keys \cup {ROOT}
  <1>1. \A x : x \in ImpliedNow <=>
                 \E def \in Defs, e \in E :
                   x = <<def, e, TuplesNow[def][e]>> /\ x[3] # Uncovered
    BY DEF ImpliedNow, Contract!Implied
  <1>2. ASSUME NEW def \in Defs, NEW e \in E
        PROVE  TuplesNow[def][e] = EntryTuple(def, e)
    <2>1. TuplesNow[def] = EntityTuples(def)
      BY DEF TuplesNow
    <2> HIDE DEF E
    <2>2. EntityTuples(def) = [x \in E |-> EntryTuple(def, x)]
      BY TuplesAre DEF E
    <2>3. QED
      BY <2>1, <2>2
  <1>3. tracked \subseteq Defs
    BY FitNow DEF FitTogether
  <1>4. ASSUME NEW x, x \in ImpliedNow
        PROVE  \E def \in tracked : \E k : AnyEntity(Table, def.pattern, k) /\ x = Told(def, k)
    <2>1. PICK def \in Defs, e \in E : x = <<def, e, TuplesNow[def][e]>> /\ x[3] # Uncovered
      BY <1>1, <1>4
    <2> DEFINE c == EntryTuple(def, e)
    <2>2. x = <<def, e, c>> /\ c # Uncovered
      <3>1. TuplesNow[def][e] = c
        BY <1>2
      <3> HIDE DEF c
      <3>2. QED
        BY <2>1, <3>1
    <2>3. def \in tracked /\ AnyEntity(Table, def.pattern, e) /\ c = Columns(Table, def, e)
      BY <2>2 DEF EntryTuple
    <2>4. QED
      BY <2>2, <2>3 DEF Told
  <1>5. ASSUME NEW x, NEW def \in tracked, NEW k, AnyEntity(Table, def.pattern, k),
               x = Told(def, k)
        PROVE  x \in ImpliedNow
    <2>1. PICK r : EntityAt(Table, def.pattern, r, k)
      BY <1>5 DEF AnyEntity
    <2>2. k \in E /\ def \in Defs
      BY <1>3, <2>1, EntityIs
    <2> DEFINE c == Columns(Table, def, k)
    <2>3. c # Uncovered
      BY TupleIs
    <2>4. TuplesNow[def][k] = c
      BY <1>2, <1>5, <2>2 DEF EntryTuple
    <2>5. x = <<def, k, c>>
      BY <1>5 DEF Told
    <2> HIDE DEF c, E
    <2>6. x = <<def, k, TuplesNow[def][k]>> /\ x[3] # Uncovered
      BY <2>3, <2>4, <2>5
    <2>7. QED
      BY <1>1, <2>2, <2>6
  <1>6. QED
    BY <1>4, <1>5

(* The entries are implied, and all that are implied are there unless a    *)
(* call has failed.                                                        *)
LEMMA EntriesAreTold ==
  ASSUME NowhereApart, IndexInv
  PROVE  /\ EntriesNow \subseteq ImpliedNow
         /\ ~failed => ImpliedNow \subseteq EntriesNow
  <1>1. /\ NoneWrong(posting, Table, tracked)
        /\ ~failed => NoneMissing(posting, Table, tracked)
    BY FitNow DEF FitTogether
  <1>2. \A x : x \in EntriesNow <=>
                 \E def \in tracked : \E key \in DOMAIN posting :
                   key.index = def.name /\ x = <<def, posting[key], key.cols>>
    <2>1. ASSUME NEW x \in EntriesNow
          PROVE  \E def \in tracked : \E key \in DOMAIN posting :
                   key.index = def.name /\ x = <<def, posting[key], key.cols>>
      <3>1. PICK z \in TrackedEntries : x = <<z[1], posting[z[2]], z[2].cols>>
        BY <2>1 DEF EntriesNow
      <3>2. z[1] \in tracked /\ z[2] \in DOMAIN posting /\ z[2].index = z[1].name
        BY <3>1 DEF TrackedEntries
      <3>3. QED
        BY <3>1, <3>2
    <2>2. ASSUME NEW def \in tracked, NEW key \in DOMAIN posting, key.index = def.name
          PROVE  <<def, posting[key], key.cols>> \in EntriesNow
      <3> DEFINE z == <<def, key>>
      <3>1. z[1] = def /\ z[2] = key /\ z \in tracked \X DOMAIN posting
        OBVIOUS
      <3> HIDE DEF z
      <3>2. z \in TrackedEntries
        BY <2>2, <3>1 DEF TrackedEntries
      <3>3. <<def, posting[key], key.cols>> = <<z[1], posting[z[2]], z[2].cols>>
        BY <3>1
      <3>4. QED
        BY <3>2, <3>3 DEF EntriesNow
    <2>3. QED
      BY <2>1, <2>2
  <1>3. ASSUME NEW x \in EntriesNow PROVE x \in ImpliedNow
    <2>1. PICK def \in tracked : \E key \in DOMAIN posting :
            key.index = def.name /\ x = <<def, posting[key], key.cols>>
      BY <1>2, <1>3
    <2>2. PICK key \in DOMAIN posting :
            key.index = def.name /\ x = <<def, posting[key], key.cols>>
      BY <2>1
    <2> DEFINE y == posting[key]
               z == <<key, y>>
    <2>3. Posts(posting, key, y) /\ x = <<def, y, key.cols>>
      BY <2>2 DEF Posts
    <2> HIDE DEF y
    <2>4. Entry(Table, def, z)
      BY <1>1, <2>2, <2>3 DEF NoneWrong
    <2>5. PICK k : AnyEntity(Table, def.pattern, k) /\ z = Pair(Table, def, k)
      BY <2>4 DEF Entry
    <2>6. z[1] = key /\ z[2] = y
      OBVIOUS
    <2> HIDE DEF z
    <2>7. y = k /\ key.cols = Columns(Table, def, k)
      BY <2>5, <2>6, PairIs
    <2>8. x = Told(def, k)
      BY <2>3, <2>7 DEF Told
    <2>9. QED
      BY <2>5, <2>8, ImpliedAre
  <1>4. ASSUME ~failed, NEW x \in ImpliedNow PROVE x \in EntriesNow
    <2>1. PICK def \in tracked : \E k : AnyEntity(Table, def.pattern, k) /\ x = Told(def, k)
      BY <1>4, ImpliedAre
    <2>2. PICK k : AnyEntity(Table, def.pattern, k) /\ x = Told(def, k)
      BY <2>1
    <2> DEFINE z == Pair(Table, def, k)
               key == z[1]
    <2>3. z = <<key, k>> /\ key.index = def.name /\ key.cols = Columns(Table, def, k)
      BY PairIs
    <2>4. Entry(Table, def, z)
      BY <2>2 DEF Entry
    <2> HIDE DEF z, key
    <2>5. Posts(posting, key, k)
      BY <1>1, <1>4, <2>3, <2>4 DEF NoneMissing
    <2>6. key \in DOMAIN posting /\ posting[key] = k
      BY <2>5 DEF Posts
    <2>7. x = <<def, posting[key], key.cols>>
      BY <2>2, <2>3, <2>6 DEF Told
    <2>8. QED
      BY <1>2, <2>3, <2>6, <2>7
  <1>5. QED
    BY <1>3, <1>4

(* No two entities of a unique index have the same tuple.                  *)
Alone ==
  \A x, y \in ImpliedNow : Contract!SamePlace(x, y) => x[2] = y[2]

(* What the invariant says in terms of the contract.                       *)
Fulfilled ==
  /\ TuplesNow \in Contract!Assignments
  /\ EntriesNow \subseteq ImpliedNow
  /\ ~failed => ImpliedNow \subseteq EntriesNow
  /\ ~failed => Alone
  /\ failed \in BOOLEAN

(* Entities of the same index with the same columns are one, unless a call *)
(* has failed.                                                             *)
LEMMA ToldAlone ==
  ASSUME NowhereApart, IndexInv, ~failed
  PROVE  Alone
  <1>1. SUFFICES ASSUME NEW x \in ImpliedNow, NEW y \in ImpliedNow, Contract!SamePlace(x, y)
                 PROVE  x[2] = y[2]
    BY DEF Alone
  <1>2. PICK d \in tracked : \E k : AnyEntity(Table, d.pattern, k) /\ x = Told(d, k)
    BY ImpliedAre
  <1>3. PICK k : AnyEntity(Table, d.pattern, k) /\ x = Told(d, k)
    BY <1>2
  <1>4. PICK e \in tracked : \E m : AnyEntity(Table, e.pattern, m) /\ y = Told(e, m)
    BY ImpliedAre
  <1>5. PICK m : AnyEntity(Table, e.pattern, m) /\ y = Told(e, m)
    BY <1>4
  <1> DEFINE a == Columns(Table, d, k)
             b == Columns(Table, e, m)
  <1>6. /\ x[1] = d /\ x[2] = k /\ x[3] = a
        /\ y[1] = e /\ y[2] = m /\ y[3] = b
    BY <1>3, <1>5 DEF Told
  <1> HIDE DEF a, b
  <1>7. d = e /\ a = b /\ (d.unique \/ k = m)
    <2> DEFINE U == {def \in Defs : def.unique}
    <2>1. x[1] = y[1] /\ x[3] = y[3] /\ (x[1] \in U \/ x[2] = y[2])
      BY <1>1 DEF Contract!SamePlace
    <2>2. QED
      BY <1>6, <2>1
  <1>8. ASSUME k # m PROVE FALSE
    <2>1. d.unique
      BY <1>7, <1>8
    <2> DEFINE p == IndexKey(Table, d, k)
               q == IndexKey(Table, d, m)
    <2>2. Pair(Table, d, k) = <<p, k>> /\ Pair(Table, d, m) = <<q, m>>
      BY DEF Pair
    <2>3. p = q
      <3>1. p = [index |-> d.name, cols |-> Columns(Table, d, k), entity |-> NoKey]
        BY <2>1 DEF IndexKey
      <3>2. q = [index |-> d.name, cols |-> Columns(Table, d, m), entity |-> NoKey]
        BY <2>1 DEF IndexKey
      <3>3. Columns(Table, d, k) = Columns(Table, d, m)
        BY <1>7 DEF a, b
      <3>4. QED
        BY <3>1, <3>2, <3>3
    <2> HIDE DEF p, q
    <2>4. NoneMissing(posting, Table, tracked)
      BY FitNow DEF FitTogether
    <2>5. Entry(Table, d, <<p, k>>) /\ Entry(Table, d, <<q, m>>)
      BY <1>3, <1>5, <1>7, <2>2 DEF Entry
    <2>6. Posts(posting, p, k) /\ Posts(posting, q, m)
      BY <2>4, <2>5 DEF NoneMissing
    <2>7. QED
      BY <1>8, <2>3, <2>6 DEF Posts
  <1>9. QED
    BY <1>6, <1>8

(* The invariant fulfils the contract.                                     *)
LEMMA InvFulfils ==
  ASSUME NowhereApart, IndexInv
  PROVE  Fulfilled
  <1>1. failed \in BOOLEAN
    BY DEF IndexInv
  <1>2. QED
    BY <1>1, TuplesTyped, EntriesAreTold, ToldAlone DEF Fulfilled

(* Before the first call no index covers anything.                         *)
LEMMA ContractStarts ==
  ASSUME IndexedInit
  PROVE  Contract!Init
  <1>1. IndexInv
    BY IndexedStarts
  <1>2. tracked = {} /\ failed = FALSE
    BY DEF IndexedInit, Init
  <1> DEFINE E == Keys \cup {ROOT}
  <1>3. ASSUME NEW def \in Defs PROVE EntityTuples(def) = [e \in E |-> Uncovered]
    <2>1. \A e : EntryTuple(def, e) = Uncovered
      BY <1>2 DEF EntryTuple
    <2> HIDE DEF E
    <2>2. EntityTuples(def) = [e \in E |-> EntryTuple(def, e)]
      BY <1>1, TuplesAre DEF E
    <2>3. QED
      BY <2>1, <2>2
  <1>4. [def \in Defs |-> EntityTuples(def)] = [def \in Defs |-> [e \in E |-> Uncovered]]
    BY <1>3
  <1>5. {<<x[1], posting[x[2]], x[2].cols>> : x \in TrackedEntries} = {}
    <2>1. TrackedEntries = {}
      BY <1>2 DEF TrackedEntries
    <2>2. QED
      BY <2>1
  <1>6. QED
    BY <1>2, <1>4, <1>5 DEF Contract!Init

(* A call that has failed is remembered.                                   *)
LEMMA FailureStays ==
  ASSUME [IndexedNext]_allVars, failed \in BOOLEAN, failed' \in BOOLEAN, ~failed'
  PROVE  ~failed
  <1>1. ASSUME NEW c, NEW t, Commit(c, t) \/ CommitStore(c, t) PROVE ~failed
    BY <1>1 DEF Commit, CommitStore, Write, Finish
  <1>2. CASE UNCHANGED allVars
    BY <1>2 DEF allVars, vars
  <1>3. CASE \E p \in Paths :
               \/ \E v \in Values : IndexedPut(p, v)
               \/ IndexedRemove(p)
               \/ \E d \in Stored : IndexedStore(p, d)
               \/ IndexedFetchMut(p) \/ IndexedClear(p)
               \/ IndexedSwap(p) \/ IndexedSwapRemove(p)
               \/ p \in Inner /\ \E d \in Stored : IndexedInsertElement(p, d)
               \/ p \in Inner /\ \E d \in Stored, n \in Names : IndexedInsertEntry(p, n, d)
    <2>1. PICK p \in Paths :
               \/ \E v \in Values : IndexedPut(p, v)
               \/ IndexedRemove(p)
               \/ \E d \in Stored : IndexedStore(p, d)
               \/ IndexedFetchMut(p) \/ IndexedClear(p)
               \/ IndexedSwap(p) \/ IndexedSwapRemove(p)
               \/ p \in Inner /\ \E d \in Stored : IndexedInsertElement(p, d)
               \/ p \in Inner /\ \E d \in Stored, n \in Names : IndexedInsertEntry(p, n, d)
      BY <1>3
    <2>2. CASE \E v \in Values : IndexedPut(p, v)
      BY <1>1, <2>2 DEF IndexedPut
    <2>3. CASE IndexedRemove(p)
      BY <1>1, <2>3 DEF IndexedRemove
    <2>4. CASE \E d \in Stored : IndexedStore(p, d)
      BY <1>1, <2>4 DEF IndexedStore
    <2>5. CASE IndexedFetchMut(p)
      BY <1>1, <2>5 DEF IndexedFetchMut
    <2>6. CASE IndexedClear(p)
      BY <1>1, <2>6 DEF IndexedClear
    <2>7. CASE IndexedSwap(p)
      BY <1>1, <2>7 DEF IndexedSwap
    <2>8. CASE IndexedSwapRemove(p)
      BY <1>1, <2>8 DEF IndexedSwapRemove
    <2>9. CASE \E d \in Stored : IndexedInsertElement(p, d)
      BY <1>1, <2>9 DEF IndexedInsertElement
    <2>10. CASE \E d \in Stored, n \in Names : IndexedInsertEntry(p, n, d)
      BY <1>1, <2>10 DEF IndexedInsertEntry
    <2>11. QED
      BY <2>1, <2>2, <2>3, <2>4, <2>5, <2>6, <2>7, <2>8, <2>9, <2>10
  <1>4. CASE \E items \in Batches : IndexedStoreMany(items)
    BY <1>1, <1>4 DEF IndexedStoreMany
  <1>5. CASE \E def \in Defs : CreateIndex(def) \/ DropIndex(def)
    BY <1>5 DEF CreateIndex, DropIndex
  <1>6. QED
    BY <1>2, <1>3, <1>4, <1>5 DEF IndexedNext

(* A step between two states that fulfil the contract is one of the        *)
(* contract: maintenance may be thought to cover every entity.             *)
LEMMA ContractStep ==
  ASSUME Fulfilled, Fulfilled', ~failed' => ~failed
  PROVE  Contract!Next
  <1> DEFINE E == Keys \cup {ROOT}
             t == TuplesNow
             u == TuplesNow'
             old == ImpliedNow
             new == ImpliedNow'
             rest == E \ Contract!Touched(t, u)
  <1>1. Contract!Touched(t, u) \subseteq E
    BY DEF Contract!Touched
  <1>2. Contract!Touched(t, u) \cup rest = E
    BY <1>1
  <1>3. old = Contract!Implied(t, E) /\ new = Contract!Implied(u, E)
    BY DEF ImpliedNow
  <1>4. Contract!Dropped(old) = {}
    <2>1. EntriesNow \subseteq old
      BY DEF Fulfilled
    <2>2. \A x : Contract!SamePlace(x, x)
      BY DEF Contract!SamePlace
    <2> HIDE DEF old
    <2>3. Contract!Dropped(old) = {x \in EntriesNow : \A y \in old : ~Contract!SamePlace(x, y)}
      BY DEF Contract!Dropped, EntriesNow
    <2>4. QED
      BY <2>1, <2>2, <2>3
  <1>5. \/ /\ \A x \in new : ~Contract!Refused(x, {} \cup new)
           /\ EntriesNow' = {} \cup new /\ failed' = failed
        \/ EntriesNow' \subseteq {} \cup new /\ failed' = TRUE
    <2>1. CASE failed'
      BY <2>1 DEF Fulfilled
    <2>2. CASE ~failed'
      <3>1. EntriesNow' = new /\ failed' = failed
        BY <2>2 DEF Fulfilled
      <3>2. \A x, y \in new : Contract!SamePlace(x, y) => x[2] = y[2]
        BY <2>2 DEF Fulfilled, Alone
      <3> HIDE DEF new
      <3>3. \A x \in new : ~Contract!Refused(x, {} \cup new)
        BY <3>2 DEF Contract!Refused
      <3>4. QED
        BY <3>1, <3>3
    <2>3. QED
      BY <2>1, <2>2
  <1>6. u \in Contract!Assignments
    BY DEF Fulfilled
  <1>7. t = [def \in Defs |-> EntityTuples(def)] /\ u = [def \in Defs |-> EntityTuples(def)]'
    BY DEF TuplesNow
  <1>8. rest \in SUBSET (E \ Contract!Touched(t, u))
    OBVIOUS
  <1> HIDE DEF t, u, old, new, rest
  <1>9. \E others \in SUBSET (E \ Contract!Touched(t, u)) :
          LET affected == Contract!Touched(t, u) \cup others
          IN  \E kept \in {Contract!Dropped(Contract!Implied(t, affected))},
                 neu \in {Contract!Implied(u, affected)} :
                Contract!Mutate(kept, neu) \/ Contract!Fail(kept, neu)
    <2> DEFINE all == Contract!Touched(t, u) \cup rest
    <2>1. all = E
      BY <1>2
    <2> HIDE DEF all, E
    <2>2. Contract!Implied(t, all) = old /\ Contract!Implied(u, all) = new
      BY <1>3, <2>1
    <2>3. Contract!Dropped(Contract!Implied(t, all)) = {}
      BY <1>4, <2>2
    <2>4. \E kept \in {Contract!Dropped(Contract!Implied(t, all))},
             neu \in {Contract!Implied(u, all)} :
            Contract!Mutate(kept, neu) \/ Contract!Fail(kept, neu)
      BY <1>5, <2>2, <2>3 DEF Contract!Mutate, Contract!Fail, EntriesNow
    <2>5. QED
      BY <1>8, <2>4 DEF all
  <1>10. QED
    BY <1>6, <1>7, <1>9 DEF Contract!Next

(* Index maintenance on a tree does what the contract says of the indexes  *)
(* it has in sight: each call leaves the entries that the columns of its   *)
(* entities imply, or has failed and left some of them.                    *)
THEOREM TreeImplementsIndexContract ==
  ASSUME Guarded
  PROVE  IndexedSpec => ImplementsIndexContract
  <1>1. IndexedInit => Contract!Init
    BY ContractStarts DEF Guarded
  <1>2. IndexInv => Fulfilled
    BY InvFulfils DEF Guarded
  <1>3. Fulfilled /\ Fulfilled' /\ [IndexedNext]_allVars => [Contract!Next]_(Contract!vars)
    <2>1. SUFFICES ASSUME Fulfilled, Fulfilled', [IndexedNext]_allVars
                   PROVE  Contract!Next
      OBVIOUS
    <2>2. ~failed' => ~failed
      BY <2>1, FailureStays DEF Fulfilled
    <2>3. QED
      BY <2>1, <2>2, ContractStep
  <1>4. IndexedSpec => []IndexInv
    BY IndexesFit
  <1>5. IndexedSpec => Contract!Spec
    BY <1>1, <1>2, <1>3, <1>4, PTL DEF IndexedSpec, Contract!Spec
  <1>6. QED
    BY <1>5 DEF ImplementsIndexContract

------------------------------------------------------------------------------
(* The order of an index                                                   *)

(* Scalars are compared by their rank.                                     *)
Ranked == Values \cup {Null} \subseteq Int

(* A tuple of n scalars.                                                   *)
Scalars(n) == [1..n -> Values \cup {Null}]

(* At place i, the first where they differ, x is before y; a shorter tuple *)
(* is before those that it begins.                                         *)
PartsAt(def, x, n, y, m, i) ==
  /\ i \in 0..n /\ i < m
  /\ \A j \in 1..i : x[j] = y[j]
  /\ i < n => ValueBefore(def.columns[i + 1], x[i + 1], y[i + 1])

(* What begins alike.                                                      *)
LEMMA SamePrefix ==
  ASSUME NEW n \in Nat, NEW m \in Nat, NEW x \in Scalars(n), NEW y \in Scalars(m),
         NEW i \in 0..n, i <= m
  PROVE  Prefix(x, i) = Prefix(y, i) <=> \A j \in 1..i : x[j] = y[j]
  <1> DEFINE S == Values \cup {Null}
  <1>1. x \in Seq(S) /\ Len(x) = n /\ y \in Seq(S) /\ Len(y) = m
    BY DEF Scalars
  <1> HIDE DEF S
  <1>2. Prefix(x, i) = [j \in 1..i |-> x[j]] /\ Prefix(y, i) = [j \in 1..i |-> y[j]]
    BY <1>1 DEF Prefix
  <1>3. ASSUME Prefix(x, i) = Prefix(y, i), NEW j \in 1..i PROVE x[j] = y[j]
    <2>1. Prefix(x, i)[j] = x[j] /\ Prefix(y, i)[j] = y[j]
      BY <1>2
    <2> QED  BY <2>1, <1>3
  <1> QED  BY <1>2, <1>3

(* ColsBefore, place by place.                                             *)
LEMMA BeforeIs ==
  ASSUME NEW def, NEW n \in Nat, NEW m \in Nat, NEW x \in Scalars(n), NEW y \in Scalars(m)
  PROVE  ColsBefore(def, x, y) <=> \E i : PartsAt(def, x, n, y, m, i)
  <1>1. Len(x) = n /\ Len(y) = m
    BY DEF Scalars
  <1>2. \A i \in 0..n : i <= m => (Prefix(x, i) = Prefix(y, i) <=> \A j \in 1..i : x[j] = y[j])
    BY SamePrefix
  <1>3. ASSUME ColsBefore(def, x, y) PROVE \E i : PartsAt(def, x, n, y, m, i)
    <2>1. PICK i \in 0..n :
            /\ i <= m /\ Prefix(x, i) = Prefix(y, i)
            /\ i < m /\ (i < n => ValueBefore(def.columns[i + 1], x[i + 1], y[i + 1]))
      BY <1>1, <1>3 DEF ColsBefore
    <2>2. PartsAt(def, x, n, y, m, i)
      BY <2>1, <1>2 DEF PartsAt
    <2> QED  BY <2>2
  <1>4. ASSUME NEW i, PartsAt(def, x, n, y, m, i) PROVE ColsBefore(def, x, y)
    <2>1. i \in 0..n /\ i <= m /\ Prefix(x, i) = Prefix(y, i) /\ i < m
          /\ (i < n => ValueBefore(def.columns[i + 1], x[i + 1], y[i + 1]))
      BY <1>4, <1>2 DEF PartsAt
    <2> QED  BY <2>1, <1>1 DEF ColsBefore
  <1> QED  BY <1>3, <1>4

(* A set of numbers that has a member has a least one.                     *)
LEMMA LeastOf ==
  ASSUME NEW S \in SUBSET Nat, NEW n \in S
  PROVE  \E i \in S : \A j \in S : i <= j
  <1> DEFINE T == {m \in Nat : \A k \in Nat : k <= m /\ k \in S => \E i \in S : \A j \in S : i <= j}
  <1>1. 0 \in T
    OBVIOUS
  <1>2. \A m \in T : m + 1 \in T
    <2> SUFFICES ASSUME NEW m \in T, NEW k \in Nat, k <= m + 1, k \in S
                 PROVE  \E i \in S : \A j \in S : i <= j
      OBVIOUS
    <2>1. CASE \E j \in S : j <= m
      BY <2>1
    <2>2. CASE \A j \in S : ~(j <= m)
      <3>1. \A j \in S : k <= j
        BY <2>2
      <3> QED  BY <3>1
    <2> QED  BY <2>1, <2>2
  <1> HIDE DEF T
  <1>3. Nat \subseteq T
    BY <1>1, <1>2, SetInduction
  <1> QED  BY <1>3 DEF T

(* Of two tuples that differ, one is before the other.                     *)
LEMMA ColsTotal ==
  ASSUME Ranked, NEW def, NEW n \in Nat, NEW x \in Scalars(n), NEW y \in Scalars(n), x # y
  PROVE  ColsBefore(def, x, y) \/ ColsBefore(def, y, x)
  <1> DEFINE D == {j \in 1..n : x[j] # y[j]}
  <1>1. PICK k \in D : TRUE
    BY DEF Scalars
  <1>2. PICK i \in D : \A j \in D : i <= j
    <2>1. D \in SUBSET Nat
      OBVIOUS
    <2> HIDE DEF D
    <2> QED  BY <2>1, <1>1, LeastOf
  <1>3. /\ i - 1 \in 0..n /\ i - 1 < n
        /\ \A j \in 1..i - 1 : x[j] = y[j]
        /\ (i - 1) + 1 = i /\ x[i] # y[i]
    BY <1>2
  <1>4. x[i] \in Int /\ y[i] \in Int
    BY <1>2 DEF Scalars, Ranked
  <1>5. ValueBefore(def.columns[i], x[i], y[i]) \/ ValueBefore(def.columns[i], y[i], x[i])
    BY <1>3, <1>4 DEF ValueBefore
  <1>6. PartsAt(def, x, n, y, n, i - 1) \/ PartsAt(def, y, n, x, n, i - 1)
    BY <1>3, <1>5 DEF PartsAt
  <1> QED  BY <1>6, BeforeIs

(* No tuple is before itself.                                              *)
LEMMA ColsApart ==
  ASSUME Ranked, NEW def, NEW n \in Nat, NEW x \in Scalars(n)
  PROVE  ~ColsBefore(def, x, x)
  <1>1. ASSUME NEW i, PartsAt(def, x, n, x, n, i) PROVE FALSE
    <2>1. i \in 0..n /\ i < n /\ ValueBefore(def.columns[i + 1], x[i + 1], x[i + 1])
      BY <1>1 DEF PartsAt
    <2>2. x[i + 1] \in Int
      BY <2>1 DEF Scalars, Ranked
    <2> QED  BY <2>1, <2>2 DEF ValueBefore
  <1> QED  BY <1>1, BeforeIs

(* The order of tuples is transitive.                                      *)
LEMMA ColsFollow ==
  ASSUME Ranked, NEW def, NEW n \in Nat, NEW x \in Scalars(n), NEW y \in Scalars(n),
         NEW z \in Scalars(n), ColsBefore(def, x, y), ColsBefore(def, y, z)
  PROVE  ColsBefore(def, x, z)
  <1>1. PICK i : PartsAt(def, x, n, y, n, i)
    BY BeforeIs
  <1>2. PICK j : PartsAt(def, y, n, z, n, j)
    BY BeforeIs
  <1>3. /\ i \in 0..n /\ i < n /\ ValueBefore(def.columns[i + 1], x[i + 1], y[i + 1])
        /\ j \in 0..n /\ j < n /\ ValueBefore(def.columns[j + 1], y[j + 1], z[j + 1])
        /\ \A k \in 1..i : x[k] = y[k]
        /\ \A k \in 1..j : y[k] = z[k]
    BY <1>1, <1>2 DEF PartsAt
  <1>4. \A k \in 1..n : x[k] \in Int /\ y[k] \in Int /\ z[k] \in Int
    BY DEF Scalars, Ranked
  <1>5. CASE i < j
    <2>1. y[i + 1] = z[i + 1] /\ \A k \in 1..i : x[k] = z[k]
      BY <1>3, <1>5
    <2>2. PartsAt(def, x, n, z, n, i)
      BY <1>3, <2>1 DEF PartsAt
    <2> QED  BY <2>2, BeforeIs
  <1>6. CASE j < i
    <2>1. x[j + 1] = y[j + 1] /\ \A k \in 1..j : x[k] = z[k]
      BY <1>3, <1>6
    <2>2. PartsAt(def, x, n, z, n, j)
      BY <1>3, <2>1 DEF PartsAt
    <2> QED  BY <2>2, BeforeIs
  <1>7. CASE i = j
    <2>1. \A k \in 1..i : x[k] = z[k]
      BY <1>3, <1>7
    <2>2. ValueBefore(def.columns[i + 1], x[i + 1], z[i + 1])
      BY <1>3, <1>4, <1>7 DEF ValueBefore
    <2>3. PartsAt(def, x, n, z, n, i)
      BY <1>3, <2>1, <2>2 DEF PartsAt
    <2> QED  BY <2>3, BeforeIs
  <1> QED  BY <1>3, <1>5, <1>6, <1>7

(* Keys with as many columns as their index has.                           *)
IsKeys(def, n, S) ==
  \A key \in S : /\ key = [index |-> def.name, cols |-> key.cols, entity |-> key.entity]
                 /\ key.cols \in Scalars(n) /\ key.entity \in Int

(* The order of a set of keys.                                             *)
InLine(def, S) ==
  /\ \A x \in S : ~KeyBefore(def, x, x)
  /\ \A x, y, z \in S : KeyBefore(def, x, y) /\ KeyBefore(def, y, z) => KeyBefore(def, x, z)
  /\ \A x, y \in S : x # y => KeyBefore(def, x, y) \/ KeyBefore(def, y, x)

(* Keys are in line.                                                       *)
LEMMA KeysInLine ==
  ASSUME Ranked, NEW def, NEW n \in Nat, NEW S, IsKeys(def, n, S)
  PROVE  InLine(def, S)
  <1>1. \A x \in S : x.cols \in Scalars(n) /\ x.entity \in Int
    BY DEF IsKeys
  <1>2. ASSUME NEW x \in S PROVE ~KeyBefore(def, x, x)
    <2>1. ~ColsBefore(def, x.cols, x.cols)
      BY <1>1, ColsApart
    <2> QED  BY <1>1, <2>1 DEF KeyBefore
  <1>3. ASSUME NEW x \in S, NEW y \in S, NEW z \in S, KeyBefore(def, x, y), KeyBefore(def, y, z)
        PROVE  KeyBefore(def, x, z)
    <2>1. ColsBefore(def, x.cols, y.cols) /\ ColsBefore(def, y.cols, z.cols) =>
            ColsBefore(def, x.cols, z.cols)
      BY <1>1, ColsFollow
    <2>2. /\ ColsBefore(def, x.cols, y.cols) \/ (x.cols = y.cols /\ x.entity < y.entity)
          /\ ColsBefore(def, y.cols, z.cols) \/ (y.cols = z.cols /\ y.entity < z.entity)
      BY <1>3 DEF KeyBefore
    <2>3. x.entity < y.entity /\ y.entity < z.entity => x.entity < z.entity
      BY <1>1
    <2>4. ColsBefore(def, x.cols, z.cols) \/ (x.cols = z.cols /\ x.entity < z.entity)
      BY <2>1, <2>2, <2>3
    <2> QED  BY <2>4 DEF KeyBefore
  <1>4. ASSUME NEW x \in S, NEW y \in S, x # y
        PROVE  KeyBefore(def, x, y) \/ KeyBefore(def, y, x)
    <2>1. CASE x.cols = y.cols
      <3>1. x.entity # y.entity
        BY <1>4, <2>1 DEF IsKeys
      <3> QED  BY <3>1, <2>1, <1>1 DEF KeyBefore
    <2>2. CASE x.cols # y.cols
      <3>1. ColsBefore(def, x.cols, y.cols) \/ ColsBefore(def, y.cols, x.cols)
        BY <2>2, <1>1, ColsTotal
      <3> QED  BY <3>1 DEF KeyBefore
    <2> QED  BY <2>1, <2>2
  <1> QED  BY <1>2, <1>3, <1>4 DEF InLine

(* InOrder puts each key of a finite set in its place.                     *)
LEMMA PlacesAre ==
  ASSUME NEW def, NEW S, IsFiniteSet(S), InLine(def, S)
  PROVE  LET keys == InOrder(def, S)
         IN  /\ DOMAIN keys = 1..Cardinality(S) /\ Cardinality(S) \in Nat
             /\ \A i \in 1..Cardinality(S) : keys[i] \in S
             /\ \A key \in S : \E i \in 1..Cardinality(S) : keys[i] = key
             /\ \A i, j \in 1..Cardinality(S) : i < j => KeyBefore(def, keys[i], keys[j])
  <1> DEFINE n == Cardinality(S)
             Ahead(k) == {x \in S : KeyBefore(def, x, k)}
             rank == [k \in S |-> Cardinality(Ahead(k))]
             keys == InOrder(def, S)
  <1>1. n \in Nat
    BY FS_CardinalityType
  <1>2. ASSUME NEW k \in S
        PROVE  IsFiniteSet(Ahead(k)) /\ Cardinality(Ahead(k)) \in 0..n - 1
    <2>1. Ahead(k) \in SUBSET S /\ Ahead(k) # S
      BY DEF InLine
    <2> HIDE DEF Ahead
    <2>2. IsFiniteSet(Ahead(k)) /\ Cardinality(Ahead(k)) <= n /\ Cardinality(Ahead(k)) # n
      BY <2>1, FS_Subset
    <2>3. Cardinality(Ahead(k)) \in Nat
      BY <2>2, FS_CardinalityType
    <2> QED  BY <2>2, <2>3, <1>1
  <1>3. ASSUME NEW x \in S, NEW y \in S, KeyBefore(def, x, y)
        PROVE  Cardinality(Ahead(x)) < Cardinality(Ahead(y))
    <2>1. Ahead(x) \in SUBSET Ahead(y)
      BY <1>3 DEF InLine
    <2>2. Ahead(x) # Ahead(y)
      BY <1>3 DEF InLine
    <2>3. IsFiniteSet(Ahead(y)) /\ Cardinality(Ahead(x)) \in 0..n - 1 /\ Cardinality(Ahead(y)) \in 0..n - 1
      BY <1>2
    <2> HIDE DEF Ahead
    <2>4. Cardinality(Ahead(x)) <= Cardinality(Ahead(y)) /\ Cardinality(Ahead(x)) # Cardinality(Ahead(y))
      BY <2>1, <2>2, <2>3, FS_Subset
    <2> QED  BY <2>3, <2>4
  <1> HIDE DEF Ahead
  <1>4. \A k \in S : rank[k] \in 0..n - 1 /\ rank[k] = Cardinality(Ahead(k))
    BY <1>2
  <1>5. ASSUME NEW x \in S, NEW y \in S, rank[x] = rank[y] PROVE x = y
    <2>1. ~KeyBefore(def, x, y) /\ ~KeyBefore(def, y, x)
      BY <1>3, <1>4, <1>5
    <2> QED  BY <2>1 DEF InLine
  <1>6. rank \in Injection(S, 0..n - 1)
    BY <1>4, <1>5 DEF Injection, IsInjective
  <1>7. IsFiniteSet(0..n - 1) /\ Cardinality(0..n - 1) = n
    BY <1>1, FS_Interval
  <1>8. rank \in Surjection(S, 0..n - 1)
    BY <1>6, <1>7, FS_Injection
  <1>9. \A i \in 1..n : \E k \in S : Cardinality(Ahead(k)) = i - 1
    <2> SUFFICES ASSUME NEW i \in 1..n PROVE \E k \in S : Cardinality(Ahead(k)) = i - 1
      OBVIOUS
    <2>1. i - 1 \in 0..n - 1
      BY <1>1
    <2>2. PICK k \in S : rank[k] = i - 1
      BY <2>1, <1>8 DEF Surjection
    <2> QED  BY <2>2, <1>4
  <1>10. keys = [i \in 1..n |-> CHOOSE key \in S : Cardinality(Ahead(key)) = i - 1]
    BY DEF InOrder, Ahead
  <1> HIDE DEF keys, rank
  <1>11. \A i \in 1..n : keys[i] \in S /\ Cardinality(Ahead(keys[i])) = i - 1
    BY <1>9, <1>10
  <1>12. ASSUME NEW key \in S PROVE \E i \in 1..n : keys[i] = key
    <2>1. Cardinality(Ahead(key)) \in 0..n - 1
      BY <1>2
    <2> DEFINE i == Cardinality(Ahead(key)) + 1
    <2>2. i \in 1..n /\ i - 1 = Cardinality(Ahead(key))
      BY <2>1, <1>1
    <2> HIDE DEF i
    <2>3. keys[i] \in S /\ rank[keys[i]] = rank[key]
      BY <2>2, <1>11, <1>4
    <2>4. keys[i] = key
      BY <2>3, <1>5
    <2> QED  BY <2>2, <2>4
  <1>13. ASSUME NEW i \in 1..n, NEW j \in 1..n, i < j PROVE KeyBefore(def, keys[i], keys[j])
    <2>1. /\ keys[i] \in S /\ Cardinality(Ahead(keys[i])) = i - 1
          /\ keys[j] \in S /\ Cardinality(Ahead(keys[j])) = j - 1
      BY <1>11
    <2>2. keys[i] # keys[j] /\ ~KeyBefore(def, keys[j], keys[i])
      BY <2>1, <1>3, <1>13
    <2> QED  BY <2>1, <2>2 DEF InLine
  <1>14. DOMAIN keys = 1..n
    BY <1>10
  <1> QED  BY <1>1, <1>11, <1>12, <1>13, <1>14 DEF n, keys

------------------------------------------------------------------------------
(* Scans                                                                   *)

(* The keys of an index.                                                   *)
KeysOf(def) == {key \in DOMAIN posting : key.index = def.name}

(* The entries of an index are those of its entities.                      *)
LEMMA OwnEntries ==
  ASSUME NowhereApart, IndexInv, ~failed, NEW def \in tracked
  PROVE  /\ \A key \in KeysOf(def) :
              AnyEntity(Table, def.pattern, posting[key]) /\ key = IndexKey(Table, def, posting[key])
         /\ \A k : AnyEntity(Table, def.pattern, k) =>
              IndexKey(Table, def, k) \in KeysOf(def) /\ posting[IndexKey(Table, def, k)] = k
  <1>1. /\ NoneWrong(posting, Table, tracked) /\ NoneMissing(posting, Table, tracked)
    BY FitNow DEF FitTogether
  <1>2. ASSUME NEW key \in KeysOf(def)
        PROVE  AnyEntity(Table, def.pattern, posting[key]) /\ key = IndexKey(Table, def, posting[key])
    <2> DEFINE y == posting[key]
    <2>1. Posts(posting, key, y) /\ key.index = def.name
      BY DEF Posts, KeysOf
    <2> HIDE DEF y
    <2>2. Entry(Table, def, <<key, y>>)
      BY <1>1, <2>1 DEF NoneWrong
    <2>3. PICK k : AnyEntity(Table, def.pattern, k) /\ <<key, y>> = Pair(Table, def, k)
      BY <2>2 DEF Entry
    <2>4. key = IndexKey(Table, def, k) /\ y = k
      BY <2>3 DEF Pair
    <2> QED  BY <2>3, <2>4 DEF y
  <1>3. ASSUME NEW k, AnyEntity(Table, def.pattern, k)
        PROVE  IndexKey(Table, def, k) \in KeysOf(def) /\ posting[IndexKey(Table, def, k)] = k
    <2> DEFINE x == IndexKey(Table, def, k)
    <2>1. Entry(Table, def, <<x, k>>)
      BY <1>3 DEF Entry, Pair
    <2>2. x.index = def.name
      BY DEF IndexKey
    <2> HIDE DEF x
    <2>3. Posts(posting, x, k)
      BY <1>1, <2>1 DEF NoneMissing
    <2> QED  BY <2>2, <2>3 DEF Posts, KeysOf, x
  <1> QED  BY <1>2, <1>3

(* They are finitely many, and in line.                                    *)
LEMMA KeysOfAre ==
  ASSUME NowhereApart, Ranked, IndexInv, ~failed, NEW def \in tracked
  PROVE  /\ Len(def.columns) \in Nat /\ DOMAIN def.columns = 1..Len(def.columns)
         /\ IsFiniteSet(KeysOf(def))
         /\ IsKeys(def, Len(def.columns), KeysOf(def))
         /\ InLine(def, KeysOf(def))
  <1> DEFINE n == Len(def.columns)
             K == KeysOf(def)
             E == Keys \cup {ROOT}
  <1>0. WellDef(def)
    BY FitNow DEF FitTogether, WellDefs
  <1>1. n \in Nat /\ DOMAIN def.columns = 1..n
    BY <1>0, ColumnsWell
  <1>2. \A key \in K : /\ AnyEntity(Table, def.pattern, posting[key])
                       /\ key = IndexKey(Table, def, posting[key])
    BY OwnEntries
  <1>3. MaxKey \in Nat
    BY TreeAssumption
  <1>4. E = 0..MaxKey
    BY <1>3 DEF Keys, ROOT
  <1>5. Tree(Table)
    BY InvParts
  <1>6. \A k : AnyEntity(Table, def.pattern, k) => k \in E
    BY EntityIs DEF AnyEntity
  <1> HIDE DEF n, K, E
  <1>7. ASSUME NEW key \in K
        PROVE  /\ key = [index |-> def.name, cols |-> key.cols, entity |-> key.entity]
               /\ key.cols \in Scalars(n) /\ key.entity \in Int
    <2> DEFINE k == posting[key]
    <2>1. k \in E /\ key = IndexKey(Table, def, k)
      BY <1>2, <1>6
    <2> HIDE DEF k
    <2>2. Columns(Table, def, k) \in Scalars(n)
      BY <1>0, <1>5, <1>1, ColumnsTyped DEF Scalars
    <2>3. k \in Int /\ NoKey \in Int
      BY <2>1, <1>4, <1>3 DEF NoKey
    <2>4. /\ key = [index |-> key.index, cols |-> key.cols, entity |-> key.entity]
          /\ key.index = def.name /\ key.cols = Columns(Table, def, k)
          /\ key.entity = IF def.unique THEN NoKey ELSE k
      BY <2>1 DEF IndexKey
    <2> QED  BY <2>2, <2>3, <2>4
  <1>8. IsKeys(def, n, K)
    BY <1>7 DEF IsKeys
  <1>9. IsFiniteSet(E)
    BY <1>3, <1>4, FS_Interval
  <1> DEFINE f == [key \in K |-> posting[key]]
  <1>10. f \in Injection(K, E)
    <2>1. f \in [K -> E]
      BY <1>2, <1>6
    <2>2. ASSUME NEW x \in K, NEW y \in K, f[x] = f[y] PROVE x = y
      BY <2>2, <1>2
    <2> QED  BY <2>1, <2>2 DEF Injection, IsInjective
  <1> HIDE DEF f
  <1>11. IsFiniteSet(K)
    BY <1>9, <1>10, FS_Injection
  <1>12. InLine(def, K)
    BY <1>1, <1>8, KeysInLine
  <1> QED  BY <1>1, <1>8, <1>11, <1>12 DEF n, K

(* What begins with a prefix.                                              *)
LEMMA BeginsWith ==
  ASSUME NEW n \in Nat, NEW m \in Nat, NEW x \in Scalars(n), NEW y \in Scalars(m)
  PROVE  IsPrefix(x, y) <=> (n <= m /\ (\A j \in 1..n : x[j] = y[j]))
  <1>1. Len(x) = n /\ Len(y) = m /\ x = [j \in 1..n |-> x[j]] /\ SubSeq(x, 1, n) = x
    BY DEF Scalars
  <1>2. IsPrefix(x, y) <=> (n <= m /\ x = SubSeq(y, 1, n))
    BY <1>1 DEF IsPrefix
  <1>3. ASSUME n <= m PROVE x = SubSeq(y, 1, n) <=> \A j \in 1..n : x[j] = y[j]
    <2>1. SubSeq(y, 1, n) = [j \in 1..n |-> y[j]]
      BY <1>3 DEF Scalars
    <2>2. ASSUME x = SubSeq(y, 1, n), NEW j \in 1..n PROVE x[j] = y[j]
      BY <2>1, <2>2
    <2> QED  BY <2>1, <2>2, <1>1
  <1>4. QED
    BY <1>2, <1>3

(* scan_prefix stops at the first key that does not begin with the prefix, *)
(* and has seen all that do.                                               *)
LEMMA ScanIs ==
  ASSUME NowhereApart, Ranked, IndexInv, ~failed, NEW def \in tracked,
         NEW m \in 0..Len(def.columns), NEW prefix \in Scalars(m)
  PROVE  ScanPrefix(def, prefix) = {key \in KeysOf(def) : IsPrefix(prefix, key.cols)}
  <1> DEFINE n == Len(def.columns)
             K == KeysOf(def)
             reach == {key \in K : ~ColsBefore(def, key.cols, prefix)}
             stop  == {key \in reach : ~IsPrefix(prefix, key.cols)}
  <1>1. /\ n \in Nat /\ m \in Nat /\ m <= n
        /\ IsKeys(def, n, K) /\ InLine(def, K)
    BY KeysOfAre
  <1>2. ScanPrefix(def, prefix) = {key \in reach : \A x \in stop : KeyBefore(def, key, x)}
    BY DEF ScanPrefix, KeysOf
  <1> HIDE DEF n, K
  <1>3. \A key \in K : key.cols \in Scalars(n)
    BY <1>1 DEF IsKeys
  <1>4. \A key \in K : IsPrefix(prefix, key.cols) <=> \A j \in 1..m : prefix[j] = key.cols[j]
    <2> SUFFICES ASSUME NEW key \in K
                 PROVE  IsPrefix(prefix, key.cols) <=> \A j \in 1..m : prefix[j] = key.cols[j]
      OBVIOUS
    <2> DEFINE cols == key.cols
    <2>1. cols \in Scalars(n)
      BY <1>3
    <2> HIDE DEF cols
    <2>2. IsPrefix(prefix, cols) <=> m <= n /\ \A j \in 1..m : prefix[j] = cols[j]
      BY <2>1, <1>1, BeginsWith
    <2>3. QED
      BY <2>2, <1>1 DEF cols
  <1>5. \A j \in 1..m : prefix[j] \in Int
    BY DEF Scalars, Ranked
  <1>6. \A key \in K : \A j \in 1..n : key.cols[j] \in Int
    BY <1>3 DEF Scalars, Ranked
  <1>7. ASSUME NEW key \in K, IsPrefix(prefix, key.cols) PROVE key \in reach
    <2>1. \A j \in 1..m : prefix[j] = key.cols[j]
      BY <1>4, <1>7
    <2>2. ASSUME NEW i, PartsAt(def, key.cols, n, prefix, m, i) PROVE FALSE
      <3>1. i \in 0..n /\ i < m /\ (i < n => ValueBefore(def.columns[i + 1], key.cols[i + 1], prefix[i + 1]))
        BY <2>2 DEF PartsAt
      <3>2. i < n /\ prefix[i + 1] = key.cols[i + 1] /\ prefix[i + 1] \in Int
        BY <3>1, <2>1, <1>1, <1>5
      <3> QED  BY <3>1, <3>2 DEF ValueBefore
    <2>3. ~ColsBefore(def, key.cols, prefix)
      BY <2>2, <1>1, <1>3, BeforeIs
    <2> QED  BY <2>3
  <1>8. ASSUME NEW key \in K, IsPrefix(prefix, key.cols), NEW x \in stop
        PROVE  KeyBefore(def, key, x)
    <2>1. x \in K /\ ~ColsBefore(def, x.cols, prefix) /\ ~IsPrefix(prefix, x.cols)
      BY <1>8
    <2>2. \A j \in 1..m : prefix[j] = key.cols[j]
      BY <1>4, <1>8
    <2> DEFINE D == {j \in 1..m : prefix[j] # x.cols[j]}
    <2>3. PICK k \in D : TRUE
      BY <2>1, <1>4
    <2>4. PICK i \in D : \A j \in D : i <= j
      <3>1. D \in SUBSET Nat
        BY <1>1
      <3> HIDE DEF D
      <3> QED  BY <3>1, <2>3, LeastOf
    <2>5. /\ i \in 1..m /\ i \in 1..n /\ i - 1 \in 0..n /\ i - 1 < n /\ i - 1 < m /\ (i - 1) + 1 = i
          /\ prefix[i] # x.cols[i]
          /\ \A j \in 1..i - 1 : prefix[j] = x.cols[j]
      BY <2>4, <1>1
    <2>6. ~PartsAt(def, x.cols, n, prefix, m, i - 1)
      BY <2>1, <1>1, <1>3, BeforeIs
    <2>7. ~ValueBefore(def.columns[i], x.cols[i], prefix[i])
      BY <2>5, <2>6 DEF PartsAt
    <2>8. ValueBefore(def.columns[i], prefix[i], x.cols[i])
      <3>1. prefix[i] \in Int /\ x.cols[i] \in Int
        BY <2>1, <2>5, <1>5, <1>6
      <3> QED  BY <2>5, <2>7, <3>1 DEF ValueBefore
    <2>9. PartsAt(def, key.cols, n, x.cols, n, i - 1)
      <3>1. key.cols[i] = prefix[i] /\ \A j \in 1..i - 1 : key.cols[j] = x.cols[j]
        BY <2>2, <2>5
      <3> QED  BY <3>1, <2>5, <2>8 DEF PartsAt
    <2>10. ColsBefore(def, key.cols, x.cols)
      BY <2>1, <2>9, <1>1, <1>3, BeforeIs
    <2> QED  BY <2>10 DEF KeyBefore
  <1>9. ASSUME NEW key \in reach, \A x \in stop : KeyBefore(def, key, x)
        PROVE  IsPrefix(prefix, key.cols)
    <2>1. CASE key \in stop
      <3>1. KeyBefore(def, key, key)
        BY <2>1, <1>9
      <3> QED  BY <3>1, <1>1, <1>9 DEF InLine
    <2> QED  BY <2>1
  <1> QED  BY <1>2, <1>7, <1>8, <1>9 DEF K

------------------------------------------------------------------------------
(* Queries                                                                 *)

(* The record of the entity at a path.                                     *)
EntityRecord(p) ==
  [path |-> p, key |-> Res(Table, p), doc |-> DocUnder(Table, Res(Table, p))]

(* The entities in the document, as the tree has them.                     *)
LEMMA DocEntitiesAre ==
  ASSUME NowhereApart, IndexInv, NEW def \in tracked
  PROVE  \A e : e \in DocEntities(def) <=>
                  \E p : EntityAt(Table, def.pattern, p, Res(Table, p)) /\ e = EntityRecord(p)
  <1>1. \A p : /\ p \in EntityPaths(doc, def.pattern) <=>
                     EntityAt(Table, def.pattern, p, Res(Table, p))
               /\ p \in EntityPaths(doc, def.pattern) => At(doc, p) = DocUnder(Table, Res(Table, p))
    BY DocEntityIs
  <1>2. ASSUME NEW p, p \in EntityPaths(doc, def.pattern)
        PROVE  Entity(p, At(doc, p)) = EntityRecord(p)
    BY <1>1, <1>2 DEF Entity, EntityRecord, Res
  <1>3. \A e : e \in DocEntities(def) <=>
                 \E p : p \in EntityPaths(doc, def.pattern) /\ e = Entity(p, At(doc, p))
    BY DEF DocEntities
  <1>4. QED
    BY <1>1, <1>2, <1>3

(* The columns of each entity, by its key, are those that index_key takes. *)
LEMMA EntityColumns ==
  ASSUME NowhereApart, IndexInv, NEW def \in tracked, NEW k, AnyEntity(Table, def.pattern, k)
  PROVE  LET entities == DocEntities(def)
         IN  /\ \E e \in entities : e.key = k
             /\ DocColumns(def, (CHOOSE e \in entities : e.key = k).doc) = Columns(Table, def, k)
  <1> DEFINE E == DocEntities(def)
             e == CHOOSE x \in E : x.key = k
  <1>1. PICK r : EntityAt(Table, def.pattern, r, k)
    BY DEF AnyEntity
  <1>2. k = Res(Table, r)
    BY <1>1 DEF EntityAt
  <1>3. EntityRecord(r) \in E /\ EntityRecord(r).key = k
    BY <1>1, <1>2, DocEntitiesAre DEF EntityRecord
  <1>4. e \in E /\ e.key = k
    BY <1>3
  <1> HIDE DEF E, e
  <1>5. PICK p : EntityAt(Table, def.pattern, p, Res(Table, p)) /\ e = EntityRecord(p)
    BY <1>4, DocEntitiesAre DEF E
  <1>6. e.doc = DocUnder(Table, k)
    BY <1>4, <1>5 DEF EntityRecord
  <1>7. Columns(Table, def, k) = DocColumns(def, DocUnder(Table, k))
    BY <1>1, EntityIs
  <1>8. QED
    BY <1>3, <1>6, <1>7 DEF e, E

(* An entity is on the line of a root that the pattern reaches exactly if  *)
(* it is at or under the root.                                             *)
LEMMA UnderRoot ==
  ASSUME NowhereApart, IndexInv, NEW def \in tracked, NEW root \in Seq(Segment),
         Len(root) <= Len(def.pattern),
         NEW p, EntityAt(Table, def.pattern, p, Res(Table, p))
  PROVE  Res(Table, p) \in ToSet(AffectedEntities(Table, def.pattern, root)) <=> IsPrefix(root, p)
  <1>1. Tree(Table) /\ PlainDef(def)
    BY InvParts DEF PlainDefs
  <1>2. def.pattern \in Seq(PatternParts)
    BY <1>1 DEF PlainDef
  <1> DEFINE k == Res(Table, p)
             n == Len(root)
             m == Len(p)
  <1>3. p \in Seq(Segment) /\ m = Len(def.pattern) /\ k # NoKey
    BY DEF EntityAt, Matches
  <1>4. k \in ToSet(AffectedEntities(Table, def.pattern, root)) <=>
          LineEntity(Table, def.pattern, root, k)
    BY <1>1, <1>2, AffectedOnLine, PlainParts
  <1>5. LineEntity(Table, def.pattern, root, k) <=> OneLine(p, root)
    <2>1. ASSUME NEW r, EntityAt(Table, def.pattern, r, k), OneLine(r, root) PROVE OneLine(p, root)
      <3>1. r \in Seq(Segment) /\ Res(Table, r) = Res(Table, p) /\ Res(Table, r) # NoKey
        BY <2>1 DEF EntityAt, Matches
      <3>2. r = p
        BY <3>1, <1>1, <1>3, OnePath
      <3>3. QED
        BY <3>2, <2>1
    <2>2. QED
      BY <2>1 DEF LineEntity
  <1>6. n \in Nat /\ m \in Nat /\ n <= m
    BY <1>3
  <1>7. OneLine(p, root) <=> \A x \in 1..n : root[x] = p[x]
    <2>1. ASSUME Leads(p, root), NEW x \in 1..n PROVE root[x] = p[x]
      BY <2>1, <1>6 DEF Leads
    <2>2. QED
      BY <2>1, <1>6 DEF OneLine, Leads
  <1>8. IsPrefix(root, p) <=> \A x \in 1..n : root[x] = p[x]
    <2>1. root = [x \in 1..n |-> root[x]] /\ SubSeq(root, 1, n) = root
      OBVIOUS
    <2>2. SubSeq(p, 1, n) = [x \in 1..n |-> p[x]]
      BY <1>3, <1>6
    <2>3. IsPrefix(root, p) <=> root = SubSeq(p, 1, n)
      BY <2>1, <1>6 DEF IsPrefix
    <2>4. ASSUME root = SubSeq(p, 1, n), NEW x \in 1..n PROVE root[x] = p[x]
      BY <2>2, <2>4
    <2>5. QED
      BY <2>1, <2>2, <2>3, <2>4
  <1>9. QED
    BY <1>4, <1>5, <1>7, <1>8

(* The keys that a query finds.                                            *)
Found(def, prefix, root) ==
  IF root = <<>> THEN ScanPrefix(def, prefix)
  ELSE IF Len(def.pattern) < Len(root) THEN {}
  ELSE {key \in ScanPrefix(def, prefix) :
          posting[key] \in ToSet(AffectedEntities(Table, def.pattern, root))}

(* They are those of the entities with the columns asked for, at or under  *)
(* the root.                                                               *)
LEMMA FoundAre ==
  ASSUME NowhereApart, Ranked, IndexInv, ~failed, NEW def \in tracked,
         NEW m \in 0..Len(def.columns), NEW prefix \in Scalars(m), NEW root \in Seq(Segment),
         NEW p, EntityAt(Table, def.pattern, p, Res(Table, p)),
         NEW k, k = Res(Table, p)
  PROVE  IndexKey(Table, def, k) \in Found(def, prefix, root) <=>
           IsPrefix(root, p) /\ IsPrefix(prefix, Columns(Table, def, k))
  <1> DEFINE key == IndexKey(Table, def, k)
  <1>1. AnyEntity(Table, def.pattern, k)
    BY DEF AnyEntity
  <1>2. key \in KeysOf(def) /\ posting[key] = k
    BY <1>1, OwnEntries
  <1>3. key.cols = Columns(Table, def, k)
    BY DEF IndexKey
  <1> HIDE DEF key
  <1>4. key \in ScanPrefix(def, prefix) <=> IsPrefix(prefix, Columns(Table, def, k))
    BY <1>2, <1>3, ScanIs
  <1>5. p \in Seq(Segment) /\ Len(p) = Len(def.pattern)
    BY DEF EntityAt, Matches
  <1>6. CASE root = <<>>
    <2>1. IsPrefix(root, p)
      BY <1>5, <1>6 DEF IsPrefix
    <2>2. QED
      BY <2>1, <1>4, <1>6 DEF Found, key
  <1>7. CASE root # <<>> /\ Len(def.pattern) < Len(root)
    <2>1. ~IsPrefix(root, p)
      BY <1>5, <1>7 DEF IsPrefix
    <2>2. QED
      BY <2>1, <1>7 DEF Found, key
  <1>8. CASE root # <<>> /\ ~(Len(def.pattern) < Len(root))
    <2>1. Len(root) <= Len(def.pattern)
      BY <1>5, <1>8
    <2>2. k \in ToSet(AffectedEntities(Table, def.pattern, root)) <=> IsPrefix(root, p)
      BY <2>1, UnderRoot
    <2>3. QED
      BY <2>2, <1>2, <1>4, <1>8 DEF Found, key
  <1>9. QED
    BY <1>6, <1>7, <1>8

(* execute_query yields the entities of the keys it finds, in their order. *)
LEMMA QueryIs ==
  ASSUME NEW def, NEW prefix, NEW root
  PROVE  LET keys == InOrder(def, Found(def, prefix, root))
         IN  ExecuteQuery(def, prefix, root) = [x \in DOMAIN keys |-> posting[keys[x]]]
  BY DEF ExecuteQuery, Found

(* What a query is to find among the entities, given their columns.        *)
Answered(def, entities, cols, prefix, root) ==
  LET found == ExecuteQuery(def, prefix, root)
      hits  == {e \in entities : IsPrefix(root, e.path) /\
                                 IsPrefix(prefix, cols[e.key])}
  IN  /\ ToSet(found) = {e.key : e \in hits}
      /\ Len(found) = Cardinality(hits)
      /\ \A x, y \in DOMAIN found :
           x < y => ~ColsBefore(def, cols[found[y]], cols[found[x]])

(* It finds the right entities, each once, in order.                       *)
LEMMA QueryFits ==
  ASSUME NowhereApart, Ranked, IndexInv, ~failed, NEW def \in tracked,
         NEW m \in 0..Len(def.columns), NEW prefix \in Scalars(m), NEW root \in Seq(Segment),
         NEW cols, \A k : AnyEntity(Table, def.pattern, k) => cols[k] = Columns(Table, def, k)
  PROVE  Answered(def, DocEntities(def), cols, prefix, root)
  <1> DEFINE entities == DocEntities(def)
             found == ExecuteQuery(def, prefix, root)
             hits == {e \in entities : IsPrefix(root, e.path) /\ IsPrefix(prefix, cols[e.key])}
             F == Found(def, prefix, root)
             K == KeysOf(def)
             keys == InOrder(def, F)
             n == Cardinality(F)
  <1>1. /\ IsFiniteSet(K) /\ IsKeys(def, Len(def.columns), K) /\ InLine(def, K)
        /\ \A key \in K : AnyEntity(Table, def.pattern, posting[key]) /\
                          key = IndexKey(Table, def, posting[key])
    BY KeysOfAre, OwnEntries
  <1>2. F \in SUBSET K
    BY ScanIs DEF Found
  <1>3. found = [x \in DOMAIN keys |-> posting[keys[x]]]
    BY QueryIs
  <1>3a. hits \subseteq entities
    OBVIOUS
  <1>3b. \A e \in entities : e \in hits <=> IsPrefix(root, e.path) /\ IsPrefix(prefix, cols[e.key])
    OBVIOUS
  <1> HIDE DEF F, K, found, entities, hits
  <1>4. IsFiniteSet(F) /\ InLine(def, F)
    <2>1. IsFiniteSet(F)
      BY <1>1, <1>2, FS_Subset
    <2>2. QED
      BY <2>1, <1>1, <1>2 DEF InLine
  <1>5. /\ DOMAIN keys = 1..n /\ n \in Nat
        /\ \A i \in 1..n : keys[i] \in F
        /\ \A key \in F : \E i \in 1..n : keys[i] = key
        /\ \A i, j \in 1..n : i < j => KeyBefore(def, keys[i], keys[j])
    BY <1>4, PlacesAre
  <1> HIDE DEF keys, n
  <1>6. ASSUME NEW e \in entities
        PROVE  /\ e = EntityRecord(e.path) /\ AnyEntity(Table, def.pattern, e.key)
               /\ e.path \in Seq(Segment) /\ e.key = Res(Table, e.path) /\ e.key # NoKey
               /\ IndexKey(Table, def, e.key) \in K /\ posting[IndexKey(Table, def, e.key)] = e.key
               /\ e \in hits <=> IndexKey(Table, def, e.key) \in F
    <2>1. PICK p : EntityAt(Table, def.pattern, p, Res(Table, p)) /\ e = EntityRecord(p)
      BY DocEntitiesAre DEF entities
    <2>2. e.path = p /\ e.key = Res(Table, p)
      BY <2>1 DEF EntityRecord
    <2>3. AnyEntity(Table, def.pattern, e.key) /\ p \in Seq(Segment) /\ Res(Table, p) # NoKey
      BY <2>1, <2>2 DEF AnyEntity, EntityAt, Matches
    <2>4. IndexKey(Table, def, e.key) \in F <=>
            IsPrefix(root, p) /\ IsPrefix(prefix, Columns(Table, def, e.key))
      BY <2>1, <2>2, FoundAre DEF F
    <2>5. cols[e.key] = Columns(Table, def, e.key)
      BY <2>3
    <2>6. IndexKey(Table, def, e.key) \in K /\ posting[IndexKey(Table, def, e.key)] = e.key
      BY <2>3, OwnEntries DEF K
    <2>7. QED
      BY <2>1, <2>2, <2>3, <2>4, <2>5, <2>6, <1>3b
  <1>7. ASSUME NEW k, AnyEntity(Table, def.pattern, k) PROVE \E e \in entities : e.key = k
    BY <1>7, EntityColumns DEF entities
  <1>8. ASSUME NEW e \in entities, NEW f \in entities, e.key = f.key PROVE e = f
    <2>1. Tree(Table)
      BY InvParts
    <2>2. e.path = f.path
      BY <2>1, <1>6, <1>8, OnePath
    <2>3. QED
      BY <2>2, <1>6
  <1>9. ASSUME NEW key \in F PROVE \E e \in hits : e.key = posting[key]
    <2>1. PICK e \in entities : e.key = posting[key]
      BY <1>1, <1>2, <1>7
    <2>2. IndexKey(Table, def, e.key) = key
      BY <2>1, <1>1, <1>2
    <2>3. QED
      BY <2>1, <2>2, <1>6
  <1>10. hits \subseteq entities
    BY <1>3a
  <1>11. ToSet(found) = {e.key : e \in hits}
    <2>1. ASSUME NEW z \in ToSet(found) PROVE z \in {e.key : e \in hits}
      <3>1. PICK i \in 1..n : z = posting[keys[i]]
        BY <2>1, <1>3, <1>5 DEF ToSet
      <3>2. QED
        BY <3>1, <1>5, <1>9
    <2>2. ASSUME NEW e \in hits PROVE e.key \in ToSet(found)
      <3>1. IndexKey(Table, def, e.key) \in F /\ posting[IndexKey(Table, def, e.key)] = e.key
        BY <2>2, <1>10, <1>6
      <3>2. PICK i \in 1..n : keys[i] = IndexKey(Table, def, e.key)
        BY <3>1, <1>5
      <3>3. found[i] = e.key /\ i \in DOMAIN found
        BY <3>1, <3>2, <1>3, <1>5
      <3>4. QED
        BY <3>3 DEF ToSet
    <2>3. QED
      BY <2>1, <2>2
  <1>12. n = Cardinality(hits)
    <2> DEFINE g == [key \in F |-> CHOOSE e \in hits : e.key = posting[key]]
    <2>1. \A key \in F : g[key] \in hits /\ g[key].key = posting[key]
      BY <1>9
    <2>2. g \in [F -> hits]
      BY <2>1
    <2>3. ASSUME NEW x \in F, NEW y \in F, g[x] = g[y] PROVE x = y
      <3>1. posting[x] = posting[y]
        BY <2>1, <2>3
      <3>2. QED
        BY <3>1, <1>1, <1>2
    <2>4. ASSUME NEW e \in hits PROVE \E key \in F : g[key] = e
      <3> DEFINE key == IndexKey(Table, def, e.key)
      <3>1. key \in F /\ posting[key] = e.key
        BY <2>4, <1>10, <1>6
      <3> HIDE DEF key
      <3>2. g[key] \in hits /\ g[key].key = e.key
        BY <3>1, <2>1
      <3>3. g[key] = e
        BY <3>2, <2>4, <1>8, <1>10
      <3>4. QED
        BY <3>1, <3>3
    <2> HIDE DEF g
    <2>5. g \in Bijection(F, hits)
      BY <2>2, <2>3, <2>4 DEF Bijection, Injection, Surjection, IsInjective
    <2>6. ExistsBijection(F, hits)
      BY <2>5 DEF ExistsBijection
    <2>7. QED
      BY <2>6, <1>4, FS_Bijection DEF n
  <1>13. Len(found) = n /\ DOMAIN found = 1..n
    BY <1>3, <1>5
  <1>14. ASSUME NEW x \in 1..n, NEW y \in 1..n, x < y
         PROVE  ~ColsBefore(def, cols[found[y]], cols[found[x]])
    <2>1. keys[x] \in F /\ keys[y] \in F /\ KeyBefore(def, keys[x], keys[y])
      BY <1>5, <1>14
    <2>2. ~KeyBefore(def, keys[y], keys[x])
      BY <2>1, <1>4 DEF InLine
    <2>3. \A z \in 1..n : cols[found[z]] = keys[z].cols
      <3> SUFFICES ASSUME NEW z \in 1..n PROVE cols[found[z]] = keys[z].cols
        OBVIOUS
      <3>1. found[z] = posting[keys[z]] /\ keys[z] \in F
        BY <1>3, <1>5
      <3>2. AnyEntity(Table, def.pattern, found[z]) /\ keys[z] = IndexKey(Table, def, found[z])
        BY <3>1, <1>1, <1>2
      <3>3. keys[z].cols = Columns(Table, def, found[z])
        BY <3>2 DEF IndexKey
      <3>4. QED
        BY <3>2, <3>3
    <2>4. QED
      BY <2>2, <2>3 DEF KeyBefore
  <1>15. QED
    BY <1>11, <1>12, <1>13, <1>14 DEF Answered, found, hits, entities

(* The entity with a key.                                                  *)
EntityOf(def, k) == CHOOSE e \in DocEntities(def) : e.key = k

(* The columns of the entities, by key.                                    *)
ColsByKey(def) ==
  [k \in {e.key : e \in DocEntities(def)} |-> DocColumns(def, EntityOf(def, k).doc)]

(* They are those that index_key takes.                                    *)
LEMMA ColsAre ==
  ASSUME NowhereApart, IndexInv, NEW def \in tracked, NEW k, AnyEntity(Table, def.pattern, k)
  PROVE  ColsByKey(def)[k] = Columns(Table, def, k)
  <1>1. /\ \E e \in DocEntities(def) : e.key = k
        /\ DocColumns(def, EntityOf(def, k).doc) = Columns(Table, def, k)
    BY EntityColumns DEF EntityOf
  <1>2. k \in {e.key : e \in DocEntities(def)}
    BY <1>1
  <1>3. QED
    BY <1>1, <1>2 DEF ColsByKey

(* The tuples that a query may be given: no longer than the columns.       *)
Asked(def) == UNION {[1..n -> Values \cup {Null}] : n \in 0..Len(def.columns)}

(* The invariant makes queries right.                                      *)
LEMMA QueriesFit ==
  ASSUME NowhereApart, Ranked, IndexInv
  PROVE  QueryFindsMatches
  <1>1. ASSUME ~failed, NEW def \in tracked, NEW prefix \in Asked(def),
               NEW root \in Paths \cup {<<>>}
        PROVE  Answered(def, DocEntities(def), ColsByKey(def), prefix, root)
    <2>1. root \in Seq(Segment)
      <3>1. CASE root \in Paths
        BY <3>1, TreeAssumption
      <3>2. CASE root = <<>>
        BY <3>2
      <3>3. QED
        BY <3>1, <3>2
    <2>2. \A k : AnyEntity(Table, def.pattern, k) => ColsByKey(def)[k] = Columns(Table, def, k)
      BY ColsAre
    <2>3. PICK n \in 0..Len(def.columns) : prefix \in Scalars(n)
      BY DEF Scalars, Asked
    <2>4. QED
      BY <2>1, <2>2, <2>3, <1>1, QueryFits
  <1>2. ~failed => \A def \in tracked :
          \A prefix \in Asked(def), root \in Paths \cup {<<>>} :
            Answered(def, DocEntities(def), ColsByKey(def), prefix, root)
    BY <1>1
  <1>3. QED
    BY <1>2 DEF QueryFindsMatches, Answered, Asked, ColsByKey, EntityOf

(* execute_query finds exactly the entities at or under its root whose     *)
(* leading columns are the given ones, each once and in the order of the   *)
(* columns: it stops at the first key that does not begin with them and    *)
(* misses none behind it.                                                  *)
THEOREM QueriesFindMatches ==
  ASSUME Guarded, Ranked
  PROVE  IndexedSpec => []QueryFindsMatches
  <1>1. IndexInv => QueryFindsMatches
    BY QueriesFit DEF Guarded
  <1>2. IndexedSpec => []IndexInv
    BY IndexesFit
  <1>3. QED
    BY <1>1, <1>2, PTL
=============================================================================
