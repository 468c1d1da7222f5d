------------------------------ MODULE PathText ------------------------------
(***************************************************************************)
(* The text of paths and of index patterns (path/spath, path/functions,    *)
(* index/pattern): a text is a sequence of characters, a path a sequence   *)
(* of segments (Documents), whose names are texts too.                     *)
(***************************************************************************)
EXTENDS Documents, Integers

\* the characters that mean something: / [ ] . * + and the digits
SLASH == 47
OPEN  == 91
CLOSE == 93
DOT   == 46
STAR  == 42
PLUS  == 43
Digits == 48..57

Here    == <<DOT>>
DotDot  == <<DOT, DOT>>
Reserved == {SLASH, OPEN, CLOSE}

Invalid   == [ok |-> FALSE]
Ok(segs) == [ok |-> TRUE, segs |-> segs]

Then(p, q) == IF p.ok /\ q.ok THEN Ok(p.segs \o q.segs) ELSE Invalid

(* SPath::push_name, on a path that code builds.                           *)
PushName(path, name) ==
  IF name = Here THEN path
  ELSE IF name = DotDot THEN (IF path = <<>> THEN path ELSE Front(path))
  ELSE Append(path, Name(name))

\* str::split
Split(text) ==
  LET ends == SetToSortSeq({i \in DOMAIN text : text[i] = SLASH} \cup {Len(text) + 1}, <)
  IN  [t \in DOMAIN ends |->
         SubSeq(text, (IF t = 1 THEN 0 ELSE ends[t - 1]) + 1, ends[t] - 1)]

\* str::parse::<u64>, below its limit
IsNumber(text) ==
  LET digits == IF text # <<>> /\ text[1] = PLUS THEN Tail(text) ELSE text
  IN  digits # <<>> /\ ToSet(digits) \subseteq Digits

Number(text) ==
  FoldLeft(LAMBDA n, c : IF c = PLUS THEN n ELSE 10 * n + c - 48, 0, text)

(* validate_name.                                                          *)
ValidName(name) ==
  ToSet(name) \cap Reserved = {} /\ name \notin {Here, DotDot}

\* the segments of "[i][j]..."
Positions(rest) ==
  LET From[from \in 1..Len(rest) + 1] ==
        LET closes == {i \in from..Len(rest) : rest[i] = CLOSE}
            close  == CHOOSE i \in closes : \A j \in closes : i <= j
            inside == SubSeq(rest, from + 1, close - 1)
        IN  IF from > Len(rest) THEN Ok(<<>>)
            ELSE IF rest[from] # OPEN \/ closes = {} THEN Invalid
            ELSE IF ~IsNumber(inside) THEN Invalid
            ELSE Then(Ok(<<Index(Number(inside))>>), From[close + 1])
  IN  From[1]

(* parse_token: a name, or a name that may be empty and positions.         *)
ParseToken(token) ==
  LET bracket == SelectInSeq(token, LAMBDA c : c = OPEN)
      name    == IF bracket = 0 THEN token ELSE SubSeq(token, 1, bracket - 1)
      rest    == IF bracket = 0 THEN <<>> ELSE SubSeq(token, bracket, Len(token))
      named   == IF ValidName(name) THEN Ok(<<Name(name)>>) ELSE Invalid
  IN  IF bracket # 0 /\ name = <<>> THEN Positions(rest)
      ELSE Then(named, Positions(rest))

\* mutant: a rise above the root stays at the root
Rise_Clamps(path) == IF path = <<>> THEN Ok(path) ELSE Ok(Front(path))

Rise(path) == IF path = <<>> THEN Invalid ELSE Ok(Front(path))

(* SPath::from_str.                                                        *)
Parse(text) ==
  IF text = <<>> THEN Ok(<<>>)
  ELSE FoldLeft(LAMBDA p, token :
                  IF ~p.ok \/ token = <<>> THEN Invalid
                  ELSE IF token = Here THEN p
                  ELSE IF token = DotDot THEN Rise(p.segs)
                  ELSE Then(p, ParseToken(token)),
                Ok(<<>>), Split(text))

Decimal(n) ==
  LET Of[k \in Nat] == (IF k < 10 THEN <<>> ELSE Of[k \div 10]) \o <<48 + (k % 10)>>
  IN  Of[n]

\* mutant: no slash after a position
Display_Glued(path) ==
  FlattenSeq([i \in DOMAIN path |->
    IF IsIndex(path[i]) THEN <<OPEN>> \o Decimal(path[i].index) \o <<CLOSE>>
    ELSE (IF i = 1 \/ IsIndex(path[i - 1]) THEN <<>> ELSE <<SLASH>>) \o path[i].name])

(* Display for SPath.                                                      *)
Display(path) ==
  FlattenSeq([i \in DOMAIN path |->
    IF IsIndex(path[i]) THEN <<OPEN>> \o Decimal(path[i].index) \o <<CLOSE>>
    ELSE (IF i = 1 THEN <<>> ELSE <<SLASH>>) \o path[i].name])

\* a segment of a pattern, from a token of its own
AnyChild == [any |-> TRUE]

(* Pattern::parse.                                                         *)
ParsePattern(text) ==
  IF text = <<>> THEN Ok(<<>>)
  ELSE FoldLeft(LAMBDA p, token :
                  IF token = <<>> THEN Invalid
                  ELSE IF token = <<STAR>> THEN Then(p, Ok(<<AnyChild>>))
                  ELSE Then(p, Parse(token)),
                Ok(<<>>), Split(text))

(* MemReader::resolve_rebased: the part of a path below the base, for a    *)
(* reader whose root is at the base.                                       *)
Rebased(base, path) ==
  IF Len(path) >= Len(base) /\ Prefix(path, Len(base)) = base
  THEN Ok(SubSeq(path, Len(base) + 1, Len(path))) ELSE Invalid

------------------------------------------------------------------------------

(* The text of a parsed path parses to that path, so that a column path    *)
(* kept as text names the same column; and as a pattern it stands for that *)
(* path and no other, unless a name is * (Display, FromStr, Pattern::parse). *)
PrintsBack(text) ==
  LET path == Parse(text).segs
  IN  Parse(text).ok =>
        /\ Parse(Display(path)) = Ok(path)
        /\ Name(<<STAR>>) \notin ToSet(path) => ParsePattern(Display(path)) = Ok(path)

(* A path in a rooted view is the root and then the path, as if the two    *)
(* texts were joined with a slash, and a reader at the root takes it back  *)
(* off: a path that is valid in a view cannot rise above its root          *)
(* (RootedRead, RootedWrite, MemReader::resolve_rebased).                  *)
StaysInView(root, text) ==
  Parse(root).ok /\ Parse(text).ok /\ root # <<>> /\ text # <<>> =>
    /\ Parse(root \o <<SLASH>> \o text) = Then(Parse(root), Parse(text))
    /\ Rebased(Parse(root).segs, Parse(root \o <<SLASH>> \o text).segs) = Parse(text)

(* An entry of a map is below the map, under its own name                  *)
(* ("each value is addressable as .../key", data/map.rs:4-5).              *)
IsBelow(map, key) ==
  LET at == PushName(map, key)
  IN  Len(at) = Len(map) + 1 /\ Front(at) = map /\ Last(at) = Name(key)
=============================================================================
