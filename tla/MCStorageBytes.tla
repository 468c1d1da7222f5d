--------------------------- MODULE MCStorageBytes ---------------------------
(***************************************************************************)
(* Small instances of StorageBytes for TLC: keys of one byte, and values   *)
(* of every type on both sides of each boundary of their encoding.         *)
(***************************************************************************)
EXTENDS StorageBytes

CONSTANTS v1, v2

All(type, vs)  == {Scalar(type, v) : v \in vs}
Ints(type, ns) == {Scalar(type, <<n>>) : n \in ns}
Text(s)       == Scalar("Str", s)
A == <<97>>
B == <<98>>

MinInt == -2147483647 - 1
Bytes8(first, second) == <<first, second, 0, 0, 0, 0, 0, 0>>
Bytes16(n) == [i \in 1..16 |-> n]

MCScalars ==
  {Null} \cup Ints("Bool", {0, 1})
  \cup Ints("I8", {-128, -1, 0, 127}) \cup Ints("I16", {-32768, -256, -1, 0, 255, 256})
  \cup Ints("I32", {MinInt, -1, 0, 2147483647}) \cup Ints("I64", {MinInt, -1, 0, 256})
  \cup Ints("I128", {-256, -1, 1}) \cup Ints("U8", {0, 255}) \cup Ints("U16", {255, 256})
  \cup Ints("U32", {0, 65536}) \cup Ints("U64", {255, 256}) \cup Ints("U128", {1, 65536})
  \* -infinity, -1, -0, +0, 1, 1.5, NaN; -1, -2, -0, 1, 1.5
  \cup All("F32", {<<255, 128, 0, 0>>, <<191, 128, 0, 0>>, <<128, 0, 0, 0>>, <<0, 0, 0, 0>>,
                   <<63, 128, 0, 0>>, <<63, 192, 0, 0>>, <<127, 192, 0, 0>>})
  \cup All("F64", {Bytes8(191, 240), Bytes8(192, 0), Bytes8(128, 0), Bytes8(63, 240),
                   Bytes8(63, 248)})
  \cup All("Str", {<<>>, <<0>>, <<0, 0>>, <<0, 1>>, <<1>>, A, <<97, 0>>, <<97, 98>>, <<195, 169>>})
  \cup All("Bytes", {<<>>, <<0>>, <<0, 0>>, <<0, 0, 0>>, <<0, 255>>, <<255>>})
  \cup All("Uuid", {Bytes16(0), Bytes16(200)}) \cup Ints("Date", {-95746129, -1, 0, 300})
  \* the second before the last of a minute, a longer last one, the next
  \cup All("Time", {<<58, 999>>, <<59, 1500>>, <<60, 0>>})
  \cup All("DateTime", {<<-1, 59, 1999>>, <<0, 0, 0>>, <<0, 0, 1>>, <<1, 0, 0>>})
  \cup All("Duration", {<<-1, -500>>, <<-1, 0>>, <<0, -1>>, <<0, 0>>, <<0, 1>>, <<0, 10>>, <<0, 999>>,
                        <<1, 0>>, <<1, 500>>})
  \cup Ints("BigInt", {-65536, -32769, -32768, -256, -255, -129, -128, -1, 0, 1, 127, 128, 255,
                      256, 32768, 65535, 65536})
  \cup All("BigFloat", {<<c>> : c \in {MinusInf, Zero, PlusInf, NaN}}
             \cup {<<c, e>> \o d : c \in {Pos, Neg}, d \in {<<1>>, <<1, 0>>, <<1, 2>>, <<9, 0, 0>>},
                                    e \in {-2, 0, 1}})
  \cup All("Rational", {<<-7, 2>>, <<-3, 1>>, <<-5, 3>>, <<-1, 2>>, <<-1, 3>>, <<0, 1>>, <<1, 300>>,
                        <<1, 3>>, <<2, 5>>, <<1, 2>>, <<3, 5>>, <<2, 3>>, <<1, 1>>, <<3, 2>>,
                        <<22, 7>>, <<355, 113>>, <<300, 1>>})

MCNextColumns == {Null, Text(<<>>), Text(<<255>>)}

MCRoot  == <<0>>
MCSkeys == {<<0>>, <<7>>, <<8>>, <<255>>}
MCEntities == {<<0>>, <<255>>}
MCFieldNames == {<<>>, A}
MCLeafScalars == {Scalar("U8", <<1>>), Scalar("U8", <<2>>), Text(A)}
MCColumnValues == {Null, Text(<<>>), Text(<<0>>)}

\* two columns; the neighbours of an index, one of the other kind
MCIndexes ==
  {[id |-> 1, unique |-> FALSE, descs |-> <<TRUE, FALSE>>],
   [id |-> 2, unique |-> FALSE, descs |-> <<FALSE>>],
   [id |-> 3, unique |-> TRUE, descs |-> <<TRUE>>]}

MCTableValues ==
  {UnitValue} \cup {SkeyValue(k) : k \in MCSkeys}
  \cup {NodeValue(n) : n \in {ObjectNode, ListNode(<<>>), ListNode(<<A, <<0>>, A>>)}}
  \cup {NodeValue(PackedNode(r, b)) : r \in {"object", "list", "leaf"}, b \in {<<>>, <<2, 0>>}}

MCTableKeys ==
  {DataKey(k) : k \in MCSkeys}
  \cup {ChildKey(k, n) : k \in MCSkeys, n \in {<<>>, <<0>>, A, <<97, 98>>}}
  \cup {EntryKey(ix, <<u, w>>, e) :
          ix \in MCIndexes \cup {[id |-> 256, unique |-> TRUE, descs |-> <<FALSE, TRUE>>]},
          u \in MCColumnValues \cup {Text(A)}, w \in {Null, Text(<<>>)}, e \in MCEntities}

Alphabet == {97, SLASH, OPEN, CLOSE, DOT, 48, STAR}
UpTo(n)  == UNION {[1..k -> Alphabet] : k \in 0..n}
\* a  [0]  a[0]  ..  *
Tokens   == {A, <<91, 48, 93>>, <<97, 91, 48, 93>>, <<46, 46>>, <<42>>}
MCTexts  == UpTo(4) \cup {x \o <<SLASH>> \o y \o <<SLASH>> \o z : x, y, z \in Tokens}
                    \cup {x \o <<SLASH>> \o y : x, y \in Tokens}
MCShortTexts == UpTo(2)

MCDefs ==
  {[name |-> n, pattern |-> <<97, SLASH, STAR>>, unique |-> n = A, columns |-> cs] :
     n \in {A, B},
     cs \in {<<>>, <<[path |-> <<>>, desc |-> FALSE]>>,
             <<[path |-> <<Name(A), Index(10)>>, desc |-> TRUE],
               [path |-> <<Index(0), Name(B), Name(A)>>, desc |-> FALSE]>>}}
MCRegistries ==
  LET entries == {[table |-> t, id |-> 7, def |-> d] : t \in {A, B}, d \in MCDefs}
  IN  {[next |-> 300, entries |-> es] : es \in UNION {[1..k -> entries] : k \in 0..2}}
MCRegistryNames == {A, B}

MCParts == {Leaf(v1), EmptyList, Object(A :> Leaf(v2))}
MCDocumentInputs ==
  MCParts \cup {EmptyObject, Object(A :> EmptyList), Object(A :> Leaf(v1) @@ B :> EmptyList),
                List(<<Leaf(v1)>>), List(<<Object(A :> Leaf(v2)), Leaf(v1)>>),
                Object(B :> List(<<Leaf(v1)>>))}
MCDocumentPaths == UNION {[1..k -> {Name(A), Name(B), Index(0), Index(1)}] : k \in 0..3}

------------------------------------------------------------------------------
(* Types of data: every container, attribute, representation and form of   *)
(* variant over the types inside, and over these again.                    *)

One   == Scalar("U8", <<1>>)
U8    == ScalarType("U8")
Empty == StructOf(<<>>)
C     == <<99>>

PayloadsOf(ofs, ValuesOf(_)) ==
  LET vs == [k \in DOMAIN ofs |-> ValuesOf(ofs[k].of)]
  IN  {t \in [DOMAIN ofs -> UNION {vs[k] : k \in DOMAIN ofs}] : \A k \in DOMAIN ofs : t[k] \in vs[k]}

RECURSIVE MCValuesOf(_)
MCValuesOf(T) ==
  CASE T.shape = "scalar" -> CASE T.t = "U8"   -> {One}
                               [] T.t = "Str"  -> {Text(A)}
                               [] T.t = "Skey" -> {Scalar("Uuid", <<7>>)}
                               [] OTHER        -> {Null, One}
    [] T.shape = "option" -> {None} \cup {Some(v) : v \in MCValuesOf(T.of)}
    [] T.shape = "list"   -> {Vec(s) : s \in UNION {[1..n -> MCValuesOf(T.of)] : n \in 0..2}}
    [] T.shape = "map"    -> {Map(f) : f \in UNION {[S -> MCValuesOf(T.of)] : S \in SUBSET {A, B}}}
    [] T.shape = "via"    -> DOMAIN T.into
    [] T.shape = "struct" -> LET given(f) == f.stored /\ f.loaded
                             IN  {Struct(t) : t \in
                                   {t \in PayloadsOf(T.fields, MCValuesOf) :
                                      \A k \in DOMAIN t : given(T.fields[k]) \/ t[k] = T.fields[k].default}}
    [] T.shape = "enum"   -> UNION {{Enum(i, t) : t \in PayloadsOf(T.variants[i].payload, MCValuesOf)} :
                                      i \in DOMAIN T.variants}

Converted(T) ==
  StoredAs(T, [v \in {[new |-> u] : u \in MCValuesOf(T)} |-> v.new],
              [u \in MCValuesOf(T) |-> [new |-> u]])

FieldsOf(T) ==
  LET f == Field(A, T)
      x == CHOOSE v \in MCValuesOf(T) : TRUE
      d == [f EXCEPT !.default = x, !.defaults = TRUE]
  IN  {f, d, [f EXCEPT !.flatten = TRUE], [f EXCEPT !.aliases = <<B>>],
       [d EXCEPT !.stored = FALSE], [d EXCEPT !.loaded = FALSE], [d EXCEPT !.skipped = {x}],
       [d EXCEPT !.skipped = {x}, !.defaults = FALSE]}

Reprs == {"external", "adjacent", "internal", "untagged"}
VariantsOf(tag, T) ==
  {Variant(tag, "unit", <<>>), Variant(tag, "newtype", <<Field(A, T)>>)}
    \cup {Variant(tag, form, <<Field(A, T), Field(B, U8)>>) : form \in {"tuple", "named"}}

Containers(Ts) == UNION {{OptionOf(T), ListOf(T), MapOf(T), Converted(T)} : T \in Ts}
Structs(Ts)    == UNION {{StructOf(<<f>>), StructOf(<<Field(C, U8), f>>)} : f \in UNION {FieldsOf(T) : T \in Ts}}
Enums(Ts)      == {EnumOf(r, <<x, y>>) : r \in Reprs, x \in VariantsOf(A, U8),
                                         y \in UNION {VariantsOf(B, T) : T \in Ts}}

Basic == {U8, ScalarType("Str"), ScalarType("Skey"), ScalarType(AnyScalar), Empty}
Inner == Containers(Basic) \cup {StructOf(<<f>>) : f \in FieldsOf(U8) \cup FieldsOf(Empty)}
           \cup {EnumOf(r, <<x, Variant(B, "unit", <<>>)>>) : r \in Reprs, x \in VariantsOf(A, U8)}

MCDataTypes ==
  {[of |-> T, values |-> MCValuesOf(T)] :
     T \in UNION {Containers(Ts) \cup Structs(Ts) \cup Enums(Ts) : Ts \in {Basic, Inner}}}
MCOldDocuments == {Object(B :> EmptyList), Object(A :> List(<<Leaf(One)>>) @@ B :> EmptyList)}
MCNewNames == {<<120>>}
MCNewField == [of |-> U8, default |-> One]

\* strings that read as another value, or that need each kind of escape
MCStrings == {<<>>, A, <<34>>, <<92>>, <<92, 110>>, <<10>>, <<13>>, <<9>>, <<8>>, <<12>>, <<1>>, <<31>>,
              <<49>>, NullText}
MCFlat    == {Leaf(x) : x \in {Null, One, Scalar("Bool", <<1>>)} \cup All("Str", MCStrings)}
               \cup {EmptyList, EmptyObject}
MCFew     == {Leaf(One), Leaf(Text(A)), EmptyList, EmptyObject}
MCNested  == {List(<<x>>) : x \in MCFew} \cup {List(<<x, Leaf(One)>>) : x \in MCFew}
               \cup {Object(A :> x) : x \in MCFew} \cup {Object(A :> x @@ B :> Leaf(One)) : x \in MCFew}
MCExported ==
  MCFlat \cup MCNested \cup {Object(s :> Leaf(One)) : s \in MCStrings}
    \cup {List(<<x>>) : x \in MCNested}
    \cup {List(<<x, y>>) : x, y \in {List(<<Leaf(One)>>), Object(A :> EmptyList), EmptyList}}
    \cup {Object(A :> x) : x \in MCNested} \cup {Object(A :> x @@ B :> Leaf(One)) : x \in MCNested}
MCIndents == {0, 2}
=============================================================================
