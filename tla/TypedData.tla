----------------------------- MODULE TypedData -----------------------------
(***************************************************************************)
(* How values of Rust types become documents and are built again from      *)
(* them: the SData trait for scalars, Option, Vec and BTreeMap (data), and *)
(* the code #[derive(SData)] generates for structs and enums               *)
(* (stratodb-derive).  The documents are those of Documents, whether the   *)
(* transaction packs them or not.                                          *)
(*                                                                         *)
(* A type is a record whose shape is                                       *)
(*   scalar   t: a type of scalars, or "Skey", or AnyScalar for Scalar;    *)
(*            a value is the scalar it is stored as;                       *)
(*   option, list, map   of: the type inside; a value is None or Some(v),  *)
(*            Vec(s), Map(f);                                              *)
(*   struct   fields: see Field; a value is Struct of a tuple;             *)
(*   enum     repr, its tag and content names, variants: see Variant; a    *)
(*            value is Enum of the number of a variant and its payload;    *)
(*   via      of: the type it is stored as, into and from: conversions     *)
(*            (from, try_from, into; store_with and load_with of a field). *)
(* Scalar and Skey are only put and got (SValue): inside another type they *)
(* stand for what its store_with and load_with put and get.                *)
(***************************************************************************)
EXTENDS TableBytes, PathText

None    == [none |-> TRUE]
Some(v) == [some |-> v]
Vec(s)  == [elements |-> s]
Map(f)  == [entries |-> f]
Struct(values)         == [values |-> values]
Enum(variant, payload) == [variant |-> variant, payload |-> payload]

AnyScalar == "Scalar"
ScalarType(t) == [shape |-> "scalar", t |-> t]
OptionOf(T)   == [shape |-> "option", of |-> T]
ListOf(T)     == [shape |-> "list", of |-> T]
MapOf(T)      == [shape |-> "map", of |-> T]
StructOf(fs)  == [shape |-> "struct", fields |-> fs]
StoredAs(T, into, from) == [shape |-> "via", of |-> T, into |-> into, from |-> from]
EnumOf(repr, vs) ==
  [shape |-> "enum", repr |-> repr, tag |-> <<116>>, content |-> <<99>>, variants |-> vs]

(* A field with no attribute: its node's name and its type; other names to *)
(* load it from; whether it is flattened into the struct's own node,       *)
(* stored (not skip, skip_store), loaded (not skip_load); the values       *)
(* skip_store_if leaves out; its default, and whether default is given.    *)
Field(name, T) ==
  [name |-> name, of |-> T, aliases |-> <<>>, flatten |-> FALSE, stored |-> TRUE,
   loaded |-> TRUE, skipped |-> {}, default |-> None, defaults |-> FALSE]

(* A variant: its tag, the tags it also loads from, its form (unit,        *)
(* newtype, tuple or named), its payload, and whether it stands for every  *)
(* unknown tag (other).                                                    *)
Variant(tag, form, payload) ==
  [tag |-> tag, aliases |-> <<>>, form |-> form, payload |-> payload, other |-> FALSE]

\* SPath::child_name
Child(p, name) == PushName(p, name)

------------------------------------------------------------------------------
(* Storing                                                                 *)

Failed == [kind |-> "failed"]

PutAt(d, p, part) == IF d # Failed /\ Fits(d, p) THEN With(d, p, part) ELSE Failed

\* Writer::ensure_container
EnsureAt(d, p, isList) ==
  IF At(d, p) = Nowhere THEN PutAt(d, p, Container(isList))
  ELSE IF Is(At(d, p), IF isList THEN "list" ELSE "object") THEN d ELSE Failed

(* Where the payload of the variant with this tag is; the name is the one  *)
(* stored, or the one found.                                               *)
PayloadBase(T, tag, p) ==
  CASE T.repr = "external" -> Child(p, tag)
    [] T.repr = "adjacent" -> Child(p, T.content)
    [] OTHER               -> p

PayloadPath(T, variant, base, k) ==
  CASE variant.form = "named"  -> Child(base, variant.payload[k].name)
    [] T.repr = "internal"     -> Child(base, Decimal(k - 1))
    [] variant.form = "newtype" -> base
    [] OTHER                   -> Append(base, Index(k - 1))

(* What is written for a variant before its payload, in place of any prior *)
(* variant: the tag, and the payload's container.                          *)
PutVariant(d, p, T, v) ==
  LET variant == T.variants[v.variant]
      base    == PayloadBase(T, variant.tag, p)
      tagged  == IF T.repr \in {"adjacent", "internal"}
                 THEN PutAt(Without(d, p), Child(p, T.tag), Leaf(Scalar("Str", variant.tag)))
                 ELSE Without(d, p)
  IN  IF T.repr = "internal" THEN tagged
      ELSE IF variant.form \in {"tuple", "named"}
      THEN IF tagged = Failed THEN Failed ELSE EnsureAt(tagged, base, variant.form = "tuple")
      ELSE IF variant.form = "unit" /\ T.repr # "adjacent" THEN PutAt(tagged, base, Leaf(Null))
      ELSE tagged

\* mutant: None leaves no node
Ground_NoneIsAbsent(d, p, T, v) ==
  CASE T.shape = "scalar"             -> PutAt(d, p, Leaf(v))
    [] T.shape \in {"list", "map"}    -> EnsureAt(d, p, T.shape = "list")
    [] T.shape = "enum"               -> PutVariant(d, p, T, v)
    [] OTHER                          -> d

(* What storing v writes itself, before its parts.                         *)
Ground(d, p, T, v) ==
  CASE T.shape = "scalar"             -> PutAt(d, p, Leaf(v))
    [] T.shape = "option" /\ v = None -> PutAt(d, p, Leaf(Null))
    [] T.shape \in {"list", "map"}    -> EnsureAt(d, p, T.shape = "list")
    [] T.shape = "enum"               -> PutVariant(d, p, T, v)
    [] OTHER                          -> d

Part(p, T, v) == [at |-> p, of |-> T, val |-> v]

StructParts(p, T, v) ==
  LET kept    == {k \in DOMAIN T.fields :
                    T.fields[k].stored /\ v.values[k] \notin T.fields[k].skipped}
      part(k) == LET f == T.fields[k]
                 IN  Part(IF f.flatten THEN p ELSE Child(p, f.name), f.of, v.values[k])
      order   == SetToSortSeq(kept, <)
  IN  [i \in DOMAIN order |-> part(order[i])]

VariantParts(p, T, v) ==
  LET variant == T.variants[v.variant]
      base    == PayloadBase(T, variant.tag, p)
  IN  [k \in DOMAIN variant.payload |->
         Part(PayloadPath(T, variant, base, k), variant.payload[k].of, v.payload[k])]

(* The values that v is made of, each stored in turn, by its own type.     *)
PartsOf(p, T, v) ==
  CASE T.shape = "option" /\ v # None -> <<Part(p, T.of, v.some)>>
    [] T.shape = "list"   -> [i \in DOMAIN v.elements |-> Part(Append(p, Index(i - 1)), T.of, v.elements[i])]
    [] T.shape = "map"    -> LET names == SetToSortSeq(DOMAIN v.entries, BytesBefore)
                             IN  [i \in DOMAIN names |->
                                    Part(Child(p, names[i]), T.of, v.entries[names[i]])]
    [] T.shape = "struct" -> StructParts(p, T, v)
    [] T.shape = "enum"   -> VariantParts(p, T, v)
    [] T.shape = "via"    -> <<Part(p, T.of, T.into[v])>>
    [] OTHER              -> <<>>

(* SData::store: the document after storing v at p, or Failed.             *)
RECURSIVE Store(_, _, _, _)
Store(d, p, T, v) ==
  FoldLeft(LAMBDA done, part :
             IF done = Failed THEN Failed ELSE Store(done, part.at, part.of, part.val),
           Ground(d, p, T, v), PartsOf(p, T, v))

------------------------------------------------------------------------------
(* Loading                                                                 *)

NotLoaded == [ok |-> FALSE]
Loaded(v) == [ok |-> TRUE, v |-> v]

(* What is loaded of all of xs, or of none.                                *)
Together(xs, Of(_)) ==
  IF \A k \in DOMAIN xs : xs[k].ok THEN Loaded(Of([k \in DOMAIN xs |-> xs[k].v])) ELSE NotLoaded

SkeyOf(bytes) == Loaded(Scalar("Uuid", bytes))

(* SValue::from_scalar.                                                    *)
FromScalar(t, s) ==
  CASE t = AnyScalar \/ s.t = t -> Loaded(s)
    [] t = "Skey" /\ s.t = "Uuid" -> Loaded(s)
    [] t = "Skey" /\ s = Null     -> SkeyOf([i \in 1..SkeyLen |-> 0])
    [] t = "Skey" /\ s.t = "Bytes" /\ Len(s.v) = SkeyLen -> SkeyOf(s.v)
    [] t = "Skey" /\ s.t = "U128" -> SkeyOf(BigEndian(s.v[1], SkeyLen))
    [] OTHER -> NotLoaded

(* Reader::object_keys, in order.                                          *)
ObjectKeys(object) == SetToSortSeq(DOMAIN object.fields, BytesBefore)

(* The tag an enum's node holds (EnumRepr::tag_load).                      *)
TagAt(d, p, T) ==
  IF T.repr = "external"
  THEN IF Is(At(d, p), "object") /\ DOMAIN At(d, p).fields # {}
       THEN Loaded(ObjectKeys(At(d, p))[1]) ELSE NotLoaded
  ELSE LET leaf == At(d, Child(p, T.tag))
       IN  IF Is(leaf, "leaf") /\ leaf.val.t = "Str" THEN Loaded(leaf.val.v) ELSE NotLoaded

\* mutant: only the name the field is stored under
NodeOf_NoAlias(d, p, f) == Child(p, f.name)

(* The node a field is loaded from: the first of its names that is there.  *)
NodeOf(d, p, f) ==
  LET names == <<f.name>> \o f.aliases
      found == SelectInSeq(names, LAMBDA name : At(d, Child(p, name)) # Nowhere)
  IN  Child(p, names[IF found = 0 THEN 1 ELSE found])

RECURSIVE Load(_, _, _)

LoadField(d, p, f) ==
  IF ~f.stored \/ ~f.loaded THEN Loaded(f.default)
  ELSE IF f.flatten THEN Load(d, p, f.of)
  ELSE IF f.defaults /\ At(d, NodeOf(d, p, f)) = Nowhere THEN Loaded(f.default)
  ELSE Load(d, NodeOf(d, p, f), f.of)

LoadPayload(d, T, i, base) ==
  LET variant == T.variants[i]
  IN  Together([k \in DOMAIN variant.payload |->
                  Load(d, PayloadPath(T, variant, base, k), variant.payload[k].of)],
               LAMBDA payload : Enum(i, payload))

(* A tagged enum: the variant of the tag, or the one that stands for every *)
(* unknown tag.                                                            *)
LoadTagged(d, p, T) ==
  LET tag   == TagAt(d, p, T)
      named == SelectInSeq(T.variants, LAMBDA x : ~x.other /\ tag.v \in {x.tag} \cup ToSet(x.aliases))
      other == SelectInSeq(T.variants, LAMBDA x : x.other)
  IN  IF ~tag.ok THEN NotLoaded
      ELSE IF named # 0 THEN LoadPayload(d, T, named, PayloadBase(T, tag.v, p))
      ELSE IF other # 0 THEN Loaded(Enum(other, <<>>))
      ELSE NotLoaded

(* An untagged enum: the first variant that what is there loads as.        *)
LoadUntagged(d, p, T) ==
  LET fits(i) == IF T.variants[i].form = "unit" THEN At(d, p) = Leaf(Null)
                 ELSE LoadPayload(d, T, i, p).ok
      first   == SelectInSeq([i \in DOMAIN T.variants |-> i], fits)
  IN  IF first = 0 THEN NotLoaded ELSE LoadPayload(d, T, first, p)

(* SData::load: what is at p, as a value of T.                             *)
Load(d, p, T) ==
  LET here   == At(d, p)
      inside == Load(d, p, T.of)
  IN
  CASE T.shape = "scalar" -> IF Is(here, "leaf") THEN FromScalar(T.t, here.val) ELSE NotLoaded
    [] T.shape = "option" -> IF here \in {Nowhere, Leaf(Null)} THEN Loaded(None)
                             ELSE IF inside.ok THEN Loaded(Some(inside.v)) ELSE NotLoaded
    [] T.shape = "list"   -> IF here = Nowhere THEN Loaded(Vec(<<>>))
                             ELSE IF ~Is(here, "list") THEN NotLoaded
                             ELSE Together([i \in DOMAIN here.items |->
                                              Load(d, Append(p, Index(i - 1)), T.of)], Vec)
    [] T.shape = "map"    -> IF here = Nowhere THEN Loaded(Map(<<>>))
                             ELSE IF ~Is(here, "object") THEN NotLoaded
                             ELSE Together([n \in DOMAIN here.fields |-> Load(d, Child(p, n), T.of)], Map)
    [] T.shape = "struct" -> Together([k \in DOMAIN T.fields |-> LoadField(d, p, T.fields[k])],
                                      Struct)
    [] T.shape = "enum"   -> IF T.repr = "untagged" THEN LoadUntagged(d, p, T)
                             ELSE LoadTagged(d, p, T)
    [] T.shape = "via"    -> IF inside.ok /\ inside.v \in DOMAIN T.from
                             THEN Loaded(T.from[inside.v]) ELSE NotLoaded

------------------------------------------------------------------------------
(* Which types load back what was stored.                                  *)

RECURSIVE MayBeNothing(_)
(* Whether some value of T is stored as no node at all: a struct of which  *)
(* no field is.                                                            *)
MayBeNothing(T) ==
  CASE T.shape = "struct" -> \A k \in DOMAIN T.fields :
                               LET f == T.fields[k]
                               IN  ~f.stored \/ f.skipped # {} \/ MayBeNothing(f.of)
    [] T.shape \in {"option", "via"} -> MayBeNothing(T.of)
    [] OTHER -> FALSE

RECURSIVE FormOf(_)
(* What T is stored as, as far as an untagged enum can tell its variants   *)
(* by it.                                                                  *)
FormOf(T) ==
  CASE T.shape = "scalar" -> IF T.t = "Skey" THEN AnyScalar ELSE T.t
    [] T.shape = "list"   -> "list"
    [] T.shape = "via"    -> FormOf(T.of)
    [] T.shape = "option" -> AnyScalar
    [] T.shape = "enum"   -> IF T.repr = "untagged" THEN AnyScalar ELSE "object"
    [] OTHER -> "object"

FormOfVariant(variant) ==
  CASE variant.form = "unit"    -> "Null"
    [] variant.form = "newtype" -> FormOf(variant.payload[1].of)
    [] variant.form = "tuple"   -> "list"
    [] variant.form = "named"   -> "object"

RECURSIVE NeedsNode(_)
(* Whether T cannot be loaded where there is nothing.                      *)
NeedsNode(T) ==
  CASE T.shape \in {"scalar", "enum"} -> TRUE
    [] T.shape = "via"    -> NeedsNode(T.of)
    [] T.shape = "struct" -> \E k \in DOMAIN T.fields :
                               LET f == T.fields[k]
                               IN  f.stored /\ f.loaded /\ ~f.defaults /\ NeedsNode(f.of)
    [] OTHER -> FALSE

RECURSIVE NodeNames(_)
(* The names of the nodes a struct is stored in or loaded from, in order.  *)
NodeNames(T) ==
  LET of(f) == IF ~f.stored THEN <<>>
               ELSE IF f.flatten THEN NodeNames(f.of) ELSE <<f.name>> \o f.aliases
  IN  FoldLeft(LAMBDA names, f : names \o of(f), <<>>, T.fields)

AllDiffer(xs) == \A i, j \in DOMAIN xs : i # j => xs[i] # xs[j]

SoundStruct(T) ==
  /\ \A k \in DOMAIN T.fields :
       LET f == T.fields[k]
       IN  /\ f.flatten => f.of.shape = "struct"
           /\ f.skipped \subseteq {f.default}
           /\ f.skipped # {} => f.defaults
           /\ f.defaults => ~MayBeNothing(f.of)
  /\ AllDiffer(NodeNames(T))

(* The variants of an untagged enum differ in what they are stored as, and *)
(* none but the last loads from the others' documents.                     *)
SoundUntagged(T) ==
  \A i \in DOMAIN T.variants :
    LET variant == T.variants[i]
        forms   == [k \in DOMAIN T.variants |-> FormOfVariant(T.variants[k])]
        needs   == \E k \in DOMAIN variant.payload : NeedsNode(variant.payload[k].of)
    IN  /\ forms[i] # AnyScalar
        /\ \A j \in DOMAIN T.variants : j # i => forms[j] # forms[i]
        /\ \/ i = Len(T.variants) \/ needs \/ forms[i] \notin {"list", "object"}
           \/ variant.form = "newtype" /\ variant.payload[1].of.shape \in {"list", "map"}

SoundEnum(T) ==
  /\ AllDiffer(FoldLeft(LAMBDA tags, x : tags \o <<x.tag>> \o x.aliases, <<>>, T.variants))
  /\ \A i \in DOMAIN T.variants :
       LET variant == T.variants[i]
           lost    == \E k \in DOMAIN variant.payload : MayBeNothing(variant.payload[k].of)
           paths   == {PayloadPath(T, variant, <<>>, k) : k \in DOMAIN variant.payload}
       IN  /\ T.repr = "external" => variant.tag \notin {Here, DotDot}
           /\ T.repr = "internal" => Child(<<>>, T.tag) \notin paths
           /\ \/ ~lost \/ variant.form = "named" \/ T.repr = "internal"
              \/ T.repr = "adjacent" /\ variant.form = "newtype"
  /\ T.repr = "untagged" => SoundUntagged(T)

RECURSIVE Sound(_)
(* A type whose values all load back.  It leaves out an Option of what may *)
(* be stored as Null or as nothing; a Vec, a map or an enum whose elements *)
(* may be stored as nothing; a flattened field that is no struct (an enum  *)
(* clears the fields stored before it); names that meet in one node.       *)
Sound(T) ==
  CASE T.shape = "scalar" -> TRUE
    [] T.shape = "option" -> Sound(T.of) /\ ~MayBeNothing(T.of) /\ FormOf(T.of) # AnyScalar
    [] T.shape \in {"list", "map"} -> Sound(T.of) /\ ~MayBeNothing(T.of)
    [] T.shape = "via"    -> Sound(T.of)
    [] T.shape = "struct" -> (\A k \in DOMAIN T.fields : Sound(T.fields[k].of)) /\ SoundStruct(T)
    [] T.shape = "enum"   -> SoundEnum(T) /\ \A i \in DOMAIN T.variants :
                               \A k \in DOMAIN T.variants[i].payload :
                                 Sound(T.variants[i].payload[k].of)

(* A value stored over whatever was at p loads back, and nothing outside p *)
(* has changed (WriteTxn::store_at, ReadTxn::load).                        *)
LoadsBack(d, p, T, v) ==
  LET stored == Store(Without(d, p), p, T, v)
  IN  /\ stored # Failed
      /\ Load(stored, p, T) = Loaded(v)
      /\ Without(stored, p) = Without(d, p)

------------------------------------------------------------------------------
(* A type that was changed after its values were stored.                   *)

(* Field k of a struct under a new name, loaded from the old one too.      *)
Renamed(T, k, name) ==
  LET f == T.fields[k]
  IN  StructOf([T.fields EXCEPT ![k] = [f EXCEPT !.name = name, !.aliases = <<f.name>> \o @]])

(* A struct with one more field, which has a default.                      *)
Grown(T, name, of, default) ==
  StructOf(Append(T.fields, [Field(name, of) EXCEPT !.defaults = TRUE, !.default = default]))

(* Variant i of an enum under a new tag, loaded from the old one too.      *)
Retagged(T, i, tag) ==
  [T EXCEPT !.variants[i].aliases = <<T.variants[i].tag>> \o @, !.variants[i].tag = tag]

(* An enum whose variant i is gone, with one for unknown tags in its place.*)
Dropped(T, i, tag) ==
  [T EXCEPT !.variants[i] = [Variant(tag, "unit", <<>>) EXCEPT !.other = TRUE]]

(* What was stored as a value of T loads as the changed type: a value kept *)
(* its meaning, a new field has its default, a lost variant is the other.  *)
OldValueLoads(p, T, v, names, of, default) ==
  LET stored      == Store(Nowhere, p, T, v)
      loads(U, u) == Load(stored, p, U) = Loaded(u)
  IN  IF T.shape = "struct"
      THEN \A name \in names \ ToSet(NodeNames(T)) :
             /\ loads(Grown(T, name, of, default), Struct(Append(v.values, default)))
             /\ \A k \in DOMAIN T.fields : ~T.fields[k].flatten => loads(Renamed(T, k, name), v)
      ELSE (T.shape = "enum" /\ T.repr # "untagged") =>
             \A tag \in names \ UNION {{x.tag} \cup ToSet(x.aliases) : x \in ToSet(T.variants)},
                i \in DOMAIN T.variants :
               /\ loads(Retagged(T, i, tag), v)
               /\ loads(Dropped(T, i, tag), IF v.variant = i THEN Enum(i, <<>>) ELSE v)
=============================================================================
