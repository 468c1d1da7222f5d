---------------------------- MODULE TableBytes ----------------------------
(***************************************************************************)
(* The bytes of a table's entries: keys (engine/table_key), whose bytewise *)
(* order is the order of the table, values (engine/table_value) and the    *)
(* exact encoding of scalars (data/scalar), which decodes to what was      *)
(* encoded.                                                                *)
(*                                                                         *)
(* A primary key, a name and a string are sequences of bytes.  Decoding    *)
(* gives what was read and the bytes that are left, or Refused.            *)
(***************************************************************************)
EXTENDS OrderedKeys

CONSTANT SkeyLen      \* 16 in the code: a bound

ASSUME SkeyAssumption == SkeyLen \in Nat \ {0}

Refused      == [ok |-> FALSE]
Got(v, rest) == [ok |-> TRUE, v |-> v, rest |-> rest]

\* what was read, as what it stands for
As(read, Of(_)) == IF read.ok THEN Got(Of(read.v), read.rest) ELSE Refused

\* from_be_bytes
Unsigned(bytes) == FoldLeft(LAMBDA n, b : 256 * n + b, 0, bytes)
Signed(bytes) ==
  FoldLeft(LAMBDA n, b : 256 * n + b, IF bytes[1] >= 128 THEN -1 ELSE 0, bytes)

(* str::from_utf8, for characters of one or two bytes.                     *)
IsUtf8(bytes) ==
  \A i \in DOMAIN bytes :
    LET follows == i > 1 /\ bytes[i - 1] \in 194..223
    IN  IF bytes[i] \in 128..191 THEN follows
        ELSE bytes[i] \notin {192, 193} \cup (224..255) /\ ~follows

(* codec::put_bytes.                                                       *)
PutBytes(bytes) == BigEndian(Len(bytes), 4) \o bytes

(* Reader::take.                                                           *)
Take(bytes, n) ==
  IF n > Len(bytes) THEN Refused
  ELSE Got(SubSeq(bytes, 1, n), SubSeq(bytes, n + 1, Len(bytes)))

Run == 0   \* a field whose length comes before it

(* Reader::array, or Reader::bytes for a Run.                              *)
ReadField(bytes, width) ==
  IF width # Run THEN Take(bytes, width)
  ELSE IF Len(bytes) < 4 THEN Refused
  ELSE Take(SubSeq(bytes, 5, Len(bytes)), Unsigned(SubSeq(bytes, 1, 4)))

Follow(read, next) ==
  IF read.ok /\ next.ok THEN Got(Append(read.v, next.v), next.rest) ELSE Refused

ReadFields(bytes, widths) ==
  FoldLeft(LAMBDA read, width :
             IF read.ok THEN Follow(read, ReadField(read.rest, width)) ELSE read,
           Got(<<>>, bytes), widths)

------------------------------------------------------------------------------
(* Scalars                                                                 *)

StorageClasses == <<Zero, Pos, Neg, NaN, PlusInf, MinusInf>>   \* from tag 22

StorageTag(s) ==
  IF s.t = "BigFloat"
  THEN 21 + CHOOSE c \in DOMAIN StorageClasses : StorageClasses[c] = s.v[1]
  ELSE OrderTag(s)

\* to_signed_bytes_be: the fewest bytes that keep the sign
SignedBytes(n) ==
  BigEndian(n, CHOOSE w \in 1..4 :
                 /\ w = 4 \/ n \in -(128 * 256 ^ (w - 1))..(128 * 256 ^ (w - 1)) - 1
                 /\ \A u \in 1..w - 1 :
                      n \notin -(128 * 256 ^ (u - 1))..(128 * 256 ^ (u - 1)) - 1)

\* mutant: the mantissa has no length before it
FloatBody_BareMantissa(v) ==
  IF v[1] \in {Pos, Neg} THEN BigEndian(v[2], 1) \o SubSeq(v, 3, Len(v)) ELSE <<>>

(* encode_float, after the tag.                                            *)
FloatBody(v) ==
  IF v[1] \in {Pos, Neg} THEN BigEndian(v[2], 1) \o PutBytes(SubSeq(v, 3, Len(v)))
  ELSE <<>>

(* Scalar::encode.                                                         *)
EncodeScalar(s) ==
  <<StorageTag(s)>> \o
  CASE s.t = "Null" -> <<>>
    [] s.t \in {"Bool", "I8", "I16", "I32", "I64", "I128", "U8", "U16", "U32",
                "U64", "U128", "Date"} -> BigEndian(s.v[1], Width(s.t))
    [] s.t \in {"F32", "F64", "Uuid"} -> s.v
    [] s.t \in {"Str", "Bytes"} -> PutBytes(s.v)
    [] s.t = "Time" -> BigEndian(s.v[1], 4) \o BigEndian(s.v[2], 4)
    [] s.t = "DateTime" ->
         BigEndian(s.v[1], 4) \o BigEndian(s.v[2], 4) \o BigEndian(s.v[3], 4)
    [] s.t = "Duration" -> BigEndian(s.v[1], 8) \o BigEndian(s.v[2], 4)
    [] s.t = "BigInt" -> PutBytes(SignedBytes(s.v[1]))
    [] s.t = "BigFloat" -> FloatBody(s.v)
    [] s.t = "Rational" -> PutBytes(SignedBytes(s.v[1])) \o PutBytes(SignedBytes(s.v[2]))

TypeOf(tag) ==
  IF tag = 28 THEN "Rational" ELSE IF tag > 21 THEN "BigFloat" ELSE Types[tag + 1]

Widths(tag) ==
  LET type == TypeOf(tag)
  IN  CASE type = "Null" \/ tag \in {22, 25, 26, 27} -> <<>>
        [] type = "Time" -> <<4, 4>>
        [] type = "DateTime" -> <<4, 4, 4>>
        [] type = "Duration" -> <<8, 4>>
        [] type \in {"Str", "Bytes", "BigInt"} -> <<Run>>
        [] tag \in {23, 24} -> <<1, Run>>
        [] type = "Rational" -> <<Run, Run>>
        [] OTHER -> <<Width(type)>>

(* decode_time: a second may only be longer than 10^9 at the end of a      *)
(* minute.                                                                 *)
IsTime(secs, nanos) ==
  /\ secs < 86400
  /\ nanos < (IF secs % 60 = 59 THEN 2 ELSE 1) * NanosPerSecond

(* The days that chrono has a date for: years -262143 to 262142.           *)
IsDay(days) == days \in -95746129..95745399

Acceptable(type, f) ==
  CASE type = "Str" -> IsUtf8(f[1])
    [] type = "Date" -> IsDay(Signed(f[1]))
    [] type = "Time" -> IsTime(Unsigned(f[1]), Unsigned(f[2]))
    [] type = "DateTime" -> IsDay(Signed(f[1])) /\ IsTime(Unsigned(f[2]), Unsigned(f[3]))
    [] OTHER -> TRUE

FieldsValue(tag, f) ==
  LET type == TypeOf(tag)
  IN  CASE type = "Null" -> <<>>
        [] type = "Bool" -> IF f[1] = <<0>> THEN <<0>> ELSE <<1>>
        [] type \in {"U8", "U16", "U32", "U64", "U128"} -> <<Unsigned(f[1])>>
        [] type \in {"I8", "I16", "I32", "I64", "I128", "Date", "BigInt"} -> <<Signed(f[1])>>
        [] type \in {"F32", "F64", "Uuid", "Str", "Bytes"} -> f[1]
        [] type = "Time" -> <<Unsigned(f[1]), Unsigned(f[2])>>
        [] type = "DateTime" -> <<Signed(f[1]), Unsigned(f[2]), Unsigned(f[3])>>
        [] type \in {"Duration", "Rational"} -> <<Signed(f[1]), Signed(f[2])>>
        [] type = "BigFloat" ->
             <<StorageClasses[tag - 21]>>
               \o (IF Len(f) = 0 THEN <<>> ELSE <<Signed(f[1])>> \o f[2])

ScalarOf(tag, f) ==
  IF f.ok /\ Acceptable(TypeOf(tag), f.v)
  THEN Got(Scalar(TypeOf(tag), FieldsValue(tag, f.v)), f.rest) ELSE Refused

(* Scalar::decode.                                                         *)
DecodeScalar(bytes) ==
  IF bytes = <<>> \/ bytes[1] > 28 THEN Refused
  ELSE ScalarOf(bytes[1], ReadFields(Tail(bytes), Widths(bytes[1])))

------------------------------------------------------------------------------
(* Values: a node, a primary key, or nothing                               *)

ObjectNode         == [kind |-> "object"]
ListNode(keys)     == [kind |-> "list", items |-> keys]
LeafNode(s)        == [kind |-> "leaf", scalar |-> s]
PackedNode(r, blob) == [kind |-> "packed", root |-> r, blob |-> blob]

NodeValue(node) == [is |-> "node", node |-> node]
SkeyValue(key)  == [is |-> "skey", key |-> key]
UnitValue       == [is |-> "unit"]

Kinds == <<"object", "list", "leaf", "packed">>    \* of a node; a packed root is of the first three
KindTag(kind) == (CHOOSE k \in DOMAIN Kinds : Kinds[k] = kind) - 1

(* NodeRef::encode.                                                        *)
EncodeNode(n) ==
  <<KindTag(n.kind)>> \o
  CASE n.kind = "object" -> <<>>
    [] n.kind = "list" -> BigEndian(Len(n.items), 4) \o FlattenSeq(n.items)
    [] n.kind = "leaf" -> EncodeScalar(n.scalar)
    [] n.kind = "packed" -> <<KindTag(n.root)>> \o PutBytes(n.blob)

ReadKeys(count) ==
  IF count.ok
  THEN ReadFields(count.rest, [i \in 1..Unsigned(count.v) |-> SkeyLen]) ELSE Refused

PackedOf(f) ==
  IF f.ok /\ f.v[1][1] < 3
  THEN Got(PackedNode(Kinds[f.v[1][1] + 1], f.v[2]), f.rest) ELSE Refused

(* NodeRef::decode.                                                        *)
DecodeNode(bytes) ==
  LET rest == Tail(bytes)
  IN  IF bytes = <<>> THEN Refused
      ELSE CASE bytes[1] = 0 -> Got(ObjectNode, rest)
             [] bytes[1] = 1 -> As(ReadKeys(Take(rest, 4)), ListNode)
             [] bytes[1] = 2 -> As(DecodeScalar(rest), LeafNode)
             [] bytes[1] = 3 -> PackedOf(ReadFields(rest, <<1, Run>>))
             [] OTHER        -> Refused

(* TableValueRef::encode.                                                  *)
EncodeValue(v) ==
  CASE v.is = "node" -> <<0>> \o EncodeNode(v.node)
    [] v.is = "skey" -> <<1>> \o v.key
    [] v.is = "unit" -> <<2>>

(* TableValueRef::decode.                                                  *)
DecodeValue(bytes) ==
  LET rest == Tail(bytes)
  IN  IF bytes = <<>> THEN Refused
      ELSE CASE bytes[1] = 0 -> As(DecodeNode(rest), NodeValue)
             [] bytes[1] = 1 -> As(Take(rest, SkeyLen), SkeyValue)
             [] bytes[1] = 2 -> Got(UnitValue, rest)
             [] OTHER        -> Refused

------------------------------------------------------------------------------
(* Keys: of a node, of a link from an object to a child, of an index entry *)

NoEntity == <<>>

DataKey(key)               == [is |-> "data", key |-> key]
ChildKey(parent, name)     == [is |-> "child", parent |-> parent, name |-> name]
IndexKey(id, cols, entity) == [is |-> "index", id |-> id, cols |-> cols, entity |-> entity]

(* TableKey::tag.                                                          *)
TableKeyTag(k) ==
  CASE k.is = "data" -> 0
    [] k.is = "child" -> 1
    [] k.is = "index" -> IF k.entity # NoEntity THEN 2 ELSE 3

\* mutant: a length before the columns of an index entry
EncodeKey_Lengths(k) ==
  <<TableKeyTag(k)>> \o
  CASE k.is = "data" -> k.key
    [] k.is = "child" -> k.parent \o k.name
    [] k.is = "index" -> BigEndian(k.id, 4) \o <<Len(k.cols)>> \o k.cols \o k.entity

(* TableKey::encode.                                                       *)
EncodeKey(k) ==
  <<TableKeyTag(k)>> \o
  CASE k.is = "data" -> k.key
    [] k.is = "child" -> k.parent \o k.name
    [] k.is = "index" -> BigEndian(k.id, 4) \o k.cols \o k.entity

ChildKeyOf(parent) ==
  IF parent.ok /\ IsUtf8(parent.rest)
  THEN Got(ChildKey(parent.v, parent.rest), <<>>) ELSE Refused

\* an index entry, that ends with an entity of width bytes
IndexKeyOf(id, width) ==
  LET end == Len(id.rest) - width
  IN  IF id.ok /\ end >= 0
      THEN Got(IndexKey(Unsigned(id.v), SubSeq(id.rest, 1, end),
                        SubSeq(id.rest, end + 1, Len(id.rest))), <<>>)
      ELSE Refused

(* TableKey::decode.                                                       *)
DecodeKey(bytes) ==
  LET rest == Tail(bytes)
  IN  IF bytes = <<>> THEN Refused
      ELSE CASE bytes[1] = 0 ->
                  IF Len(rest) = SkeyLen THEN Got(DataKey(rest), <<>>) ELSE Refused
             [] bytes[1] = 1 -> ChildKeyOf(Take(rest, SkeyLen))
             [] bytes[1] = 2 -> IndexKeyOf(Take(rest, 4), SkeyLen)
             [] bytes[1] = 3 -> IndexKeyOf(Take(rest, 4), 0)
             [] OTHER        -> Refused

\* a comes before b: the first of the given pairs that differs decides
FirstDifference(pairs) ==
  \E i \in DOMAIN pairs :
    /\ BytesBefore(pairs[i][1], pairs[i][2])
    /\ \A j \in 1..i - 1 : pairs[j][1] = pairs[j][2]

(* Ord::cmp for TableKey, field by field.                                  *)
KeyBefore(x, y) ==
  IF TableKeyTag(x) # TableKeyTag(y) THEN TableKeyTag(x) < TableKeyTag(y)
  ELSE CASE x.is = "data" -> BytesBefore(x.key, y.key)
         [] x.is = "child" -> FirstDifference(<< <<x.parent, y.parent>>, <<x.name, y.name>> >>)
         [] x.is = "index" ->
              \/ x.id < y.id
              \/ /\ x.id = y.id
                 /\ FirstDifference(<< <<x.cols, y.cols>>, <<x.entity, y.entity>> >>)
=============================================================================
