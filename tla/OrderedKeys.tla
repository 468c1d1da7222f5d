---------------------------- MODULE OrderedKeys ----------------------------
(***************************************************************************)
(* The order-preserving encoding of scalars in index keys (index/ordered): *)
(* the bytes of two encodings compare as the scalars do, and in reverse in *)
(* a descending column.  A byte string is a sequence of 0..255.            *)
(*                                                                         *)
(* A scalar is a record [t, v].  Its v is a sequence of integers: one      *)
(* integer (Bool, the integer types, Date, BigInt), the bytes of the value *)
(* (F32, F64, Str, Bytes, Uuid), seconds and nanoseconds (Time, Duration), *)
(* days, seconds and nanoseconds (DateTime), numerator and denominator in  *)
(* lowest terms (Rational), or a class and, if finite, the exponent and    *)
(* the decimal digits (BigFloat).                                          *)
(***************************************************************************)
EXTENDS Integers, SequencesExt

CONSTANT NanosPerSecond     \* 10^9 in the code: a bound for TLC's integers

Scalar(type, v) == [t |-> type, v |-> v]
Null == Scalar("Null", <<>>)

\* memcmp
BytesBefore(x, y) ==
  \E n \in 0..Len(x) :
    /\ n < Len(y) /\ SubSeq(x, 1, n) = SubSeq(y, 1, n)
    /\ n = Len(x) \/ x[n + 1] < y[n + 1]

Inverted(bytes) == [i \in DOMAIN bytes |-> 255 - bytes[i]]

\* to_be_bytes, of an integer of w bytes in two's complement
BigEndian(n, w) ==
  LET rest[i \in 0..w] == IF i = 0 THEN n ELSE rest[i - 1] \div 256
  IN  [i \in 1..w |-> rest[w - i] % 256]

\* to_bytes_be, without leading zeros
Magnitude(n) ==
  LET w == CHOOSE w \in 1..4 :
             /\ w = 4 \/ n < 256 ^ w
             /\ \A u \in 1..w - 1 : n >= 256 ^ u
  IN  BigEndian(n, w)

Width(type) ==
  CASE type \in {"Bool", "I8", "U8"} -> 1
    [] type \in {"I16", "U16"} -> 2
    [] type \in {"I32", "U32", "F32", "Date"} -> 4
    [] type \in {"I64", "U64", "F64"} -> 8
    [] type \in {"I128", "U128", "Uuid"} -> 16

------------------------------------------------------------------------------
(* The encoding of one scalar                                              *)

Types == <<"Null", "Bool", "I8", "I16", "I32", "I64", "I128", "U8", "U16",
           "U32", "U64", "U128", "F32", "F64", "Str", "Bytes", "Uuid", "Date",
           "Time", "DateTime", "Duration", "BigInt">>

\* of a BigFloat: -infinity, negative, zero, positive, +infinity, NaN
MinusInf == 1  Neg == 2  Zero == 3  Pos == 4  PlusInf == 5  NaN == 6

(* ordered::tag: the classes of a BigFloat have a tag each.                *)
OrderTag(s) ==
  CASE s.t = "BigFloat" -> 21 + s.v[1]
    [] s.t = "Rational" -> 28
    [] OTHER -> (CHOOSE i \in DOMAIN Types : Types[i] = s.t) - 1

\* mutant: the sign bit stays
PushSigned_Plain(be) == be

(* push_signed: the sign bit is flipped.                                   *)
PushSigned(be) == <<(be[1] + 128) % 256>> \o Tail(be)

(* float32, float64.                                                       *)
FloatBits(bits) ==
  IF bits[1] >= 128 THEN Inverted(bits) ELSE <<bits[1] + 128>> \o Tail(bits)

\* mutant: a terminator of one byte
OrderedBytes_BareEnd(bytes) ==
  FlattenSeq([i \in DOMAIN bytes |->
                IF bytes[i] = 0 THEN <<0, 255>> ELSE <<bytes[i]>>]) \o <<0>>

(* ordered_bytes: 0 is escaped as 0 255, and 0 1 ends the string.          *)
OrderedBytes(bytes) ==
  FlattenSeq([i \in DOMAIN bytes |->
                IF bytes[i] = 0 THEN <<0, 255>> ELSE <<bytes[i]>>]) \o <<0, 1>>

(* put_uint_be: the length of the length, the length, the magnitude.       *)
PutUintBe(n) ==
  LET mag == Magnitude(n)
      len == Magnitude(Len(mag))
  IN  <<Len(len)>> \o len \o mag

(* encode_signed_int: the class NEG, ZERO or POS, then the magnitude.      *)
EncodeSignedInt(n) ==
  IF n = 0 THEN <<1>>
  ELSE IF n > 0 THEN <<2>> \o PutUintBe(n)
  ELSE <<0>> \o Inverted(PutUintBe(-n))

(* encode_bigfloat: the exponent of the leading digit, then the digits     *)
(* without trailing zeros.                                                 *)
EncodeBigFloat(v) ==
  LET digits  == SubSeq(v, 3, Len(v))
      n       == Len(digits)
      written == CHOOSE k \in 1..n :
                   /\ k = 1 \/ digits[k] # 0
                   /\ \A i \in k + 1..n : digits[i] = 0
      body    == PushSigned(BigEndian(n - 1 + v[2], 2))
                   \o OrderedBytes(SubSeq(digits, 1, written))
  IN  IF v[1] = Pos THEN body
      ELSE IF v[1] = Neg THEN Inverted(body) ELSE <<>>

(* continued_fraction: the division truncates, so a negative remainder is  *)
(* corrected to the floor.                                                 *)
ContinuedFraction(numer, denom) ==
  LET Terms[p \in Int, q \in Nat] ==
        LET trunc == IF p < 0 THEN -((-p) \div q) ELSE p \div q
            rem   == p - trunc * q
            a     == IF rem < 0 THEN trunc - 1 ELSE trunc
            r     == IF rem < 0 THEN rem + q ELSE rem
        IN  IF r = 0 THEN <<a>> ELSE <<a>> \o Terms[q, r]
  IN  Terms[numer, denom]

(* encode_rational: terms at odd positions (counted from 0) decrease the   *)
(* value and are inverted; CONTINUE is 1, STOP_ODD 0 and STOP_EVEN 2.      *)
EncodeRational(v) ==
  LET terms   == ContinuedFraction(v[1], v[2])
      term(i) == <<1>> \o (IF i % 2 = 0 THEN Inverted(PutUintBe(terms[i]))
                           ELSE PutUintBe(terms[i]))
      stop    == IF Len(terms) % 2 = 0 THEN 2 ELSE 0
  IN  EncodeSignedInt(terms[1])
        \o FlattenSeq([i \in 1..Len(terms) - 1 |-> term(i + 1)]) \o <<stop>>

(* encode_ascending without its tag.                                       *)
AscendingBody(s) ==
  CASE s.t = "Null" -> <<>>
    [] s.t \in {"Bool", "U8", "U16", "U32", "U64", "U128"} -> BigEndian(s.v[1], Width(s.t))
    [] s.t \in {"I8", "I16", "I32", "I64", "I128", "Date"} ->
         PushSigned(BigEndian(s.v[1], Width(s.t)))
    [] s.t \in {"F32", "F64"} -> FloatBits(s.v)
    [] s.t \in {"Str", "Bytes"} -> OrderedBytes(s.v)
    [] s.t = "Uuid" -> s.v
    [] s.t = "Time" -> BigEndian(s.v[1], 4) \o BigEndian(s.v[2], 4)
    [] s.t = "DateTime" -> PushSigned(BigEndian(s.v[1], 4))
                             \o BigEndian(s.v[2], 4) \o BigEndian(s.v[3], 4)
    [] s.t = "Duration" -> PushSigned(BigEndian(s.v[1] * NanosPerSecond + s.v[2], 16))
    [] s.t = "BigInt" -> EncodeSignedInt(s.v[1])
    [] s.t = "BigFloat" -> EncodeBigFloat(s.v)
    [] s.t = "Rational" -> EncodeRational(s.v)

(* encode_scalar.                                                          *)
EncodeColumn(s, desc) ==
  LET bytes == <<OrderTag(s)>> \o AscendingBody(s)
  IN  IF desc THEN Inverted(bytes) ELSE bytes

(* IndexDef::encode_columns: as many columns as there are values.          *)
EncodeColumns(descs, values) ==
  FlattenSeq([c \in 1..Min({Len(descs), Len(values)}) |->
                EncodeColumn(values[c], descs[c])])

------------------------------------------------------------------------------
(* The order of the scalars, by their values                               *)

Negative(bits) == bits[1] >= 128

\* sign and magnitude; the two zeros differ, and a NaN is beyond infinity
FloatBefore(x, y) ==
  LET size(bits) == <<bits[1] % 128>> \o Tail(bits)
  IN  IF Negative(x) # Negative(y) THEN Negative(x)
      ELSE IF Negative(x) THEN BytesBefore(size(y), size(x))
      ELSE BytesBefore(size(x), size(y))

TupleBefore(x, y) ==
  \E i \in DOMAIN x : x[i] < y[i] /\ \A j \in 1..i - 1 : x[j] = y[j]

\* as integers, over the smaller of the two exponents
DecimalBefore(x, y) ==
  LET whole(v) == FoldLeft(LAMBDA n, d : 10 * n + d, 0, SubSeq(v, 3, Len(v)))
                    * 10 ^ (v[2] - Min({x[2], y[2]}))
  IN  CASE x[1] # y[1] -> x[1] < y[1]
        [] x[1] = y[1] /\ x[1] = Pos -> whole(x) < whole(y)
        [] x[1] = y[1] /\ x[1] = Neg -> whole(y) < whole(x)
        [] OTHER -> FALSE

TypeRank(t) ==
  CASE t = "BigFloat" -> 100 [] t = "Rational" -> 101
    [] OTHER -> CHOOSE i \in DOMAIN Types : Types[i] = t

ScalarBefore(x, y) ==
  CASE x.t # y.t -> TypeRank(x.t) < TypeRank(y.t)
    [] x.t = y.t /\ x.t \in {"F32", "F64"} -> FloatBefore(x.v, y.v)
    [] x.t = y.t /\ x.t \in {"Str", "Bytes", "Uuid"} -> BytesBefore(x.v, y.v)
    [] x.t = y.t /\ x.t = "BigFloat" -> DecimalBefore(x.v, y.v)
    [] x.t = y.t /\ x.t = "Rational" -> x.v[1] * y.v[2] < y.v[1] * x.v[2]
    [] OTHER -> TupleBefore(x.v, y.v)

ColumnBefore(desc, x, y) == IF desc THEN ScalarBefore(y, x) ELSE ScalarBefore(x, y)

\* the first column that tells x from y decides
ColumnsBefore(descs, x, y) ==
  \E c \in DOMAIN x :
    /\ ColumnBefore(descs[c], x[c], y[c])
    /\ \A b \in 1..c - 1 : ~ScalarBefore(x[b], y[b]) /\ ~ScalarBefore(y[b], x[b])
=============================================================================
