---------------------------- MODULE DocumentText ----------------------------
(***************************************************************************)
(* Documents as JSON and YAML text (export).  A text is a sequence of      *)
(* characters; the leaves of a document are scalars (OrderedKeys), whose   *)
(* strings are texts too.                                                  *)
(***************************************************************************)
EXTENDS OrderedKeys, PathText

Space     == <<32>>
NewLine   == <<10>>
QuoteMark == <<34>>
Comma     == <<44>>
Dash      == <<45>>
Colon     == <<58>>
NullText  == <<110, 117, 108, 108>>

\* mutant: a backslash is left as it is
Escape_NoBackslash(c) ==
  CASE c = 34 -> <<92, 34>>
    [] c = 10 -> <<92, 110>>
    [] OTHER  -> <<c>>

\* format!("{:04x}"), of a control character
Hex4(c) == LET Digit(n) == IF n < 10 THEN 48 + n ELSE 87 + n
           IN  <<48, 48, Digit(c \div 16), Digit(c % 16)>>

(* What stands for a character inside quotes: \" \\ \n \r \t \b \f \u00xx. *)
Escape(c) ==
  CASE c \in {34, 92} -> <<92, c>>
    [] c = 10 -> <<92, 110>>  [] c = 13 -> <<92, 114>>  [] c = 9 -> <<92, 116>>
    [] c = 8  -> <<92, 98>>   [] c = 12 -> <<92, 102>>
    [] c < 32 /\ c \notin {8, 9, 10, 12, 13} -> <<92, 117>> \o Hex4(c)
    [] OTHER  -> <<c>>

Quote(text) == QuoteMark \o FlattenSeq([i \in DOMAIN text |-> Escape(text[i])]) \o QuoteMark

(* base64::encode: three bytes are four characters, or fewer and padding.  *)
Base64(bytes) ==
  LET Letter(n) == CASE n < 26 -> 65 + n  [] n \in 26..51 -> 71 + n  [] n \in 52..61 -> n - 4
                     [] n = 62 -> PLUS  [] n = 63 -> SLASH
      byte(i)   == IF i \in DOMAIN bytes THEN bytes[i] ELSE 0
      chunk(k)  == LET at == 3 * (k - 1)
                       n  == byte(at + 1) * 65536 + byte(at + 2) * 256 + byte(at + 3)
                       given(j) == at + j \in DOMAIN bytes
                   IN  <<Letter(n \div 262144), Letter(n \div 4096 % 64),
                         IF given(2) THEN Letter(n \div 64 % 64) ELSE 61,
                         IF given(3) THEN Letter(n % 64) ELSE 61>>
  IN  FlattenSeq([k \in 1..(Len(bytes) + 2) \div 3 |-> chunk(k)])

(* Display of an integer, of the least one too.                            *)
SignedDecimal(n) ==
  LET tens == -((n + 9) \div 10)
      unit == -(n + 10 * tens)
  IN  IF n >= 0 THEN Decimal(n)
      ELSE Dash \o (IF tens = 0 THEN <<>> ELSE Decimal(tens)) \o <<48 + unit>>

(* duration_seconds: whole seconds and billionths agree in sign, the       *)
(* fraction has no trailing zero.                                          *)
DurationSeconds(secs, nanos) ==
  LET abs(n)   == IF n < 0 THEN -n ELSE n
      digits   == Tail(Decimal(NanosPerSecond + abs(nanos)))
      last     == CHOOSE i \in DOMAIN digits : digits[i] # 48 /\ \A j \in i + 1..Len(digits) : digits[j] = 48
  IN  IF nanos = 0 THEN SignedDecimal(secs)
      ELSE (IF secs < 0 \/ nanos < 0 THEN Dash ELSE <<>>) \o Decimal(abs(secs))
             \o Here \o SubSeq(digits, 1, last)

IsFinite(s) ==
  CASE s.t = "F32" -> (s.v[1] % 128) * 2 + s.v[2] \div 128 # 255
    [] s.t = "F64" -> (s.v[1] % 128) * 16 + s.v[2] \div 16 # 2047
    [] s.t = "BigFloat" -> s.v[1] \in {Neg, Zero, Pos}

Floats   == {"F32", "F64", "BigFloat"}
Integral == {"I8", "I16", "I32", "I64", "I128", "U8", "U16", "U32", "U64", "U128", "BigInt"}

(* What an F32 or F64 is, as a whole and billionths that agree in sign.    *)
(* Bound: the significand ends in the second byte, and NanosPerSecond has  *)
(* the places that the float has.                                          *)
FloatParts(s) ==
  LET wide     == s.t = "F64"
      unit     == IF wide THEN 16 ELSE 128
      exponent == (s.v[1] % 128) * (256 \div unit) + (s.v[2] \div unit)
      digits   == IF exponent = 0 THEN 0 ELSE unit + (s.v[2] % unit)
      scale    == IF exponent = 0 THEN 0 ELSE exponent - (IF wide THEN 1023 + 4 ELSE 127 + 7)
      sign     == IF s.v[1] > 127 THEN -1 ELSE 1
      places   == 2 ^ (IF scale < 0 THEN -scale ELSE 0)
  IN  IF scale >= 0 THEN <<sign * digits * 2 ^ scale, 0>>
      ELSE <<sign * (digits \div places),
             sign * (((digits % places) * NanosPerSecond) \div places)>>

IsNegativeZero(s) == s.t \in {"F32", "F64"} /\ s.v[1] = 128 /\ FloatParts(s) = <<0, 0>>

(* Display of a float: the shortest decimal number, without an exponent.   *)
WriteFloat(s) ==
  IF IsNegativeZero(s) THEN Dash \o <<48>>
  ELSE DurationSeconds(FloatParts(s)[1], FloatParts(s)[2])

(* Display of uuids, dates, times and big floats, which libraries give:    *)
(* any text of its own for each value (of a big float, always with as many *)
(* digits as it can have).                                                 *)
LibraryText(s) == [i \in DOMAIN s.v |-> 100000 + s.v[i]]

WriteScalar(s) ==
  CASE s.t = "Null"     -> NullText
    [] s.t = "Bool"     -> IF s.v = <<1>> THEN <<116, 114, 117, 101>> ELSE <<102, 97, 108, 115, 101>>
    [] s.t \in Integral -> SignedDecimal(s.v[1])
    [] s.t \in Floats /\ ~IsFinite(s) -> NullText
    [] s.t \in {"F32", "F64"} /\ IsFinite(s) -> WriteFloat(s)
    [] s.t = "BigFloat" /\ IsFinite(s) -> LibraryText(s)
    [] s.t = "Duration" -> DurationSeconds(s.v[1], s.v[2])
    [] s.t = "Str"      -> Quote(s.v)
    [] s.t = "Bytes"    -> Quote(Base64(s.v))
    [] s.t = "Rational" -> Quote(SignedDecimal(s.v[1]) \o <<SLASH>> \o SignedDecimal(s.v[2]))
    [] OTHER            -> Quote(LibraryText(s))

------------------------------------------------------------------------------
(* The parts of a document in the order of the text, which writes fields   *)
(* in the order of their names                                             *)

Pad(n)   == [i \in 1..n |-> 32]
HasNoParts(d) == Segments(d) = <<>>

InOrderOf(d) ==
  IF Is(d, "list") THEN d.items
  ELSE LET names == SetToSortSeq(DOMAIN d.fields, BytesBefore)
       IN  [i \in DOMAIN names |-> d.fields[names[i]]]

(* What stands before the part number i: nothing in a list.                *)
KeyText(d, i, colon) ==
  IF Is(d, "list") THEN <<>>
  ELSE Quote(SetToSortSeq(DOMAIN d.fields, BytesBefore)[i]) \o colon

Bracketed(d, inside) ==
  IF Is(d, "list") THEN <<OPEN>> \o inside \o <<CLOSE>> ELSE <<123>> \o inside \o <<125>>

Joined(texts, by) ==
  FlattenSeq([i \in DOMAIN texts |-> IF i = 1 THEN texts[i] ELSE by \o texts[i]])

RECURSIVE Compact(_)
Compact(d) ==
  IF Is(d, "leaf") THEN WriteScalar(d.val)
  ELSE LET parts == InOrderOf(d)
       IN  Bracketed(d, Joined([i \in DOMAIN parts |-> KeyText(d, i, Colon) \o Compact(parts[i])], Comma))

RECURSIVE Pretty(_, _, _)
Pretty(d, step, depth) ==
  IF Is(d, "leaf") \/ HasNoParts(d) THEN Compact(d)
  ELSE LET parts == InOrderOf(d)
           lines == [i \in DOMAIN parts |-> Pad(step * (depth + 1)) \o KeyText(d, i, Colon \o Space)
                                              \o Pretty(parts[i], step, depth + 1)]
       IN  Bracketed(d, NewLine \o Joined(lines, Comma \o NewLine) \o NewLine \o Pad(step * depth))

(* object, list and child: a container that is not empty opens on the next *)
(* line, anything else stays on the line of its key or dash.               *)
RECURSIVE Block(_, _)
Block(d, indent) ==
  LET parts    == InOrderOf(d)
      child(x) == IF Is(x, "leaf") \/ HasNoParts(x) THEN Space \o Compact(x) \o NewLine
                  ELSE NewLine \o Block(x, indent + 2)
      marker(i) == IF Is(d, "list") THEN Dash ELSE KeyText(d, i, Colon)
  IN  FlattenSeq([i \in DOMAIN parts |-> Pad(indent) \o marker(i) \o child(parts[i])])

Yaml(d) == IF Is(d, "leaf") \/ HasNoParts(d) THEN Compact(d) \o NewLine ELSE Block(d, 0)

------------------------------------------------------------------------------

QuotedTypes == {"Str", "Bytes", "Uuid", "Date", "Time", "DateTime", "Rational"}

(* What the text of a scalar says: numbers by their value, whatever their  *)
(* type, null also for a float that no number stands for ("the only lossy  *)
(* step of an export", export/scalar.rs:2).                                *)
Says(s) ==
  CASE s.t = "Null" \/ (s.t \in Floats /\ ~IsFinite(s)) -> <<"null", <<>>>>
    [] IsNegativeZero(s)  -> <<"minus zero", <<>>>>
    [] s.t \in {"F32", "F64"} /\ IsFinite(s) /\ ~IsNegativeZero(s) -> <<"number", FloatParts(s)>>
    [] s.t \in Integral   -> <<"number", <<s.v[1], 0>>>>
    [] s.t = "Duration"   -> <<"number", s.v>>
    [] OTHER              -> <<s.t, s.v>>

RECURSIVE Content(_)
Content(d) ==
  IF Is(d, "leaf") THEN Says(d.val)
  ELSE IF Is(d, "list") THEN <<"list", [i \in DOMAIN d.items |-> Content(d.items[i])]>>
  ELSE <<"object", [n \in DOMAIN d.fields |-> Content(d.fields[n])]>>

(* Two scalars have the same text exactly if it says the same of them; but *)
(* a string may spell what another type is quoted as.                      *)
ScalarsToldApart(x, y) ==
  ~({x.t, y.t} \subseteq QuotedTypes /\ x.t # y.t) =>
    ((WriteScalar(x) = WriteScalar(y)) <=> (Says(x) = Says(y)))

(* Two documents have the same text in one of the layouts exactly if they  *)
(* have the same content.                                                  *)
DocumentsToldApart(d, e, steps) ==
  LET same == Content(d) = Content(e)
  IN  /\ (Compact(d) = Compact(e)) <=> same
      /\ \A n \in steps : (Pretty(d, n, 0) = Pretty(e, n, 0)) <=> same
      /\ (Yaml(d) = Yaml(e)) <=> same

(* Without its layout the pretty text is the compact one; for names and    *)
(* strings without a blank.                                                *)
LayoutOnly(d, steps) ==
  \A n \in steps : SelectSeq(Pretty(d, n, 0), LAMBDA c : c \notin {10, 32}) = Compact(d)
=============================================================================
