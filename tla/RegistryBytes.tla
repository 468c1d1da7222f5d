--------------------------- MODULE RegistryBytes ---------------------------
(***************************************************************************)
(* The bytes of the index registry, one value in the metadata table        *)
(* (index/registry/repository, index/definitions/index): the next id, then *)
(* every index with its table, id and definition.  Names and patterns are  *)
(* texts; a column is a path, which is kept as its text, and a direction.  *)
(***************************************************************************)
EXTENDS TableBytes, PathText

(* IndexDef::encode.                                                       *)
EncodeDef(def) ==
  PutBytes(def.name) \o PutBytes(def.pattern)
    \o <<IF def.unique THEN 1 ELSE 0>> \o BigEndian(Len(def.columns), 4)
    \o FlattenSeq([c \in DOMAIN def.columns |->
                     PutBytes(Display(def.columns[c].path))
                       \o <<IF def.columns[c].desc THEN 1 ELSE 0>>])

(* RegistryRepository::encode.                                             *)
EncodeRegistry(r) ==
  BigEndian(r.next, 4) \o BigEndian(Len(r.entries), 4)
    \o FlattenSeq([e \in DOMAIN r.entries |->
                     PutBytes(r.entries[e].table) \o BigEndian(r.entries[e].id, 4)
                       \o EncodeDef(r.entries[e].def)])

\* count items read one after the other
ReadMany(bytes, count, Read(_)) ==
  LET R[i \in 0..count] ==
        IF i = 0 THEN Got(<<>>, bytes)
        ELSE IF R[i - 1].ok THEN Follow(R[i - 1], Read(R[i - 1].rest)) ELSE Refused
  IN  R[count]

ColumnOf(f, path) ==
  IF path.ok /\ f.v[2][1] <= 1
  THEN Got([path |-> path.segs, desc |-> f.v[2][1] = 1], f.rest) ELSE Refused

ParsedColumn(f) ==
  IF f.ok /\ IsUtf8(f.v[1]) THEN ColumnOf(f, Parse(f.v[1])) ELSE Refused

(* A column of IndexDef::decode: its text must parse.                      *)
DecodeColumn(bytes) == ParsedColumn(ReadFields(bytes, <<Run, 1>>))

\* the columns follow the other fields
DefOf(f, columns) ==
  IF columns.ok
  THEN Got([name |-> f.v[1], pattern |-> f.v[2], unique |-> f.v[3] # <<0>>,
            columns |-> columns.v], columns.rest)
  ELSE Refused

DefAfter(f) ==
  IF f.ok /\ IsUtf8(f.v[1]) /\ IsUtf8(f.v[2])
  THEN DefOf(f, ReadMany(f.rest, Unsigned(f.v[4]), DecodeColumn)) ELSE Refused

(* IndexDef::decode.                                                       *)
DecodeDef(bytes) == DefAfter(ReadFields(bytes, <<Run, Run, 1, 4>>))

EntryOf(f, def) ==
  IF def.ok
  THEN Got([table |-> f.v[1], id |-> Unsigned(f.v[2]), def |-> def.v], def.rest) ELSE Refused

EntryAfter(f) ==
  IF f.ok /\ IsUtf8(f.v[1]) THEN EntryOf(f, DecodeDef(f.rest)) ELSE Refused

\* an index of RegistryRepository::decode
DecodeEntry(bytes) == EntryAfter(ReadFields(bytes, <<Run, 4>>))

RegistryOf(f, entries) ==
  IF entries.ok
  THEN Got([next |-> Unsigned(f.v[1]), entries |-> entries.v], entries.rest) ELSE Refused

EntriesAfter(f) ==
  IF f.ok THEN RegistryOf(f, ReadMany(f.rest, Unsigned(f.v[2]), DecodeEntry)) ELSE Refused

(* RegistryRepository::decode.                                             *)
DecodeRegistry(bytes) == EntriesAfter(ReadFields(bytes, <<4, 4>>))

(* RegistryRepository::lookup: the first index of that name on the table.  *)
Lookup(r, table, name) ==
  SelectInSeq(r.entries, LAMBDA e : e.table = table /\ e.def.name = name)

NameOf(f, columns) == IF columns.ok THEN Got(f.v[1], columns.rest) ELSE Refused

\* mutant: the columns are not skipped
NameAfter_StopsEarly(f) ==
  IF f.ok /\ IsUtf8(f.v[1]) THEN Got(f.v[1], f.rest) ELSE Refused

NameAfter(f) ==
  IF f.ok /\ IsUtf8(f.v[1])
  THEN NameOf(f, ReadMany(f.rest, Unsigned(f.v[4]), LAMBDA b : ReadFields(b, <<Run, 1>>)))
  ELSE Refused

(* IndexDef::decode_name: the rest of the definition is skipped.           *)
DecodeName(bytes) == NameAfter(ReadFields(bytes, <<Run, Run, 1, 4>>))

TableAndName(head, name) ==
  IF head.ok /\ name.ok THEN Got(<<head.v[1], name.v>>, name.rest) ELSE Refused

NamesAfter(f) ==
  ReadMany(f.rest, Unsigned(f.v[2]),
           LAMBDA b : LET head == ReadFields(b, <<Run, 4>>)
                      IN  TableAndName(head, DecodeName(head.rest)))

HasName(names, table, name) == names.ok /\ <<table, name>> \in ToSet(names.v)

(* RegistryRepository::has, which walks the bytes.                         *)
Has(bytes, table, name) == HasName(NamesAfter(ReadFields(bytes, <<4, 4>>)), table, name)

------------------------------------------------------------------------------

(* The registry reads back as it was written, whatever its indexes, and    *)
(* the presence check, which walks the bytes without decoding the          *)
(* definitions, finds an index exactly when the lookup does                *)
(* ("decoding only each record's table and index name").                   *)
RegistryReadsBack(r, tables, names) ==
  LET bytes == EncodeRegistry(r)
  IN  /\ DecodeRegistry(bytes) = Got(r, <<>>)
      /\ \A t \in tables, n \in names : Has(bytes, t, n) <=> Lookup(r, t, n) # 0
=============================================================================
