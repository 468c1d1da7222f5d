---------------------------- MODULE StorageBytes ----------------------------
(***************************************************************************)
(* Everything the database turns into bytes, text or documents and back:   *)
(* the stores of NodeBackends, and one input at a time for the codecs,     *)
(* which keep no state.  An input is given only while the table is empty:  *)
(* the two do not interact, and their product would show nothing more.     *)
(***************************************************************************)
EXTENDS NodeBackends, RegistryBytes, ValueDocument, TypedData, DocumentText

CONSTANTS
  Scalars,       \* scalars of every type
  NextColumns,   \* what a second column holds
  TableValues, TableKeys,
  Texts, ShortTexts,
  Registries, RegistryNames,
  DocumentInputs, DocumentPaths, Parts,
  DataTypes,     \* types of data, each with values of it
  OldDocuments, NewNames, NewField,
  Exported,      \* documents to export, their strings without blanks
  Indents

VARIABLE input   \* what the codecs are given

vars == <<stores, input>>

NoInput     == [none |-> TRUE]
Given(kind) == kind \in DOMAIN input

Inputs ==
  [scalar : Scalars]
    \cup [value : TableValues \cup {NodeValue(LeafNode(s)) : s \in Scalars}]
    \cup [key : TableKeys] \cup [text : Texts]
    \cup [registry : Registries] \cup [document : DocumentInputs]
    \cup [typed : DataTypes] \cup [exported : Exported]

Init == InitStores /\ input = NoInput

GiveInput(x) == table = <<>> /\ input = NoInput /\ input' = x /\ UNCHANGED stores
TakeBack     == input # NoInput /\ input' = NoInput /\ UNCHANGED stores
StoreStep    == input = NoInput /\ NextStores /\ UNCHANGED input

Next == (\E x \in Inputs : GiveInput(x)) \/ TakeBack \/ StoreStep

Spec == Init /\ [][Next]_vars

(* The bytes of two scalars compare as the scalars do, in a descending     *)
(* column the other way round, and are the same only for equal values      *)
(* (index/ordered.rs:3-9).                                                 *)
EncodingKeepsOrder ==
  Given("scalar") =>
    \A y \in Scalars, desc \in BOOLEAN :
      LET bx == EncodeColumn(input.scalar, desc)
          by == EncodeColumn(y, desc)
      IN  /\ BytesBefore(bx, by) <=> ColumnBefore(desc, input.scalar, y)
          /\ BytesBefore(by, bx) <=> ColumnBefore(desc, y, input.scalar)

(* In an index of two columns the first that differs decides, whatever the *)
(* directions: no encoding is the beginning of another                     *)
(* (ordered_bytes, IndexDef::encode_columns).                              *)
ColumnsCompareInTurn ==
  Given("scalar") =>
    \A y \in {s \in Scalars : s.t = input.scalar.t}, u, w \in NextColumns, d, e \in BOOLEAN :
      BytesBefore(EncodeColumns(<<d, e>>, <<input.scalar, u>>), EncodeColumns(<<d, e>>, <<y, w>>))
        <=> ColumnsBefore(<<d, e>>, <<input.scalar, u>>, <<y, w>>)

(* A stored value, a leaf of any type among them, reads back as it was     *)
(* written, whatever follows it, and a value cut short is refused          *)
(* (TableValueRef, Scalar::decode, Reader).                                *)
ValuesReadBack ==
  Given("value") =>
    LET bytes == EncodeValue(input.value)
    IN  /\ \A rest \in {<<>>, <<0>>, <<255, 1>>} :
             DecodeValue(bytes \o rest) = Got(input.value, rest)
        /\ \A n \in 0..Len(bytes) - 1 : ~DecodeValue(SubSeq(bytes, 1, n)).ok

(* A table key reads back, and the order of the keys, field by field, is   *)
(* the order of their bytes, which the engine uses (Ord for TableKey,      *)
(* RedbKey::compare).                                                      *)
KeysCompareAsBytes ==
  Given("key") =>
    /\ DecodeKey(EncodeKey(input.key)) = Got(input.key, <<>>)
    /\ \A y \in TableKeys :
         KeyBefore(input.key, y) <=> BytesBefore(EncodeKey(input.key), EncodeKey(y))

(* PrintsBack, for every text.                                             *)
TextsPrintBack == Given("text") => PrintsBack(input.text)

(* StaysInView, for every text as the root.                                *)
ViewsStayInside ==
  Given("text") => \A text \in ShortTexts : StaysInView(input.text, text)

(* RegistryReadsBack, for every registry.                                  *)
RegistriesReadBack ==
  Given("registry") => RegistryReadsBack(input.registry, RegistryNames, RegistryNames)

(* SetsLikeTheTable, for every document.                                   *)
SetValueIsAPut ==
  Given("document") =>
    \A p \in DocumentPaths, x \in Parts : SetsLikeTheTable(input.document, p, x)

(* MergesPartByPart, for every two documents.                              *)
MergeIsPartByPart ==
  Given("document") => \A with \in DocumentInputs : MergesPartByPart(input.document, with)

(* LoadsBack, for every sound type that always leaves a node: the document *)
(* a value becomes is that value's alone (SData::store, SData::load).      *)
TypedValuesLoadBack ==
  Given("typed") =>
    LET T == input.typed.of
    IN  (Sound(T) /\ ~MayBeNothing(T)) =>
          \A v \in input.typed.values, d \in OldDocuments : LoadsBack(d, <<Name(<<97>>)>>, T, v)

(* OldValueLoads, for every such type: a struct may gain a field that has  *)
(* a default, a field or a variant a new name, an enum may lose a variant, *)
(* and what was stored before still loads (alias, default, other).         *)
OldValuesLoad ==
  Given("typed") =>
    LET T == input.typed.of
    IN  (Sound(T) /\ ~MayBeNothing(T)) =>
          \A v \in input.typed.values :
            OldValueLoads(<<Name(<<97>>)>>, T, v, NewNames, NewField.of, NewField.default)

(* IsBelow, for every text as the key of a map entry: a key that means a   *)
(* step in a path is no entry of the map (SPath::push_name).               *)
MapEntriesAreBelow == Given("text") => IsBelow(<<Name(<<97>>)>>, input.text)

(* An exported text says all there is in a document: two documents have    *)
(* the same JSON, in either layout, or the same YAML exactly if they hold  *)
(* the same, and a string is never taken for a number, a boolean or null   *)
(* (export/yaml.rs:11-13); what the indented JSON adds is layout only      *)
(* (to_json, to_yaml, quote, write_scalar).                                *)
ExportsTellApart ==
  /\ Given("scalar") => \A y \in Scalars : ScalarsToldApart(input.scalar, y)
  /\ Given("exported") =>
       /\ LayoutOnly(input.exported, Indents)
       /\ \A e \in Exported : DocumentsToldApart(input.exported, e, Indents)
=============================================================================
