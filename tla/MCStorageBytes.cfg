CONSTANTS
  v1 = v1
  v2 = v2
  Nowhere = Nowhere
  NullValue = NullValue
  Names = {}
  Values = {}
  NanosPerSecond = 1000
  SkeyLen = 1
  ROOT <- MCRoot
  Skeys <- MCSkeys
  FieldNames <- MCFieldNames
  LeafScalars <- MCLeafScalars
  Indexes <- MCIndexes
  Entities <- MCEntities
  ColumnValues <- MCColumnValues
  MaxNodes = 6
  MaxEntries = 3
  Scalars <- MCScalars
  NextColumns <- MCNextColumns
  TableValues <- MCTableValues
  TableKeys <- MCTableKeys
  Texts <- MCTexts
  ShortTexts <- MCShortTexts
  Registries <- MCRegistries
  RegistryNames <- MCRegistryNames
  DocumentInputs <- MCDocumentInputs
  DocumentPaths <- MCDocumentPaths
  Parts <- MCParts
  DataTypes <- MCDataTypes
  OldDocuments <- MCOldDocuments
  NewNames <- MCNewNames
  NewField <- MCNewField
  Exported <- MCExported
  Indents <- MCIndents

SPECIFICATION Spec
INVARIANTS EncodingKeepsOrder ColumnsCompareInTurn ValuesReadBack KeysCompareAsBytes TextsPrintBack ViewsStayInside RegistriesReadBack SetValueIsAPut MergeIsPartByPart ScanFindsThePrefix TableHoldsTheEntries StoresAgree PatchedBlobIsReencoded TypedValuesLoadBack OldValuesLoad ExportsTellApart
