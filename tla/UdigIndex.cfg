SPECIFICATION Spec
CONSTANTS
  HexText <- Hex
  Compared <- Agreed
  MaxRows = 3
INVARIANTS
  TypeOK
  Sorted
  AnswersExact
PROPERTIES
  ReloadKeepsRows
