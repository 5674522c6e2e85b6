SPECIFICATION Spec
CONSTANTS
  Names <- SomeNames
  FieldNames <- SomeFields
  Packages <- SomePackages
  PlainTypes = {"int"}
  Externs <- OneExtern
  DefWords = {"struct", "union", "func"}
  RefModes = {"plain", "inplace", "weakref"}
  MaxItems = 5
INVARIANTS
  TypeOK
  NamesUnique
  MemberPointersHold
  ParsedShape
PROPERTIES
  FinishedDefsStay
