SPECIFICATION Spec
CONSTANTS
  Names <- SomeNames
  FieldNames <- NoNames
  Packages <- NoNames
  PlainTypes = {"int"}
  Externs <- TwoExterns
  DefWords = {"struct"}
  RefModes = {"plain"}
  MaxItems = 6
INVARIANTS
  ArraysEquivalent
