SPECIFICATION Spec
CONSTANTS
  Names <- SomeNames
  FieldNames <- NoNames
  Packages <- NoNames
  PlainTypes = {"int"}
  Externs <- NoNames
  DefWords = {"func"}
  RefModes = {"plain"}
  MaxItems = 4
INVARIANTS
  NeverLoops
