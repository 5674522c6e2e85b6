SPECIFICATION Spec
CONSTANTS
  Names <- SomeNames
  FieldNames <- NoNames
  Packages <- NoNames
  PlainTypes = {"int"}
  Externs <- NoNames
  DefWords = {"struct"}
  RefModes = {"plain"}
  MaxItems = 4
PROPERTIES
  NeverRedefined
