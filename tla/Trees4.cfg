SPECIFICATION Spec
CONSTANTS
  Alphabet = {"letter", "digit", "minus", "semi", "quote", "escape",
              "colon", "open", "close", "hash", "punct", "blank", "newline"}
  MaxChars = 3
  MaxWords = 4
  MaxBrackets = 8
  MaxStrings = 4
  ChunkSize = 8
  InitialIndents = 32
  Texts <- SomeTexts
  Trees <- SomeTrees
INVARIANTS
  TypeOK
  FramesLeadToNode
  ParserFollows
  CopyIsSame
  TokensUsed
  RefusesUnbalanced
  LaidOut
  ReadsBack
PROPERTIES
  Exits
