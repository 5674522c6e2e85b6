SPECIFICATION FairSpec
CONSTANTS
  Alphabet = {"letter", "digit", "under", "minus", "semi", "quote", "escape",
              "colon", "open", "close", "hash", "punct", "blank", "tab", "newline"}
  MaxChars = 4
  MaxLines = 4
  InitialIndents = 2
  Texts <- AllTexts
INVARIANTS
  TypeOK
  Balanced
  IndentsNest
  NothingLost
  LayoutIsOffside
PROPERTIES
  Ends
