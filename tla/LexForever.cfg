SPECIFICATION FairSpec
CONSTANTS
  Alphabet = {"letter", "control"}
  MaxChars = 2
  MaxLines = 1
  InitialIndents = 32
  Texts <- ShortTexts
PROPERTIES Ends
