SPECIFICATION Spec
CONSTANTS
  a = a
  b = b
  c = c
  Def = {a, b, c}
  Programs <- SomePrograms
  Orders <- SomeOrders
  MaxCalls = 4
INVARIANTS
  TypeOK
  AnswerIsRight
  OverflowIsForeignCycle
PROPERTIES
  Ends
