SPECIFICATION FuscSpec
CONSTANTS
  a = a
  b = b
  c = c
  Def = {a, b, c}
  Programs <- SomePrograms
  Order <- Order3
  MaxCalls = 4
INVARIANTS
  SortsPartialOrders
