SPECIFICATION FairSpec
CONSTANTS
  a = a
  b = b
  c = c
  Def = {a, b, c}
  MaxKids = 2
  Graphs <- AllGraphs
  Orders <- SomeOrders
  StaleFlags <- NoneOrAll
INVARIANTS
  TypeOK
  Inv
  PushedInOrder
  VerdictIsRight
PROPERTIES
  StableIfOrdered
  ImplementsTopoSort
  Terminates
