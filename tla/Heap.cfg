SPECIFICATION FairSpec
CONSTANTS
  Key = {k1, k2, k3, k4, k5}
  Arity = 3
  MaxDistance = 2
INVARIANTS
  PositionsExact
  HeapOrdered
PROPERTIES
  ImplementsQueue
  SiftsEnd
