SPECIFICATION FairSpec
CONSTANTS
  Edge = {e1, e2, e3}
  NULL = NULL
  MaxVertices = 3
  SelfLoops = FALSE
INVARIANTS
  TypeOK
  EdgesCounted
  ListsLinked
  ListsComplete
  NoFault
PROPERTIES
  ImplementsMultigraph
  CallsReturn
