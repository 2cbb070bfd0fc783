SPECIFICATION CopySpec
CONSTANTS
  Edge = {e1, e2, e3}
  NULL = NULL
  MaxVertices = 3
  SelfLoops = TRUE
SYMMETRY EdgeSymmetry
INVARIANTS
  NoDanglingPointer
  MadeAsGiven
PROPERTY CopyKeepsOrderedEdges
