SPECIFICATION Spec
CONSTANTS
  Edge = {e1, e2}
  NULL = NULL
  MaxVertices = 2
  SelfLoops = TRUE
INVARIANT NoDanglingPointer
