SPECIFICATION CopySpec
CONSTANTS
  Edge = {e1, e2}
  NULL = NULL
  MaxVertices = 2
  SelfLoops = FALSE
PROPERTY CopyKeepsAllEdges
