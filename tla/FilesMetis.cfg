SPECIFICATION ContainersSpec
CONSTANTS
  Subjects = {"graph_file"}
  Val = {a, b, c, d}
  MaxVertices = 3
  MaxEdges = 4
  MaxRange = 2
  Traits <- AllTraits
  SourcesExist = TRUE
  Grows = TRUE
  MaxId = 2
  MaxGiven = 2
  Debug = TRUE
  EdgesFirst = FALSE
  KnownVertices = TRUE
  MaxOrder = 3
  MaxCalls = 4
  Formats = {"metis"}
  MaxFileOrder = 3
  MaxFileEdges = 3
  Isolated = TRUE
  Uniform = TRUE
  PlainTexts = TRUE
  GeneratorNames = {"path_graph"}
  MaxN = 1
  MaxM = 0
  EnoughVertices = TRUE
  ViewOrder = 3
  MaxArcs = 2
  Kinds = {"vov", "mapped", "compressed", "dynamic", "undirected", "matrix", "transpose", "filtered", "list"}
CHECK_DEADLOCK FALSE
INVARIANT FilesRoundTrip
