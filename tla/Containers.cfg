SPECIFICATION ContainersSpec
CONSTANTS
  Subjects = {"dynamic_graph", "compressed_graph", "adjacency_matrix", "graph_file", "generator", "view"}
  Val = {a, b, c, d}
  MaxVertices = 3
  MaxEdges = 4
  MaxRange = 2
  Traits <- AllTraits
  SourcesExist = TRUE
  Grows = TRUE
  MaxId = 2
  MaxGiven = 2
  Debug = TRUE
  EdgesFirst = FALSE
  KnownVertices = TRUE
  MaxOrder = 3
  MaxCalls = 4
  Formats = {"text", "dimacs", "dimacs_max_flow", "metis", "dot", "graphml", "json"}
  MaxFileOrder = 3
  MaxFileEdges = 3
  Isolated = FALSE
  Uniform = TRUE
  PlainTexts = TRUE
  GeneratorNames = {"path_graph", "complete_graph", "grid_2d", "erdos_renyi", "erdos_renyi_gnm", "barabasi_albert", "watts_strogatz", "plod", "rmat", "ssca"}
  MaxN = 4
  MaxM = 2
  EnoughVertices = TRUE
  ViewOrder = 3
  MaxArcs = 2
  Kinds = {"vov", "mapped", "compressed", "dynamic", "undirected", "matrix", "transpose", "filtered", "list"}
SYMMETRY Symmetry
CHECK_DEADLOCK FALSE
INVARIANTS
  InEdgesMirror
  ContainersExact
  FilesRoundTrip
  GeneratedTaken
  FunctionsExact
  ViewsExact
PROPERTIES
  ImplementsDirectedMultigraph
  ImplementsOutEdgeLists
