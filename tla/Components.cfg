SPECIFICATION FairSpec
CONSTANTS
  N = 4
  MaxEdges = 4
  MaxRounds = 2
  MaxIters = 2
  MaxVotes = 3
  Algorithms = {"tarjan_scc", "kosaraju", "connected_components", "articulation_points", "biconnected_components", "afforest", "maximal_independent_set", "label_propagation", "triangle_count", "directed_triangle_count", "jaccard_coefficient"}
INVARIANTS
  LowLinksOnStack
  ComponentsExact
  NeighbourhoodsExact
PROPERTIES
  ImplementsComponentLabelling
  AllReturn
CHECK_DEADLOCK FALSE
