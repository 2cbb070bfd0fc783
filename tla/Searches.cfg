CONSTANTS
  N = 4
  MaxEdges = 4
  MaxSources = 2
  CancelTwice = FALSE
  Searches = {"breadth_first_search", "depth_first_search", "topological_sort", "bfs_views", "dfs_views", "topological_views"}
SPECIFICATION FairSpec
INVARIANTS
  SearchInOrder
  DepthsExact
  EdgesClassified
  OrdersExact
PROPERTIES
  ImplementsPrunedSearch
  SearchesEnd
CHECK_DEADLOCK FALSE
