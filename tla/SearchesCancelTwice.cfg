CONSTANTS
  N = 4
  MaxEdges = 3
  MaxSources = 0
  CancelTwice = TRUE
  Searches = {"bfs_views"}
SPECIFICATION FairSpec
PROPERTIES
  ImplementsPrunedSearch
CHECK_DEADLOCK FALSE
