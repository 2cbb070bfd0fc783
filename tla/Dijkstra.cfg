SPECIFICATION FairSpec
CONSTANTS
  Vertex = {0, 1, 2, 3}
  Unknown = 4
  Connected = {0, 1, 2}
  PrimSeed = 0
  MaxPrimEdges = 4
  MaxListEdges = 3
  MaxKruskalEdges = 4
  Infinite = 20
  MaxSources = 2
  Weights <- SignedWeights
  MaxEdges = 3
  DistinctSources = TRUE
  Initialised = TRUE
INVARIANTS
  DistancesShortest
  PredecessorsTight
  AnswersExact
  QueueMatchesDistances
PROPERTIES
  ImplementsShortestPaths
  ObeysQueue
  Terminates
CHECK_DEADLOCK FALSE
