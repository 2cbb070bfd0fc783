SPECIFICATION Spec
CONSTANTS
  N = 3
  MaxEdges = 3
  MaxIters = 2
  MaxVotes = 3
  MaxRounds = 0
  Algorithms = {"kosaraju"}
INVARIANT EachTreeOneComponent
CHECK_DEADLOCK FALSE
