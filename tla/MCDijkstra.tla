----------------------------- MODULE MCDijkstra -----------------------------
(***************************************************************************)
(* The algorithms on weighted graphs: Dijkstra's in both versions, called  *)
(* by the user and by prim, Bellman and Ford's, and Kruskal's.  The first  *)
(* state chooses one of them, a graph and its arguments.                   *)
(***************************************************************************)
EXTENDS Dijkstra

CONSTANTS MaxListEdges,   \* bound: edges of a graph given to Bellman-Ford
          MaxKruskalEdges \* bound: edges of a list given to Kruskal

VARIABLES edges, round, next, relaxed, answer,            \* BellmanFord
          parent, rank, tree, total, components  \* Kruskal

cycling  == <<edges, round, next, relaxed, answer>>
merging  == <<parent, rank, tree, total, components>>
all_vars == <<vars, cycling, merging>>

BellmanFord == INSTANCE BellmanFord WITH
                 Vertex <- Connected, MaxEdges <- MaxListEdges, Weights <- Weights \ {0}
Kruskal     == INSTANCE Kruskal WITH
                 Id <- Vertex, MaxEdges <- MaxKruskalEdges, Weights <- Weights \ {-1}

NoCycling == edges = <<>> /\ round = 0 /\ next = 0 /\ relaxed = FALSE /\ answer = Unknown
NoMerging == parent = <<>> /\ rank = <<>> /\ tree = {} /\ total = 0 /\ components = 0
NoCalls   == caller = "none" /\ current = Unknown /\ calls = <<>> /\ queue = EmptyBag /\ queued = {}

WeightedInit ==
  \/ Init /\ NoCycling /\ NoMerging
  \/ version = "bellman_ford" /\ BellmanFord!Init /\ NoMerging /\ NoCalls /\ graph = {} /\ todo = {}
  \/ version = "kruskal" /\ Kruskal!Init /\ NoCycling /\ NoCalls
     /\ sources = <<>> /\ seeded = 0 /\ distance = <<>> /\ predecessor = <<>>

WeightedNext ==
  \/ version \in {"lazy", "indexed"} /\ Next /\ UNCHANGED <<cycling, merging>>
  \/ version = "bellman_ford" /\ BellmanFord!Next
     /\ UNCHANGED <<version, caller, graph, current, todo, calls, queue, queued, merging>>
  \/ version = "kruskal" /\ Kruskal!Next
     /\ UNCHANGED <<version, caller, sources, seeded, distance, predecessor, current, calls, queue, queued, cycling>>

\* One thread executes the call without waiting.
FairSpec == WeightedInit /\ [][WeightedNext]_all_vars /\ WF_all_vars(WeightedNext)

\* Bellman-Ford returns a vertex exactly if the sources reach a negative cycle, and
\* otherwise leaves the shortest distances and paths.  prim and kruskal give spanning
\* forests of least weight; Kruskal's disjoint sets are the components of the edges it
\* has looked at.
AnswersExact == CASE version = "bellman_ford" -> BellmanFord!CyclesNoticed
                  [] version = "kruskal"      -> Kruskal!ForestMinimal
                  [] OTHER                    -> PrimTreeMinimal

\* Weights of a signed type, one of them negative.
SignedWeights == {-1, 0, 2}
=============================================================================
