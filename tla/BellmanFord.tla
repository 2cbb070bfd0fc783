---------------------------- MODULE BellmanFord ----------------------------
(***************************************************************************)
(* bellman_ford_shortest_paths: as many rounds over all edges as there are *)
(* vertices, fewer if one changes nothing, then a last pass that looks for *)
(* an edge which could still improve its target.                           *)
(*                                                                         *)
(* The edges come from views::edgelist, source by source.  The distance    *)
(* type is a signed integer: adding to infinite_distance(), its maximum,   *)
(* overflows.                                                              *)
(***************************************************************************)
EXTENDS Digraphs

CONSTANTS Vertex,    \* the vertices
          Unknown,   \* an id of no vertex
          Infinite,  \* infinite_distance(), greater than any path
          Weights,   \* the edge weights considered
          MaxEdges,  \* bound: edges of a graph
          MaxSources \* bound: length of the range of sources

VARIABLES edges,       \* the edges in the order of views::edgelist
          sources,     \* the range of source ids
          seeded,      \* how many of them the seeding loop has passed
          distance,    \* distance(g, v)
          predecessor, \* predecessor(g, v)
          pc,          \* where the call is
          round,       \* k + 1
          next,        \* the position of the next edge in edges
          relaxed,     \* at_least_one_edge_relaxed
          answer       \* the vertex returned, Unknown if none

input == <<edges, sources>>
vars  == <<input, seeded, distance, predecessor, pc, round, next, relaxed, answer>>

EdgeLists == {es \in UNION {[1..k -> [u : Vertex, v : Vertex, w : Weights]] : k \in 0..MaxEdges} :
                \A i \in 2..Len(es) : es[i - 1].u <= es[i].u}

\* Seeding assigns 0 to each: their order makes no difference, nor does a repetition.
SourceLists == {s \in UNION {[1..k -> Vertex \cup {Unknown}] : k \in 1..MaxSources} :
                  \A i \in 2..Len(s) : s[i - 1] < s[i]}

Init ==
  /\ edges \in EdgeLists
  /\ sources \in SourceLists
  /\ seeded = 0
  /\ distance = [v \in Vertex |-> Infinite]
  /\ predecessor = [v \in Vertex |-> v]
  /\ pc = "seeding"
  /\ round = 1 /\ next = 1
  /\ relaxed = FALSE
  /\ answer = Unknown

Seed ==
  /\ pc = "seeding" /\ seeded < Len(sources)
  /\ sources[seeded + 1] \in Vertex
  /\ distance' = [distance EXCEPT ![sources[seeded + 1]] = 0]
  /\ seeded' = seeded + 1
  /\ UNCHANGED <<input, predecessor, pc, round, next, relaxed, answer>>

\* out_of_range
SeedThrows ==
  /\ pc = "seeding" /\ seeded < Len(sources)
  /\ sources[seeded + 1] \notin Vertex
  /\ pc' = "thrown"
  /\ UNCHANGED <<input, seeded, distance, predecessor, round, next, relaxed, answer>>

BeginRounds ==
  /\ pc = "seeding" /\ seeded = Len(sources)
  /\ pc' = "rounds"
  /\ UNCHANGED <<input, seeded, distance, predecessor, round, next, relaxed, answer>>

Improves(e) == distance[e.u] + e.w < distance[e.v]

\* Mutant of Relaxable: infinite distances are added to.
RelaxableUnguarded(e) == Improves(e)

Relaxable(e) == distance[e.u] # Infinite /\ Improves(e)

AtEdge == next <= Len(edges)

RelaxEdge(e) ==
  /\ pc = "rounds" /\ AtEdge /\ e = edges[next]
  /\ Relaxable(e)
  /\ distance' = [distance EXCEPT ![e.v] = distance[e.u] + e.w]
  /\ predecessor' = [predecessor EXCEPT ![e.v] = e.u]
  /\ relaxed' = TRUE
  /\ next' = next + 1
  /\ UNCHANGED <<input, seeded, pc, round, answer>>

KeepEdge(e) ==
  /\ pc = "rounds" /\ AtEdge /\ e = edges[next]
  /\ ~Relaxable(e)
  /\ next' = next + 1
  /\ UNCHANGED <<input, seeded, distance, predecessor, pc, round, relaxed, answer>>

NextRound ==
  /\ pc = "rounds" /\ ~AtEdge
  /\ relaxed /\ round < Cardinality(Vertex)
  /\ round' = round + 1
  /\ next' = 1
  /\ relaxed' = FALSE
  /\ UNCHANGED <<input, seeded, distance, predecessor, pc, answer>>

EndRounds ==
  /\ pc = "rounds" /\ ~AtEdge
  /\ relaxed => round = Cardinality(Vertex)
  /\ pc' = IF relaxed THEN "check" ELSE "returned"
  /\ next' = 1
  /\ UNCHANGED <<input, seeded, distance, predecessor, round, relaxed, answer>>

\* The last pass does not exclude infinite distances: whatever the comparison gives.
Overflows(e) == distance[e.u] = Infinite /\ e.w > 0

FindImprovement(e) ==
  /\ pc = "check" /\ AtEdge /\ e = edges[next]
  /\ Overflows(e) \/ Improves(e)
  /\ predecessor' = [predecessor EXCEPT ![e.v] = e.u]
  /\ answer' = e.u
  /\ pc' = "returned"
  /\ UNCHANGED <<input, seeded, distance, round, next, relaxed>>

PassEdge(e) ==
  /\ pc = "check" /\ AtEdge /\ e = edges[next]
  /\ Overflows(e) \/ ~Improves(e)
  /\ next' = next + 1
  /\ UNCHANGED <<input, seeded, distance, predecessor, pc, round, relaxed, answer>>

Return ==
  /\ pc = "check" /\ ~AtEdge
  /\ pc' = "returned"
  /\ UNCHANGED <<input, seeded, distance, predecessor, round, next, relaxed, answer>>

Next == \/ Seed \/ SeedThrows \/ BeginRounds
        \/ \E e \in Range(edges) : \/ RelaxEdge(e) \/ KeepEdge(e)
                                   \/ FindImprovement(e) \/ PassEdge(e)
        \/ NextRound \/ EndRounds \/ Return

-----------------------------------------------------------------------------
(* Properties *)

Origins  == Range(sources) \cap Vertex
ReachedV == UNION {Reached(SuccessorsIn(Vertex, Range(edges)), v) : v \in Origins}

ReachedNegativeCycles == {c \in NegativeCycles(Vertex, Range(edges)) : c[1].u \in ReachedV}

\* A vertex is returned exactly if the sources reach a negative cycle, and otherwise
\* the distances are the shortest and the predecessors lead along such paths.
CyclesNoticed ==
  pc = "returned" =>
    /\ answer # Unknown <=> ReachedNegativeCycles # {}
    /\ answer = Unknown =>
         /\ distance = LeastDistances(Vertex, Range(edges), Origins, Infinite)
         /\ \A v \in ReachedV :
              \/ distance[v] = 0 /\ v \in Origins
              \/ \E e \in Range(edges) : /\ e.u = predecessor[v] /\ e.v = v
                                         /\ distance[v] = distance[e.u] + e.w

\* "Returns vertex ID in cycle if detected": does not hold, see README.
AnswerOnCycle ==
  pc = "returned" /\ answer # Unknown =>
    \E c \in ReachedNegativeCycles : \E i \in DOMAIN c : c[i].u = answer
=============================================================================
