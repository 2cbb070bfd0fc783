--------------------------- MODULE IndependentSet ---------------------------
(***************************************************************************)
(* maximal_independent_set: the seed first, then every vertex in the order *)
(* of the graph that no chosen one has removed; one step per vertex.       *)
(***************************************************************************)
EXTENDS Digraphs

CONSTANT N              \* the number of vertices

VARIABLES graph,        \* the lists of targets
          seed,         \* the vertex to begin with
          start,        \* the vertex the loop over all has come to
          chosen,       \* the output
          removed,      \* removed_vertices
          phase         \* "seed", "rest" or "returned"

vars == <<graph, seed, start, chosen, removed, phase>>

Vertices == 0..(N - 1)

Init == start = 0 /\ chosen = <<>> /\ removed = {} /\ phase = "seed"

Targets(u) == {graph[u][i] : i \in DOMAIN graph[u]}

Choose(u) ==
  /\ chosen' = Append(chosen, u)
  /\ removed' = removed \cup {u} \cup Targets(u)

ChooseSeed ==
  /\ phase = "seed"
  /\ IF seed \in Targets(seed) THEN removed' = {seed} /\ UNCHANGED chosen ELSE Choose(seed)
  /\ phase' = "rest"
  /\ UNCHANGED <<graph, seed, start>>

Visit ==
  /\ phase = "rest" /\ start < N
  /\ IF start \in removed THEN UNCHANGED <<chosen, removed>> ELSE Choose(start)
  /\ start' = start + 1
  /\ UNCHANGED <<graph, seed, phase>>

Return ==
  /\ phase = "rest" /\ start = N
  /\ phase' = "returned"
  /\ UNCHANGED <<graph, seed, start, chosen, removed>>

Next == ChooseSeed \/ Visit \/ Return

Returned == phase = "returned"

-----------------------------------------------------------------------------
(* Properties *)

Chosen == {chosen[i] : i \in DOMAIN chosen}

\* "no two vertices in output are adjacent", none is there twice, and "no additional
\* vertex can be added", for graphs whose edges go both ways.  "Vertices with self-loops
\* are automatically excluded" is true of the seed only (README): a graph with
\* self-loops elsewhere is left out.
IndependentAndMaximal ==
  Returned =>
    /\ Len(chosen) = Cardinality(Chosen)
    /\ \A u, v \in Chosen : v \notin Targets(u)
    /\ \A v \in Vertices \ Chosen : v \in Targets(v) \/ \E u \in Chosen : v \in Targets(u)
=============================================================================
