--------------------------- MODULE ShortestPaths ---------------------------
(***************************************************************************)
(* What both versions of Dijkstra's main loop do, seen from a distance:    *)
(* vertices are settled one by one, always one of least distance, and      *)
(* settling a vertex relaxes all its outgoing edges at once.               *)
(***************************************************************************)
EXTENDS Integers

CONSTANTS Vertex,    \* the vertices
          Infinite   \* infinite_distance()

VARIABLES graph,     \* the edges: records with source u, target v and weight w
          origins,   \* the source vertices
          distance,  \* the best distance found so far
          settled    \* the vertices whose distance is final

Least(S) == CHOOSE x \in S : \A y \in S : x <= y

Init == /\ settled = {}
        /\ distance = [v \in Vertex |-> IF v \in origins THEN 0 ELSE Infinite]

\* The distances once the outgoing edges of u are relaxed.
RelaxedFrom(u) ==
  [v \in Vertex |-> Least({distance[v]} \cup {distance[u] + e.w : e \in {f \in graph : f.u = u /\ f.v = v}})]

Settle(u) ==
  /\ u \notin settled
  /\ distance[u] < Infinite
  /\ \A v \in Vertex \ settled : distance[u] <= distance[v]
  /\ settled' = settled \cup {u}
  /\ distance' = RelaxedFrom(u)
  /\ UNCHANGED <<graph, origins>>

Next == \E u \in Vertex : Settle(u)

Spec == Init /\ [][Next]_<<graph, origins, distance, settled>>
=============================================================================
