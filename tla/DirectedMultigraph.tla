------------------------ MODULE DirectedMultigraph -------------------------
(***************************************************************************)
(* What dynamic_graph promises its user: a directed multigraph whose       *)
(* vertices are numbered without gaps or have keys that stay, where an     *)
(* edge exists with both endpoints, and where removing a vertex removes    *)
(* its edges, those only, and renumbers the rest consistently.             *)
(***************************************************************************)
EXTENDS Naturals

CONSTANTS Id,   \* the possible vertex ids
          Val   \* what tells edges apart

VARIABLES numbered,  \* are ids positions?
          vertices,
          arcs       \* the edges, [u, v, val]

vars == <<numbered, vertices, arcs>>

Init == numbered \in BOOLEAN /\ vertices \in SUBSET Id /\ arcs = {}

\* Vertices are added, and no edge.
Grow == /\ \E more \in SUBSET Id : vertices' = vertices \cup more
        /\ UNCHANGED <<numbered, arcs>>

\* load_edges of a graph with keys adds the endpoints it does not find.
AddEdge(u, v, val) ==
  /\ \A a \in arcs : a.val # val
  /\ numbered => {u, v} \subseteq vertices
  /\ vertices' = vertices \cup {u, v}
  /\ arcs' = arcs \cup {[u |-> u, v |-> v, val |-> val]}
  /\ UNCHANGED numbered

RemoveEdge(u, v) == /\ arcs' = {a \in arcs : ~(a.u = u /\ a.v = v)}
                    /\ UNCHANGED <<numbered, vertices>>

RemoveVertex(u) ==
  LET Lower(x) == IF numbered /\ x > u THEN x - 1 ELSE x
      rest     == {a \in arcs : u \notin {a.u, a.v}}
  IN  /\ u \in vertices
      /\ vertices' = {Lower(x) : x \in vertices \ {u}}
      /\ arcs' = {[u |-> Lower(a.u), v |-> Lower(a.v), val |-> a.val] : a \in rest}
      /\ UNCHANGED numbered

Clear == vertices' = {} /\ arcs' = {} /\ UNCHANGED numbered

Next == \/ Grow
        \/ \E u, v \in Id, val \in Val : AddEdge(u, v, val)
        \/ \E u, v \in Id : RemoveEdge(u, v)
        \/ \E u \in Id : RemoveVertex(u)
        \/ Clear

Spec == Init /\ [][Next]_vars
=============================================================================
