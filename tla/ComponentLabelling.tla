------------------------- MODULE ComponentLabelling -------------------------
(***************************************************************************)
(* What an algorithm that numbers the components of a graph promises: the  *)
(* ids 0, 1, 2, ... are given to one whole component after another, to each*)
(* after the components its edges lead to (the reverse topological order;  *)
(* between the components of an undirected graph there are no edges).      *)
(***************************************************************************)
EXTENDS Digraphs

CONSTANT None         \* the mark of a vertex without id

VARIABLES graph,      \* the adjacency list
          component,  \* the id of each vertex, or None
          count       \* how many ids are given

Init == /\ component = [v \in DOMAIN graph |-> None]
        /\ count = 0

Label(C) ==
  /\ \A v \in C : component[v] = None
  /\ \A u \in C : \A v \in Successors(graph)[u] \ C : component[v] # None
  /\ component' = [v \in DOMAIN graph |-> IF v \in C THEN count ELSE component[v]]

Next == /\ count' = count + 1
        /\ UNCHANGED graph
        /\ \E C \in StrongComponents(Successors(graph)) : Label(C)

Spec == Init /\ [][Next]_<<graph, component, count>>
=============================================================================
