---------------------------- MODULE OutEdgeLists ---------------------------
(***************************************************************************)
(* What the directed containers promise: vertices 0 .. n-1, each with a    *)
(* list of outgoing edges in the order in which they were added.  Adding   *)
(* an edge touches the list of its source only.                            *)
(***************************************************************************)
EXTENDS Integers, Sequences

CONSTANTS MaxVertices,  \* bound: vertices of a graph
          Edge          \* what an entry of a list may be

VARIABLE out   \* the list of each vertex

Sized(n) == [v \in 0..(n - 1) |-> IF v \in DOMAIN out THEN out[v] ELSE <<>>]

Init == out = [v \in {} |-> <<>>]

Resize(n) == out' = Sized(n)

\* The graph grows first if u is no vertex yet.
AddEdge(u, e) ==
  \E n \in 0..MaxVertices : /\ DOMAIN out \cup {u} \subseteq 0..(n - 1)
                            /\ out' = [Sized(n) EXCEPT ![u] = @ \o <<e>>]

Next == \/ \E n \in 0..MaxVertices : Resize(n)
        \/ \E u \in 0..(MaxVertices - 1), e \in Edge : AddEdge(u, e)

Spec == Init /\ [][Next]_out
=============================================================================
