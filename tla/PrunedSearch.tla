---------------------------- MODULE PrunedSearch ----------------------------
(***************************************************************************)
(* What a search view promises a caller that visits its elements one after *)
(* another and may cancel the search below an element or altogether: every *)
(* vertex that a path from the seed through elements below which the       *)
(* search was not cancelled leads to, once, and no other.                  *)
(***************************************************************************)
EXTENDS Digraphs

CONSTANT Vertices

VARIABLES graph,    \* the adjacency list
          seed,     \* where the search starts
          visits,   \* the vertices visited so far, the current one last
          pruned,   \* those below which the search was cancelled
          cancel,   \* what the caller asked for at the current vertex
          ended     \* the iteration is over

vars == <<graph, seed, visits, pruned, cancel, ended>>

Init == /\ visits = <<>>
        /\ pruned = {}
        /\ cancel = "continue_search"
        /\ ended = FALSE

Make == /\ visits = <<>>
        /\ visits' = <<seed>>
        /\ UNCHANGED <<graph, seed, pruned, cancel, ended>>

Ask == /\ visits # <<>> /\ ~ended
       /\ cancel' \in {"continue_search", "cancel_branch", "cancel_all"}
       /\ UNCHANGED <<graph, seed, visits, pruned, ended>>

Stop == /\ visits # <<>> /\ ~ended
        /\ cancel = "cancel_all"
        /\ ended' = TRUE
        /\ UNCHANGED <<graph, seed, visits, pruned, cancel>>

\* The vertices that edges lead to from those visited and not pruned.
Ahead == (UNION {Successors(graph)[u] : u \in ToSet(visits) \ pruned'}) \ ToSet(visits)

Continue == /\ visits # <<>> /\ ~ended
            /\ cancel # "cancel_all"
            /\ pruned' = IF cancel = "cancel_branch" THEN pruned \cup {Last(visits)} ELSE pruned
            /\ cancel' = "continue_search"
            /\ \/ /\ Ahead = {}
                  /\ ended' = TRUE
                  /\ UNCHANGED visits
               \/ /\ \E v \in Ahead : visits' = Append(visits, v)
                  /\ UNCHANGED ended
            /\ UNCHANGED <<graph, seed>>

Next == Make \/ Ask \/ Stop \/ Continue

Spec == Init /\ [][Next]_vars
=============================================================================
