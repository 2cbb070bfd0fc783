------------------------ MODULE UndirectedMultigraph ------------------------
(***************************************************************************)
(* What undirected_adjacency_list promises its user: a multigraph whose    *)
(* vertices are numbered without gaps, whose edges keep the order in which *)
(* they were added in the incidence sequence of either endpoint, and whose *)
(* erasing calls erase the edges they name and those only.                 *)
(***************************************************************************)
EXTENDS Naturals, Sequences

CONSTANTS Edge, MaxVertices

VARIABLES count,    \* vertices are 0..(count - 1)
          ends,     \* the two endpoints of each edge, in the order of add_edge
          incident, \* the incidence sequence of each vertex
          pending   \* the erasing call in progress and the edges it must erase

vars == <<count, ends, incident, pending>>

None     == [op |-> "idle", u |-> 0, todo |-> {}]
Vertices == 0..(count - 1)
Endpoints(e) == {ends[e][1], ends[e][2]}
IncidentEdges(u) == {e \in DOMAIN ends : u \in Endpoints(e)}

Init == /\ count = 0
        /\ ends = [e \in {} |-> <<>>]
        /\ incident = [u \in {} |-> <<>>]
        /\ pending = None

AddVertex == /\ pending = None
             /\ count < MaxVertices
             /\ count' = count + 1
             /\ incident' = [u \in 0..count |-> IF u < count THEN incident[u] ELSE <<>>]
             /\ UNCHANGED <<ends, pending>>

AddEdge(e, u, v) ==
  /\ pending = None
  /\ e \notin DOMAIN ends
  /\ ends' = [f \in DOMAIN ends \cup {e} |-> IF f = e THEN <<u, v>> ELSE ends[f]]
  /\ incident' = [w \in Vertices |-> IF w \in {u, v} THEN Append(incident[w], e)
                                     ELSE incident[w]]
  /\ UNCHANGED <<count, pending>>

\* s without e, which is in it once if at all.
Without(s, e) ==
  IF \A k \in DOMAIN s : s[k] # e THEN s
  ELSE LET at == CHOOSE k \in DOMAIN s : s[k] = e
       IN  [k \in 1..(Len(s) - 1) |-> IF k < at THEN s[k] ELSE s[k + 1]]

Drop(e) ==
  /\ ends' = [f \in DOMAIN ends \ {e} |-> ends[f]]
  /\ incident' = [u \in Vertices |-> Without(incident[u], e)]

RemoveOne(e) == /\ pending = None
                /\ e \in DOMAIN ends
                /\ Drop(e)
                /\ UNCHANGED <<count, pending>>

\* remove_edge(u, v): all the parallel edges between u and v.
Between(u, v) == {e \in DOMAIN ends : Endpoints(e) = {u, v}}

\* erase_edge of the range [i, j) of u's incidence sequence.
Slice(u, i, j) == {incident[u][k] : k \in i..(j - 1)}

Begin ==
  /\ pending = None
  /\ \/ \E u, v \in Vertices :
          pending' = [op |-> "remove_edges", u |-> u, todo |-> Between(u, v)]
     \/ \E u \in Vertices : \E i, j \in 1..(Len(incident[u]) + 1) :
          /\ i < j
          /\ pending' = [op |-> "remove_edges", u |-> u, todo |-> Slice(u, i, j)]
     \/ \E u \in Vertices :
          pending' = [op |-> "remove_vertex", u |-> u, todo |-> IncidentEdges(u)]
     \/ pending' = [op |-> "clear", u |-> 0, todo |-> DOMAIN ends]
  /\ UNCHANGED <<count, ends, incident>>

EraseNext == \E e \in pending.todo :
               /\ Drop(e)
               /\ pending' = [pending EXCEPT !.todo = @ \ {e}]
               /\ UNCHANGED count

Lower(x, removed) == IF x > removed THEN x - 1 ELSE x

Return ==
  /\ pending.op # "idle"
  /\ pending.todo = {}
  /\ pending' = None
  /\ CASE pending.op = "remove_edges" -> UNCHANGED <<count, ends, incident>>
       [] pending.op = "remove_vertex" ->
            /\ count' = count - 1
            /\ ends' = [e \in DOMAIN ends |-> <<Lower(ends[e][1], pending.u),
                                               Lower(ends[e][2], pending.u)>>]
            /\ incident' = [w \in 0..(count - 2) |->
                              IF w < pending.u THEN incident[w] ELSE incident[w + 1]]
       [] pending.op = "clear" ->
            /\ count' = 0
            /\ ends' = ends
            /\ incident' = [u \in {} |-> <<>>]

Finish == EraseNext \/ Return

Next == \/ AddVertex
        \/ \E e \in Edge, u, v \in Vertices : AddEdge(e, u, v)
        \/ \E e \in Edge : RemoveOne(e)
        \/ Begin
        \/ Finish

Spec == Init /\ [][Next]_vars
=============================================================================
