---------------------- MODULE UndirectedAdjacencyList ----------------------
(***************************************************************************)
(* The container undirected_adjacency_list, at the level of its pointers.  *)
(* Every edge object carries two links: the inward link threads the edge   *)
(* through the list of the vertex it was added from (its owner), the       *)
(* outward link through the list of the other endpoint.  A list does not   *)
(* know which of the two links of a neighbour belongs to it: the code      *)
(* finds out by comparing vertex ids, and so does SideOf.                  *)
(*                                                                         *)
(* The calls that erase edges in a loop (remove_edge, erase_edge of a      *)
(* range, remove_vertex, clear) take one step per iteration, so that the   *)
(* invariants are checked between two iterations as well.  Values stored   *)
(* in vertices and edges, and the std::out_of_range that remove_edge and   *)
(* remove_vertex throw before they change anything, are left out.          *)
(***************************************************************************)
EXTENDS Naturals, FiniteSets, Sequences

CONSTANTS Edge,         \* the addresses the edge allocator hands out
          NULL,         \* nullptr
          MaxVertices,  \* bound: add_vertex stops there
          SelfLoops     \* does the caller add edges from a vertex to itself?

ASSUME UALAssumption == /\ IsFiniteSet(Edge)
                        /\ NULL \notin Edge
                        /\ MaxVertices \in Nat
                        /\ SelfLoops \in BOOLEAN

VARIABLES live,        \* the edge objects that are allocated
          id,          \* vertex_id_ of each link
          mem,         \* next_ and prev_ of each link; head_, tail_ and size_
                       \* of each vertex's edges_
          n,           \* vertices_.size()
          edges_size,  \* edges_size_
          call,        \* the call in progress, with its local variables
          cursor,      \* the iterator the last erasure returned
          fault        \* a pointer to a freed edge, or a null one, was followed

vars == <<live, id, mem, n, edges_size, call, cursor, fault>>

Sides    == {"in", "out"}
Link     == Edge \X Sides
Pointer  == Edge \cup {NULL}
Vertices == 0..(n - 1)

Idle     == [op |-> "idle", u |-> 0, v |-> 0, it |-> NULL, last |-> NULL]
NoCursor == [kind |-> "none", u |-> 0, uv |-> NULL]

-----------------------------------------------------------------------------
(* Links and lists *)

\* Which link of e the code takes for the one in u's list: the inward one if
\* its vertex id is u, else the outward one.
SideOf(i, e, u) == IF i[<<e, "in">>] = u THEN "in" ELSE "out"

\* ual_vertex_edge_list::link_back of the list that link <<e, s>> belongs to.
LinkBack(m, i, e, s) ==
  LET u == i[<<e, s>>]
      t == m.tail[u]
  IN  [next |-> IF t = NULL THEN m.next ELSE [m.next EXCEPT ![<<t, SideOf(i, t, u)>>] = e],
       prev |-> IF t = NULL THEN m.prev ELSE [m.prev EXCEPT ![<<e, s>>] = t],
       head |-> IF t = NULL THEN [m.head EXCEPT ![u] = e] ELSE m.head,
       tail |-> [m.tail EXCEPT ![u] = e],
       size |-> [m.size EXCEPT ![u] = @ + 1]]

\* The constructor of an edge object: its four pointers are null.
Construct(m, e) ==
  LET Reset(f) == [l \in Link |-> IF l[1] = e THEN NULL ELSE f[l]]
  IN  [next |-> Reset(m.next), prev |-> Reset(m.prev),
       head |-> m.head, tail |-> m.tail, size |-> m.size]

\* ual_edge::link_back: into the owner's list, then into the other endpoint's.
LinkBoth(m, i, e) == LinkBack(LinkBack(m, i, e, "in"), i, e, "out")

\* Mutant of Unlink: the neighbours' links are taken on e's own side.
UnlinkOwnSide(m, i, e, s) ==
  LET u     == i[<<e, s>>]
      p     == m.prev[<<e, s>>]
      nx    == m.next[<<e, s>>]
      next1 == IF p = NULL THEN m.next ELSE [m.next EXCEPT ![<<p, s>>] = nx]
      prev1 == IF nx = NULL THEN m.prev ELSE [m.prev EXCEPT ![<<nx, s>>] = p]
  IN  [next |-> [next1 EXCEPT ![<<e, s>>] = NULL],
       prev |-> [prev1 EXCEPT ![<<e, s>>] = NULL],
       head |-> [m.head EXCEPT ![u] = IF @ = e THEN nx ELSE @],
       tail |-> [m.tail EXCEPT ![u] = IF @ = e THEN p ELSE @],
       size |-> [m.size EXCEPT ![u] = @ - 1]]

\* ual_vertex_edge_list::unlink of the list that link <<e, s>> belongs to.
Unlink(m, i, e, s) ==
  LET u     == i[<<e, s>>]
      p     == m.prev[<<e, s>>]
      nx    == m.next[<<e, s>>]
      next1 == IF p = NULL THEN m.next
               ELSE [m.next EXCEPT ![<<p, SideOf(i, p, u)>>] = nx]
      prev1 == IF nx = NULL THEN m.prev
               ELSE [m.prev EXCEPT ![<<nx, SideOf(i, nx, u)>>] = p]
  IN  [next |-> [next1 EXCEPT ![<<e, s>>] = NULL],
       prev |-> [prev1 EXCEPT ![<<e, s>>] = NULL],
       head |-> [m.head EXCEPT ![u] = IF @ = e THEN nx ELSE @],
       tail |-> [m.tail EXCEPT ![u] = IF @ = e THEN p ELSE @],
       size |-> [m.size EXCEPT ![u] = @ - 1]]

\* ual_edge::unlink: from the owner's list, then from the other endpoint's.
UnlinkBoth(m, i, e) == Unlink(Unlink(m, i, e, "in"), i, e, "out")

\* The pointers ual_edge::unlink follows.
Followed(m, i, e) ==
  LET m1 == Unlink(m, i, e, "in")
  IN  {m.prev[<<e, "in">>], m.next[<<e, "in">>],
       m1.prev[<<e, "out">>], m1.next[<<e, "out">>]} \ {NULL}

\* Mutant of Advance: a self-loop at the end of the list is its own successor.
AdvanceIntoItself(e, u) == mem.next[<<e, SideOf(id, e, u)>>]

\* const_iterator::advance in u's list: a self-loop that is its own successor
\* counts as the last edge.
Advance(e, u) ==
  LET nx == mem.next[<<e, SideOf(id, e, u)>>]
  IN  IF nx = e THEN NULL ELSE nx

Other(e, u) == IF id[<<e, "in">>] = u THEN id[<<e, "out">>] ELSE id[<<e, "in">>]

\* The edges an iteration of u's list passes when it stands on f: the least set that
\* holds f and is closed under advance.
After(f, u) ==
  {e \in Edge : \A S \in SUBSET Edge :
     /\ f \in S \cup {NULL}
     /\ \A g \in S : Advance(g, u) \in S \cup {NULL}
     => e \in S}

Iterated(u) == After(mem.head[u], u)

\* edges(): the lists of the vertices whose size is not zero, one by one.
GraphIterated == UNION {Iterated(u) : u \in {w \in Vertices : mem.size[w] > 0}}

\* const_edge_iterator::advance_vertex from vertex u.
FirstFrom(u) ==
  LET nonEmpty == {w \in u..(n - 1) : mem.size[w] > 0}
  IN  IF nonEmpty = {} THEN [kind |-> "graph", u |-> n, uv |-> NULL]
      ELSE LET w == CHOOSE x \in nonEmpty : \A y \in nonEmpty : x <= y
           IN  [kind |-> "graph", u |-> w, uv |-> mem.head[w]]

\* const_edge_iterator::advance_edge from edge e in u's list.
GraphAdvance(u, e) ==
  IF Advance(e, u) # NULL THEN [kind |-> "graph", u |-> u, uv |-> Advance(e, u)]
                          ELSE FirstFrom(u + 1)

-----------------------------------------------------------------------------
(* Calls *)

Ready == ~fault /\ call = Idle

Init == /\ live = {}
        /\ id = [l \in Link |-> 0]
        /\ mem = [next |-> [l \in Link |-> NULL], prev |-> [l \in Link |-> NULL],
                  head |-> [u \in {} |-> NULL], tail |-> [u \in {} |-> NULL],
                  size |-> [u \in {} |-> 0]]
        /\ n = 0
        /\ edges_size = 0
        /\ call = Idle
        /\ cursor = NoCursor
        /\ fault = FALSE

\* add_vertex: push_back of a vertex with an empty list.
AddVertex ==
  /\ Ready
  /\ n < MaxVertices
  /\ mem' = [next |-> mem.next, prev |-> mem.prev,
             head |-> [u \in 0..n |-> IF u < n THEN mem.head[u] ELSE NULL],
             tail |-> [u \in 0..n |-> IF u < n THEN mem.tail[u] ELSE NULL],
             size |-> [u \in 0..n |-> IF u < n THEN mem.size[u] ELSE 0]]
  /\ n' = n + 1
  /\ cursor' = NoCursor
  /\ UNCHANGED <<live, id, edges_size, call, fault>>

\* add_edge(u, v): allocate, construct (which links both ends), count.  The
\* endpoints must be vertices: the code does not check them.
AddEdge(e, u, v) ==
  /\ Ready
  /\ e \notin live
  /\ u # v \/ SelfLoops
  /\ LET newId == [id EXCEPT ![<<e, "in">>] = u, ![<<e, "out">>] = v]
     IN  /\ id' = newId
         /\ mem' = LinkBoth(Construct(mem, e), newId, e)
  /\ live' = live \cup {e}
  /\ edges_size' = edges_size + 1
  /\ cursor' = NoCursor
  /\ fault' = ~({mem.tail[u], mem.tail[v]} \subseteq live \cup {NULL})
  /\ UNCHANGED <<n, call>>

\* Mutant of Erase: the count goes down once per endpoint.
EraseCountedTwice(e) ==
  IF e \in live
  THEN /\ mem' = UnlinkBoth(mem, id, e)
       /\ id' = [id EXCEPT ![<<e, "in">>] = 0, ![<<e, "out">>] = 0]
       /\ live' = live \ {e}
       /\ edges_size' = edges_size - 2
       /\ fault' = ~(Followed(mem, id, e) \subseteq live)
  ELSE /\ fault' = TRUE
       /\ UNCHANGED <<mem, id, live, edges_size>>

\* ual_vertex::erase_edge(g, uv): unlink both ends, destroy, deallocate.  What
\* freed memory holds is never read, so its ids are reset.
Erase(e) ==
  IF e \in live
  THEN /\ mem' = UnlinkBoth(mem, id, e)
       /\ id' = [id EXCEPT ![<<e, "in">>] = 0, ![<<e, "out">>] = 0]
       /\ live' = live \ {e}
       /\ edges_size' = edges_size - 1
       /\ fault' = ~(Followed(mem, id, e) \subseteq live)
  ELSE /\ fault' = TRUE
       /\ UNCHANGED <<mem, id, live, edges_size>>

\* ual_vertex::erase_edge(g, iterator), called by the user; the iterator to
\* the next edge of u's list is returned.
EraseEdge(u, e) ==
  /\ Ready
  /\ e \in Iterated(u)
  /\ cursor' = [kind |-> "vertex", u |-> u, uv |-> Advance(e, u)]
  /\ Erase(e)
  /\ UNCHANGED <<n, call>>

\* remove_edge(edge_iterator): the iterator is advanced, then its edge erased.
RemoveEdgeAt(u, e) ==
  /\ Ready
  /\ e \in Iterated(u)
  /\ cursor' = GraphAdvance(u, e)
  /\ Erase(e)
  /\ UNCHANGED <<n, call>>

\* remove_edge(u, v): a walk of u's list that erases the edges to v.
RemoveEdge(u, v) ==
  /\ Ready
  /\ call' = [Idle EXCEPT !.op = "remove_edge", !.u = u, !.v = v, !.it = mem.head[u]]
  /\ cursor' = NoCursor
  /\ UNCHANGED <<live, id, mem, n, edges_size, fault>>

\* ual_vertex::erase_edge(g, first, last): last is passed later than first.
EraseEdges(u, first, last) ==
  /\ Ready
  /\ first \in Iterated(u)
  /\ first # last
  /\ last = NULL \/ last \in After(first, u)
  /\ call' = [Idle EXCEPT !.op = "erase_edges", !.u = u, !.it = first, !.last = last]
  /\ cursor' = NoCursor
  /\ UNCHANGED <<live, id, mem, n, edges_size, fault>>

\* Mutant of LoopStep: the iterator is only advanced past edges that stay.
LoopStepKeepsPosition ==
  /\ ~fault
  /\ call.op \in {"remove_edge", "erase_edges"}
  /\ call.it # call.last
  /\ IF call.it \notin live
     THEN /\ fault' = TRUE
          /\ UNCHANGED <<mem, id, live, edges_size, call>>
     ELSE IF call.op = "remove_edge" => Other(call.it, call.u) = call.v
          THEN Erase(call.it) /\ UNCHANGED call
          ELSE /\ call' = [call EXCEPT !.it = Advance(@, call.u)]
               /\ UNCHANGED <<mem, id, live, edges_size, fault>>
  /\ UNCHANGED <<n, cursor>>

\* One iteration of either loop: the iterator moves on before the edge it
\* stood on is erased.
LoopStep ==
  /\ ~fault
  /\ call.op \in {"remove_edge", "erase_edges"}
  /\ call.it # call.last
  /\ IF call.it \notin live
     THEN /\ fault' = TRUE
          /\ UNCHANGED <<mem, id, live, edges_size, call>>
     ELSE /\ call' = [call EXCEPT !.it = Advance(@, call.u)]
          /\ IF call.op = "remove_edge" => Other(call.it, call.u) = call.v
             THEN Erase(call.it)
             ELSE UNCHANGED <<mem, id, live, edges_size, fault>>
  /\ UNCHANGED <<n, cursor>>

LoopReturn ==
  /\ ~fault
  /\ call.op \in {"remove_edge", "erase_edges"}
  /\ call.it = call.last
  /\ call' = Idle
  /\ UNCHANGED <<live, id, mem, n, edges_size, cursor, fault>>

\* remove_vertex(u) and clear() begin by clearing the edges of a vertex.
RemoveVertex(u) ==
  /\ Ready
  /\ call' = [Idle EXCEPT !.op = "remove_vertex", !.u = u]
  /\ cursor' = NoCursor
  /\ UNCHANGED <<live, id, mem, n, edges_size, fault>>

Clear ==
  /\ Ready
  /\ call' = [Idle EXCEPT !.op = "clear"]
  /\ cursor' = NoCursor
  /\ UNCHANGED <<live, id, mem, n, edges_size, fault>>

\* One iteration of clear_edges: while the list is not empty, erase its front.
ClearEdgesStep ==
  /\ ~fault
  /\ call.op \in {"remove_vertex", "clear"}
  /\ call.u < n
  /\ mem.size[call.u] > 0
  /\ Erase(mem.head[call.u])
  /\ UNCHANGED <<n, call, cursor>>

\* Mutant of ClearNextVertex: the loop never moves on.
ClearSameVertex ==
  /\ ~fault
  /\ call.op = "clear"
  /\ call.u < n
  /\ mem.size[call.u] = 0
  /\ UNCHANGED vars

\* clear() goes on to the next vertex.
ClearNextVertex ==
  /\ ~fault
  /\ call.op = "clear"
  /\ call.u < n
  /\ mem.size[call.u] = 0
  /\ call' = [call EXCEPT !.u = @ + 1]
  /\ UNCHANGED <<live, id, mem, n, edges_size, cursor, fault>>

ClearReturn ==
  /\ ~fault
  /\ call.op = "clear"
  /\ call.u = n
  /\ n' = 0
  /\ mem' = [next |-> mem.next, prev |-> mem.prev, head |-> [u \in {} |-> NULL],
             tail |-> [u \in {} |-> NULL], size |-> [u \in {} |-> 0]]
  /\ call' = Idle
  /\ UNCHANGED <<live, id, edges_size, cursor, fault>>

\* ual_edge::renumber_after_vertex_erase for one vertex id.
Renumber(x, removed) == IF x > removed THEN x - 1 ELSE x

\* The rest of remove_vertex: collect the edges that an iteration of the whole
\* graph finds, erase the vertex, renumber the ends of the collected edges.
RemoveVertexReturn ==
  /\ ~fault
  /\ call.op = "remove_vertex"
  /\ mem.size[call.u] = 0
  /\ LET r         == call.u
         remaining == GraphIterated
         Shift(f)  == [u \in 0..(n - 2) |-> IF u < r THEN f[u] ELSE f[u + 1]]
     IN  IF remaining \subseteq live
         THEN /\ n' = n - 1
              /\ mem' = [next |-> mem.next, prev |-> mem.prev, head |-> Shift(mem.head),
                         tail |-> Shift(mem.tail), size |-> Shift(mem.size)]
              /\ id' = [l \in Link |-> IF l[1] \in remaining THEN Renumber(id[l], r)
                                       ELSE id[l]]
              /\ fault' = FALSE
         ELSE /\ fault' = TRUE
              /\ UNCHANGED <<n, mem, id>>
  /\ call' = Idle
  /\ UNCHANGED <<live, edges_size, cursor>>

Update == \/ AddVertex
          \/ \E e \in Edge, u, v \in Vertices : AddEdge(e, u, v)
          \/ \E e \in Edge, u \in Vertices : EraseEdge(u, e)
          \/ \E e \in Edge, u \in Vertices : RemoveEdgeAt(u, e)

Begin  == \/ \E u, v \in Vertices : RemoveEdge(u, v)
          \/ \E u \in Vertices, first \in Edge, last \in Pointer : EraseEdges(u, first, last)
          \/ \E u \in Vertices : RemoveVertex(u)
          \/ Clear

Continue == \/ LoopStep \/ LoopReturn
            \/ ClearEdgesStep \/ ClearNextVertex \/ ClearReturn
            \/ RemoveVertexReturn

Next == Update \/ Begin \/ Continue

Spec == Init /\ [][Next]_vars

\* A call runs to its end: one thread executes its loop without waiting.
FairSpec == Spec /\ WF_vars(Continue)

-----------------------------------------------------------------------------
(* Properties *)

Ops == {"idle", "remove_edge", "erase_edges", "remove_vertex", "clear"}

\* The pointers and sizes of a graph whose vertices are V.
Memory(V) == [next : [Link -> Pointer], prev : [Link -> Pointer],
              head : [V -> Pointer], tail : [V -> Pointer], size : [V -> Nat]]

\* Every variable has its type; a call in progress names existing vertices.
TypeOK ==
  /\ live \subseteq Edge
  /\ id \in [Link -> Nat]
  /\ mem \in Memory(Vertices)
  /\ n \in 0..MaxVertices
  /\ edges_size \in Nat
  /\ call \in [op : Ops, u : 0..MaxVertices, v : 0..MaxVertices, it : Pointer, last : Pointer]
  /\ cursor \in [kind : {"none", "vertex", "graph"}, u : Nat, uv : Pointer]
  /\ fault \in BOOLEAN

\* After any sequence of removals and renumberings (remove_vertex shifts every
\* higher id down) both stored endpoint ids of every edge name a vertex.
EndpointsInRange == \A e \in live, s \in Sides : id[<<e, s>>] < n

\* edges_size_, which add_edge and four erasing functions maintain by hand, is
\* the number of allocated edge objects.
EdgesCounted == edges_size = Cardinality(live)

Incident(e, u) == e \in live /\ \E s \in Sides : id[<<e, s>>] = u

\* One end of e, in L, is in u's list.
HasEnd(i, L, e, u) == /\ <<e, SideOf(i, e, u)>> \in L
                      /\ i[<<e, SideOf(i, e, u)>>] = u

\* The lists of the vertices V, threaded through the link ends L.
Linked(m, i, L, V) ==
  /\ \A l \in L :
       LET u == i[l]
           p == m.prev[l]
           x == m.next[l]
       IN  /\ IF p = NULL THEN m.head[u] = l[1]
              ELSE HasEnd(i, L, p, u) /\ m.next[<<p, SideOf(i, p, u)>>] = l[1]
           /\ IF x = NULL THEN m.tail[u] = l[1]
              ELSE HasEnd(i, L, x, u) /\ m.prev[<<x, SideOf(i, x, u)>>] = l[1]
  /\ \A u \in V :
       LET h == m.head[u]
           t == m.tail[u]
       IN  /\ h = NULL <=> t = NULL
           /\ h # NULL => HasEnd(i, L, h, u) /\ m.prev[<<h, SideOf(i, h, u)>>] = NULL
           /\ t # NULL => HasEnd(i, L, t, u) /\ m.next[<<t, SideOf(i, t, u)>>] = NULL

\* The two doubly linked lists an edge is threaded through agree in both
\* directions, whichever mix of inward and outward links they are made of: the
\* successor's predecessor is the edge itself, in the list of the same vertex,
\* and the ends of a list are the edges without predecessor and successor.
ListsLinked == Linked(mem, id, live \X Sides, Vertices)

\* Iterating a vertex's list passes exactly the edges that have the vertex as
\* an endpoint, and the cached degree size_ counts the ends they have there.
ListsComplete ==
  \A u \in Vertices : /\ Iterated(u) = {e \in live : Incident(e, u)}
                       /\ mem.size[u] = Cardinality({l \in live \X Sides : id[l] = u})

\* No list and no link of an allocated edge points to a freed one: what the
\* closing comment of unlink promises once both ends are unlinked.
NoDanglingPointer ==
  /\ \A e \in live, s \in Sides : /\ mem.next[<<e, s>>] \in live \cup {NULL}
                                 /\ mem.prev[<<e, s>>] \in live \cup {NULL}
  /\ \A u \in Vertices : {mem.head[u], mem.tail[u]} \subseteq live \cup {NULL}

\* No operation follows a null pointer or a pointer to a freed edge.
NoFault == ~fault

\* The iterator an erasing loop goes on with, and the one erase_edge returns to
\* a user who erases while iterating, never stand on a freed edge.
NextIteratorLive ==
  /\ {call.it, call.last} \subseteq live \cup {NULL}
  /\ cursor.kind = "vertex" => cursor.uv \in live \cup {NULL}

\* The sequence of edges that iterating u's list yields.
ListOf(u) ==
  LET walk[k \in 1..(Cardinality(Edge) + 1)] ==
        IF k = 1 THEN mem.head[u]
        ELSE IF walk[k - 1] = NULL THEN NULL ELSE Advance(walk[k - 1], u)
  IN  [k \in {j \in DOMAIN walk : walk[j] # NULL} |-> walk[k]]

\* The edges the call in progress has still to erase.
ToErase ==
  CASE call.op = "remove_edge" ->
         {e \in live : {id[<<e, "in">>], id[<<e, "out">>]} = {call.u, call.v}}
    [] call.op = "erase_edges" ->
         LET list == ListOf(call.u)
             At(e) == IF e = NULL THEN Len(list) + 1
                      ELSE CHOOSE k \in DOMAIN list : list[k] = e
         IN  {list[k] : k \in At(call.it)..(At(call.last) - 1)}
    [] call.op = "remove_vertex" -> {e \in live : Incident(e, call.u)}
    [] call.op = "clear" -> live
    [] OTHER -> {}

Multigraph ==
  INSTANCE UndirectedMultigraph WITH
    count    <- n,
    ends     <- [e \in live |-> <<id[<<e, "in">>], id[<<e, "out">>]>>],
    incident <- [u \in Vertices |-> ListOf(u)],
    pending  <- [op   |-> IF call.op \in {"remove_edge", "erase_edges"} THEN "remove_edges"
                          ELSE call.op,
                 u    |-> IF call.op = "clear" THEN 0 ELSE call.u,
                 todo |-> ToErase]

\* The pointer structure implements the multigraph: the incidence sequences keep
\* the order of insertion, each call erases exactly the edges it names, and
\* remove_vertex closes the gap in the numbering without touching other edges.
\* (That calls return is CallsReturn.)
ImplementsMultigraph == Multigraph!Spec

\* Every call returns.
CallsReturn == (call # Idle) ~> (call = Idle)

-----------------------------------------------------------------------------
(* What documentation says and the code does not do.  No run checks these;    *)
(* as an INVARIANT of UAL.cfg each has a counterexample.                     *)

\* remove_edge(edge_iterator) returns "Iterator to the next edge": an edge that
\* still exists, or the end.
ReturnedEdgeIteratorLive == cursor.kind = "graph" => cursor.uv \in live \cup {NULL}

\* num_edges() "Edge count (each undirected edge counted TWICE - once from each
\* endpoint)", says its documentation.
EdgesCountedTwice == edges_size = 2 * Cardinality(live)
=============================================================================
