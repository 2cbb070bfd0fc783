------------------------------ MODULE DfsViews ------------------------------
(***************************************************************************)
(* vertices_dfs and edges_dfs: views whose iterators share one depth-first *)
(* search.  The element is the vertex on top of the stack, or the tree     *)
(* edge that led to it; the constructor of the edges' iterator advances to *)
(* the first edge.  visits and pruned are for the properties.              *)
(***************************************************************************)
EXTENDS Digraphs

CONSTANT N   \* num_vertices(g)

VARIABLES graph,      \* the adjacency list
          seed,       \* the vertex the view was made from
          yields,     \* "vertices" or "edges"
          stack,      \* stack_: vertices and the position of the next edge of each
          visited,    \* visited_, as the set of those marked
          cancel,     \* cancel_
          count,      \* count_
          edge,       \* edges: current_edge_ as its source and position, or NoEdge
          begun,      \* the iterator has been constructed
          visits, pruned

vars == <<graph, seed, yields, stack, visited, cancel, count, edge, begun, visits, pruned>>

Vertices == 0..(N - 1)
NoEdge   == <<>>

Entry(v) == [vertex |-> v, next |-> 1]

Init == /\ stack = <<>>
        /\ visited = {}
        /\ cancel = "continue_search"
        /\ count = 0
        /\ edge = NoEdge
        /\ begun = FALSE
        /\ visits = <<>>
        /\ pruned = {}

Made == visits # <<>>

\* The constructor of the view; that of the vertices' iterator does nothing.
Make == /\ ~Made
        /\ stack' = <<Entry(seed)>>
        /\ visited' = {seed}
        /\ count' = IF yields = "vertices" THEN 1 ELSE 0
        /\ begun' = (yields = "vertices")
        /\ visits' = <<seed>>
        /\ UNCHANGED <<graph, seed, yields, cancel, edge, pruned>>

AtEnd == Made /\ stack = <<>>

\* depth()
Depth == Len(stack)

\* The caller may set the cancel state at any element.
Cancel == /\ begun /\ stack # <<>>
          /\ cancel' \in {"continue_search", "cancel_branch", "cancel_all"} \ {cancel}
          /\ UNCHANGED <<graph, seed, yields, stack, visited, count, edge, begun, visits, pruned>>

AdvanceCancelled == /\ stack # <<>>
                    /\ cancel = "cancel_all"
                    /\ stack' = <<>>
                    /\ edge' = NoEdge
                    /\ UNCHANGED <<graph, seed, yields, visited, cancel, count, begun, visits, pruned>>

\* Mutant of Base: cancel_branch leaves the vertex on the stack.
BaseUncut == stack

\* The stack on which the loop begins.
Base == IF cancel = "cancel_branch" THEN Front(stack) ELSE stack

\* The positions of the edges that an entry has left to an unvisited vertex.
Fresh(entry) == {i \in entry.next..Len(graph[entry.vertex]) : graph[entry.vertex][i] \notin visited}

\* The entries with such an edge: the loop pops those above the topmost one.
Productive == {k \in DOMAIN Base : Fresh(Base[k]) # {}}

Advance ==
  /\ stack # <<>>
  /\ cancel # "cancel_all"
  /\ begun' = TRUE
  /\ cancel' = "continue_search"
  /\ pruned' = IF cancel = "cancel_branch" THEN pruned \cup {Last(stack).vertex} ELSE pruned
  /\ IF Productive = {}
     THEN /\ stack' = <<>>
          /\ edge' = NoEdge
          /\ UNCHANGED <<visited, count, visits>>
     ELSE LET k     == CHOOSE i \in Productive : \A j \in Productive : j <= i
              entry == Base[k]
              found == CHOOSE i \in Fresh(entry) : \A j \in Fresh(entry) : i <= j
              v     == graph[entry.vertex][found]
          IN  /\ stack' = SubSeq(Base, 1, k - 1) \o <<[entry EXCEPT !.next = found + 1], Entry(v)>>
              /\ visited' = visited \cup {v}
              /\ count' = count + 1
              /\ edge' = IF yields = "edges" THEN <<entry.vertex, found>> ELSE NoEdge
              /\ visits' = Append(visits, v)
  /\ UNCHANGED <<graph, seed, yields>>

Next == Make \/ Cancel \/ AdvanceCancelled \/ Advance

-----------------------------------------------------------------------------
(* Properties *)

Explored == Pruned(Successors(graph), pruned)

\* The edges lead from the last vertex visited that leads to their target.
VisitsInOrder ==
  Made =>
  /\ DepthFirst(Explored, visits)
  /\ edge # NoEdge =>
       LET from == PositionsTo(Explored, SubSeq(visits, 1, Len(visits) - 1), Last(visits))
       IN  /\ graph[edge[1]][edge[2]] = Last(visits)
           /\ edge[1] = visits[CHOOSE d \in from : \A c \in from : c <= d]

\* The stack is a path from the seed to the current vertex along edges that have been
\* taken and past which the search has moved; depth() is its length.
DepthsExact ==
  Made =>
  /\ stack # <<>> => stack[1].vertex = seed /\ Last(stack).vertex = Last(visits)
  /\ \A d \in 2..Depth : graph[stack[d - 1].vertex][stack[d - 1].next - 1] = stack[d].vertex
  /\ \A d \in 1..Depth : \A i \in 1..(stack[d].next - 1) : graph[stack[d].vertex][i] \in ToSet(visits)
  /\ count = Len(visits) - (IF yields = "edges" THEN 1 ELSE 0)
=============================================================================
