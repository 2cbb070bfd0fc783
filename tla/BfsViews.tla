------------------------------ MODULE BfsViews ------------------------------
(***************************************************************************)
(* vertices_bfs and edges_bfs: views whose iterators share one             *)
(* breadth-first search.  The element of the vertices' iterator is the     *)
(* vertex at the front of the queue; the edges' iterator runs on to the    *)
(* next tree edge whenever it is advanced, and its constructor advances it *)
(* to the first.  visits and pruned remember, for the properties, the      *)
(* elements so far and those at which a branch was cancelled.              *)
(***************************************************************************)
EXTENDS Digraphs

CONSTANTS N,            \* num_vertices(g)
          CancelTwice   \* may the caller of edges_bfs cancel a branch before the last one
                        \* was skipped?

VARIABLES graph,      \* the adjacency list
          seed,       \* the vertex the view was made from
          yields,     \* "vertices" or "edges"
          queue,      \* queue_: vertices, their depths and, for edges, the next edge of each
          visited,    \* visited_, as the set of those marked
          cancel,     \* cancel_
          maxDepth,   \* max_depth_
          count,      \* count_
          skip,       \* edges: skip_vertex_id_, or None
          edge,       \* edges: current_edge_ as its source and position, or NoEdge
          begun,      \* the iterator has been constructed
          visits, pruned

vars == <<graph, seed, yields, queue, visited, cancel, maxDepth, count, skip, edge, begun,
          visits, pruned>>

Vertices == 0..(N - 1)
None     == N
NoEdge   == <<>>

Entry(v, d) == [vertex |-> v, depth |-> d, next |-> 1]

Init == /\ queue = <<>>
        /\ visited = {}
        /\ cancel = "continue_search"
        /\ maxDepth = 0
        /\ count = 0
        /\ skip = None
        /\ edge = NoEdge
        /\ begun = FALSE
        /\ visits = <<>>
        /\ pruned = {}

Made == visits # <<>>

\* The constructor of the view; that of the vertices' iterator does nothing.
Make == /\ ~Made
        /\ queue' = <<Entry(seed, 0)>>
        /\ visited' = {seed}
        /\ count' = IF yields = "vertices" THEN 1 ELSE 0
        /\ begun' = (yields = "vertices")
        /\ visits' = <<seed>>
        /\ UNCHANGED <<graph, seed, yields, cancel, maxDepth, skip, edge, pruned>>

AtEnd == begun /\ queue = <<>> /\ edge = NoEdge

\* The caller may set the cancel state at any element.
Cancel == /\ begun /\ ~AtEnd
          /\ cancel' \in {"continue_search", "cancel_branch", "cancel_all"} \ {cancel}
          /\ cancel' = "cancel_branch" => skip = None \/ CancelTwice
          /\ UNCHANGED <<graph, seed, yields, queue, visited, maxDepth, count, skip, edge, begun,
                         visits, pruned>>

AdvanceCancelled == /\ Made /\ ~AtEnd
                    /\ cancel = "cancel_all"
                    /\ queue' = <<>>
                    /\ edge' = NoEdge
                    /\ UNCHANGED <<graph, seed, yields, visited, cancel, maxDepth, count, skip, begun,
                                   visits, pruned>>

-----------------------------------------------------------------------------
(* vertices_bfs *)

current == Head(queue)

Remember == /\ visits' = IF queue' = <<>> THEN visits ELSE Append(visits, Head(queue').vertex)
            /\ pruned' = IF cancel = "cancel_branch" THEN pruned \cup {current.vertex} ELSE pruned

AdvanceSkipping == /\ yields = "vertices" /\ queue # <<>>
                   /\ cancel = "cancel_branch"
                   /\ queue' = Tail(queue)
                   /\ cancel' = "continue_search"
                   /\ Remember
                   /\ UNCHANGED <<graph, seed, yields, visited, maxDepth, count, skip, edge, begun>>

\* Mutant of AdvanceExploring: the depth grows with every vertex that is explored.
AdvanceExploringDeeper ==
  /\ yields = "vertices" /\ queue # <<>>
  /\ cancel = "continue_search"
  /\ LET found == Discoveries(graph[current.vertex], visited)
         depth == current.depth + 1
     IN  /\ queue' = Tail(queue) \o [i \in DOMAIN found |-> Entry(found[i], depth)]
         /\ visited' = visited \cup ToSet(found)
         /\ count' = count + Len(found)
         /\ maxDepth' = depth
  /\ Remember
  /\ UNCHANGED <<graph, seed, yields, cancel, skip, edge, begun>>

AdvanceExploring ==
  /\ yields = "vertices" /\ queue # <<>>
  /\ cancel = "continue_search"
  /\ LET found == Discoveries(graph[current.vertex], visited)
         depth == current.depth + 1
     IN  /\ queue' = Tail(queue) \o [i \in DOMAIN found |-> Entry(found[i], depth)]
         /\ visited' = visited \cup ToSet(found)
         /\ count' = count + Len(found)
         /\ maxDepth' = IF found # <<>> /\ depth > maxDepth THEN depth ELSE maxDepth
  /\ Remember
  /\ UNCHANGED <<graph, seed, yields, cancel, skip, edge, begun>>

-----------------------------------------------------------------------------
(* edges_bfs *)

Target(e) == graph[e[1]][e[2]]

\* The vertex to be skipped from now on.
Skipped == IF cancel = "cancel_branch" THEN Target(edge) ELSE skip

\* The positions of the edges that entry q has left to an unvisited vertex.
Fresh(q) == {i \in q.next..Len(graph[q.vertex]) : graph[q.vertex][i] \notin visited}

\* The entry where the loop finds the next tree edge, if any: those before it, without
\* such an edge or to be skipped, are popped.
Productive == {k \in DOMAIN queue : queue[k].vertex # Skipped /\ Fresh(queue[k]) # {}}

First(S) == CHOOSE k \in S : \A j \in S : k <= j

Popped(k) == {queue[j].vertex : j \in 1..(k - 1)}

AdvanceEdge ==
  /\ yields = "edges" /\ Made /\ ~AtEnd
  /\ cancel # "cancel_all"
  /\ begun' = TRUE
  /\ cancel' = "continue_search"
  /\ pruned' = IF cancel = "cancel_branch" THEN pruned \cup {Target(edge)} ELSE pruned
  /\ IF Productive = {}
     THEN /\ queue' = <<>>
          /\ edge' = NoEdge
          /\ skip' = IF Skipped \in Popped(Len(queue) + 1) THEN None ELSE Skipped
          /\ UNCHANGED <<visited, maxDepth, count, visits>>
     ELSE LET k     == First(Productive)
              entry == queue[k]
              found == First(Fresh(entry))
              v     == graph[entry.vertex][found]
          IN  /\ queue' = <<[entry EXCEPT !.next = found + 1]>> \o SubSeq(queue, k + 1, Len(queue))
                          \o <<Entry(v, entry.depth + 1)>>
              /\ skip' = IF Skipped \in Popped(k) THEN None ELSE Skipped
              /\ edge' = <<entry.vertex, found>>
              /\ visited' = visited \cup {v}
              /\ maxDepth' = IF entry.depth + 1 > maxDepth THEN entry.depth + 1 ELSE maxDepth
              /\ count' = count + 1
              /\ visits' = Append(visits, v)
  /\ UNCHANGED <<graph, seed, yields>>

Advance == AdvanceCancelled \/ AdvanceSkipping \/ AdvanceExploring \/ AdvanceEdge

Next == Make \/ Cancel \/ Advance

-----------------------------------------------------------------------------
(* Properties *)

Explored == Pruned(Successors(graph), pruned)

\* The vertices come in breadth-first order, and the edges lead from the first vertex
\* visited that leads to their target.
VisitsInOrder ==
  Made =>
  /\ BreadthFirst(Explored, visits)
  /\ edge # NoEdge => /\ Target(edge) = Last(visits)
                      /\ edge[1] = visits[First(PositionsTo(Explored, visits, Last(visits)))]

\* The depths on the queue are the distances from the seed in the graph as pruned, they
\* never fall, depth() is the greatest distance found and num_visited() counts what was.
DepthsExact ==
  Made =>
  /\ \A i \in DOMAIN queue : queue[i].depth = Distance(Explored, seed, queue[i].vertex)
  /\ \A i, j \in DOMAIN queue : i < j => queue[i].depth <= queue[j].depth
  /\ \E v \in visited : maxDepth = Distance(Explored, seed, v)
  /\ \A v \in visited : maxDepth >= Distance(Explored, seed, v)
  /\ count = Cardinality(visited) - IF yields = "edges" THEN 1 ELSE 0
=============================================================================
