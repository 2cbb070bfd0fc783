-------------------------- MODULE TopologicalViews --------------------------
(***************************************************************************)
(* vertices_topological_sort and edges_topological_sort, with their _safe  *)
(* forms: the order is computed when the view is made, and the iterator    *)
(* then walks it, or the edges of its vertices.  A step is one iteration   *)
(* of the search or one use of the view.                                   *)
(***************************************************************************)
EXTENDS Digraphs

CONSTANT N   \* num_vertices(g)

VARIABLES graph,      \* the adjacency list
          yields,     \* "vertices" or "edges"
          detect,     \* detect_cycles_: the view is made by a _safe function
          root,       \* the vertex the constructor's loop has come to
          stack,      \* dfs_stack: vertices and the position of the next edge of each
          visited,    \* visited_, as the set of those marked
          onPath,     \* rec_stack_, likewise
          postOrder,  \* post_order_
          cycle,      \* cycle_vertex_, or None
          phase,      \* "construct", "refused", "begin" or "iterate"
          cancel,     \* cancel_
          count,      \* count_
          index,      \* index_ or vertex_index_, from 1
          position,   \* edges: the position of edge_it_
          walked      \* for the properties: the elements so far

vars == <<graph, yields, detect, root, stack, visited, onPath, postOrder, cycle, phase, cancel, count,
          index, position, walked>>

Vertices == 0..(N - 1)
None     == N

search == <<root, stack, visited, onPath, postOrder, cycle>>
walk   == <<cancel, count, index, position, walked>>

Init == /\ root = 0
        /\ stack = <<>> /\ visited = {} /\ onPath = {} /\ postOrder = <<>> /\ cycle = None
        /\ phase = "construct"
        /\ cancel = "continue_search"
        /\ count = 0
        /\ index = 1
        /\ position = 1
        /\ walked = <<>>

Entry(v) == [vertex |-> v, next |-> 1]

\* push_vertex on the given stack.
PushVertex(s, v) == /\ stack' = Append(s, Entry(v))
                    /\ visited' = visited \cup {v}
                    /\ onPath' = IF detect THEN onPath \cup {v} ELSE onPath

Root == /\ phase = "construct" /\ stack = <<>> /\ root < N
        /\ IF root \in visited THEN UNCHANGED <<stack, visited, onPath>> ELSE PushVertex(<<>>, root)
        /\ root' = root + 1
        /\ UNCHANGED <<graph, yields, detect, postOrder, cycle, phase, walk>>

top       == Last(stack)
target    == graph[top.vertex][top.next]
Advanced  == [stack EXCEPT ![Len(stack)] = [top EXCEPT !.next = top.next + 1]]

\* Mutant of Leave: the vertex stays on the path.
LeaveOnPath == /\ phase = "construct" /\ stack # <<>>
               /\ top.next > Len(graph[top.vertex])
               /\ postOrder' = Append(postOrder, top.vertex)
               /\ stack' = Front(stack)
               /\ UNCHANGED <<graph, yields, detect, root, visited, onPath, cycle, phase, walk>>

Leave == /\ phase = "construct" /\ stack # <<>>
         /\ top.next > Len(graph[top.vertex])
         /\ onPath' = onPath \ {top.vertex}
         /\ postOrder' = Append(postOrder, top.vertex)
         /\ stack' = Front(stack)
         /\ UNCHANGED <<graph, yields, detect, root, visited, cycle, phase, walk>>

\* dfs_visit and the constructor return at a back edge; the factory returns its target.
CloseCycle == /\ phase = "construct" /\ stack # <<>>
              /\ top.next <= Len(graph[top.vertex])
              /\ detect /\ target \in onPath
              /\ cycle' = target
              /\ phase' = "refused"
              /\ UNCHANGED <<graph, yields, detect, root, stack, visited, onPath, postOrder, walk>>

Follow == /\ phase = "construct" /\ stack # <<>>
          /\ top.next <= Len(graph[top.vertex])
          /\ ~(detect /\ target \in onPath)
          /\ IF target \in visited
             THEN stack' = Advanced /\ UNCHANGED <<visited, onPath>>
             ELSE PushVertex(Advanced, target)
          /\ UNCHANGED <<graph, yields, detect, root, postOrder, cycle, phase, walk>>

\* The rest of the constructors.
Constructed == /\ phase = "construct" /\ stack = <<>> /\ root = N
               /\ postOrder' = Reverse(postOrder)
               /\ count' = IF yields = "vertices" /\ postOrder # <<>> THEN 1 ELSE 0
               /\ phase' = "begin"
               /\ UNCHANGED <<graph, yields, detect, root, stack, visited, onPath, cycle, cancel, index, position,
                              walked>>

AtEnd == index > Len(postOrder) \/ cancel # "continue_search"

\* The element at position i of the order, and edge e of its vertex.
Element(i, e) == IF yields = "vertices" THEN <<postOrder[i]>> ELSE <<postOrder[i], e>>

\* Edges: the first edge from position e of vertex i on, in the order of the vertices,
\* as skip_to_first_edge and advance_to_next_edge both find it.
NextEdge(i, e) ==
  IF e <= Len(graph[postOrder[i]]) THEN <<i, e>>
  ELSE LET later == {j \in (i + 1)..Len(postOrder) : graph[postOrder[j]] # <<>>}
       IN  IF later = {} THEN <<Len(postOrder) + 1, e>>
           ELSE <<CHOOSE j \in later : \A k \in later : j <= k, 1>>

MoveTo(p) == /\ index' = p[1]
             /\ position' = p[2]
             /\ IF p[1] > Len(postOrder) THEN UNCHANGED <<count, walked>>
                ELSE /\ count' = count + 1
                     /\ walked' = Append(walked, Element(p[1], p[2]))

Begin == /\ phase = "begin"
         /\ phase' = "iterate"
         /\ IF yields = "edges"
            THEN MoveTo(NextEdge(1, 1))
            ELSE /\ walked' = <<Element(1, 1)>>
                 /\ UNCHANGED <<index, position, count>>
         /\ UNCHANGED <<graph, yields, detect, search, cancel>>

\* At an element the caller may cancel the iteration, in either way.
Cancel == /\ phase = "iterate" /\ ~AtEnd
          /\ cancel' \in {"cancel_branch", "cancel_all"}
          /\ UNCHANGED <<graph, yields, detect, search, phase, count, index, position, walked>>

\* A loop advances the iterator after it has cancelled, too: without effect on the walk.
AdvanceVertex == /\ phase = "iterate" /\ index <= Len(postOrder)
                 /\ yields = "vertices"
                 /\ IF cancel = "continue_search"
                    THEN MoveTo(<<index + 1, position>>)
                    ELSE /\ index' = index + 1
                         /\ UNCHANGED <<position, count, walked>>
                 /\ UNCHANGED <<graph, yields, detect, search, phase, cancel>>

AdvanceEdge == /\ phase = "iterate" /\ ~AtEnd
               /\ yields = "edges"
               /\ MoveTo(NextEdge(index, position + 1))
               /\ UNCHANGED <<graph, yields, detect, search, phase, cancel>>

Advance == AdvanceVertex \/ AdvanceEdge

Construct == Root \/ Leave \/ CloseCycle \/ Follow \/ Constructed

Next == Construct \/ Begin \/ Cancel \/ Advance

Ended == phase = "refused" \/ (phase = "iterate" /\ AtEnd)

-----------------------------------------------------------------------------
(* Properties *)

Cyclic == CyclicWithin(Successors(graph), Vertices)

\* What the walk of a whole view is.
Walk == IF yields = "vertices" THEN [i \in DOMAIN postOrder |-> <<postOrder[i]>>]
        ELSE FlattenSeq([i \in DOMAIN postOrder |->
                           [e \in DOMAIN graph[postOrder[i]] |-> <<postOrder[i], e>>]])

\* A _safe function refuses exactly the cyclic graphs, and names a vertex of a cycle.
\* The order of an acyclic graph is topological and has every vertex; the iteration
\* yields it, or each edge once, grouped by it, and num_visited() counts what it yields.
WalkExact ==
  /\ phase = "refused" => \E v \in Successors(graph)[cycle] : cycle \in Reached(Successors(graph), v)
  /\ phase \in {"begin", "iterate"} =>
       /\ ToSet(postOrder) = Vertices /\ IsInjective(postOrder)
       /\ detect => ~Cyclic
       /\ Cyclic \/ Topological(Successors(graph), postOrder)
  /\ phase = "iterate" => /\ IsPrefix(walked, Walk)
                          /\ count = Len(walked)
                          /\ index > Len(postOrder) /\ cancel = "continue_search" => walked = Walk
=============================================================================
