-------------------------- MODULE DepthFirstSearch --------------------------
(***************************************************************************)
(* depth_first_search from one vertex, and topological_sort from given     *)
(* sources (without any, it is given all vertices in turn), which searches *)
(* from each in the same way.  A step is one iteration of the loop over    *)
(* the stack, or one source.  calls records what the visitor, which is not *)
(* part of the algorithm, has been told.                                   *)
(***************************************************************************)
EXTENDS Digraphs

CONSTANT N   \* num_vertices(g)

VARIABLES graph,        \* the adjacency list
          seed,         \* start_vertex_id
          color,        \* "White", "Gray" or "Black"
          stack,        \* S: the vertex of each frame and the position of its next edge
          calls,        \* depth_first_search: the visitor's calls so far
          given,        \* topological_sort: the sources
          sources,      \* those the outer loop has not come to
          finishOrder,  \* finish_order
          returned,     \* "none", "true" or "false"
          result        \* what has been written to the output iterator

Vertices == 0..(N - 1)

Frame(v) == [vertex |-> v, next |-> 1]

top       == Last(stack)
Exhausted == top.next > Len(graph[top.vertex])
target    == graph[top.vertex][top.next]
Advanced  == [stack EXCEPT ![Len(stack)] = [top EXCEPT !.next = top.next + 1]]

Init == /\ color = [v \in Vertices |-> "White"]
        /\ stack = <<>>
        /\ calls = <<>>
        /\ sources = given
        /\ finishOrder = <<>>
        /\ returned = "none"
        /\ result = <<>>

-----------------------------------------------------------------------------
(* depth_first_search *)

VertexCall(event, v)  == [on |-> event, vertex |-> v, target |-> v]
EdgeCall(event, u, v) == [on |-> event, vertex |-> u, target |-> v]

Start == /\ calls = <<>>
         /\ color' = [color EXCEPT ![seed] = "Gray"]
         /\ stack' = <<Frame(seed)>>
         /\ calls' = <<VertexCall("initialize_vertex", seed), VertexCall("start_vertex", seed),
                       VertexCall("discover_vertex", seed)>>
         /\ UNCHANGED <<graph, seed>>

\* Mutant of Finish: the vertex stays Gray.
FinishGray == /\ stack # <<>> /\ Exhausted
              /\ stack' = Front(stack)
              /\ calls' = Append(calls, VertexCall("finish_vertex", top.vertex))
              /\ UNCHANGED <<graph, seed, color>>

Finish == /\ stack # <<>> /\ Exhausted
          /\ color' = [color EXCEPT ![top.vertex] = "Black"]
          /\ stack' = Front(stack)
          /\ calls' = Append(calls, VertexCall("finish_vertex", top.vertex))
          /\ UNCHANGED <<graph, seed>>

Told(kind) == calls \o <<EdgeCall("examine_edge", top.vertex, target),
                         EdgeCall(kind, top.vertex, target),
                         EdgeCall("finish_edge", top.vertex, target)>>

FollowTreeEdge == /\ stack # <<>> /\ ~Exhausted
                  /\ color[target] = "White"
                  /\ color' = [color EXCEPT ![target] = "Gray"]
                  /\ stack' = Append(Advanced, Frame(target))
                  /\ calls' = Append(Told("tree_edge"), VertexCall("discover_vertex", target))
                  /\ UNCHANGED <<graph, seed>>

PassEdge == /\ stack # <<>> /\ ~Exhausted
            /\ color[target] # "White"
            /\ stack' = Advanced
            /\ calls' = Told(IF color[target] = "Gray" THEN "back_edge" ELSE "forward_or_cross_edge")
            /\ UNCHANGED <<graph, seed, color>>

SearchNext == Start \/ Finish \/ FollowTreeEdge \/ PassEdge

SearchReturned == calls # <<>> /\ stack = <<>>

-----------------------------------------------------------------------------
(* topological_sort *)

AtSource == returned = "none" /\ stack = <<>> /\ sources # <<>>

\* Mutant of SkipSource: the loop stays at the source.
SkipSourceAgain == /\ AtSource
                   /\ color[Head(sources)] # "White"
                   /\ UNCHANGED <<graph, given, sources, color, stack, finishOrder, returned, result>>

SkipSource == /\ AtSource
              /\ color[Head(sources)] # "White"
              /\ sources' = Tail(sources)
              /\ UNCHANGED <<graph, given, color, stack, finishOrder, returned, result>>

Visit == /\ AtSource
         /\ color[Head(sources)] = "White"
         /\ color' = [color EXCEPT ![Head(sources)] = "Gray"]
         /\ stack' = <<Frame(Head(sources))>>
         /\ sources' = Tail(sources)
         /\ UNCHANGED <<graph, given, finishOrder, returned, result>>

SortFinish == /\ returned = "none" /\ stack # <<>> /\ Exhausted
              /\ color' = [color EXCEPT ![top.vertex] = "Black"]
              /\ finishOrder' = Append(finishOrder, top.vertex)
              /\ stack' = Front(stack)
              /\ UNCHANGED <<graph, given, sources, returned, result>>

\* A target that is Gray closes a cycle: the search and the call end.
Follow ==
  /\ returned = "none" /\ stack # <<>> /\ ~Exhausted
  /\ CASE color[target] = "White" -> /\ color' = [color EXCEPT ![target] = "Gray"]
                                     /\ stack' = Append(Advanced, Frame(target))
                                     /\ UNCHANGED returned
       [] color[target] = "Gray"  -> /\ returned' = "false"
                                     /\ stack' = Advanced
                                     /\ UNCHANGED color
       [] color[target] = "Black" -> /\ stack' = Advanced
                                     /\ UNCHANGED <<color, returned>>
  /\ UNCHANGED <<graph, given, sources, finishOrder, result>>

Output == /\ returned = "none" /\ stack = <<>> /\ sources = <<>>
          /\ result' = Reverse(finishOrder)
          /\ returned' = "true"
          /\ UNCHANGED <<graph, given, sources, color, stack, finishOrder>>

SortNext == SkipSource \/ Visit \/ SortFinish \/ Follow \/ Output

SortReturned == returned # "none"

-----------------------------------------------------------------------------
(* Properties *)

CallsOf(event)    == OfKind(calls, event)
VerticesOf(event) == [i \in DOMAIN CallsOf(event) |-> CallsOf(event)[i].vertex]
EdgesOf(event)    == {<<c.vertex, c.target>> : c \in ToSet(CallsOf(event))}

Discovered == VerticesOf("discover_vertex")

\* Vertices are discovered in depth-first order.
DiscoveredInOrder == calls # <<>> => DepthFirst(Successors(graph), Discovered)

\* Where the visitor was told of v.
When(event, v) == CHOOSE i \in DOMAIN calls : calls[i].on = event /\ calls[i].vertex = v

\* What is discovered between the discovery and the end of u is u and the vertices
\* that a path leads to through vertices undiscovered at that time (white paths).
WhitePaths ==
  \A u \in ToSet(VerticesOf("finish_vertex")) :
    LET since   == When("discover_vertex", u)
        earlier == {calls[i].vertex : i \in {j \in 1..(since - 1) : calls[j].on = "discover_vertex"}}
        below   == {calls[i].vertex : i \in {j \in since..When("finish_vertex", u) :
                                               calls[j].on = "discover_vertex"}}
    IN  below = ReachedWithin(Successors(graph), Vertices \ earlier, u)

\* Along tree edges a path leads from u to v.
TreePath(u, v) ==
  LET tree == [w \in Vertices |-> {x \in Vertices : <<w, x>> \in EdgesOf("tree_edge")}]
  IN  v \in Reached(tree, u)

\* When the search returns, the tree edges span what was reached, the back edges are
\* those to an ancestor, and without them what was reached has no cycle.
EdgesClassified ==
  SearchReturned =>
    LET rest == EdgesOf("tree_edge") \cup EdgesOf("forward_or_cross_edge")
        acyclic == [u \in Vertices |-> {v \in Vertices : <<u, v>> \in rest}]
    IN  /\ Len(CallsOf("tree_edge")) = Cardinality(Reached(Successors(graph), seed)) - 1
        /\ \A v \in Reached(Successors(graph), seed) : TreePath(seed, v)
        /\ \A e \in EdgesOf("back_edge") : TreePath(e[2], e[1])
        /\ ~CyclicWithin(acyclic, Vertices)

FromSources == UNION {Reached(Successors(graph), s) : s \in ToSet(given)}

\* It returns false exactly if a path from a source runs into a cycle; otherwise it
\* writes the vertices that paths lead to, each once, in topological order.  What has
\* finished at any time is in order already and complete.
OrderExact ==
  /\ Topological(Successors(graph), Reverse(finishOrder))
  /\ \A u \in ToSet(finishOrder) : Successors(graph)[u] \subseteq ToSet(finishOrder)
  /\ returned = "false" => CyclicWithin(Successors(graph), FromSources) /\ result = <<>>
  /\ returned = "true"  => /\ ~CyclicWithin(Successors(graph), FromSources)
                           /\ Topological(Successors(graph), result)
                           /\ ToSet(result) = FromSources
=============================================================================
