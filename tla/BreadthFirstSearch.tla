------------------------- MODULE BreadthFirstSearch -------------------------
(***************************************************************************)
(* breadth_first_search with one source or several.  A step is one source, *)
(* one vertex taken from the queue, one edge, or the end of a vertex: the  *)
(* points at which the visitor is called.  The visitor is not part of the  *)
(* algorithm; calls records what it has been told.                         *)
(***************************************************************************)
EXTENDS Digraphs

CONSTANT N   \* num_vertices(g)

VARIABLES graph,     \* the adjacency list
          sources,   \* the sources not yet put on the queue
          queue,     \* Q
          visited,   \* the visited map, as the set of those marked
          at,        \* the vertex taken from the queue, or None
          next,      \* the position of its next edge
          calls      \* the visitor's calls so far

vars == <<graph, sources, queue, visited, at, next, calls>>

Vertices == 0..(N - 1)
None     == N

Call(event, v) == [on |-> event, vertex |-> v]

Init == /\ queue = <<>>
        /\ visited = {}
        /\ at = None
        /\ next = 1
        /\ calls = <<>>

\* One pass of the loop over the sources.
Seed == /\ sources # <<>>
        /\ sources' = Tail(sources)
        /\ visited' = visited \cup {Head(sources)}
        /\ queue' = Append(queue, Head(sources))
        /\ calls' = calls \o <<Call("initialize_vertex", Head(sources)),
                               Call("discover_vertex", Head(sources))>>
        /\ UNCHANGED <<graph, at, next>>

\* Mutant of Examine: the newest vertex is taken.
ExamineNewest == /\ sources = <<>> /\ at = None /\ queue # <<>>
                 /\ at' = Last(queue)
                 /\ queue' = Front(queue)
                 /\ next' = 1
                 /\ calls' = Append(calls, Call("examine_vertex", Last(queue)))
                 /\ UNCHANGED <<graph, sources, visited>>

Examine == /\ sources = <<>> /\ at = None /\ queue # <<>>
           /\ at' = Head(queue)
           /\ queue' = Tail(queue)
           /\ next' = 1
           /\ calls' = Append(calls, Call("examine_vertex", Head(queue)))
           /\ UNCHANGED <<graph, sources, visited>>

ExamineEdge ==
  /\ at # None /\ next <= Len(graph[at])
  /\ LET v == graph[at][next]
         told == Append(calls, Call("examine_edge", v))
     IN  IF v \in visited
         THEN /\ calls' = told
              /\ UNCHANGED <<visited, queue>>
         ELSE /\ calls' = Append(told, Call("discover_vertex", v))
              /\ visited' = visited \cup {v}
              /\ queue' = Append(queue, v)
  /\ next' = next + 1
  /\ UNCHANGED <<graph, sources, at>>

Finish == /\ at # None /\ next > Len(graph[at])
          /\ at' = None
          /\ next' = 1
          /\ calls' = Append(calls, Call("finish_vertex", at))
          /\ UNCHANGED <<graph, sources, queue, visited>>

Next == Seed \/ Examine \/ ExamineEdge \/ Finish

Returned == sources = <<>> /\ queue = <<>> /\ at = None

-----------------------------------------------------------------------------
(* Properties *)

\* The vertices of the calls of one kind, in their order.
Told(event) ==
  LET these == OfKind(calls, event)
  IN  [i \in DOMAIN these |-> these[i].vertex]

Initialized == Told("initialize_vertex")

\* A graph with one vertex more, from which edges lead to the sources.
Rooted == [u \in 0..N |-> IF u = N THEN ToSet(Initialized) ELSE Successors(graph)[u]]

\* The visitor sees a breadth-first search from all sources at once: vertices are
\* discovered in its order, examined and finished in the order they were discovered,
\* each finished before the next is examined, and the edges examined are the out-edges
\* of the vertices examined, each once.
CallsInOrder ==
  /\ BreadthFirst(Rooted, <<N>> \o Told("discover_vertex"))
  /\ IsPrefix(Told("finish_vertex"), Told("examine_vertex"))
  /\ IsPrefix(Told("examine_vertex"), Told("discover_vertex"))
  /\ Len(Told("examine_vertex")) <= Len(Told("finish_vertex")) + 1
  /\ IsPrefix(Told("examine_edge"), FlattenSeq([i \in DOMAIN Told("examine_vertex") |->
                                                  graph[Told("examine_vertex")[i]]]))

\* When it returns, each vertex that a path leads to from a source has been
\* discovered and finished, and each of their edges examined.
AllReached ==
  Returned =>
    /\ ToSet(Told("discover_vertex")) = Reached(Rooted, N) \ {N}
    /\ Told("finish_vertex") = Told("discover_vertex")
    /\ Told("examine_edge") = FlattenSeq([i \in DOMAIN Told("finish_vertex") |->
                                            graph[Told("finish_vertex")[i]]])
=============================================================================
