------------------------------ MODULE Dijkstra ------------------------------
(***************************************************************************)
(* dijkstra_shortest_paths, in two versions that share the seeding, the    *)
(* relaxation of an edge and the calls of the visitor.  Each callback is a *)
(* step, so that the invariants are checked whenever user code runs.       *)
(*                                                                         *)
(* "lazy": with std::priority_queue.  A vertex whose distance improves is  *)
(* pushed again, and the outdated entry is skipped when it is popped.  The *)
(* queue is a bag of entries; of several least ones top() may give any.    *)
(*                                                                         *)
(* "indexed": with indexed_dary_heap.  Each vertex has at most one entry,  *)
(* whose place is corrected when its distance improves.  The heap is taken *)
(* at its word (PriorityQueue, which IndexedDaryHeap implements): here is  *)
(* checked that its client keeps to the rules, which push and decrease do  *)
(* not verify.                                                             *)
(*                                                                         *)
(* The caller is the user or prim, which passes a combine that forgets the *)
(* distance of the source, so that the distance of a vertex is the weight  *)
(* of its tree edge, and a weight function that hides finished vertices.   *)
(*                                                                         *)
(* The order of the edges of a vertex is left open.  The comparison is the *)
(* order of the numbers and combine is exact addition: weights are small   *)
(* against the range of the distance type.                                 *)
(***************************************************************************)
EXTENDS Digraphs, Bags

CONSTANTS Vertex,          \* the vertices of the graph
          Unknown,         \* an id of no vertex
          Connected,       \* bound: the vertices a graph of the user connects
          PrimSeed,        \* the seed prim is called with
          MaxPrimEdges,    \* bound: undirected edges of a graph given to prim
          Weights,         \* the edge weights considered
          MaxEdges,        \* bound: edges of a graph
          MaxSources,      \* bound: length of the range of sources
          Infinite,        \* infinite_distance(), greater than any path
          DistinctSources, \* is no source given twice?
          Initialised      \* did the caller set all distances to infinite?

ASSUME DijkstraAssumption ==
  /\ Vertex \subseteq Nat /\ IsFiniteSet(Vertex) /\ Unknown \notin Vertex
  /\ Connected \subseteq Vertex /\ PrimSeed \in Vertex
  /\ Weights \subseteq Int /\ Infinite \in Nat \ {0}
  /\ {MaxPrimEdges, MaxEdges, MaxSources} \subseteq Nat
  /\ DistinctSources \in BOOLEAN /\ Initialised \in BOOLEAN

VARIABLES version,      \* "lazy" or "indexed" (or another algorithm of MCDijkstra)
          caller,       \* "user" or "prim" (or "none")
          graph,        \* the edges
          sources,      \* the range of source ids
          seeded,       \* how many of them the seeding loop has passed
          distance,     \* distance(g, v)
          predecessor,  \* predecessor(g, v)
          pc,           \* where the main loop is
          current,      \* the vertex under examination
          todo,         \* its outgoing edges still to be looked at
          calls,        \* how often the visitor was called for each vertex
          queue,        \* the priority queue of the lazy version
          queued        \* the vertices in the heap of the indexed one

input  == <<caller, graph, sources>>
common == <<input, seeded, distance, predecessor, pc, current, todo, calls>>
vars   == <<version, common, queue, queued>>

Edges        == [u : Connected, v : Connected, w : Weights]
Links        == {e \in [u : Vertex, v : Vertex, w : Weights] : e.u < e.v}
OutEdges(u)  == {e \in graph : e.u = u}
Events       == {"discover", "examine", "finish"}
Sources      == {s \in UNION {[1..k -> Connected \cup {Unknown}] : k \in 1..MaxSources} :
                   DistinctSources => Cardinality(Range(s)) = Len(s)}
BothWays(es) == es \cup {[u |-> e.v, v |-> e.u, w |-> e.w] : e \in es}
EdgeSets(S, n) == {{}} \cup {Range(es) : es \in [1..n -> S]}
Origins      == {sources[i] : i \in DOMAIN sources} \cap Vertex

Init ==
  /\ version \in {"lazy", "indexed"}
  /\ \/ caller = "user" /\ graph \in EdgeSets(Edges, MaxEdges) /\ sources \in Sources
     \/ /\ caller = "prim"
        /\ graph \in {BothWays(es) : es \in EdgeSets(Links, MaxPrimEdges)}
        /\ sources = <<PrimSeed>>
  /\ seeded = 0
  /\ distance \in IF Initialised THEN {[v \in Vertex |-> Infinite]}
                  ELSE [Vertex -> {0, Infinite}]
  /\ predecessor = [v \in Vertex |-> v]
  /\ pc = "loop"
  /\ current = Unknown
  /\ todo = {}
  /\ calls = [v \in Vertex |-> [event \in Events |-> 0]]
  /\ queue = EmptyBag
  /\ queued = {}

Visit(v, event) == calls' = [calls EXCEPT ![v][event] = @ + 1]

\* The seeding loop has come to a source that is a vertex.
Seed(v) ==
  /\ pc = "loop"
  /\ seeded < Len(sources)
  /\ v = sources[seeded + 1]
  /\ v \in Vertex
  /\ distance' = [distance EXCEPT ![v] = 0]
  /\ seeded' = seeded + 1
  /\ Visit(v, "discover")
  /\ UNCHANGED <<input, predecessor, pc, current, todo>>

\* It has come to one that is not: out_of_range.
SeedThrows ==
  /\ pc = "loop"
  /\ seeded < Len(sources)
  /\ sources[seeded + 1] \notin Vertex
  /\ pc' = "thrown"
  /\ UNCHANGED <<input, seeded, distance, predecessor, current, todo, calls, queue, queued>>

InLoop == pc = "loop" /\ seeded = Len(sources)

Examine(u) ==
  /\ InLoop
  /\ pc' = "edges"
  /\ current' = u
  /\ todo' = OutEdges(u)
  /\ Visit(u, "examine")
  /\ UNCHANGED <<input, seeded, distance, predecessor>>

Undiscovered(v) == ~(distance[v] < Infinite)

\* Mutant of Weight: prim passes the weight function of its caller on.
WeightUnguarded(e) == e.w

\* guarded_weight_fn: an edge to a vertex whose on_finish_vertex was called is
\* infinitely long for prim.
Weight(e) == IF caller = "prim" /\ calls[e.v]["finish"] > 0 THEN Infinite ELSE e.w

\* combine, and prim_combine.
Combined(e) == IF caller = "prim" THEN Weight(e) ELSE distance[e.u] + Weight(e)

Relaxable(e) == Combined(e) < distance[e.v]

Negative(e) == Weight(e) < 0

\* Mutant of Relax: the predecessor is set on discovery only.
RelaxKeepsPredecessor(e) ==
  /\ pc = "edges"
  /\ e \in todo
  /\ ~Negative(e)
  /\ Relaxable(e)
  /\ distance' = [distance EXCEPT ![e.v] = Combined(e)]
  /\ predecessor' = [predecessor EXCEPT ![e.v] = IF Undiscovered(e.v) THEN e.u ELSE @]
  /\ IF Undiscovered(e.v) THEN Visit(e.v, "discover") ELSE UNCHANGED calls
  /\ todo' = todo \ {e}
  /\ UNCHANGED <<input, seeded, pc, current>>

\* relax_target of an edge that improves its target, and the discovery of the
\* target if its distance was infinite.
Relax(e) ==
  /\ pc = "edges"
  /\ e \in todo
  /\ ~Negative(e)
  /\ Relaxable(e)
  /\ distance' = [distance EXCEPT ![e.v] = Combined(e)]
  /\ predecessor' = [predecessor EXCEPT ![e.v] = e.u]
  /\ IF Undiscovered(e.v) THEN Visit(e.v, "discover") ELSE UNCHANGED calls
  /\ todo' = todo \ {e}
  /\ UNCHANGED <<input, seeded, pc, current>>

\* Mutant of KeepTarget: the loop does not go on to the next edge.
KeepTargetAgain(e) ==
  /\ pc = "edges"
  /\ e \in todo
  /\ ~Negative(e)
  /\ ~Relaxable(e)
  /\ UNCHANGED <<common, queue, queued>>

\* relax_target of an edge that does not.
KeepTarget(e) ==
  /\ pc = "edges"
  /\ e \in todo
  /\ ~Negative(e)
  /\ ~Relaxable(e)
  /\ todo' = todo \ {e}
  /\ UNCHANGED <<input, seeded, distance, predecessor, pc, current, calls, queue, queued>>

\* relax_target of an edge of negative weight: out_of_range.
RelaxThrows ==
  /\ pc = "edges"
  /\ \E e \in todo : Negative(e)
  /\ pc' = "thrown"
  /\ UNCHANGED <<input, seeded, distance, predecessor, current, todo, calls, queue, queued>>

Finish ==
  /\ pc = "edges"
  /\ todo = {}
  /\ pc' = "loop"
  /\ current' = Unknown
  /\ Visit(current, "finish")
  /\ UNCHANGED <<input, seeded, distance, predecessor, todo, queue, queued>>

\* The queue of the version is empty; that of the other always is.
Return ==
  /\ InLoop
  /\ queue = EmptyBag
  /\ queued = {}
  /\ pc' = "returned"
  /\ UNCHANGED <<input, seeded, distance, predecessor, current, todo, calls, queue, queued>>

-----------------------------------------------------------------------------
(* The version with std::priority_queue. *)

Entry(v, w) == SetToBag({[v |-> v, w |-> w]})

\* Mutant of Tops: qcompare the wrong way round.
TopsGreatest == {x \in BagToSet(queue) : \A y \in BagToSet(queue) : x.w >= y.w}

\* What top() may give: qcompare puts the least weight first.
Tops == {x \in BagToSet(queue) : \A y \in BagToSet(queue) : x.w <= y.w}

PushSource(v) ==
  /\ version = "lazy"
  /\ Seed(v)
  /\ queue' = queue (+) Entry(v, 0)
  /\ UNCHANGED queued

\* The entry was pushed before the distance of its vertex improved.
Stale(x) == distance[x.v] < x.w

SkipStale(x) ==
  /\ InLoop
  /\ x \in Tops
  /\ Stale(x)
  /\ queue' = queue (-) SetToBag({x})
  /\ UNCHANGED <<common, queued>>

ExamineEntry(x) ==
  /\ x \in Tops
  /\ ~Stale(x)
  /\ Examine(x.v)
  /\ queue' = queue (-) SetToBag({x})
  /\ UNCHANGED queued

\* Mutant of PushTarget: only undiscovered vertices are pushed.
PushUndiscovered(e) ==
  /\ version = "lazy"
  /\ Relax(e)
  /\ queue' = IF Undiscovered(e.v) THEN queue (+) Entry(e.v, distance'[e.v]) ELSE queue
  /\ UNCHANGED queued

\* Mutant of PushTarget: the entry is made from the distance before the relaxation.
PushOldDistance(e) ==
  /\ version = "lazy"
  /\ Relax(e)
  /\ queue' = queue (+) Entry(e.v, distance[e.v])
  /\ UNCHANGED queued

\* Whatever improved is pushed, whether it has an entry or not.
PushTarget(e) ==
  /\ version = "lazy"
  /\ Relax(e)
  /\ queue' = queue (+) Entry(e.v, distance'[e.v])
  /\ UNCHANGED queued

-----------------------------------------------------------------------------
(* The version with indexed_dary_heap. *)

InsertSource(v) ==
  /\ version = "indexed"
  /\ Seed(v)
  /\ queued' = queued \cup {v}
  /\ UNCHANGED queue

\* Mutant of ExamineTop: the heap gives a vertex of greatest distance.
ExamineLast(v) ==
  /\ v \in queued
  /\ \A x \in queued : distance[v] >= distance[x]
  /\ Examine(v)
  /\ queued' = queued \ {v}
  /\ UNCHANGED queue

ExamineTop(v) ==
  /\ v \in queued
  /\ \A x \in queued : distance[v] <= distance[x]
  /\ Examine(v)
  /\ queued' = queued \ {v}
  /\ UNCHANGED queue

\* push(vid) if the target was undiscovered, else decrease(vid).
InsertTarget(e) ==
  /\ version = "indexed"
  /\ Relax(e)
  /\ queued' = IF Undiscovered(e.v) THEN queued \cup {e.v} ELSE queued
  /\ UNCHANGED queue

-----------------------------------------------------------------------------
Next ==
  /\ UNCHANGED version
  /\ \/ \E v \in Vertex : PushSource(v) \/ InsertSource(v)
     \/ \E x \in BagToSet(queue) : SkipStale(x) \/ ExamineEntry(x)
     \/ \E v \in queued : ExamineTop(v)
     \/ \E e \in todo : PushTarget(e) \/ InsertTarget(e) \/ KeepTarget(e)
     \/ SeedThrows
     \/ RelaxThrows
     \/ Finish
     \/ Return

Spec == Init /\ [][Next]_vars

-----------------------------------------------------------------------------
(* Properties *)

Examined == {v \in Vertex : calls[v]["examine"] > 0}

ShortestDistance == LeastDistances(Vertex, graph, Origins, Infinite)

\* When the call of the user returns every distance is the shortest distance from
\* the nearest source, and infinite for the vertices no source reaches; and no edge
\* of negative weight that a source reaches has stayed unnoticed.
DistancesShortest ==
  caller = "user" /\ pc = "returned" =>
    /\ distance = ShortestDistance
    /\ \A e \in graph : ShortestDistance[e.u] < Infinite => e.w >= 0

\* At every callback the predecessors form a tree of tight edges towards the
\* sources: each vertex with a finite distance is a source or was reached from
\* an examined vertex by an edge of exactly the difference.
PredecessorsTight ==
  caller = "user" => \A v \in Vertex :
    distance[v] < Infinite =>
      \/ distance[v] = 0 /\ v \in Origins
      \/ /\ predecessor[v] \in Examined
         /\ \E e \in graph : /\ e.u = predecessor[v] /\ e.v = v
                             /\ distance[v] = distance[e.u] + e.w

\* The up-to-date entries of a vertex.
EntriesOf(v) ==
  LET x == [v |-> v, w |-> distance[v]] IN IF BagIn(x, queue) THEN queue[x] ELSE 0

\* What each version keeps in its queue, in terms of the distances. The lazy one
\* skips the stale entries and only those: a vertex that is reached and not yet
\* examined has exactly one entry with its present distance, another one none. The
\* heap of the indexed one holds the vertices that are reached and not yet examined.
QueueMatchesDistances ==
  seeded = Len(sources) /\ version \in {"lazy", "indexed"} =>
    LET waiting == {v \in Vertex : distance[v] < Infinite /\ v \notin Examined}
    IN  IF version = "indexed" THEN queued = waiting
        ELSE \A v \in Vertex : EntriesOf(v) = IF v \in waiting THEN 1 ELSE 0

Heap == INSTANCE PriorityQueue WITH
          Key         <- Vertex,
          MaxDistance <- Infinite,
          distance    <- IF version = "indexed" THEN distance ELSE [v \in Vertex |-> Infinite]

\* The indexed version obeys the heap's rules: it pushes only absent vertices, and
\* a distance that changes while its vertex is in the heap improves and is
\* announced by decrease.
ObeysQueue == Heap!Spec

\* What prim returns: the sum over the vertices but the seed that got a predecessor.
PrimTotal ==
  MapThenSumSet(LAMBDA v : distance[v], {v \in Vertex \ {PrimSeed} : predecessor[v] # v})

\* The tree prim leaves in predecessor and weight.
PrimTree == {[u |-> predecessor[v], v |-> v, w |-> distance[v]] :
               v \in {x \in Vertex \ {PrimSeed} : predecessor[x] # x}}

\* prim gives a spanning tree of least weight of the vertices the seed is connected
\* to, and that weight.
PrimTreeMinimal ==
  caller = "prim" /\ pc = "returned" =>
    LET C    == Reached(SuccessorsIn(Vertex, graph), PrimSeed)
        tree == PrimTree
    IN  /\ SpanningForest(C, graph, tree)
        /\ PrimTotal = LeastWeight(C, {e \in graph : e.u \in C /\ e.u < e.v})

\* The distances after the pending edges of the current vertex.
Pending ==
  [v \in Vertex |->
     Min({distance[v]} \cup {distance[current] + e.w : e \in {f \in todo : f.v = v}})]

Paths == INSTANCE ShortestPaths WITH
           origins  <- Origins,
           distance <- IF caller # "user" \/ seeded < Len(sources)
                       THEN [v \in Vertex |-> IF v \in Origins THEN 0 ELSE Infinite]
                       ELSE Pending,
           settled  <- IF caller = "user" THEN Examined ELSE {}

\* Called by the user, each version settles the vertices in the order of their
\* distances.
ImplementsShortestPaths == Paths!Spec

\* The call returns or throws (or has left what the language defines).
Terminates == <>(pc \in {"returned", "thrown", "undefined"})
=============================================================================
