-------------------------- MODULE Dijkstra_proofs --------------------------
(***************************************************************************)
(* Both versions of Dijkstra's main loop are correct for every set of      *)
(* vertices, every set of weights and any number of edges and sources,     *)
(* called by the user or by prim: what they keep in their queue, the tree  *)
(* of predecessors, the order in which vertices are settled, and the       *)
(* distances when the call returns.                                        *)
(*                                                                         *)
(* The properties are not inductive.  What makes them so is that a vertex  *)
(* which was examined is never improved again, and the reason is not the   *)
(* same for the two callers: for the user the examined vertices are those  *)
(* of least distance and weights are not negative (Settled); for prim,     *)
(* whose distances are no path lengths, the weight function hides finished *)
(* vertices (Finished).                                                    *)
(***************************************************************************)
EXTENDS Dijkstra, GraphLemmas

\* The caller set all distances to infinite and gives no source twice.
FreshCall == Initialised /\ DistinctSources

-----------------------------------------------------------------------------
(* The inductive invariant *)

TypeInv ==
  /\ version \in {"lazy", "indexed"}
  /\ caller \in {"user", "prim"}
  /\ graph \subseteq [u : Vertex, v : Vertex, w : Int]
  /\ IsFiniteSet(graph)
  /\ caller = "prim" => \A e \in graph : e.u # e.v
  /\ Len(sources) \in Nat \ {0}
  /\ sources \in [1..Len(sources) -> Vertex \cup {Unknown}]
  /\ \A i, j \in 1..Len(sources) : sources[i] = sources[j] => i = j
  /\ seeded \in 0..Len(sources)
  /\ distance \in [Vertex -> 0..Infinite]
  /\ predecessor \in [Vertex -> Vertex]
  /\ pc \in {"loop", "edges", "returned", "thrown"}
  /\ current \in Vertex \cup {Unknown}
  /\ todo \subseteq graph
  /\ calls \in [Vertex -> [Events -> Nat]]

\* Where the loop is: between two vertices, or at the edges of one.
Control ==
  /\ seeded < Len(sources) => Examined = {} /\ pc \in {"loop", "thrown"}
  /\ pc = "edges" => current # Unknown
  /\ pc \in {"loop", "returned"} => current = Unknown
  /\ current = Unknown => todo = {}
  /\ current # Unknown => current \in Examined /\ \A e \in todo : e.u = current

\* Vertices are only examined once they are reached, and all but the current one are
\* finished.
Finished ==
  \A v \in Examined : /\ distance[v] < Infinite
                      /\ v # current => calls[v]["finish"] > 0

\* The sources that were seeded have distance 0, and at first no other vertex has.
SourcesAtZero ==
  /\ \A i \in 1..seeded : sources[i] \in Vertex /\ distance[sources[i]] = 0
  /\ Examined = {} => \A v \in Vertex : distance[v] < Infinite => \E i \in 1..seeded : v = sources[i]

Waiting == {v \in Vertex : distance[v] < Infinite /\ v \notin Examined}

\* The queue of the lazy version: entries may be too great but not too small, and the
\* up-to-date ones are the vertices that wait, each once.
LazyQueue ==
  version = "lazy" =>
    /\ queued = {}
    /\ queue \in [DOMAIN queue -> Nat \ {0}]
    /\ DOMAIN queue \subseteq [v : Vertex, w : 0..(Infinite - 1)]
    /\ \A x \in DOMAIN queue : distance[x.v] <= x.w
    /\ \A x \in DOMAIN queue : x.w = distance[x.v] => x.v \in Waiting /\ queue[x] = 1
    /\ \A v \in Waiting : [v |-> v, w |-> distance[v]] \in DOMAIN queue

IndexedQueue == version = "indexed" => queue = EmptyBag /\ queued = Waiting

\* The examined vertices are the nearest ones, the current one is the last of them, and
\* their edges have been relaxed.
Settled ==
  caller = "user" =>
    /\ \A u \in Examined, v \in Vertex \ Examined : distance[u] <= distance[v]
    /\ current # Unknown => \A u \in Examined : distance[u] <= distance[current]
    /\ \A e \in graph \ todo : e.u \in Examined => e.w >= 0 /\ distance[e.v] <= distance[e.u] + e.w

\* v is a source, or was reached from p by an edge of exactly the difference.
ReachedVia(p, v) ==
  \/ distance[v] = 0 /\ v \in Origins
  \/ p /\ \E e \in graph : e.u = predecessor[v] /\ e.v = v /\ distance[v] = distance[e.u] + e.w

\* The examined vertices can be numbered such that each is reached from one of a lower
\* number: following the predecessors ends at a source.
Grounded ==
  caller = "user" =>
    \E order \in [Examined -> Nat] :
      \A v \in Examined :
        /\ order[v] < Cardinality(Examined)
        /\ ReachedVia(predecessor[v] \in Examined /\ order[predecessor[v]] < order[v], v)

\* All but what the queues hold, which is what the two versions share.
CoreInv ==
  /\ TypeInv
  /\ Control
  /\ Finished
  /\ SourcesAtZero
  /\ Settled
  /\ PredecessorsTight
  /\ Grounded

IInv == CoreInv /\ LazyQueue /\ IndexedQueue

-----------------------------------------------------------------------------
(* What a step does to the sets of examined and waiting vertices *)

LEMMA VisitCounts ==
  ASSUME TypeInv, NEW v \in Vertex, NEW event \in Events, Visit(v, event)
  PROVE  /\ calls' \in [Vertex -> [Events -> Nat]]
         /\ \A x \in Vertex, y \in Events :
              calls'[x][y] = IF x = v /\ y = event THEN calls[x][y] + 1 ELSE calls[x][y]
         /\ Examined' = IF event = "examine" THEN Examined \cup {v} ELSE Examined
  <1>1. calls \in [Vertex -> [Events -> Nat]]
    BY DEF TypeInv
  <1>2. calls' = [calls EXCEPT ![v] = [calls[v] EXCEPT ![event] = @ + 1]]
    BY DEF Visit
  <1>3. /\ calls' \in [Vertex -> [Events -> Nat]]
        /\ \A x \in Vertex, y \in Events :
             calls'[x][y] = IF x = v /\ y = event THEN calls[x][y] + 1 ELSE calls[x][y]
    BY <1>1, <1>2
  <1>4. "examine" \in Events /\ \A x \in Vertex : calls[x]["examine"] \in Nat
    BY <1>1 DEF Events
  <1>5. Examined' = IF event = "examine" THEN Examined \cup {v} ELSE Examined
    BY <1>3, <1>4 DEF Examined
  <1> QED
    BY <1>3, <1>5

\* The edge that improves its target leads to a vertex that was not examined.
LEMMA ImprovesUnexamined ==
  ASSUME TypeInv, Control, Finished, Settled, pc = "edges",
         NEW e \in todo, ~Negative(e), Relaxable(e)
  PROVE  /\ e.v \in Vertex \ Examined
         /\ current \in Examined /\ e.u = current
         /\ Combined(e) \in 0..(Infinite - 1)
         /\ Combined(e) < distance[e.v]
         /\ caller = "user" => /\ e.w \in Nat /\ Combined(e) = distance[current] + e.w
                               /\ Combined(e) >= distance[current]
  <1> USE DijkstraAssumption
  <1>1. /\ e \in graph /\ e.u \in Vertex /\ e.v \in Vertex /\ e.w \in Int
        /\ current \in Examined /\ e.u = current
        /\ distance[e.v] \in 0..Infinite /\ distance[current] \in 0..Infinite
    <2>1. e \in graph /\ e \in [u : Vertex, v : Vertex, w : Int]
      BY DEF TypeInv
    <2>2. current \in Examined /\ e.u = current
      BY DEF Control
    <2>3. current \in Vertex
      BY <2>2 DEF Examined
    <2> QED
      BY <2>1, <2>2, <2>3 DEF TypeInv
  <1>2. CASE caller = "user"
    <2>1. e.w \in Nat /\ Combined(e) = distance[current] + e.w
      BY <1>1, <1>2 DEF Negative, Combined, Weight
    <2>2. e.v \notin Examined
      BY <1>1, <1>2, <2>1 DEF Settled, Relaxable, Control
    <2> QED
      BY <1>1, <1>2, <2>1, <2>2 DEF Relaxable
  <1>3. CASE caller = "prim"
    <2>1. Weight(e) \in Nat /\ Combined(e) = Weight(e)
      BY <1>1, <1>3 DEF Negative, Combined, Weight
    <2>2. e.v # current
      BY <1>1, <1>3 DEF TypeInv
    <2>3. e.v \notin Examined
      BY <1>1, <1>3, <2>1, <2>2 DEF Finished, Relaxable, Combined, Weight
    <2> QED
      BY <1>1, <1>3, <2>1, <2>3 DEF Relaxable
  <1> QED
    BY <1>2, <1>3 DEF TypeInv

-----------------------------------------------------------------------------
(* The steps keep the part of the invariant that both versions share *)

LEMMA SeedKeepsCore ==
  ASSUME CoreInv, NEW v \in Vertex, Seed(v), UNCHANGED version
  PROVE  /\ CoreInv'
         /\ distance[v] = Infinite
         /\ Examined = {} /\ Examined' = {}
  <1> USE DijkstraAssumption
  <1>1. "discover" \in Events
    BY DEF Events
  <1>2. /\ Examined = {} /\ Examined' = {}
        /\ calls' \in [Vertex -> [Events -> Nat]]
    BY <1>1, VisitCounts DEF CoreInv, Seed, Control
  <1>3. /\ seeded < Len(sources) /\ pc = "loop" /\ v = sources[seeded + 1]
        /\ distance' = [distance EXCEPT ![v] = 0]
        /\ seeded' = seeded + 1 /\ seeded + 1 \in 1..Len(sources) /\ seeded \in Nat
        /\ UNCHANGED <<version, caller, graph, sources, predecessor, pc, current, todo>>
    BY DEF Seed, input, CoreInv, TypeInv
  <1>4. current = Unknown /\ todo = {}
    BY <1>3 DEF CoreInv, Control
  <1>5. distance \in [Vertex -> 0..Infinite]
    BY DEF CoreInv, TypeInv
  <1>6. distance[v] = Infinite
    <2>1. SUFFICES ASSUME distance[v] < Infinite PROVE FALSE
      BY <1>5
    <2>2. PICK i \in 1..seeded : v = sources[i]
      BY <1>2, <2>1 DEF CoreInv, SourcesAtZero
    <2>3. \A k, j \in 1..Len(sources) : sources[k] = sources[j] => k = j
      BY DEF CoreInv, TypeInv
    <2>4. i \in 1..Len(sources) /\ i # seeded + 1
      BY <1>3, <2>2
    <2> QED
      BY <1>3, <2>2, <2>3, <2>4
  <1>7. TypeInv'
    BY <1>2, <1>3, <1>5 DEF CoreInv, TypeInv
  <1>8. Control' /\ Finished'
    BY <1>2, <1>3, <1>4 DEF Control, Finished
  <1>9. SourcesAtZero'
    <2>1. ASSUME NEW i \in 1..(seeded + 1)
          PROVE  sources[i] \in Vertex /\ distance'[sources[i]] = 0
      BY <1>3, <1>5 DEF CoreInv, SourcesAtZero
    <2>2. ASSUME NEW x \in Vertex, distance'[x] < Infinite
          PROVE  \E i \in 1..(seeded + 1) : x = sources[i]
      BY <1>2, <1>3, <1>5, <2>2 DEF CoreInv, SourcesAtZero
    <2> QED
      BY <1>3, <2>1, <2>2 DEF SourcesAtZero
  <1>10. Settled'
    BY <1>2, <1>3, <1>4 DEF Settled
  <1>11. PredecessorsTight'
    <2>1. ASSUME NEW x \in Vertex, distance'[x] < Infinite
          PROVE  distance'[x] = 0 /\ x \in Origins'
      <3>1. PICK i \in 1..(seeded + 1) : x = sources[i]
        BY <1>2, <1>3, <1>9, <2>1 DEF SourcesAtZero
      <3>2. i \in DOMAIN sources
        BY <1>3, <3>1 DEF CoreInv, TypeInv
      <3> QED
        BY <1>3, <1>9, <3>1, <3>2 DEF SourcesAtZero, Origins
    <2> QED
      BY <2>1 DEF PredecessorsTight
  <1>12. Grounded'
    <2>1. [x \in Examined' |-> 0] \in [Examined' -> Nat]
      OBVIOUS
    <2> QED
      BY <1>2, <2>1 DEF Grounded
  <1> QED
    BY <1>2, <1>6, <1>7, <1>8, <1>9, <1>10, <1>11, <1>12 DEF CoreInv

LEMMA ExamineKeepsCore ==
  ASSUME CoreInv, NEW u \in Waiting, \A v \in Waiting : distance[u] <= distance[v],
         Examine(u), UNCHANGED version
  PROVE  /\ CoreInv'
         /\ Examined' = Examined \cup {u}
  <1> USE DijkstraAssumption
  <1>1. "examine" \in Events /\ u \in Vertex /\ u \notin Examined /\ distance[u] < Infinite
    BY DEF Events, Waiting
  <1>2. /\ Examined' = Examined \cup {u}
        /\ calls' \in [Vertex -> [Events -> Nat]]
        /\ \A x \in Vertex : calls'[x]["finish"] = calls[x]["finish"]
    BY <1>1, VisitCounts DEF CoreInv, Examine, Events
  <1>3. /\ pc = "loop" /\ seeded = Len(sources)
        /\ pc' = "edges" /\ current' = u /\ todo' = OutEdges(u)
        /\ UNCHANGED <<version, caller, graph, sources, seeded, distance, predecessor>>
    BY DEF Examine, InLoop, input
  <1>4. current = Unknown /\ todo = {}
    BY <1>3 DEF CoreInv, Control
  <1>5. distance \in [Vertex -> 0..Infinite] /\ Unknown \notin Examined /\ Examined \subseteq Vertex
    BY DEF CoreInv, TypeInv, Examined
  <1>6. TypeInv'
    BY <1>1, <1>2, <1>3 DEF CoreInv, TypeInv, OutEdges
  <1>7. Control'
    BY <1>1, <1>2, <1>3, <1>6 DEF CoreInv, Control, OutEdges, TypeInv
  <1>8. Finished' /\ SourcesAtZero'
    BY <1>1, <1>2, <1>3, <1>4, <1>5 DEF CoreInv, Finished, SourcesAtZero
  <1>9. Settled'
    <2>1. SUFFICES ASSUME caller = "user" PROVE Settled'
      BY <1>3 DEF Settled
    <2>2. ASSUME NEW x \in Examined', NEW y \in Vertex \ Examined' PROVE distance[x] <= distance[y]
      <3>1. CASE x = u
        BY <1>1, <1>2, <1>5, <3>1 DEF Waiting
      <3>2. CASE x # u
        BY <1>2, <1>5, <2>1, <3>2 DEF CoreInv, Settled
      <3> QED
        BY <3>1, <3>2
    <2>3. ASSUME NEW x \in Examined' PROVE distance[x] <= distance[u]
      BY <1>1, <1>2, <1>5, <2>1 DEF CoreInv, Settled
    <2>4. ASSUME NEW e \in graph \ todo', e.u \in Examined'
          PROVE  e.w >= 0 /\ distance[e.v] <= distance[e.u] + e.w
      BY <1>1, <1>2, <1>3, <1>4, <2>1, <2>4 DEF CoreInv, Settled, OutEdges
    <2> QED
      BY <1>3, <2>2, <2>3, <2>4 DEF Settled
  <1>10. PredecessorsTight'
    BY <1>2, <1>3 DEF CoreInv, PredecessorsTight, Origins
  <1>11. Grounded'
    <2>1. SUFFICES ASSUME caller = "user" PROVE Grounded'
      BY <1>3 DEF Grounded
    <2>2. PICK order \in [Examined -> Nat] :
            \A v \in Examined :
              /\ order[v] < Cardinality(Examined)
              /\ ReachedVia(predecessor[v] \in Examined /\ order[predecessor[v]] < order[v], v)
      BY <2>1 DEF CoreInv, Grounded
    <2>3. /\ Cardinality(Examined) \in Nat
          /\ Cardinality(Examined') = Cardinality(Examined) + 1
      <3>1. IsFiniteSet(Examined)
        BY <1>5, FS_Subset
      <3> QED
        BY <1>1, <1>2, <3>1, FS_CardinalityType, FS_AddElement
    <2> DEFINE later == [v \in Examined' |-> IF v = u THEN Cardinality(Examined) ELSE order[v]]
    <2>4. later \in [Examined' -> Nat]
      BY <1>2, <2>2, <2>3
    <2>5. ASSUME NEW v \in Examined'
          PROVE  /\ later[v] < Cardinality(Examined')
                 /\ \/ distance[v] = 0 /\ v \in Origins
                    \/ /\ predecessor[v] \in Examined' /\ later[predecessor[v]] < later[v]
                       /\ \E e \in graph : /\ e.u = predecessor[v] /\ e.v = v
                                           /\ distance[v] = distance[e.u] + e.w
      <3>1. CASE v = u
        <4>1. \/ distance[u] = 0 /\ u \in Origins
              \/ /\ predecessor[u] \in Examined
                 /\ \E e \in graph : e.u = predecessor[u] /\ e.v = u /\ distance[u] = distance[e.u] + e.w
          BY <1>1, <2>1 DEF CoreInv, PredecessorsTight
        <4>2. predecessor[u] \in Examined =>
                predecessor[u] \in Examined' /\ later[predecessor[u]] < later[u]
          BY <1>1, <1>2, <2>2
        <4> QED
          BY <1>1, <1>2, <2>3, <3>1, <4>1, <4>2
      <3>2. CASE v # u
        <4>1. v \in Examined /\ later[v] = order[v]
          BY <1>2, <3>2
        <4>2. predecessor[v] \in Examined => later[predecessor[v]] = order[predecessor[v]]
          BY <1>1, <1>2
        <4> QED
          BY <1>2, <2>2, <2>3, <4>1, <4>2 DEF ReachedVia
      <3> QED
        BY <3>1, <3>2
    <2> HIDE DEF later
    <2> QED
      BY <1>3, <2>4, <2>5 DEF Grounded, ReachedVia, Origins
  <1> QED
    BY <1>2, <1>6, <1>7, <1>8, <1>9, <1>10, <1>11 DEF CoreInv

LEMMA RelaxKeepsCore ==
  ASSUME CoreInv, NEW e \in todo, Relax(e), UNCHANGED version
  PROVE  CoreInv' /\ Examined' = Examined
  <1> USE DijkstraAssumption
  <1>1. /\ e.v \in Vertex \ Examined
        /\ current \in Examined /\ e.u = current
        /\ Combined(e) \in 0..(Infinite - 1)
        /\ Combined(e) < distance[e.v]
        /\ caller = "user" => /\ e.w \in Nat /\ Combined(e) = distance[current] + e.w
                              /\ Combined(e) >= distance[current]
    BY ImprovesUnexamined DEF CoreInv, Relax
  <1>2. /\ Examined' = Examined
        /\ calls' \in [Vertex -> [Events -> Nat]]
        /\ \A x \in Vertex : calls'[x]["finish"] = calls[x]["finish"]
    <2>1. CASE Undiscovered(e.v)
      BY <1>1, <2>1, VisitCounts DEF CoreInv, Relax, Events
    <2>2. CASE ~Undiscovered(e.v)
      BY <2>2 DEF CoreInv, TypeInv, Relax, Examined
    <2> QED
      BY <2>1, <2>2
  <1>3. /\ pc = "edges"
        /\ distance' = [distance EXCEPT ![e.v] = Combined(e)]
        /\ predecessor' = [predecessor EXCEPT ![e.v] = e.u]
        /\ todo' = todo \ {e}
        /\ UNCHANGED <<version, caller, graph, sources, seeded, pc, current>>
    BY DEF Relax, input
  <1>4. /\ distance \in [Vertex -> 0..Infinite] /\ predecessor \in [Vertex -> Vertex]
        /\ Unknown \notin Examined /\ Examined \subseteq Vertex
        /\ e \in graph /\ graph \subseteq [u : Vertex, v : Vertex, w : Int]
    BY DEF CoreInv, TypeInv, Examined
  <1>5. /\ \A x \in Examined : distance'[x] = distance[x]
        /\ \A x \in Vertex : distance'[x] = IF x = e.v THEN Combined(e) ELSE distance[x]
        /\ \A x \in Vertex : distance'[x] <= distance[x] /\ distance'[x] \in Nat /\ distance[x] \in Nat
    BY <1>1, <1>3, <1>4
  <1>6. TypeInv'
    BY <1>1, <1>2, <1>3, <1>4 DEF CoreInv, TypeInv
  <1>7. Control' /\ Finished'
    BY <1>2, <1>3, <1>4, <1>5 DEF CoreInv, Control, Finished
  <1>8. SourcesAtZero'
    <2>1. ASSUME NEW i \in 1..seeded PROVE sources[i] \in Vertex /\ distance'[sources[i]] = 0
      <3>1. sources[i] \in Vertex /\ distance[sources[i]] = 0
        BY DEF CoreInv, SourcesAtZero
      <3>2. sources[i] # e.v
        BY <1>1, <3>1
      <3> QED
        BY <1>5, <3>1, <3>2
    <2> QED
      BY <1>1, <1>2, <1>3, <2>1 DEF SourcesAtZero
  <1>9. Settled'
    <2>1. SUFFICES ASSUME caller = "user" PROVE Settled'
      BY <1>3 DEF Settled
    <2>2. ASSUME NEW x \in Examined, NEW y \in Vertex \ Examined PROVE distance'[x] <= distance'[y]
      <3>1. distance[x] <= distance[y] /\ distance[x] <= distance[current]
        BY <1>1, <1>4, <2>1 DEF CoreInv, Settled
      <3> QED
        BY <1>1, <1>4, <1>5, <2>1, <3>1
    <2>3. ASSUME NEW x \in Examined PROVE distance'[x] <= distance'[current]
      BY <1>1, <1>4, <1>5, <2>1 DEF CoreInv, Settled
    <2>4. ASSUME NEW f \in graph \ (todo \ {e}), f.u \in Examined
          PROVE  f.w >= 0 /\ distance'[f.v] <= distance'[f.u] + f.w
      <3>1. f.v \in Vertex /\ f.u \in Vertex /\ f.w \in Int
        BY <1>4
      <3>2. CASE f = e
        <4>1. distance'[e.v] = distance[current] + e.w /\ distance'[e.u] = distance[current]
          BY <1>1, <1>5, <2>1
        <4>2. distance[current] \in Nat /\ e.w \in Nat
          BY <1>1, <1>4, <1>5, <2>1
        <4> QED
          BY <3>2, <4>1, <4>2
      <3>3. CASE f # e
        <4>1. f.w >= 0 /\ distance[f.v] <= distance[f.u] + f.w
          BY <2>1, <2>4, <3>3 DEF CoreInv, Settled
        <4>2. /\ distance[f.v] \in Nat /\ distance[f.u] \in Nat
              /\ distance'[f.v] \in Nat /\ distance'[f.v] <= distance[f.v]
              /\ distance'[f.u] = distance[f.u]
          BY <1>5, <2>4, <3>1
        <4> QED
          BY <3>1, <4>1, <4>2
      <3> QED
        BY <3>2, <3>3
    <2> QED
      BY <1>2, <1>3, <2>2, <2>3, <2>4 DEF Settled
  \* A tight edge from an examined vertex to one that did not just improve stays tight.
  <1>10. ASSUME NEW x \in Vertex, x # e.v, predecessor[x] \in Examined,
                \E f \in graph : f.u = predecessor[x] /\ f.v = x /\ distance[x] = distance[f.u] + f.w
         PROVE  \E f \in graph : f.u = predecessor'[x] /\ f.v = x /\ distance'[x] = distance'[f.u] + f.w
    BY <1>3, <1>4, <1>5, <1>10
  <1>11. PredecessorsTight'
    <2>1. SUFFICES ASSUME caller = "user", NEW x \in Vertex, distance'[x] < Infinite
                   PROVE  \/ distance'[x] = 0 /\ x \in Origins
                          \/ /\ predecessor'[x] \in Examined
                             /\ \E f \in graph : /\ f.u = predecessor'[x] /\ f.v = x
                                                 /\ distance'[x] = distance'[f.u] + f.w
      BY <1>2, <1>3 DEF PredecessorsTight, Origins
    <2>2. CASE x = e.v
      BY <1>1, <1>3, <1>4, <1>5, <2>1, <2>2
    <2>3. CASE x # e.v
      BY <1>3, <1>4, <1>5, <1>10, <2>1, <2>3 DEF CoreInv, PredecessorsTight
    <2> QED
      BY <2>2, <2>3
  <1>12. Grounded'
    <2>1. SUFFICES ASSUME caller = "user" PROVE Grounded'
      BY <1>3 DEF Grounded
    <2>2. PICK order \in [Examined -> Nat] :
            \A v \in Examined :
              /\ order[v] < Cardinality(Examined)
              /\ ReachedVia(predecessor[v] \in Examined /\ order[predecessor[v]] < order[v], v)
      BY <2>1 DEF CoreInv, Grounded
    <2>3. ASSUME NEW v \in Examined
          PROVE  \/ distance'[v] = 0 /\ v \in Origins
                 \/ /\ predecessor'[v] \in Examined /\ order[predecessor'[v]] < order[v]
                    /\ \E f \in graph : /\ f.u = predecessor'[v] /\ f.v = v
                                        /\ distance'[v] = distance'[f.u] + f.w
      <3>1. v \in Vertex /\ v # e.v /\ predecessor'[v] = predecessor[v]
        BY <1>1, <1>3, <1>4
      <3> QED
        BY <1>5, <1>10, <2>2, <3>1 DEF ReachedVia
    <2> QED
      BY <1>2, <1>3, <2>2, <2>3 DEF Grounded, ReachedVia, Origins
  <1> QED
    BY <1>2, <1>6, <1>7, <1>8, <1>9, <1>11, <1>12 DEF CoreInv

LEMMA KeepTargetKeepsCore ==
  ASSUME CoreInv, NEW e \in todo, KeepTarget(e), UNCHANGED version
  PROVE  CoreInv' /\ Examined' = Examined
  <1>1. /\ todo' = todo \ {e} /\ ~Negative(e) /\ ~Relaxable(e)
        /\ UNCHANGED <<version, caller, graph, sources, seeded, distance, predecessor, pc, current, calls>>
    BY DEF KeepTarget, input
  <1>2. Examined' = Examined /\ Origins' = Origins
    BY <1>1 DEF Examined, Origins
  <1>3. TypeInv' /\ Control' /\ Finished' /\ SourcesAtZero'
    BY <1>1, <1>2 DEF CoreInv, TypeInv, Control, Finished, SourcesAtZero
  <1>4. Settled'
    <2>1. SUFFICES ASSUME caller = "user" PROVE Settled'
      BY <1>1 DEF Settled
    <2>2. e.w >= 0 /\ distance[e.v] <= distance[e.u] + e.w
      <3>1. /\ e \in graph /\ e.u \in Vertex /\ e.v \in Vertex /\ e.w \in Int
            /\ distance[e.u] \in Int /\ distance[e.v] \in Int
        BY DEF CoreInv, TypeInv
      <3> QED
        BY <1>1, <2>1, <3>1 DEF Negative, Relaxable, Combined, Weight
    <2>3. ASSUME NEW f \in graph \ todo', f.u \in Examined
          PROVE  f.w >= 0 /\ distance[f.v] <= distance[f.u] + f.w
      <3>1. CASE f = e
        BY <2>2, <3>1
      <3>2. CASE f # e
        BY <1>1, <2>1, <2>3, <3>2 DEF CoreInv, Settled
      <3> QED
        BY <3>1, <3>2
    <2> QED
      BY <1>1, <1>2, <2>1, <2>3 DEF CoreInv, Settled
  <1>5. PredecessorsTight' /\ Grounded'
    BY <1>1, <1>2 DEF CoreInv, PredecessorsTight, Grounded, ReachedVia
  <1> QED
    BY <1>2, <1>3, <1>4, <1>5 DEF CoreInv

LEMMA FinishKeepsCore ==
  ASSUME CoreInv, Finish, UNCHANGED version
  PROVE  CoreInv' /\ Examined' = Examined
  <1> USE DijkstraAssumption
  <1>1. /\ pc = "edges" /\ todo = {} /\ pc' = "loop" /\ current' = Unknown
        /\ UNCHANGED <<version, caller, graph, sources, seeded, distance, predecessor, todo>>
    BY DEF Finish, input
  <1>2. current \in Examined /\ current \in Vertex /\ seeded = Len(sources)
    <2>1. current \in Examined /\ ~(seeded < Len(sources))
      BY <1>1 DEF CoreInv, Control
    <2>2. seeded \in 0..Len(sources) /\ Len(sources) \in Nat
      BY DEF CoreInv, TypeInv
    <2> QED
      BY <2>1, <2>2 DEF Examined
  <1>3. /\ Examined' = Examined /\ Origins' = Origins
        /\ calls' \in [Vertex -> [Events -> Nat]]
        /\ \A x \in Vertex : calls'[x]["finish"] = IF x = current THEN calls[x]["finish"] + 1
                                                                  ELSE calls[x]["finish"]
    <2>1. "finish" \in Events /\ "finish" # "examine" /\ Visit(current, "finish")
      BY DEF Events, Finish
    <2>2. /\ calls' \in [Vertex -> [Events -> Nat]]
          /\ \A x \in Vertex, y \in Events :
               calls'[x][y] = IF x = current /\ y = "finish" THEN calls[x][y] + 1 ELSE calls[x][y]
          /\ Examined' = Examined
      BY <1>2, <2>1, VisitCounts DEF CoreInv
    <2> QED
      BY <1>1, <2>1, <2>2 DEF Origins
  <1>4. TypeInv' /\ Control' /\ SourcesAtZero'
    BY <1>1, <1>2, <1>3 DEF CoreInv, TypeInv, Control, SourcesAtZero
  <1>5. Finished'
    <2>1. ASSUME NEW v \in Examined PROVE distance[v] < Infinite /\ calls'[v]["finish"] > 0
      <3>1. v \in Vertex /\ calls[v]["finish"] \in Nat
        BY DEF Examined, CoreInv, TypeInv, Events
      <3> QED
        BY <1>3, <3>1 DEF CoreInv, Finished
    <2> QED
      BY <1>1, <1>3, <2>1 DEF Finished
  <1>6. Settled' /\ PredecessorsTight' /\ Grounded'
    BY <1>1, <1>3 DEF CoreInv, Settled, PredecessorsTight, Grounded, ReachedVia
  <1> QED
    BY <1>3, <1>4, <1>5, <1>6 DEF CoreInv

\* The call throws or returns, or nothing happens.
LEMMA OthersKeepCore ==
  ASSUME CoreInv,
         UNCHANGED <<version, caller, graph, sources, seeded, distance, predecessor, current, todo, calls>>,
         \/ UNCHANGED pc
         \/ pc' = "thrown"
         \/ InLoop /\ pc' = "returned"
  PROVE  CoreInv' /\ Examined' = Examined
  <1>1. Examined' = Examined /\ Origins' = Origins
    BY DEF Examined, Origins
  <1>2. TypeInv' /\ Control'
    <2>1. TypeInv'
      BY DEF CoreInv, TypeInv
    <2>2. InLoop => ~(seeded < Len(sources)) /\ current = Unknown /\ todo = {}
      BY DEF CoreInv, Control, TypeInv, InLoop
    <2>3. pc' \in {"edges"} => pc = "edges"
      OBVIOUS
    <2> QED
      BY <1>1, <2>1, <2>2, <2>3 DEF CoreInv, Control
  <1>3. Finished' /\ SourcesAtZero' /\ Settled' /\ PredecessorsTight' /\ Grounded'
    BY <1>1 DEF CoreInv, Finished, SourcesAtZero, Settled, PredecessorsTight, Grounded, ReachedVia
  <1> QED
    BY <1>1, <1>2, <1>3 DEF CoreInv

-----------------------------------------------------------------------------
(* The queues *)

\* A vertex that was not examined gets a lower distance.
LEMMA WaitingGrows ==
  ASSUME TypeInv, NEW v \in Vertex \ Examined, NEW d \in 0..(Infinite - 1),
         distance' = [distance EXCEPT ![v] = d], Examined' = Examined
  PROVE  Waiting' = Waiting \cup {v}
  BY DijkstraAssumption DEF Waiting, TypeInv

LEMMA LazyPush ==
  ASSUME TypeInv, LazyQueue, version = "lazy", UNCHANGED <<version, queued>>,
         NEW v \in Vertex \ Examined, NEW d \in 0..(Infinite - 1), d < distance[v],
         distance' = [distance EXCEPT ![v] = d], Examined' = Examined,
         queue' = queue (+) Entry(v, d)
  PROVE  LazyQueue'
  <1> USE DijkstraAssumption
  <1> DEFINE new == [v |-> v, w |-> d]
  <1>1. Waiting' = Waiting \cup {v}
    BY WaitingGrows
  <1>2. /\ distance \in [Vertex -> 0..Infinite]
        /\ distance' = [distance EXCEPT ![v] = d]
    BY DEF TypeInv
  <1>3. /\ queued = {}
        /\ queue \in [DOMAIN queue -> Nat \ {0}]
        /\ DOMAIN queue \subseteq [v : Vertex, w : 0..(Infinite - 1)]
        /\ \A x \in DOMAIN queue : distance[x.v] <= x.w
        /\ \A x \in DOMAIN queue : x.w = distance[x.v] => x.v \in Waiting /\ queue[x] = 1
        /\ \A w \in Waiting : [v |-> w, w |-> distance[w]] \in DOMAIN queue
    BY DEF LazyQueue
  <1>4. ASSUME NEW x \in DOMAIN queue
        PROVE  /\ x # new
               /\ distance'[x.v] <= x.w
               /\ x.w = distance'[x.v] => x.v # v
    <2>1. x.v \in Vertex /\ x.w \in Nat /\ distance[x.v] <= x.w
      BY <1>3
    <2>2. CASE x.v = v
      <3>1. distance'[v] = d /\ distance[v] \in Nat /\ d < distance[v]
        BY <1>2
      <3>2. distance'[x.v] = d /\ d < x.w
        BY <2>1, <2>2, <3>1
      <3>3. d \in Int /\ x.w \in Int
        BY <2>1
      <3>4. x # new
        BY <3>2, <3>3
      <3> QED
        BY <3>2, <3>3, <3>4
    <2>3. CASE x.v # v
      BY <1>2, <2>1, <2>3
    <2> QED
      BY <2>2, <2>3
  <1>5. /\ DOMAIN queue' = DOMAIN queue \cup {new}
        /\ queue' \in [DOMAIN queue' -> Nat \ {0}]
        /\ \A y \in DOMAIN queue : queue'[y] = queue[y]
        /\ queue'[new] = 1
    <2>1. new \notin DOMAIN queue
      BY <1>4
    <2>2. queue' = queue (+) SetToBag({new})
      BY DEF Entry
    <2>3. queue \in [DOMAIN queue -> Nat \ {0}]
      BY <1>3
    <2> HIDE DEF new
    <2> QED
      BY <2>1, <2>2, <2>3 DEF (+), SetToBag
  <1>6. new \in [v : Vertex, w : 0..(Infinite - 1)] /\ new.v = v /\ new.w = d /\ distance'[v] = d
    BY <1>2
  <1> HIDE DEF new
  <1>7. ASSUME NEW x \in DOMAIN queue'
        PROVE  distance'[x.v] <= x.w /\ (x.w = distance'[x.v] => x.v \in Waiting' /\ queue'[x] = 1)
    <2>1. CASE x = new
      BY <1>1, <1>5, <1>6, <2>1
    <2>2. CASE x \in DOMAIN queue
      <3>1. x.v # v => distance'[x.v] = distance[x.v]
        BY <1>2, <1>3, <2>2
      <3> QED
        BY <1>1, <1>3, <1>4, <1>5, <2>2, <3>1
    <2> QED
      BY <1>5, <2>1, <2>2
  <1>8. ASSUME NEW w \in Waiting' PROVE [v |-> w, w |-> distance'[w]] \in DOMAIN queue'
    <2>1. CASE w = v
      BY <1>5, <1>6, <2>1 DEF new
    <2>2. CASE w # v
      BY <1>1, <1>2, <1>3, <1>5, <2>2 DEF Waiting
    <2> QED
      BY <2>1, <2>2
  <1> QED
    BY <1>3, <1>5, <1>6, <1>7, <1>8 DEF LazyQueue

\* An entry of least weight that is not stale belongs to a waiting vertex of least
\* distance.
LEMMA TopsWait ==
  ASSUME TypeInv, LazyQueue, version = "lazy", NEW x \in Tops, ~Stale(x)
  PROVE  /\ x \in DOMAIN queue /\ x.w = distance[x.v] /\ queue[x] = 1
         /\ x.v \in Waiting
         /\ \A v \in Waiting : distance[x.v] <= distance[v]
  <1>1. x \in DOMAIN queue /\ \A y \in DOMAIN queue : x.w <= y.w
    BY DEF Tops, BagToSet
  <1>2. x.w \in Int /\ distance[x.v] \in Int
    BY <1>1 DEF LazyQueue, TypeInv
  <1>3. x.w = distance[x.v]
    BY <1>1, <1>2 DEF LazyQueue, Stale
  <1>4. ASSUME NEW v \in Waiting PROVE x.w <= distance[v]
    BY <1>1 DEF LazyQueue
  <1> QED
    BY <1>1, <1>3, <1>4 DEF LazyQueue

LEMMA LazyTake ==
  ASSUME TypeInv, LazyQueue, version = "lazy", NEW x \in Tops, ~Stale(x),
         Examined' = Examined \cup {x.v}, UNCHANGED <<version, queued, distance>>,
         queue' = queue (-) SetToBag({x})
  PROVE  LazyQueue'
  <1>1. x \in DOMAIN queue /\ x.w = distance[x.v] /\ queue[x] = 1
    BY TopsWait
  <1>2. /\ DOMAIN queue' = DOMAIN queue \ {x}
        /\ queue' \in [DOMAIN queue' -> Nat \ {0}]
        /\ \A y \in DOMAIN queue' : queue'[y] = queue[y]
    <2>1. queue \in [DOMAIN queue -> Nat \ {0}]
      BY DEF LazyQueue
    <2> QED
      BY <1>1, <2>1 DEF (-), SetToBag
  <1>3. Waiting' = Waiting \ {x.v}
    BY DEF Waiting
  <1>4. ASSUME NEW y \in DOMAIN queue', y.w = distance[y.v] PROVE y.v # x.v
    <2>1. /\ x \in [v : Vertex, w : 0..(Infinite - 1)] /\ y \in [v : Vertex, w : 0..(Infinite - 1)]
          /\ y # x
      BY <1>1, <1>2 DEF LazyQueue
    <2> QED
      BY <1>1, <1>4, <2>1
  <1>5. ASSUME NEW v \in Waiting' PROVE [v |-> v, w |-> distance[v]] \in DOMAIN queue'
    <2>1. v \in Waiting /\ v # x.v
      BY <1>3
    <2>2. [v |-> v, w |-> distance[v]] \in DOMAIN queue /\ [v |-> v, w |-> distance[v]] # x
      BY <2>1 DEF LazyQueue
    <2> QED
      BY <1>2, <2>2
  <1>6. \A y \in DOMAIN queue' :
          y.w = distance[y.v] => y.v \in Waiting' /\ queue'[y] = 1
    BY <1>2, <1>3, <1>4 DEF LazyQueue
  <1> QED
    BY <1>2, <1>5, <1>6 DEF LazyQueue

LEMMA LazySkip ==
  ASSUME TypeInv, LazyQueue, version = "lazy", NEW x \in Tops, Stale(x),
         Examined' = Examined, UNCHANGED <<version, queued, distance>>,
         queue' = queue (-) SetToBag({x})
  PROVE  LazyQueue'
  <1>1. x \in DOMAIN queue /\ x.w \in Int /\ distance[x.v] \in Int /\ distance[x.v] < x.w
    BY DEF Tops, BagToSet, Stale, LazyQueue, TypeInv
  <1>2. /\ DOMAIN queue \ {x} \subseteq DOMAIN queue' /\ DOMAIN queue' \subseteq DOMAIN queue
        /\ queue' \in [DOMAIN queue' -> Nat \ {0}]
        /\ \A y \in DOMAIN queue' \ {x} : queue'[y] = queue[y]
    <2>1. queue \in [DOMAIN queue -> Nat \ {0}]
      BY DEF LazyQueue
    <2> QED
      BY <1>1, <2>1 DEF (-), SetToBag
  <1>3. Waiting' = Waiting
    BY DEF Waiting
  <1>4. \A y \in DOMAIN queue : y.w = distance[y.v] => y # x
    BY <1>1
  <1>5. ASSUME NEW v \in Waiting PROVE [v |-> v, w |-> distance[v]] \in DOMAIN queue'
    BY <1>2, <1>4 DEF LazyQueue
  <1> QED
    BY <1>2, <1>3, <1>4, <1>5 DEF LazyQueue

-----------------------------------------------------------------------------
(* The invariant *)

LEMMA GraphsOfInit ==
  ASSUME NEW S \in SUBSET [u : Vertex, v : Vertex, w : Int], NEW n \in Nat, NEW g \in EdgeSets(S, n)
  PROVE  g \subseteq S /\ IsFiniteSet(g)
  <1>1. CASE g = {}
    BY <1>1, FS_EmptySet
  <1>2. CASE g # {}
    <2>1. PICK es \in [1..n -> S] : g = {es[i] : i \in 1..n}
      BY <1>2 DEF EdgeSets, Range
    <2>2. IsFiniteSet(1..n)
      BY FS_Interval
    <2>3. IsFiniteSet({es[i] : i \in 1..n})
      BY <2>1, <2>2, FiniteImage
    <2> QED
      BY <2>1, <2>3
  <1> QED
    BY <1>1, <1>2

LEMMA SourcesOfInit ==
  ASSUME FreshCall, NEW s \in Sources
  PROVE  /\ Len(s) \in Nat \ {0}
         /\ s \in [1..Len(s) -> Vertex \cup {Unknown}]
         /\ \A i, j \in 1..Len(s) : s[i] = s[j] => i = j
  <1>1. PICK k \in 1..MaxSources : s \in [1..k -> Connected \cup {Unknown}]
    BY DEF Sources
  <1>2. k \in Nat \ {0} /\ Connected \subseteq Vertex
    BY DijkstraAssumption
  <1>3. Len(s) = k
    BY <1>1, <1>2
  <1>4. Cardinality(Range(s)) = k
    BY <1>3 DEF Sources, FreshCall
  <1>5. s \in Surjection(1..k, Range(s))
    BY <1>1 DEF Surjection, Range
  <1>6. IsFiniteSet(1..k) /\ Cardinality(1..k) = k
    BY <1>2, FS_Interval
  <1>7. s \in Injection(1..k, Range(s))
    BY <1>4, <1>5, <1>6, FS_SurjSameCardinalityImpliesInj
  <1> QED
    BY <1>1, <1>2, <1>3, <1>7 DEF Injection, IsInjective

LEMMA InitIInv ==
  ASSUME FreshCall, Init
  PROVE  IInv
  <1> USE DijkstraAssumption
  <1>1. Examined = {}
    BY DEF Init, Examined, Events
  <1>2. /\ version \in {"lazy", "indexed"} /\ caller \in {"user", "prim"}
        /\ seeded = 0 /\ distance = [v \in Vertex |-> Infinite]
        /\ predecessor = [v \in Vertex |-> v] /\ pc = "loop" /\ current = Unknown /\ todo = {}
        /\ calls \in [Vertex -> [Events -> Nat]] /\ queue = EmptyBag /\ queued = {}
    BY DEF Init, FreshCall
  <1>3. /\ graph \subseteq [u : Vertex, v : Vertex, w : Int]
        /\ IsFiniteSet(graph)
        /\ caller = "prim" => \A e \in graph : e.u # e.v
        /\ Len(sources) \in Nat \ {0}
        /\ sources \in [1..Len(sources) -> Vertex \cup {Unknown}]
        /\ \A i, j \in 1..Len(sources) : sources[i] = sources[j] => i = j
    <2>1. CASE caller = "user" /\ graph \in EdgeSets(Edges, MaxEdges) /\ sources \in Sources
      <3>1. Edges \subseteq [u : Vertex, v : Vertex, w : Int]
        BY DEF Edges
      <3>2. graph \subseteq Edges /\ IsFiniteSet(graph)
        BY <2>1, <3>1, GraphsOfInit
      <3> QED
        BY <2>1, <3>1, <3>2, SourcesOfInit
    <2>2. CASE /\ caller = "prim"
               /\ graph \in {BothWays(es) : es \in EdgeSets(Links, MaxPrimEdges)}
               /\ sources = <<PrimSeed>>
      <3>1. PICK es \in EdgeSets(Links, MaxPrimEdges) : graph = BothWays(es)
        BY <2>2
      <3>2. /\ Links \subseteq [u : Vertex, v : Vertex, w : Int]
            /\ \A e \in Links : e.u # e.v
        <4>1. \A e \in Links : e \in [u : Vertex, v : Vertex, w : Int] /\ e.u < e.v
          BY DEF Links
        <4>2. ASSUME NEW e \in Links PROVE e.u # e.v
          <5>1. e.u \in Vertex /\ e.v \in Vertex /\ e.u < e.v
            BY <4>1
          <5>2. e.u \in Nat /\ e.v \in Nat
            BY <5>1
          <5> QED
            BY <5>1, <5>2
        <4> QED
          BY <4>1, <4>2
      <3>3. es \subseteq Links /\ IsFiniteSet(es)
        BY <3>2, GraphsOfInit
      <3> DEFINE back == [e \in es |-> [u |-> e.v, v |-> e.u, w |-> e.w]]
                 backward == {back[e] : e \in es}
      <3>4. graph = es \cup backward
        BY <3>1 DEF BothWays
      <3>5. /\ backward \subseteq [u : Vertex, v : Vertex, w : Int]
            /\ \A e \in backward : e.u # e.v
        BY <3>2, <3>3
      <3>6. IsFiniteSet(backward)
        <4>1. DOMAIN back = es
          OBVIOUS
        <4> HIDE DEF back
        <4> QED
          BY <3>3, <4>1, FiniteImage
      <3>7. IsFiniteSet(graph)
        <4> HIDE DEF backward
        <4> QED
          BY <3>3, <3>4, <3>6, FS_Union
      <3> HIDE DEF backward
      <3>8. Len(sources) = 1 /\ sources \in [1..1 -> Vertex]
        BY <2>2
      <3> QED
        BY <3>2, <3>3, <3>4, <3>5, <3>7, <3>8
    <2> QED
      BY <2>1, <2>2 DEF Init
  <1>4. TypeInv
    BY <1>2, <1>3 DEF TypeInv
  <1>5. Control /\ Finished /\ SourcesAtZero /\ Settled
    BY <1>1, <1>2 DEF Control, Finished, SourcesAtZero, Settled
  <1>6. PredecessorsTight
    BY <1>2 DEF PredecessorsTight
  <1>7. Grounded
    <2>1. [v \in {} |-> 0] \in [{} -> Nat]
      OBVIOUS
    <2> QED
      BY <1>1, <2>1 DEF Grounded
  <1>8. Waiting = {}
    BY <1>2 DEF Waiting
  <1>9. LazyQueue /\ IndexedQueue
    BY <1>2, <1>8 DEF LazyQueue, IndexedQueue, EmptyBag, SetToBag
  <1> QED
    BY <1>4, <1>5, <1>6, <1>7, <1>9 DEF IInv, CoreInv

LEMMA NextIInv ==
  ASSUME IInv, [Next]_vars
  PROVE  IInv'
  <1> USE DijkstraAssumption DEF IInv
  <1>0. TypeInv
    BY DEF CoreInv
  <1>1. ASSUME NEW v \in Vertex, UNCHANGED version, PushSource(v)
        PROVE  IInv'
    <2>1. CoreInv' /\ distance[v] = Infinite /\ Examined = {} /\ Examined' = {}
      BY <1>1, SeedKeepsCore DEF PushSource
    <2>2. LazyQueue'
      <3>1. /\ distance' = [distance EXCEPT ![v] = 0] /\ queue' = queue (+) Entry(v, 0)
            /\ version = "lazy" /\ UNCHANGED <<version, queued>>
        BY <1>1 DEF PushSource, Seed
      <3>2. 0 \in 0..(Infinite - 1) /\ 0 < distance[v]
        BY <2>1
      <3> QED
        BY <1>0, <2>1, <3>1, <3>2, LazyPush
    <2> QED
      BY <1>1, <2>1, <2>2 DEF PushSource, IndexedQueue
  <1>2. ASSUME NEW v \in Vertex, UNCHANGED version, InsertSource(v)
        PROVE  IInv'
    <2>1. CoreInv' /\ distance[v] = Infinite /\ Examined = {} /\ Examined' = {}
      BY <1>2, SeedKeepsCore DEF InsertSource
    <2>2. /\ distance' = [distance EXCEPT ![v] = 0] /\ queued' = queued \cup {v}
          /\ version = "indexed" /\ version' = version /\ queue' = queue
      BY <1>2 DEF InsertSource, Seed
    <2>3. 0 \in 0..(Infinite - 1) /\ v \in Vertex \ Examined
      BY <2>1
    <2>4. Waiting' = Waiting \cup {v}
      BY <1>0, <2>1, <2>2, <2>3, WaitingGrows
    <2> QED
      BY <2>1, <2>2, <2>4 DEF LazyQueue, IndexedQueue
  <1>3. ASSUME NEW x \in BagToSet(queue), UNCHANGED version, SkipStale(x)
        PROVE  IInv'
    <2>1. version = "lazy"
      BY <1>0, <1>3 DEF TypeInv, IndexedQueue, EmptyBag, SetToBag, BagToSet
    <2>2. CoreInv' /\ Examined' = Examined /\ UNCHANGED <<version, queued, distance>>
      BY <1>3, OthersKeepCore DEF SkipStale, common, input
    <2>3. LazyQueue'
      BY <1>0, <1>3, <2>1, <2>2, LazySkip DEF SkipStale
    <2> QED
      BY <2>1, <2>2, <2>3 DEF IndexedQueue
  <1>4. ASSUME NEW x \in BagToSet(queue), UNCHANGED version, ExamineEntry(x)
        PROVE  IInv'
    <2>1. version = "lazy"
      BY <1>0, <1>4 DEF TypeInv, IndexedQueue, EmptyBag, SetToBag, BagToSet
    <2>2. x.v \in Waiting /\ \A v \in Waiting : distance[x.v] <= distance[v]
      BY <1>0, <1>4, <2>1, TopsWait DEF ExamineEntry
    <2>3. CoreInv' /\ Examined' = Examined \cup {x.v}
      BY <1>4, <2>2, ExamineKeepsCore DEF ExamineEntry
    <2>4. LazyQueue'
      BY <1>0, <1>4, <2>1, <2>3, LazyTake DEF ExamineEntry, Examine
    <2> QED
      BY <1>4, <2>1, <2>3, <2>4 DEF IndexedQueue
  <1>5. ASSUME NEW v \in queued, UNCHANGED version, ExamineTop(v)
        PROVE  IInv'
    <2>1. version = "indexed" /\ queued = Waiting
      BY <1>0, <1>5 DEF TypeInv, LazyQueue, IndexedQueue
    <2>2. CoreInv' /\ Examined' = Examined \cup {v}
      BY <1>5, <2>1, ExamineKeepsCore DEF ExamineTop
    <2>3. Waiting' = Waiting \ {v}
      BY <1>5, <2>2 DEF ExamineTop, Examine, Waiting
    <2> QED
      BY <1>5, <2>1, <2>2, <2>3 DEF ExamineTop, LazyQueue, IndexedQueue
  <1>6. ASSUME NEW e \in todo, UNCHANGED version, Relax(e)
        PROVE  /\ CoreInv' /\ Examined' = Examined
               /\ e.v \in Vertex \ Examined
               /\ Combined(e) \in 0..(Infinite - 1)
               /\ Combined(e) < distance[e.v]
               /\ distance' = [distance EXCEPT ![e.v] = Combined(e)]
               /\ distance'[e.v] = Combined(e)
    <2>1. CoreInv' /\ Examined' = Examined
      BY <1>6, RelaxKeepsCore
    <2>2. /\ e.v \in Vertex \ Examined
          /\ Combined(e) \in 0..(Infinite - 1)
          /\ Combined(e) < distance[e.v]
      BY <1>6, ImprovesUnexamined DEF CoreInv, Relax
    <2>3. distance' = [distance EXCEPT ![e.v] = Combined(e)]
      BY <1>6 DEF Relax
    <2> QED
      BY <1>0, <2>1, <2>2, <2>3 DEF TypeInv
  <1>7. ASSUME NEW e \in todo, UNCHANGED version, PushTarget(e)
        PROVE  IInv'
    <2>1. version = "lazy" /\ Relax(e) /\ queue' = queue (+) Entry(e.v, distance'[e.v]) /\ queued' = queued
      BY <1>7 DEF PushTarget
    <2>2. LazyQueue'
      BY <1>0, <1>6, <1>7, <2>1, LazyPush
    <2> QED
      BY <1>6, <1>7, <2>1, <2>2 DEF IndexedQueue
  <1>8. ASSUME NEW e \in todo, UNCHANGED version, InsertTarget(e)
        PROVE  IInv'
    <2>1. /\ version = "indexed" /\ Relax(e) /\ queue' = queue
          /\ queued' = IF Undiscovered(e.v) THEN queued \cup {e.v} ELSE queued
      BY <1>8 DEF InsertTarget
    <2>2. Waiting' = Waiting \cup {e.v}
      BY <1>0, <1>6, <1>8, <2>1, WaitingGrows
    <2>3. queued' = Waiting'
      BY <1>6, <1>8, <2>1, <2>2 DEF IndexedQueue, Undiscovered, Waiting
    <2> QED
      BY <1>6, <1>8, <2>1, <2>3 DEF IndexedQueue, LazyQueue
  <1>9. ASSUME CoreInv', Examined' = Examined, UNCHANGED <<version, queue, queued, distance>>
        PROVE  IInv'
    BY <1>9 DEF LazyQueue, IndexedQueue, Waiting
  <1>10. ASSUME NEW e \in todo, UNCHANGED version, KeepTarget(e)
         PROVE  IInv'
    BY <1>9, <1>10, KeepTargetKeepsCore DEF KeepTarget
  <1>11. CASE UNCHANGED version /\ (SeedThrows \/ RelaxThrows \/ Return)
    BY <1>9, <1>11, OthersKeepCore DEF SeedThrows, RelaxThrows, Return, input
  <1>12. CASE UNCHANGED version /\ Finish
    BY <1>9, <1>12, FinishKeepsCore DEF Finish
  <1>13. CASE UNCHANGED vars
    BY <1>9, <1>13, OthersKeepCore DEF vars, common, input
  <1> QED
    BY <1>1, <1>2, <1>3, <1>4, <1>5, <1>7, <1>8, <1>10, <1>11, <1>12, <1>13 DEF Next

\* The invariant holds throughout every call with fresh distances and distinct sources.
THEOREM InvariantHolds ==
  ASSUME FreshCall
  PROVE  Spec => []IInv
  <1>1. Init => IInv
    BY InitIInv
  <1>2. IInv /\ [Next]_vars => IInv'
    BY NextIInv
  <1> QED
    BY <1>1, <1>2, PTL DEF Spec

-----------------------------------------------------------------------------
(* What follows for the queues and the predecessors *)

\* At every callback the predecessors form a tree of tight edges towards the sources,
\* for every graph the user calls Dijkstra's algorithm on.
THEOREM PredecessorsStayTight ==
  ASSUME FreshCall
  PROVE  Spec => []PredecessorsTight
  <1>1. IInv => PredecessorsTight
    BY DEF IInv, CoreInv
  <1> QED
    BY <1>1, InvariantHolds, PTL

\* Once seeded, the lazy version has exactly one up-to-date entry for each vertex that
\* is reached and not yet examined and none for the others, and the indexed version's
\* heap holds exactly these vertices, whoever the caller is.
THEOREM QueueStaysExact ==
  ASSUME FreshCall
  PROVE  Spec => []QueueMatchesDistances
  <1>1. IInv => QueueMatchesDistances
    <2>1. SUFFICES ASSUME IInv PROVE QueueMatchesDistances
      OBVIOUS
    <2>2. CASE version = "indexed"
      BY <2>1, <2>2 DEF IInv, IndexedQueue, QueueMatchesDistances, Waiting
    <2>3. CASE version = "lazy"
      <3>1. ASSUME NEW v \in Vertex PROVE EntriesOf(v) = IF v \in Waiting THEN 1 ELSE 0
        <4> DEFINE x == [v |-> v, w |-> distance[v]]
        <4>1. x.v = v /\ x.w = distance[v]
          OBVIOUS
        <4>2. EntriesOf(v) = IF x \in DOMAIN queue THEN queue[x] ELSE 0
          BY DEF EntriesOf, BagIn, BagToSet
        <4>3. x \in DOMAIN queue => v \in Waiting /\ queue[x] = 1
          BY <2>1, <2>3, <4>1 DEF IInv, LazyQueue
        <4>4. v \in Waiting => x \in DOMAIN queue
          BY <2>1, <2>3 DEF IInv, LazyQueue
        <4> HIDE DEF x
        <4> QED
          BY <4>2, <4>3, <4>4
      <3> QED
        BY <2>3, <3>1 DEF QueueMatchesDistances, Waiting
    <2> QED
      BY <2>1, <2>2, <2>3 DEF IInv, CoreInv, TypeInv
  <1> QED
    BY <1>1, InvariantHolds, PTL

\* A distance is final from the moment the visitor is told that its vertex is examined,
\* and it is told so at most once for each vertex.
Final == \A v \in Examined : /\ distance'[v] = distance[v]
                             /\ calls'[v]["examine"] = calls[v]["examine"]

THEOREM ExaminedIsFinal ==
  ASSUME FreshCall
  PROVE  Spec => [][Final]_vars
  <1>1. ASSUME IInv, Next PROVE Final
    <2> USE <1>1
    <2>1. TypeInv /\ Control /\ Finished /\ Settled
      BY DEF IInv, CoreInv
    <2>2. ASSUME NEW u \in Vertex, NEW event \in Events, Visit(u, event),
                 event = "examine" => u \notin Examined
          PROVE  \A v \in Examined : calls'[v]["examine"] = calls[v]["examine"]
      <3>1. "examine" \in Events /\ Examined \subseteq Vertex
        BY DEF Events, Examined
      <3> QED
        BY <2>1, <2>2, <3>1, VisitCounts
    <2>3. ASSUME NEW v \in Vertex, Seed(v) PROVE Final
      <3>1. Examined = {}
        BY <2>1, <2>3 DEF Control, Seed
      <3> QED
        BY <3>1 DEF Final
    <2>4. ASSUME NEW u \in Waiting, Examine(u) PROVE Final
      <3>1. u \in Vertex /\ u \notin Examined /\ "examine" \in Events
        BY DEF Waiting, Events
      <3> QED
        BY <2>2, <2>4, <3>1 DEF Examine, Final
    <2>5. ASSUME NEW e \in todo, Relax(e) PROVE Final
      <3>1. e.v \in Vertex \ Examined
        BY <2>1, <2>5, ImprovesUnexamined DEF Relax
      <3>2. \A v \in Examined : distance'[v] = distance[v]
        BY <2>1, <2>5, <3>1 DEF Relax, TypeInv, Examined
      <3>3. "discover" \in Events /\ "discover" # "examine"
        BY DEF Events
      <3> QED
        BY <2>2, <2>5, <3>1, <3>2, <3>3 DEF Relax, Final
    <2>6. CASE Finish
      <3>1. current \in Vertex /\ "finish" \in Events /\ "finish" # "examine"
        BY <2>1, <2>6 DEF Finish, Control, Examined, Events
      <3> QED
        BY <2>2, <2>6, <3>1 DEF Finish, Final
    <2>7. ASSUME UNCHANGED <<distance, calls>> PROVE Final
      BY <2>7 DEF Final
    <2>8. ASSUME NEW x \in BagToSet(queue), ExamineEntry(x) PROVE x.v \in Waiting
      <3>1. version = "lazy"
        BY <2>1 DEF IInv, TypeInv, IndexedQueue, EmptyBag, SetToBag, BagToSet
      <3> QED
        BY <2>1, <2>8, <3>1, TopsWait DEF IInv, ExamineEntry
    <2>9. ASSUME NEW v \in queued, ExamineTop(v) PROVE v \in Waiting
      BY <2>1 DEF IInv, TypeInv, LazyQueue, IndexedQueue
    <2> QED
      BY <2>3, <2>4, <2>5, <2>6, <2>7, <2>8, <2>9
      DEF Next, PushSource, InsertSource, SkipStale, ExamineEntry, ExamineTop, PushTarget, InsertTarget,
          KeepTarget, SeedThrows, RelaxThrows, Return, common
  <1> QED
    BY <1>1, InvariantHolds, PTL DEF Spec

-----------------------------------------------------------------------------
(* The indexed version obeys the rules of the heap *)

\* The indexed version pushes only vertices that are not in the heap, and a distance
\* that changes while its vertex is in the heap improves and is announced.
THEOREM HeapRulesObeyed ==
  ASSUME FreshCall
  PROVE  Spec => ObeysQueue
  <1> USE DijkstraAssumption
  <1> DEFINE seen == IF version = "indexed" THEN distance ELSE [v \in Vertex |-> Infinite]
  <1>1. ASSUME Init PROVE Heap!Init
    <2>1. queued = {}
      BY <1>1 DEF Init
    <2>2. distance \in [Vertex -> 0..Infinite]
      BY <1>1, InitIInv DEF IInv, CoreInv, TypeInv
    <2> QED
      BY <2>1, <2>2 DEF Heap!Init, Heap!Distances
  <1>2. ASSUME IInv, [Next]_vars PROVE [Heap!Next]_<<queued, seen>>
    <2> USE <1>2
    <2>1. TypeInv /\ Control /\ Finished /\ Settled /\ LazyQueue /\ IndexedQueue
      BY DEF IInv, CoreInv
    <2>2. version' = version
      BY DEF vars, Next
    <2>3. CASE version = "lazy"
      <3>1. IInv'
        BY NextIInv
      <3>2. queued = {} /\ queued' = {}
        BY <2>1, <2>2, <2>3, <3>1 DEF IInv, LazyQueue
      <3> QED
        BY <2>2, <2>3, <3>2
    <2>4. CASE version = "indexed"
      <3>1. queued = Waiting /\ queue = EmptyBag
        BY <2>1, <2>4 DEF IndexedQueue
      <3>2. seen = distance /\ seen' = distance'
        BY <2>2, <2>4
      <3> HIDE DEF seen
      <3>3. ASSUME NEW v \in Vertex, InsertSource(v) PROVE Heap!Insert(v, 0)
        <4>1. distance[v] = Infinite
          BY <2>2, <3>3, SeedKeepsCore DEF IInv, InsertSource
        <4>2. v \notin queued
          BY <3>1, <4>1 DEF Waiting
        <4> QED
          BY <2>2, <2>4, <3>3, <4>2 DEF InsertSource, Seed, Heap!Insert
      <3>4. ASSUME NEW v \in queued, ExamineTop(v) PROVE Heap!TakeLeast
        BY <2>2, <2>4, <3>4 DEF ExamineTop, Examine, Heap!TakeLeast
      <3>5. ASSUME NEW e \in todo, InsertTarget(e)
            PROVE  Heap!Insert(e.v, Combined(e)) \/ Heap!Improve(e.v, Combined(e))
        <4>1. /\ e.v \in Vertex \ Examined
              /\ Combined(e) \in 0..(Infinite - 1)
              /\ Combined(e) < distance[e.v]
          BY <2>1, <3>5, ImprovesUnexamined DEF InsertTarget, Relax
        <4>2. /\ distance' = [distance EXCEPT ![e.v] = Combined(e)]
              /\ queued' = IF Undiscovered(e.v) THEN queued \cup {e.v} ELSE queued
          BY <3>5 DEF InsertTarget, Relax
        <4>3. CASE Undiscovered(e.v)
          BY <2>2, <2>4, <3>1, <4>2, <4>3 DEF Heap!Insert, Waiting, Undiscovered
        <4>4. CASE ~Undiscovered(e.v)
          <5>1. e.v \in queued /\ Combined(e) <= distance[e.v]
            <6>1. distance[e.v] \in 0..Infinite
              BY <2>1, <4>1 DEF TypeInv
            <6>2. e.v \in Waiting
              BY <4>1, <4>4 DEF Waiting, Undiscovered
            <6> QED
              BY <3>1, <4>1, <6>1, <6>2
          <5> QED
            BY <2>2, <2>4, <4>2, <4>4, <5>1 DEF Heap!Improve
        <4> QED
          BY <4>3, <4>4
      <3>6. ASSUME NEW e \in todo, InsertTarget(e) PROVE e.v \in Vertex /\ Combined(e) \in Heap!Distances
        BY <2>1, <3>6, ImprovesUnexamined DEF InsertTarget, Relax, Heap!Distances
      <3>7. ASSUME NEW x \in BagToSet(queue) PROVE FALSE
        BY <3>1, <3>7 DEF EmptyBag, SetToBag, BagToSet
      <3>8. 0 \in Heap!Distances
        BY DEF Heap!Distances
      <3>9. CASE UNCHANGED <<queued, distance>>
        BY <3>2, <3>9
      <3>10. \/ \E v \in Vertex : InsertSource(v)
             \/ \E v \in queued : ExamineTop(v)
             \/ \E e \in todo : InsertTarget(e)
             \/ UNCHANGED <<queued, distance>>
        BY <2>4, <3>7
        DEF vars, common, Next, PushSource, PushTarget, KeepTarget, SeedThrows, RelaxThrows, Finish, Return
      <3>11. Heap!Next \/ UNCHANGED <<queued, distance>>
        BY <3>3, <3>4, <3>5, <3>6, <3>8, <3>10 DEF Heap!Next
      <3> QED
        BY <3>9, <3>11
    <2> QED
      BY <2>1, <2>3, <2>4 DEF TypeInv
  <1> QED
    BY <1>1, <1>2, InvariantHolds, PTL DEF Spec, ObeysQueue, Heap!Spec

-----------------------------------------------------------------------------
(* Both versions settle the vertices in the order of their distances *)

\* The distance dv of v, or that over one of the edges es from a vertex of distance dc.
Improved(dv, dc, es, v) == Min({dv} \cup {dc + e.w : e \in {f \in es : f.v = v}})

LEMMA ImprovedIs ==
  ASSUME NEW es, IsFiniteSet(es), \A e \in es : e.w \in Int, NEW dv \in Int, NEW dc \in Int, NEW v
  PROVE  /\ Improved(dv, dc, es, v) \in Int
         /\ Improved(dv, dc, es, v) <= dv
         /\ \A e \in es : e.v = v => Improved(dv, dc, es, v) <= dc + e.w
         /\ \/ Improved(dv, dc, es, v) = dv
            \/ \E e \in es : e.v = v /\ Improved(dv, dc, es, v) = dc + e.w
  <1> DEFINE S    == {f \in es : f.v = v}
             way  == [e \in S |-> dc + e.w]
             Ways == {way[e] : e \in S}
             D    == {dv} \cup Ways
  <1>1. Improved(dv, dc, es, v) = Min(D)
    <2>1. Ways = {dc + e.w : e \in S}
      OBVIOUS
    <2> QED
      BY <2>1 DEF Improved
  <1>2. D \in SUBSET Int
    <2>1. \A e \in S : way[e] \in Int
      OBVIOUS
    <2> QED
      BY <2>1
  <1>3. IsFiniteSet(D)
    <2>1. IsFiniteSet(S)
      BY FS_Subset
    <2>2. DOMAIN way = S
      OBVIOUS
    <2>3. IsFiniteSet(Ways)
      <3> HIDE DEF way, S
      <3> QED
        BY <2>1, <2>2, FiniteImage
    <2> HIDE DEF Ways
    <2>4. IsFiniteSet({dv})
      BY FS_Singleton
    <2> QED
      BY <2>3, <2>4, FS_Union
  <1>4. Min(D) \in D /\ \A x \in D : Min(D) <= x
    <2>1. D # {}
      OBVIOUS
    <2> HIDE DEF D
    <2> QED
      BY <1>2, <1>3, <2>1, MinOf
  <1> QED
    BY <1>1, <1>2, <1>4

LEMMA NothingImproved ==
  ASSUME NEW dv \in Int, NEW dc, NEW v
  PROVE  Improved(dv, dc, {}, v) = dv
  <1>1. Improved(dv, dc, {}, v) = Min({dv})
    BY DEF Improved
  <1>2. dv <= dv
    OBVIOUS
  <1> QED
    BY <1>1, <1>2, MinIs

\* Looking at an edge does not change what the distances will be after the pending ones.
LEMMA PendingStays ==
  ASSUME TypeInv, Control, Finished, Settled, caller = "user", NEW e \in todo,
         KeepTarget(e) \/ Relax(e)
  PROVE  Pending' = Pending
  <1> USE DijkstraAssumption
  <1>1. /\ pc = "edges" /\ ~Negative(e) /\ todo' = todo \ {e} /\ current' = current
        /\ e \in graph /\ e.v \in Vertex /\ e.u = current /\ current \in Examined /\ current \in Vertex
    BY DEF KeepTarget, Relax, TypeInv, Control, Examined
  <1>2. /\ IsFiniteSet(todo) /\ IsFiniteSet(todo')
        /\ \A f \in todo : f.w \in Int
        /\ \A v \in Vertex : distance[v] \in Int
    BY <1>1, FS_Subset DEF TypeInv
  <1>3. Combined(e) = distance[current] + e.w
    BY <1>1 DEF Combined, Weight
  <1>4. /\ distance'[current] = distance[current]
        /\ \A v \in Vertex : distance'[v] \in Int
        /\ \A v \in Vertex : v # e.v => distance'[v] = distance[v]
        /\ \/ distance'[e.v] = distance[e.v] /\ distance[e.v] <= distance[current] + e.w
           \/ distance'[e.v] = distance[current] + e.w /\ distance'[e.v] < distance[e.v]
    <2>1. CASE KeepTarget(e)
      <3>1. distance' = distance /\ ~(Combined(e) < distance[e.v])
        BY <2>1 DEF KeepTarget, Relaxable
      <3>2. distance[e.v] \in Int /\ distance[current] \in Int /\ e.w \in Int
        BY <1>1, <1>2
      <3> QED
        BY <1>1, <1>2, <1>3, <3>1, <3>2
    <2>2. CASE Relax(e)
      <3>1. e.v \in Vertex \ Examined /\ Combined(e) \in Int /\ Combined(e) < distance[e.v]
        BY <2>2, ImprovesUnexamined DEF Relax
      <3>2. distance' = [distance EXCEPT ![e.v] = Combined(e)]
        BY <2>2 DEF Relax
      <3> QED
        BY <1>1, <1>2, <1>3, <3>1, <3>2 DEF TypeInv
    <2> QED
      BY <2>1, <2>2
  <1>5. ASSUME NEW v \in Vertex
        PROVE  Improved(distance'[v], distance'[current'], todo', v) =
                 Improved(distance[v], distance[current], todo, v)
    <2> DEFINE new == Improved(distance'[v], distance'[current'], todo', v)
               old == Improved(distance[v], distance[current], todo, v)
    <2>1. /\ new \in Int /\ new <= distance'[v]
          /\ \A f \in todo' : f.v = v => new <= distance[current] + f.w
          /\ new = distance'[v] \/ \E f \in todo' : f.v = v /\ new = distance[current] + f.w
      <3>1. /\ distance'[v] \in Int /\ distance'[current'] = distance[current] /\ distance[current] \in Int
            /\ \A f \in todo' : f.w \in Int
        BY <1>1, <1>2, <1>4
      <3> QED
        BY <1>2, <3>1, ImprovedIs
    <2>2. /\ old \in Int /\ old <= distance[v]
          /\ \A f \in todo : f.v = v => old <= distance[current] + f.w
          /\ old = distance[v] \/ \E f \in todo : f.v = v /\ old = distance[current] + f.w
      BY <1>1, <1>2, ImprovedIs
    <2> HIDE DEF new, old
    <2>3. new <= old
      <3>1. new <= distance[v]
        BY <1>1, <1>2, <1>4, <2>1
      <3>2. ASSUME NEW f \in todo, f.v = v PROVE new <= distance[current] + f.w
        <4>1. CASE f # e
          BY <1>1, <2>1, <3>2, <4>1
        <4>2. CASE f = e
          BY <1>1, <1>2, <1>4, <2>1, <3>2, <4>2
        <4> QED
          BY <4>1, <4>2
      <3> QED
        BY <2>2, <3>1, <3>2
    <2>4. old <= new
      <3>1. old <= distance'[v]
        BY <1>1, <1>2, <1>4, <2>2
      <3>2. \A f \in todo' : f.v = v => old <= distance[current] + f.w
        BY <1>1, <2>2
      <3> QED
        BY <2>1, <3>1, <3>2
    <2>5. new = old
      BY <2>1, <2>2, <2>3, <2>4
    <2> QED
      BY <2>5 DEF new, old
  <1> QED
    BY <1>5 DEF Pending, Improved

\* With no edges pending the distances are as they are.
LEMMA NothingPending ==
  ASSUME NEW d \in [Vertex -> Int], NEW dc
  PROVE  [v \in Vertex |-> Improved(d[v], dc, {}, v)] = d
  <1>1. ASSUME NEW v \in Vertex PROVE Improved(d[v], dc, {}, v) = d[v]
    BY NothingImproved
  <1> QED
    BY <1>1

\* When the user calls it each version settles the vertices one by one in the order of
\* their distances, and settling a vertex relaxes all its edges at once: the order of
\* the edges, stale entries and repeated pushes cannot be told from outside.
THEOREM SettlesInOrder ==
  ASSUME FreshCall
  PROVE  Spec => ImplementsShortestPaths
  <1> USE DijkstraAssumption
  <1> DEFINE first == [v \in Vertex |-> IF v \in Origins THEN 0 ELSE Infinite]
             best  == IF caller # "user" \/ seeded < Len(sources) THEN first ELSE Pending
             done  == IF caller = "user" THEN Examined ELSE {}
             Stays == UNCHANGED <<graph, Origins, best, done>>
  <1>1. ASSUME Init PROVE Paths!Init
    <2>1. Examined = {}
      BY <1>1 DEF Init, Examined, Events
    <2>2. seeded < Len(sources)
      BY <1>1, InitIInv DEF Init, IInv, CoreInv, TypeInv
    <2> QED
      BY <2>1, <2>2 DEF Paths!Init
  <1>2. ASSUME IInv, [Next]_vars PROVE Paths!Next \/ Stays
    <2> USE <1>2
    <2>1. /\ TypeInv /\ Control /\ Finished /\ SourcesAtZero /\ Settled
          /\ LazyQueue /\ IndexedQueue
      BY DEF IInv, CoreInv
    <2>2. IInv'
      BY NextIInv
    <2>3. /\ UNCHANGED <<caller, graph, sources>> /\ Origins' = Origins
      BY DEF vars, common, input, Next, PushSource, InsertSource, SkipStale, ExamineEntry, ExamineTop,
             PushTarget, InsertTarget, KeepTarget, SeedThrows, RelaxThrows, Finish, Return, Seed, Examine,
             Relax, Origins
    <2>4. CASE caller # "user"
      BY <2>3, <2>4
    <2>5. ASSUME caller = "user", UNCHANGED <<seeded, distance, current, todo, calls>> PROVE Stays
      <3>1. Pending' = Pending /\ Examined' = Examined
        BY <2>5 DEF Pending, Examined
      <3> QED
        BY <2>3, <2>5, <3>1
    <2>6. ASSUME caller = "user", NEW v \in Vertex, Seed(v), UNCHANGED version PROVE Stays
      <3>1. CoreInv' /\ Examined = {} /\ Examined' = {}
        BY <2>6, SeedKeepsCore DEF IInv
      <3>2. seeded < Len(sources) /\ seeded' = seeded + 1 /\ todo' = todo /\ pc = "loop"
        BY <2>6 DEF Seed
      <3>3. first' = first
        BY <2>3
      <3>4. best = first
        BY <3>2
      <3>5. CASE seeded' < Len(sources')
        BY <2>3, <2>6, <3>1, <3>3, <3>4, <3>5
      <3>6. CASE ~(seeded' < Len(sources'))
        <4>1. seeded' = Len(sources)
          BY <2>3, <3>1, <3>6 DEF CoreInv, TypeInv
        <4>2. distance' \in [Vertex -> 0..Infinite] /\ distance' \in [Vertex -> Int]
          BY <3>1 DEF CoreInv, TypeInv
        <4>3. ASSUME NEW x \in Vertex PROVE distance'[x] = first[x]
          <5>1. x \in Origins <=> \E i \in 1..seeded' : x = sources[i]
            BY <2>1, <4>1 DEF Origins, TypeInv
          <5>2. x \notin Origins => ~(distance'[x] < Infinite)
            BY <2>3, <3>1, <5>1 DEF CoreInv, SourcesAtZero
          <5>3. x \in Origins => distance'[x] = 0
            BY <2>3, <3>1, <5>1 DEF CoreInv, SourcesAtZero
          <5> QED
            BY <4>2, <5>2, <5>3
        <4>4. distance' = first
          BY <4>2, <4>3
        <4>5. Pending' = distance'
          <5>1. current = Unknown /\ todo' = {}
            BY <2>1, <3>2 DEF Control
          <5>2. Pending' = [x \in Vertex |-> Improved(distance'[x], distance'[current'], {}, x)]
            BY <5>1 DEF Pending, Improved
          <5> QED
            BY <4>2, <5>2, NothingPending
        <4> QED
          BY <2>3, <2>6, <3>1, <3>3, <3>4, <3>6, <4>4, <4>5
      <3> QED
        BY <3>5, <3>6
    <2>7. ASSUME caller = "user", NEW u \in Waiting, \A v \in Waiting : distance[u] <= distance[v],
                 Examine(u), UNCHANGED version
          PROVE  Paths!Settle(u)
      <3>1. /\ u \in Vertex /\ u \notin Examined /\ distance[u] < Infinite
            /\ Examined' = Examined \cup {u}
        BY <2>7, ExamineKeepsCore DEF IInv, Waiting
      <3>2. /\ seeded = Len(sources) /\ UNCHANGED <<seeded, distance>> /\ todo = {}
            /\ current' = u /\ todo' = OutEdges(u)
        BY <2>1, <2>7 DEF Examine, InLoop, Control
      <3>3. distance \in [Vertex -> 0..Infinite] /\ distance \in [Vertex -> Int]
        BY <2>1 DEF TypeInv
      <3>4. Pending = distance
        <4>1. Pending = [x \in Vertex |-> Improved(distance[x], distance[current], {}, x)]
          BY <3>2 DEF Pending, Improved
        <4> QED
          BY <3>3, <4>1, NothingPending
      <3>5. best = distance /\ best' = Pending'
        <4>1. ~(seeded < Len(sources)) /\ ~(seeded' < Len(sources'))
          BY <2>1, <2>3, <3>2 DEF TypeInv
        <4> QED
          BY <2>3, <2>7, <3>4, <4>1
      <3>6. Pending' = Paths!RelaxedFrom(u)
        <4> DEFINE Over(d) == [v \in Vertex |->
                     Paths!Least({d[v]} \cup {d[u] + e.w : e \in {f \in graph : f.u = u /\ f.v = v}})]
        <4>1. ASSUME NEW v \in Vertex PROVE Pending'[v] = Over(distance)[v]
          <5> DEFINE S == {distance[v]} \cup {distance[u] + e.w : e \in {f \in graph : f.u = u /\ f.v = v}}
          <5>1. {f \in todo' : f.v = v} = {f \in graph : f.u = u /\ f.v = v}
            BY <3>2 DEF OutEdges
          <5>2. Pending'[v] = Min(S)
            BY <3>2, <5>1 DEF Pending
          <5>3. Min(S) = Paths!Least(S)
            BY DEF Min, Paths!Least
          <5> QED
            BY <5>2, <5>3
        <4>2. Paths!RelaxedFrom(u) = Over(best)
          BY DEF Paths!RelaxedFrom
        <4>3. Over(best) = Over(distance)
          <5> HIDE DEF Over, best
          <5> QED
            BY <3>5
        <4>4. Pending' = [v \in Vertex |-> Pending'[v]]
          BY DEF Pending
        <4>5. Over(distance) = [v \in Vertex |-> Over(distance)[v]]
          OBVIOUS
        <4> HIDE DEF Over, best
        <4> QED
          BY <4>1, <4>2, <4>3, <4>4, <4>5
      <3>7. ASSUME NEW v \in Vertex \ Examined PROVE distance[u] <= distance[v]
        BY <2>7, <3>1, <3>3 DEF Waiting
      <3>8. done = Examined /\ done' = Examined'
        BY <2>3, <2>7
      <3> QED
        BY <2>3, <3>1, <3>5, <3>6, <3>7, <3>8 DEF Paths!Settle
    <2>8. ASSUME caller = "user", NEW e \in todo, KeepTarget(e) \/ Relax(e), UNCHANGED version PROVE Stays
      <3>1. Examined' = Examined
        BY <2>8, KeepTargetKeepsCore, RelaxKeepsCore DEF IInv
      <3>2. Pending' = Pending /\ seeded' = seeded
        BY <2>1, <2>8, PendingStays DEF KeepTarget, Relax
      <3>3. first' = first
        BY <2>3
      <3> QED
        BY <2>3, <2>8, <3>1, <3>2, <3>3
    <2>9. ASSUME caller = "user", Finish, UNCHANGED version PROVE Stays
      <3>1. Examined' = Examined
        BY <2>9, FinishKeepsCore DEF IInv
      <3>2. /\ UNCHANGED <<seeded, distance>> /\ todo = {} /\ todo' = {}
        BY <2>9 DEF Finish
      <3>3. Pending' = Pending
        <4>1. distance \in [Vertex -> Int]
          BY <2>1 DEF TypeInv
        <4>2. Pending = [x \in Vertex |-> Improved(distance[x], distance[current], {}, x)]
          BY <3>2 DEF Pending, Improved
        <4>3. Pending' = [x \in Vertex |-> Improved(distance[x], distance[current'], {}, x)]
          BY <3>2 DEF Pending, Improved
        <4> QED
          BY <4>1, <4>2, <4>3, NothingPending
      <3>4. first' = first
        BY <2>3
      <3> QED
        BY <2>3, <2>9, <3>1, <3>2, <3>3, <3>4
    <2>10. ASSUME NEW x \in BagToSet(queue), ExamineEntry(x)
           PROVE  x.v \in Waiting /\ \A v \in Waiting : distance[x.v] <= distance[v]
      <3>1. version = "lazy"
        BY <2>1 DEF TypeInv, IndexedQueue, EmptyBag, SetToBag, BagToSet
      <3> QED
        BY <2>1, <2>10, <3>1, TopsWait DEF ExamineEntry
    <2>11. ASSUME NEW v \in queued, ExamineTop(v)
           PROVE  v \in Waiting /\ \A x \in Waiting : distance[v] <= distance[x]
      BY <2>1, <2>11 DEF TypeInv, LazyQueue, IndexedQueue, ExamineTop
    <2>12. \/ UNCHANGED <<seeded, distance, current, todo, calls>>
           \/ UNCHANGED version /\ \E v \in Vertex : Seed(v)
           \/ UNCHANGED version /\ \E u \in Waiting : Examine(u) /\ \A v \in Waiting : distance[u] <= distance[v]
           \/ UNCHANGED version /\ \E e \in todo : KeepTarget(e) \/ Relax(e)
           \/ UNCHANGED version /\ Finish
      BY <2>10, <2>11 DEF Next, vars, common, PushSource, InsertSource, SkipStale, ExamineEntry, ExamineTop,
                          PushTarget, InsertTarget, SeedThrows, RelaxThrows, Return
    <2>13. ASSUME NEW u \in Waiting, Paths!Settle(u) PROVE Paths!Next
      BY <2>13 DEF Paths!Next, Waiting
    <2> HIDE DEF Stays
    <2> QED
      BY <2>4, <2>5, <2>6, <2>7, <2>8, <2>9, <2>12, <2>13
  <1> QED
    BY <1>1, <1>2, InvariantHolds, PTL DEF Spec, ImplementsShortestPaths, Paths!Spec

-----------------------------------------------------------------------------
(* The distances are the shortest *)

\* The least weights of walks with one edge more than those of weight d.
Longer(S, edges, infinite, d) ==
  [v \in S |-> Min({d[v]} \cup {d[e.u] + e.w : e \in {f \in edges : f.v = v /\ d[f.u] < infinite}})]

EdgesOver(S, edges) == edges \subseteq [u : S, v : S, w : Int] /\ IsFiniteSet(edges)

\* m is the least weight of d[v] and the ways to v with one edge more.
LeastWay(edges, infinite, d, v, m) ==
  /\ m \in Int
  /\ m <= d[v]
  /\ \A e \in edges : e.v = v /\ d[e.u] < infinite => m <= d[e.u] + e.w
  /\ m = d[v] \/ \E e \in edges : e.v = v /\ d[e.u] < infinite /\ m = d[e.u] + e.w

\* The least weights of walks of up to k edges.
LeastWithin(S, edges, origins, infinite, within) ==
  /\ within \in [Nat -> [S -> Int]]
  /\ \A v \in S : within[0][v] = IF v \in origins THEN 0 ELSE infinite
  /\ \A k \in Nat : within[k + 1] = Longer(S, edges, infinite, within[k])
  /\ LeastDistances(S, edges, origins, infinite) = within[Cardinality(S) - 1]

LEMMA LongerIs ==
  ASSUME NEW S, NEW edges, EdgesOver(S, edges),
         NEW infinite \in Int, NEW d \in [S -> Int], NEW v \in S
  PROVE  LeastWay(edges, infinite, d, v, Longer(S, edges, infinite, d)[v])
  <1> DEFINE W    == {f \in edges : f.v = v /\ d[f.u] < infinite}
             way  == [e \in W |-> d[e.u] + e.w]
             Ways == {way[e] : e \in W}
             D    == {d[v]} \cup Ways
  <1>0. edges \subseteq [u : S, v : S, w : Int] /\ IsFiniteSet(edges)
    BY DEF EdgesOver
  <1>1. Longer(S, edges, infinite, d)[v] = Min(D)
    <2>1. Ways = {d[e.u] + e.w : e \in W}
      OBVIOUS
    <2> QED
      BY <2>1 DEF Longer
  <1>2. D \in SUBSET Int
    <2>1. \A e \in W : way[e] \in Int
      BY <1>0
    <2> QED
      BY <2>1
  <1>3. IsFiniteSet(D)
    <2>1. IsFiniteSet(W)
      BY <1>0, FS_Subset
    <2>2. DOMAIN way = W
      OBVIOUS
    <2>3. IsFiniteSet(Ways)
      <3> HIDE DEF way, W
      <3> QED
        BY <2>1, <2>2, FiniteImage
    <2> HIDE DEF Ways
    <2>4. IsFiniteSet({d[v]})
      BY FS_Singleton
    <2> QED
      BY <2>3, <2>4, FS_Union
  <1>4. Min(D) \in D /\ \A x \in D : Min(D) <= x
    <2>1. D # {}
      OBVIOUS
    <2> HIDE DEF D
    <2> QED
      BY <1>2, <1>3, <2>1, MinOf
  <1>5. d[v] \in D /\ \A e \in W : d[e.u] + e.w \in D
    <2>1. \A e \in W : way[e] \in Ways /\ way[e] = d[e.u] + e.w
      OBVIOUS
    <2> QED
      BY <2>1
  <1>6. Min(D) = d[v] \/ \E e \in W : Min(D) = d[e.u] + e.w
    BY <1>4
  <1> HIDE DEF D
  <1> QED
    BY <1>1, <1>2, <1>4, <1>5, <1>6 DEF LeastWay

\* The recursion of LeastDistances is well defined.
LEMMA WalksExist ==
  ASSUME NEW S, NEW edges, EdgesOver(S, edges), NEW origins, NEW infinite \in Int
  PROVE  \E within : LeastWithin(S, edges, origins, infinite, within)
  <1> DEFINE T    == [S -> Int]
             b    == [v \in S |-> IF v \in origins THEN 0 ELSE infinite]
             Next1(d) == Longer(S, edges, infinite, d)
             F    == [d \in T |-> Next1(d)]
             Eq(g) == g = [k \in Nat |-> IF k = 0 THEN b ELSE Next1(g[k - 1])]
             within == CHOOSE g : Eq(g)
  <1>1. b \in T
    OBVIOUS
  <1>2. \A d \in T : Next1(d) \in T
    <2>1. ASSUME NEW d \in T PROVE \A v \in S : Longer(S, edges, infinite, d)[v] \in Int
      BY <2>1, LongerIs DEF LeastWay
    <2>2. ASSUME NEW d \in T PROVE Longer(S, edges, infinite, d) = [v \in S |-> Longer(S, edges, infinite, d)[v]]
      BY DEF Longer
    <2> QED
      BY <2>1, <2>2
  <1>3. \E g : Eq(g)
    <2>1. F \in [T -> T]
      BY <1>2
    <2>2. PICK g \in [Nat -> T] : g[0] = b /\ \A n \in Nat : g[n + 1] = F[g[n]]
      <3> HIDE DEF T, b, F
      <3>1. \E g \in [Nat -> T] : Repeats(g, b, F)
        BY <1>1, <2>1, Iteration
      <3> QED
        BY <3>1 DEF Repeats
    <2>3. ASSUME NEW k \in Nat PROVE g[k] = IF k = 0 THEN b ELSE Next1(g[k - 1])
      <3>1. CASE k = 0
        BY <2>2, <3>1
      <3>2. CASE k # 0
        <4>1. k - 1 \in Nat /\ (k - 1) + 1 = k
          BY <3>2
        <4>2. g[k] = F[g[k - 1]] /\ g[k - 1] \in T
          BY <2>2, <4>1
        <4> HIDE DEF Next1, T
        <4> QED
          BY <3>2, <4>2
      <3> QED
        BY <3>1, <3>2
    <2>4. Eq(g)
      <3> HIDE DEF b, Next1, T
      <3> QED
        BY <2>2, <2>3
    <2> QED
      BY <2>4
  <1>4. Eq(within)
    <2> HIDE DEF Eq
    <2> QED
      BY <1>3
  <1>5. LeastDistances(S, edges, origins, infinite) = within[Cardinality(S) - 1]
    BY DEF LeastDistances, Longer
  <1> HIDE DEF within, b, Next1
  <1>6. within[0] = b
    BY <1>4
  <1>7. ASSUME NEW k \in Nat PROVE within[k + 1] = Next1(within[k])
    <2>1. k + 1 \in Nat /\ k + 1 # 0 /\ (k + 1) - 1 = k
      OBVIOUS
    <2> QED
      BY <1>4, <2>1
  <1>8. within \in [Nat -> T]
    <2> DEFINE Typed == {k \in Nat : within[k] \in T}
    <2>1. 0 \in Typed
      BY <1>1, <1>6
    <2>2. ASSUME NEW k \in Nat, k \in Typed PROVE k + 1 \in Typed
      BY <1>2, <1>7, <2>2
    <2>3. Nat \subseteq Typed
      <3> HIDE DEF Typed
      <3> QED
        BY <2>1, <2>2, InductiveSet
    <2>4. within = [k \in Nat |-> within[k]]
      BY <1>4
    <2> QED
      BY <2>3, <2>4
  <1>9. /\ within \in [Nat -> [S -> Int]]
        /\ \A v \in S : within[0][v] = IF v \in origins THEN 0 ELSE infinite
        /\ \A k \in Nat : within[k + 1] = Longer(S, edges, infinite, within[k])
    BY <1>6, <1>7, <1>8 DEF b, Next1
  <1> QED
    BY <1>5, <1>9 DEF LeastWithin

\* The origins have distance 0, and no edge improves a distance.
NoShortcut(edges, origins, infinite, d) ==
  /\ \A v \in origins : d[v] = 0
  /\ \A e \in edges : d[e.u] < infinite => d[e.v] <= d[e.u] + e.w

\* What is reached can be numbered such that each vertex is an origin or was reached by an
\* edge of exactly the difference from one of a lower number.
WalksBack(S, edges, origins, infinite, d) ==
  LET R == {v \in S : d[v] < infinite}
  IN  \E p \in [S -> S], order \in [R -> Nat] :
        \A v \in R : /\ order[v] < Cardinality(R)
                     /\ \/ v \in origins
                        \/ /\ p[v] \in R /\ order[p[v]] < order[v]
                           /\ \E e \in edges : e.u = p[v] /\ e.v = v /\ d[v] = d[e.u] + e.w

\* Distances no edge can improve, each of them that of a walk, are the least.
LEMMA LeastAre ==
  ASSUME NEW S, IsFiniteSet(S), S # {},
         NEW edges, EdgesOver(S, edges),
         NEW origins \in SUBSET S, NEW infinite \in Nat,
         NEW d \in [S -> 0..infinite],
         NoShortcut(edges, origins, infinite, d),
         WalksBack(S, edges, origins, infinite, d)
  PROVE  LeastDistances(S, edges, origins, infinite) = d
  <1> DEFINE R == {v \in S : d[v] < infinite}
  <1>1. PICK within : LeastWithin(S, edges, origins, infinite, within)
    <2>1. infinite \in Int
      OBVIOUS
    <2> QED
      BY <2>1, WalksExist
  <1>2. ASSUME NEW k \in Nat, NEW v \in S
        PROVE  /\ within[k][v] \in Int /\ within[k + 1][v] \in Int
               /\ within[k + 1][v] <= within[k][v]
               /\ \A e \in edges : e.v = v /\ within[k][e.u] < infinite =>
                                    within[k + 1][v] <= within[k][e.u] + e.w
               /\ \/ within[k + 1][v] = within[k][v]
                  \/ \E e \in edges : /\ e.v = v /\ within[k][e.u] < infinite
                                       /\ within[k + 1][v] = within[k][e.u] + e.w
    <2>1. within[k] \in [S -> Int] /\ within[k + 1] = Longer(S, edges, infinite, within[k])
      BY <1>1 DEF LeastWithin
    <2>2. infinite \in Int
      OBVIOUS
    <2>3. LeastWay(edges, infinite, within[k], v, within[k + 1][v])
      BY <2>1, <2>2, LongerIs
    <2> QED
      BY <2>1, <2>3 DEF LeastWay
  <1>3. \A v \in S : within[0][v] = IF v \in origins THEN 0 ELSE infinite
    BY <1>1 DEF LeastWithin
  <1>4. edges \subseteq [u : S, v : S, w : Int]
    BY DEF EdgesOver
  <1>5. /\ \A v \in origins : d[v] = 0
        /\ \A e \in edges : d[e.u] < infinite => d[e.v] <= d[e.u] + e.w
    BY DEF NoShortcut
  <1>6. PICK p \in [S -> S], order \in [R -> Nat] :
          \A v \in R : /\ order[v] < Cardinality(R)
                       /\ \/ v \in origins
                          \/ /\ p[v] \in R /\ order[p[v]] < order[v]
                             /\ \E e \in edges : e.u = p[v] /\ e.v = v /\ d[v] = d[e.u] + e.w
    BY DEF WalksBack
  <1> HIDE DEF R
  <1>7. R \subseteq S /\ \A v \in S : v \in R <=> d[v] < infinite
    BY DEF R
  \* No walk is shorter.
  <1> DEFINE Below == {k \in Nat : \A v \in S : d[v] <= within[k][v]}
  <1>8. Nat \subseteq Below
    <2>1. 0 \in Below
      <3>1. ASSUME NEW v \in S PROVE d[v] <= within[0][v]
        <4>1. d[v] \in 0..infinite /\ within[0][v] = IF v \in origins THEN 0 ELSE infinite
          BY <1>3
        <4> QED
          BY <1>5, <4>1
      <3> QED
        BY <3>1
    <2>2. ASSUME NEW k \in Nat, k \in Below PROVE k + 1 \in Below
      <3>1. ASSUME NEW v \in S PROVE d[v] <= within[k + 1][v]
        <4>1. d[v] <= within[k][v]
          BY <2>2
        <4>2. CASE within[k + 1][v] = within[k][v]
          BY <4>1, <4>2
        <4>3. ASSUME NEW e \in edges, e.v = v, within[k][e.u] < infinite,
                     within[k + 1][v] = within[k][e.u] + e.w
              PROVE  d[v] <= within[k + 1][v]
          <5>1. e.u \in S /\ e.w \in Int
            BY <1>4
          <5>2. d[e.u] <= within[k][e.u]
            BY <2>2, <5>1
          <5>3. d[e.u] \in Int /\ d[v] \in Int /\ within[k][e.u] \in Int
            BY <1>2, <5>1
          <5> HIDE DEF Below
          <5>4. d[e.u] < infinite
            BY <4>3, <5>2, <5>3
          <5>5. d[v] <= d[e.u] + e.w
            BY <1>5, <4>3, <5>4
          <5> QED
            BY <4>3, <5>1, <5>2, <5>3, <5>5
        <4> QED
          BY <1>2, <4>2, <4>3
      <3> QED
        BY <3>1
    <2> HIDE DEF Below
    <2> QED
      BY <2>1, <2>2, InductiveSet
  \* And some walk is no longer: that along the predecessors.
  <1> DEFINE Above == {k \in Nat : /\ \A v \in S : within[k][v] <= infinite
                                   /\ \A v \in origins : within[k][v] <= 0
                                   /\ \A v \in R : order[v] <= k => within[k][v] <= d[v]}
  <1>9. Nat \subseteq Above
    <2>1. 0 \in Above
      <3>1. ASSUME NEW v \in S PROVE within[0][v] <= infinite /\ (v \in origins => within[0][v] <= 0)
        <4>1. within[0][v] = IF v \in origins THEN 0 ELSE infinite
          BY <1>3
        <4> QED
          BY <4>1
      <3>2. ASSUME NEW v \in R, order[v] <= 0 PROVE within[0][v] <= d[v]
        <4>1. v \in S /\ order[v] \in Nat
          BY <1>7
        <4>2. v \in origins
          <5>1. ASSUME p[v] \in R PROVE ~(order[p[v]] < order[v])
            <6>1. order[p[v]] \in Nat
              BY <5>1
            <6> QED
              BY <3>2, <4>1, <6>1
          <5> QED
            BY <1>6, <5>1
        <4>3. within[0][v] \in Int /\ d[v] = 0
          BY <1>2, <1>5, <4>1, <4>2
        <4> QED
          BY <3>1, <4>1, <4>2, <4>3
      <3> QED
        BY <3>1, <3>2
    <2>2. ASSUME NEW k \in Nat, k \in Above PROVE k + 1 \in Above
      <3>1. ASSUME NEW v \in S
            PROVE  within[k + 1][v] <= infinite /\ (v \in origins => within[k + 1][v] <= 0)
        <4>1. within[k][v] <= infinite /\ (v \in origins => within[k][v] <= 0)
          BY <2>2
        <4> HIDE DEF Above
        <4> QED
          BY <1>2, <4>1
      <3>2. ASSUME NEW v \in R, order[v] <= k + 1 PROVE within[k + 1][v] <= d[v]
        <4>1. v \in S /\ d[v] \in Int /\ order[v] \in Int
          BY <1>7
        <4>2. CASE v \in origins
          BY <1>5, <3>1, <4>1, <4>2
        <4>3. ASSUME p[v] \in R, order[p[v]] < order[v],
                     NEW e \in edges, e.u = p[v], e.v = v, d[v] = d[e.u] + e.w
              PROVE  within[k + 1][v] <= d[v]
          <5>1. e.u \in R /\ e.u \in S /\ e.w \in Int /\ order[e.u] \in Int
            BY <1>4, <1>7, <4>3
          <5>2. order[e.u] <= k
            BY <3>2, <4>1, <4>3, <5>1
          <5>3. within[k][e.u] <= d[e.u]
            BY <2>2, <5>1, <5>2
          <5>4. d[e.u] \in Int /\ d[e.u] < infinite
            BY <1>7, <5>1
          <5>5. within[k][e.u] \in Int /\ within[k + 1][v] \in Int
            BY <1>2, <4>1, <5>1
          <5> HIDE DEF Above
          <5>6. within[k][e.u] < infinite
            BY <5>3, <5>4, <5>5
          <5>7. within[k + 1][v] <= within[k][e.u] + e.w
            BY <1>2, <4>1, <4>3, <5>6
          <5> QED
            BY <4>3, <5>1, <5>3, <5>4, <5>5, <5>7
        <4> QED
          BY <1>6, <4>2, <4>3
      <3> QED
        BY <3>1, <3>2
    <2> HIDE DEF Above
    <2> QED
      BY <2>1, <2>2, InductiveSet
  <1> DEFINE k == Cardinality(S) - 1
  <1>10. k \in Nat /\ \A v \in R : order[v] <= k
    <2>1. Cardinality(S) \in Nat /\ Cardinality(S) # 0
      BY FS_EmptySet, FS_CardinalityType
    <2>2. Cardinality(R) \in Nat /\ Cardinality(R) <= Cardinality(S)
      BY <1>7, FS_Subset, FS_CardinalityType
    <2>3. ASSUME NEW v \in R PROVE order[v] <= k
      <3>1. order[v] \in Nat /\ order[v] < Cardinality(R)
        BY <1>6
      <3> QED
        BY <2>1, <2>2, <3>1
    <2> QED
      BY <2>1, <2>3
  <1> HIDE DEF k
  <1>11. ASSUME NEW v \in S PROVE within[k][v] = d[v]
    <2>1. within[k][v] \in Int /\ d[v] \in Int /\ d[v] <= infinite
      BY <1>2, <1>10
    <2>2. d[v] <= within[k][v] /\ within[k][v] <= infinite
      BY <1>8, <1>9, <1>10
    <2>3. v \in R => within[k][v] <= d[v]
      BY <1>9, <1>10
    <2>4. v \notin R => ~(d[v] < infinite)
      BY <1>7
    <2> HIDE DEF Below, Above
    <2> QED
      BY <2>1, <2>2, <2>3, <2>4
  <1>12. within[k] \in [S -> Int]
    BY <1>1, <1>10 DEF LeastWithin
  <1>13. within[k] = d
    <2> HIDE DEF Below, Above
    <2> QED
      BY <1>11, <1>12
  <1> QED
    BY <1>1, <1>13 DEF k, LeastWithin

\* When the call of the user returns, the distances are the least weights of walks from
\* the sources, infinite for the vertices no source reaches, and no edge of negative
\* weight that a source reaches has stayed unnoticed.
THEOREM DistancesAreShortest ==
  ASSUME FreshCall
  PROVE  Spec => []DistancesShortest
  <1> USE DijkstraAssumption
  <1>1. ASSUME IInv, caller = "user", pc = "returned", queue = EmptyBag, queued = {}
        PROVE  /\ distance = ShortestDistance
               /\ \A e \in graph : ShortestDistance[e.u] < Infinite => e.w >= 0
    <2>1. /\ TypeInv /\ Control /\ Finished /\ SourcesAtZero /\ Settled /\ Grounded
          /\ LazyQueue /\ IndexedQueue
      BY <1>1 DEF IInv, CoreInv
    <2>2. todo = {} /\ seeded = Len(sources)
      <3>1. ~(seeded < Len(sources)) /\ current = Unknown /\ todo = {}
        BY <1>1, <2>1 DEF Control
      <3>2. seeded \in 0..Len(sources) /\ Len(sources) \in Nat
        BY <2>1 DEF TypeInv
      <3> QED
        BY <3>1, <3>2
    <2>3. Waiting = {}
      <3>1. DOMAIN queue = {}
        BY <1>1 DEF EmptyBag, SetToBag
      <3> QED
        BY <1>1, <2>1, <3>1 DEF TypeInv, LazyQueue, IndexedQueue
    <2>4. /\ distance \in [Vertex -> 0..Infinite]
          /\ graph \subseteq [u : Vertex, v : Vertex, w : Int] /\ IsFiniteSet(graph)
      BY <2>1 DEF TypeInv
    <2>5. Examined = {v \in Vertex : distance[v] < Infinite}
      BY <2>1, <2>3 DEF Waiting, Finished, Examined
    <2>6. Origins \in SUBSET Vertex
      BY DEF Origins
    <2>7. \A v \in Origins : distance[v] = 0
      <3>1. DOMAIN sources = 1..seeded
        BY <2>1, <2>2 DEF TypeInv
      <3> QED
        BY <2>1, <3>1 DEF Origins, SourcesAtZero
    <2>8. \A e \in graph : distance[e.u] < Infinite => e.w >= 0 /\ distance[e.v] <= distance[e.u] + e.w
      <3>1. ASSUME NEW e \in graph, distance[e.u] < Infinite PROVE e.u \in Examined
        BY <2>4, <2>5, <3>1
      <3> QED
        BY <1>1, <2>1, <2>2, <3>1 DEF Settled
    <2>9. PICK order \in [Examined -> Nat] :
            \A v \in Examined :
              /\ order[v] < Cardinality(Examined)
              /\ \/ v \in Origins
                 \/ /\ predecessor[v] \in Examined /\ order[predecessor[v]] < order[v]
                    /\ \E e \in graph : /\ e.u = predecessor[v] /\ e.v = v
                                        /\ distance[v] = distance[e.u] + e.w
      BY <1>1, <2>1 DEF Grounded, ReachedVia
    <2>10. /\ Vertex # {} /\ IsFiniteSet(Vertex) /\ Infinite \in Nat
           /\ EdgesOver(Vertex, graph)
           /\ NoShortcut(graph, Origins, Infinite, distance)
      BY <2>4, <2>7, <2>8 DEF EdgesOver, NoShortcut
    <2>11. WalksBack(Vertex, graph, Origins, Infinite, distance)
      <3> DEFINE R == {v \in Vertex : distance[v] < Infinite}
      <3>1. predecessor \in [Vertex -> Vertex] /\ R = Examined
        BY <2>1, <2>5 DEF TypeInv
      <3> HIDE DEF R
      <3>2. \E p \in [Vertex -> Vertex], o \in [R -> Nat] :
              \A v \in R : /\ o[v] < Cardinality(R)
                           /\ \/ v \in Origins
                              \/ /\ p[v] \in R /\ o[p[v]] < o[v]
                                 /\ \E e \in graph : /\ e.u = p[v] /\ e.v = v
                                                     /\ distance[v] = distance[e.u] + e.w
        BY <2>9, <3>1
      <3> USE DEF R
      <3> QED
        BY <3>2, Zenon DEF WalksBack
    <2>12. LeastDistances(Vertex, graph, Origins, Infinite) = distance
      BY <2>4, <2>6, <2>10, <2>11, LeastAre
    <2> QED
      BY <2>8, <2>12 DEF ShortestDistance
  <1> DEFINE Emptied == pc = "returned" => queue = EmptyBag /\ queued = {}
  <1>2. ASSUME Init PROVE Emptied
    BY <1>2 DEF Init
  <1>3. ASSUME Emptied, IInv, [Next]_vars PROVE Emptied'
    <2>1. pc \in {"loop", "edges", "returned", "thrown"}
      BY <1>3 DEF IInv, CoreInv, TypeInv
    <2> QED
      BY <1>3, <2>1 DEF vars, common, Next, PushSource, InsertSource, SkipStale, ExamineEntry, ExamineTop,
        PushTarget, InsertTarget, KeepTarget, SeedThrows, RelaxThrows, Finish, Return, Seed, Examine,
        Relax, InLoop
  <1>4. IInv /\ Emptied => DistancesShortest
    BY <1>1 DEF DistancesShortest
  <1> HIDE DEF Emptied
  <1> QED
    BY <1>2, <1>3, <1>4, InvariantHolds, PTL DEF Spec
=============================================================================
