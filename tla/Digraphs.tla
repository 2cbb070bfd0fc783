------------------------------ MODULE Digraphs ------------------------------
(***************************************************************************)
(* Reference definitions about directed graphs, against which the results  *)
(* of the algorithms are checked.  An adjacency list gives each vertex the *)
(* sequence of the targets of its edges; most definitions are about the    *)
(* sets of successors.  Weighted edges are records with source u, target v *)
(* and weight w.                                                           *)
(***************************************************************************)
EXTENDS Integers, SequencesExt, FiniteSetsExt

Successors(adj) == [u \in DOMAIN adj |-> {adj[u][i] : i \in DOMAIN adj[u]}]

\* All adjacency lists of the vertices in S with up to k edges.
AdjacencyLists(S, k) ==
  LET lists[i \in 0..k] ==
        IF i = 0 THEN {[v \in S |-> <<>>]}
        ELSE LET L == lists[i - 1]
             IN  L \cup {[g[1] EXCEPT ![g[2]] = Append(@, g[3])] : g \in L \X S \X S}
  IN  lists[k]

\* Every edge in both directions.
Symmetric(succ) == [u \in DOMAIN succ |-> succ[u] \cup {v \in DOMAIN succ : u \in succ[v]}]

\* The vertices that paths within S lead to from a vertex u of S.
ReachedWithin(succ, S, u) ==
  LET steps[k \in Nat] ==
        IF k = 0 THEN {u}
        ELSE steps[k - 1] \cup (S \cap UNION {succ[v] : v \in steps[k - 1]})
  IN  steps[Cardinality(S)]

Reached(succ, u) == ReachedWithin(succ, DOMAIN succ, u)

\* The strongly connected components; in a symmetric graph, the connected ones.
StrongComponents(succ) ==
  LET reach == [u \in DOMAIN succ |-> Reached(succ, u)]
  IN  {{v \in reach[u] : u \in reach[v]} : u \in DOMAIN succ}

ConnectedIn(succ, S) == \A u \in S : ReachedWithin(succ, S, u) = S

\* The vertices of a symmetric graph whose removal disconnects others.
CutVertices(succ) ==
  {v \in DOMAIN succ : LET C == Reached(succ, v) IN ~ConnectedIn(succ, C \ {v})}

\* Its largest sets of two vertices or more that are connected and stay so without
\* any one of their vertices.
Blocks(succ) ==
  LET biconnected == {S \in SUBSET DOMAIN succ :
                        /\ Cardinality(S) >= 2
                        /\ ConnectedIn(succ, S)
                        /\ \A v \in S : ConnectedIn(succ, S \ {v})}
  IN  {S \in biconnected : \A T \in biconnected : S \subseteq T => S = T}

-----------------------------------------------------------------------------
(* Orders of searches: what makes a sequence of vertices the beginning of one, *)
(* without reference to a queue or a stack.  Vertices that are not in the      *)
(* sequence count as later than those that are.                                *)

\* The graph without the out-edges of the vertices in P.
Pruned(succ, P) == [u \in DOMAIN succ |-> IF u \in P THEN {} ELSE succ[u]]

\* The positions of order from which an edge leads to v.
PositionsTo(succ, order, v) == {d \in DOMAIN order : v \in succ[order[d]]}

\* The pairs of positions a < b where an edge leads from a to a vertex later than b.
Overtaken(succ, order) ==
  {p \in (DOMAIN order) \X (DOMAIN order) :
     /\ p[1] < p[2]
     /\ \E w \in succ[order[p[1]]] : \A i \in 1..p[2] : order[i] # w}

\* Each vertex once, and each but the first after one that leads to it.
Connects(succ, order) ==
  /\ IsInjective(order)
  /\ \A b \in DOMAIN order \ {1} : \E d \in PositionsTo(succ, order, order[b]) : d < b

BreadthFirst(succ, order) ==
  /\ Connects(succ, order)
  /\ \A p \in Overtaken(succ, order) : \E d \in PositionsTo(succ, order, order[p[2]]) : d <= p[1]

DepthFirst(succ, order) ==
  /\ Connects(succ, order)
  /\ \A p \in Overtaken(succ, order) :
       \E d \in PositionsTo(succ, order, order[p[2]]) : p[1] <= d /\ d < p[2]

\* The number of edges on a shortest path from u to v, which is reached.
Distance(succ, u, v) ==
  LET within[k \in Nat] ==
        IF k = 0 THEN {u} ELSE within[k - 1] \cup UNION {succ[w] : w \in within[k - 1]}
  IN  CHOOSE k \in 0..Cardinality(DOMAIN succ) :
        v \in within[k] /\ \A j \in 0..(k - 1) : v \notin within[j]

\* A vertex of S leads back to itself.
CyclicWithin(succ, S) == \E u \in S : \E v \in succ[u] \cap S : u \in ReachedWithin(succ, S, v)

\* Every edge between vertices of order leads forward.
Topological(succ, order) ==
  /\ IsInjective(order)
  /\ \A a, b \in DOMAIN order : order[b] \in succ[order[a]] => a < b

\* The calls of a visitor that tell it of one kind of event, in their order: SelectSeq
\* as a function.
OfKind(calls, event) ==
  LET these[i \in 0..Len(calls)] ==
        IF i = 0 THEN <<>>
        ELSE LET before == these[i - 1]
             IN  IF calls[i].on = event THEN Append(before, calls[i]) ELSE before
  IN  these[Len(calls)]

\* The targets that are not in seen, each once, in their order.
Discoveries(targets, seen) ==
  LET found[k \in 0..Len(targets)] ==
        IF k = 0 THEN <<>>
        ELSE LET before == found[k - 1]
             IN  IF targets[k] \in seen \cup ToSet(before) THEN before ELSE Append(before, targets[k])
  IN  found[Len(targets)]

-----------------------------------------------------------------------------
(* Shortest paths, negative cycles and minimum spanning forests. *)

SuccessorsIn(S, edges) == [x \in S |-> {e.v : e \in {f \in edges : f.u = x}} \cap S]

TotalWeight(edges) == MapThenSumSet(LAMBDA e : e.w, edges)

\* The least weight of a walk from one of the origins with fewer edges than there
\* are vertices.
LeastDistances(S, edges, origins, infinite) ==
  LET within[k \in Nat] ==
        IF k = 0 THEN [v \in S |-> IF v \in origins THEN 0 ELSE infinite]
        ELSE [v \in S |->
                Min({within[k - 1][v]} \cup
                    {within[k - 1][e.u] + e.w :
                       e \in {f \in edges : f.v = v /\ within[k - 1][f.u] < infinite}})]
  IN  within[Cardinality(S) - 1]

\* Cycles, each as the sequence of its edges; no longer than the number of vertices.
CyclesIn(S, edges) ==
  {c \in UNION {[1..k -> edges] : k \in 1..Cardinality(S)} :
     \A i \in DOMAIN c : c[i].v = c[(i % Len(c)) + 1].u}

NegativeCycles(S, edges) ==
  {c \in CyclesIn(S, edges) : MapThenSumSet(LAMBDA i : c[i].w, DOMAIN c) < 0}

\* The sets of vertices of S that the edges, taken both ways, connect.
ComponentsIn(S, edges) == StrongComponents(Symmetric(SuccessorsIn(S, edges)))

\* The forest connects the same vertices of S as the edges and has no cycle.
SpanningForest(S, edges, forest) ==
  LET components == ComponentsIn(S, edges)
  IN  /\ forest \subseteq edges
      /\ Cardinality(forest) = Cardinality(S) - Cardinality(components)
      /\ ComponentsIn(S, forest) = components

\* The weight of a minimum spanning forest, by looking at all sets of as many edges.
LeastWeight(S, edges) ==
  LET components == ComponentsIn(S, edges)
      size       == Cardinality(S) - Cardinality(components)
      forests    == {F \in SUBSET edges : Cardinality(F) = size /\ ComponentsIn(S, F) = components}
  IN  Min({TotalWeight(F) : F \in forests})
=============================================================================
