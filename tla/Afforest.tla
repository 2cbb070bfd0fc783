------------------------------ MODULE Afforest ------------------------------
(***************************************************************************)
(* afforest: connected components by union-find.  Rounds link each vertex  *)
(* with one neighbour; then a component is chosen whose vertices are       *)
(* skipped when the remaining edges are linked.  Both overloads: without   *)
(* and with the transposed graph.  A step is one iteration of the loop of  *)
(* link, of compress, or of a loop over the vertices.                      *)
(*                                                                         *)
(* sample_frequent_element may give the id of any vertex: nothing depends  *)
(* on which one it is.                                                     *)
(***************************************************************************)
EXTENDS Digraphs

CONSTANT N   \* num_vertices(g)

VARIABLES graph,      \* the adjacency list
          options,    \* rounds: neighbor_rounds; transposed: is g_t given?  mapped: is
                      \* component a hash map, which compress iterates in any order?
          start,      \* the vertex the loop over the vertices has come to
          component,  \* the union-find forest
          phase,
          round,      \* r
          skipped,    \* the component c
          links,      \* the calls of link to be made
          ends,       \* p1 and p2 in the call of link in progress
          todo        \* the vertices the running compress has not come to

input  == <<graph, options>>
vars   == <<input, start, component, phase, round, skipped, links, ends, todo>>

Vertices == 0..(N - 1)

Init == /\ start = 0
        /\ component = [v \in Vertices |-> v]
        /\ phase = "sample"
        /\ round = 0
        /\ skipped = N
        /\ links = <<>> /\ ends = <<>>
        /\ todo = {}

BeginLink == /\ ends = <<>> /\ links # <<>>
             /\ ends' = [i \in 1..2 |-> component[Head(links)[i]]]
             /\ links' = Tail(links)
             /\ UNCHANGED <<input, start, component, phase, round, skipped, todo>>

\* An iteration of the loop of link, or its end.
LinkStep ==
  /\ ends # <<>>
  /\ LET high == Max(ToSet(ends))
         low  == Min(ToSet(ends))
     IN  IF high = low \/ component[high] = low
         THEN ends' = <<>> /\ UNCHANGED component
         ELSE IF component[high] = high
         THEN ends' = <<>> /\ component' = [component EXCEPT ![high] = low]
         ELSE ends' = <<component[component[high]], component[low]>> /\ UNCHANGED component
  /\ UNCHANGED <<input, start, phase, round, skipped, links, todo>>

\* An iteration of compress.
CompressStep(v) ==
  /\ v \in todo
  /\ options.mapped \/ v = Min(todo)
  /\ component' = [component EXCEPT ![v] = component[@]]
  /\ todo' = todo \ {v}
  /\ UNCHANGED <<input, start, phase, round, skipped, links, ends>>

AtVertex == links = <<>> /\ ends = <<>> /\ todo = {} /\ start < N
AtLast   == links = <<>> /\ ends = <<>> /\ todo = {} /\ start = N

\* Phase 1: the round-th neighbour of the next vertex, and the end of a round.
SampleNeighbor ==
  /\ phase = "sample" /\ round < options.rounds /\ AtVertex
  /\ links' = IF round < Len(graph[start]) THEN <<<<start, graph[start][round + 1]>>>> ELSE <<>>
  /\ start' = start + 1
  /\ UNCHANGED <<input, component, phase, round, skipped, ends, todo>>

EndRound ==
  /\ phase = "sample" /\ AtLast
  /\ todo' = Vertices
  /\ round' = round + 1
  /\ start' = 0
  /\ UNCHANGED <<input, component, phase, skipped, links, ends>>

\* Phase 2.
ChooseSkipped(v) ==
  /\ phase = "sample" /\ round = options.rounds /\ AtVertex
  /\ skipped' = component[v]
  /\ phase' = "rest"
  /\ UNCHANGED <<input, start, component, round, links, ends, todo>>

\* The links of u that the rounds have not made.
RestOf(u) ==
  [i \in 1..(Len(graph[u]) - options.rounds) |-> <<u, graph[u][options.rounds + i]>>]
    \o IF options.transposed
       THEN SelectSeq([i \in 1..N |-> <<u, i - 1>>], LAMBDA l : u \in ToSet(graph[l[2]]))
       ELSE <<>>

\* Phase 3.
LinkRest ==
  /\ phase = "rest" /\ AtVertex
  /\ links' = IF component[start] = skipped THEN <<>> ELSE RestOf(start)
  /\ start' = start + 1
  /\ UNCHANGED <<input, component, phase, round, skipped, ends, todo>>

CompressAtEnd ==
  /\ phase = "rest" /\ AtLast
  /\ todo' = Vertices
  /\ phase' = "done"
  /\ UNCHANGED <<input, start, component, round, skipped, links, ends>>

Next == \/ BeginLink \/ LinkStep
        \/ \E v \in todo : CompressStep(v)
        \/ SampleNeighbor \/ EndRound
        \/ \E v \in Vertices : ChooseSkipped(v)
        \/ LinkRest \/ CompressAtEnd

Returned == phase = "done" /\ todo = {}

-----------------------------------------------------------------------------
(* Properties *)

\* The root of v's tree: parents are never greater than their children.
Root(v) == LET root[u \in Vertices] == IF component[u] >= u THEN u ELSE root[component[u]]
           IN  root[v]

\* Between any two iterations the components form a forest whose trees do not extend
\* beyond connected components.  When the call returns the trees are the connected
\* components, whichever one was skipped; and in a vector every vertex points to its
\* root.
ForestExact ==
  LET reach == [v \in Vertices |-> Reached(Symmetric(Successors(graph)), v)]
  IN  /\ \A v \in Vertices : component[v] <= v /\ component[v] \in reach[v]
      /\ Returned => \A u, v \in Vertices : Root(u) = Root(v) <=> v \in reach[u]
      /\ Returned /\ ~options.mapped => \A v \in Vertices : component[v] = Root(v)
=============================================================================
