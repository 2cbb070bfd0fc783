------------------------ MODULE ConnectedComponents ------------------------
(***************************************************************************)
(* kosaraju and connected_components, which share a header and keep their  *)
(* ids alike.  kosaraju makes two passes over the graph, the second        *)
(* against the edges, once through the transposed graph and once through   *)
(* in_edges; connected_components searches from each vertex that has no id *)
(* yet, along the out-edges only.  A step is one iteration of a while loop.*)
(***************************************************************************)
EXTENDS Digraphs

CONSTANT N   \* num_vertices(g)

VARIABLES graph,      \* the adjacency list
          start,      \* the vertex the outer loop (of the first pass) has come to
          visited,
          stack,      \* the stack of the first pass: vertex and children_visited
          order,      \* the finish order; the second pass takes vertices from its end
          component,  \* component(g, v)
          cid,        \* the next component id
          pending     \* dfs_stack of the second pass; the stack S

vars == <<graph, start, visited, stack, order, component, cid, pending>>

Vertices == 0..(N - 1)
None     == N   \* numeric_limits<CT>::max()

Init == /\ start = 0
        /\ visited = [v \in Vertices |-> FALSE]
        /\ stack = <<>>
        /\ order = <<>>
        /\ component = [v \in Vertices |-> None]
        /\ cid = 0
        /\ pending = <<>>

-----------------------------------------------------------------------------
(* kosaraju *)

secondPass == <<component, cid, pending>>
Push(v)    == [v |-> v, childrenVisited |-> FALSE]

SkipVisited == /\ stack = <<>> /\ start < N
               /\ visited[start]
               /\ start' = start + 1
               /\ UNCHANGED <<graph, visited, stack, order, secondPass>>

StartFinishOrder == /\ stack = <<>> /\ start < N
                    /\ ~visited[start]
                    /\ visited' = [visited EXCEPT ![start] = TRUE]
                    /\ stack' = <<Push(start)>>
                    /\ UNCHANGED <<graph, start, order, secondPass>>

\* The unvisited targets of u, each once, in the order of u's edges.
Unvisited(u) == Discoveries(graph[u], {v \in Vertices : visited[v]})

\* The children are marked as they are pushed.
PushChildren ==
  /\ stack # <<>> /\ ~Last(stack).childrenVisited
  /\ LET u        == Last(stack).v
         children == Unvisited(u)
     IN  /\ stack' = Front(stack) \o <<[v |-> u, childrenVisited |-> TRUE]>>
                                  \o [i \in DOMAIN children |-> Push(children[i])]
         /\ visited' = [v \in Vertices |-> visited[v] \/ v \in ToSet(children)]
  /\ UNCHANGED <<graph, start, order, secondPass>>

RecordFinish == /\ stack # <<>> /\ Last(stack).childrenVisited
                /\ order' = Append(order, Last(stack).v)
                /\ stack' = Front(stack)
                /\ UNCHANGED <<graph, start, visited, secondPass>>

InSecondPass == start = N /\ stack = <<>>
firstPass    == <<graph, start, visited, stack>>

SkipLabelled == /\ InSecondPass /\ pending = <<>> /\ order # <<>>
                /\ component[Last(order)] # None
                /\ order' = Front(order)
                /\ UNCHANGED <<firstPass, secondPass>>

StartTree == /\ InSecondPass /\ pending = <<>> /\ order # <<>>
             /\ component[Last(order)] = None
             /\ pending' = <<Last(order)>>
             /\ component' = [component EXCEPT ![Last(order)] = cid]
             /\ UNCHANGED <<firstPass, order, cid>>

\* The sources of v's in-edges that have no component yet.
Sources(v) == SelectSeq([i \in 1..N |-> i - 1],
                        LAMBDA u : component[u] = None /\ v \in ToSet(graph[u]))

\* Mutant of FollowBack: the sources are numbered and not followed.
FollowBackOnce ==
  /\ pending # <<>>
  /\ LET sources == Sources(Last(pending))
     IN  /\ component' = [v \in Vertices |-> IF v \in ToSet(sources) THEN cid ELSE component[v]]
         /\ pending' = Front(pending)
  /\ IF pending' = <<>> THEN cid' = cid + 1 /\ order' = Front(order)
                        ELSE UNCHANGED <<cid, order>>
  /\ UNCHANGED firstPass

\* An iteration of the second pass; the last one of a tree ends it.
FollowBack ==
  /\ pending # <<>>
  /\ LET sources == Sources(Last(pending))
     IN  /\ component' = [v \in Vertices |-> IF v \in ToSet(sources) THEN cid ELSE component[v]]
         /\ pending' = Front(pending) \o sources
  /\ IF pending' = <<>> THEN cid' = cid + 1 /\ order' = Front(order)
                        ELSE UNCHANGED <<cid, order>>
  /\ UNCHANGED firstPass

KosarajuNext == \/ SkipVisited \/ StartFinishOrder \/ PushChildren \/ RecordFinish
                \/ SkipLabelled \/ StartTree \/ FollowBack

KosarajuReturned == InSecondPass /\ order = <<>>

-----------------------------------------------------------------------------
(* connected_components *)

AtVertex == pending = <<>> /\ start < N

PassLabelled == /\ AtVertex
                /\ component[start] # None
                /\ start' = start + 1
                /\ UNCHANGED <<graph, component, cid, pending>>

LabelIsolated == /\ AtVertex
                 /\ component[start] = None
                 /\ graph[start] = <<>>
                 /\ component' = [component EXCEPT ![start] = cid]
                 /\ cid' = cid + 1
                 /\ start' = start + 1
                 /\ UNCHANGED <<graph, pending>>

StartSearch == /\ AtVertex
               /\ component[start] = None
               /\ graph[start] # <<>>
               /\ component' = [component EXCEPT ![start] = cid]
               /\ pending' = <<start>>
               /\ UNCHANGED <<graph, start, cid>>

\* The targets of v without id, each once, in the order of v's edges.
Unlabelled(v) == Discoveries(graph[v], {w \in Vertices : component[w] # None})

\* An iteration of the search; the last one ends it.
Follow ==
  /\ pending # <<>>
  /\ LET found == Unlabelled(Last(pending))
     IN  /\ component' = [w \in Vertices |-> IF w \in ToSet(found) THEN cid ELSE component[w]]
         /\ pending' = Front(pending) \o found
  /\ IF pending' = <<>> THEN cid' = cid + 1 /\ start' = start + 1
                        ELSE UNCHANGED <<cid, start>>
  /\ UNCHANGED graph

ComponentsNext == /\ PassLabelled \/ LabelIsolated \/ StartSearch \/ Follow
                  /\ UNCHANGED <<visited, stack, order>>

ComponentsReturned == start = N

-----------------------------------------------------------------------------
(* Properties of kosaraju *)

\* "Vertices in the same SCC have the same component ID": between two trees of the
\* second pass a strongly connected component is numbered as a whole or not at all,
\* and the ids in use are those below cid.
SameComponentSameId ==
  pending = <<>> =>
    /\ \A C \in StrongComponents(Successors(graph)) : \A u, v \in C : component[u] = component[v]
    /\ {component[v] : v \in Vertices} \ {None} = 0..(cid - 1)

\* "Each DFS tree in this pass corresponds to exactly one SCC."
EachTreeOneComponent ==
  \A c \in 0..(cid - 1) :
    {v \in Vertices : component[v] = c} \in StrongComponents(Successors(graph))
=============================================================================
