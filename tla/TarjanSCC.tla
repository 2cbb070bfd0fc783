----------------------------- MODULE TarjanSCC -----------------------------
(***************************************************************************)
(* tarjan_scc: strongly connected components in one depth-first search.    *)
(***************************************************************************)
EXTENDS LowpointSearch, Digraphs

VARIABLES sccStack,   \* the discovered vertices that have no component yet
          onStack,    \* on_stack
          component,  \* component(g, v)
          cid         \* the next component id

tarjan == <<sccStack, onStack, component, cid>>
vars   == <<search, tarjan>>

\* numeric_limits<CT>::max(): greater than every id.
None == N

Init == /\ SearchInit
        /\ sccStack = <<>>
        /\ onStack = [v \in Vertices |-> FALSE]
        /\ component = [v \in Vertices |-> None]
        /\ cid = 0

Enter(v) == /\ Discover(v)
            /\ sccStack' = Append(sccStack, v)
            /\ onStack' = [onStack EXCEPT ![v] = TRUE]
            /\ UNCHANGED <<graph, start, component, cid>>

StartTree == /\ AtRoot
             /\ disc[start] = Unvisited
             /\ frames' = <<[uid |-> start, it |-> 1]>>
             /\ Enter(start)

TreeEdge == /\ AtEdge
            /\ disc[Target] = Unvisited
            /\ frames' = Append(Resumed, [uid |-> Target, it |-> 1])
            /\ Enter(Target)

\* Mutant of Lowers: edges to finished components count too.
LowersAlways(v) == TRUE

Lowers(v) == onStack[v]

VisitedEdge == /\ AtEdge
               /\ disc[Target] # Unvisited
               /\ frames' = Resumed
               /\ low' = IF Lowers(Target) THEN Lowered(Top.uid, disc[Target]) ELSE low
               /\ UNCHANGED <<graph, start, disc, timer, tarjan>>

\* The vertices on the stack from u upwards.
Above(u) == {sccStack[i] : i \in SelectInSeq(sccStack, LAMBDA v : v = u)..Len(sccStack)}

Backtrack ==
  /\ AtEnd
  /\ Pop
  /\ IF disc[Top.uid] = low[Top.uid]
     THEN LET scc == Above(Top.uid)
          IN  /\ sccStack' = SubSeq(sccStack, 1, Len(sccStack) - Cardinality(scc))
              /\ onStack' = [v \in Vertices |-> onStack[v] /\ v \notin scc]
              /\ component' = [v \in Vertices |-> IF v \in scc THEN cid ELSE component[v]]
              /\ cid' = cid + 1
     ELSE UNCHANGED tarjan
  /\ UNCHANGED <<graph, disc, timer>>

Next == \/ StartTree
        \/ SkipVisited /\ UNCHANGED tarjan
        \/ TreeEdge
        \/ VisitedEdge
        \/ Backtrack

-----------------------------------------------------------------------------
(* Properties *)

\* Between any two iterations the stack is what the low-links presume: its vertices
\* are those discovered and not numbered, in order of discovery; each low-link is
\* the discovery time of a vertex on the stack that the vertex reaches; every vertex
\* on the stack reaches one of the current path that is not younger; and from those
\* with a component no edge leads back to vertices without.
LowLinksOnStack ==
  LET reach == [v \in Vertices |-> Reached(Successors(graph), v)]
      Path  == {frames[i].uid : i \in DOMAIN frames}
  IN  /\ \A v \in Vertices : onStack[v] <=> disc[v] # Unvisited /\ component[v] = None
      /\ {v \in Vertices : onStack[v]} = {sccStack[i] : i \in DOMAIN sccStack}
      /\ \A i, j \in DOMAIN sccStack : i < j => disc[sccStack[i]] < disc[sccStack[j]]
      /\ \A v \in Vertices : onStack[v] =>
           /\ \E w \in reach[v] : onStack[w] /\ low[v] = disc[w] /\ disc[w] <= disc[v]
           /\ \E w \in Path \cap reach[v] : disc[w] <= disc[v]
      /\ \A v \in Vertices : component[v] # None => \A w \in reach[v] : component[w] # None
=============================================================================
