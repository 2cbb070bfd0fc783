--------------------------- MODULE Biconnectivity ---------------------------
(***************************************************************************)
(* articulation_points and biconnected_components: the same search, which  *)
(* skips the tree edge seen from the child.  The one writes each cut       *)
(* vertex once, when the first child that cannot reach above it is         *)
(* finished, or for a root when its tree is.  For the other the edges of a *)
(* component are those above and at the tree edge to such a child.         *)
(***************************************************************************)
EXTENDS LowpointSearch, Digraphs

VARIABLES parent,      \* the parent in the search tree, None for a root
          childCount,  \* articulation_points: child_count
          output,      \* what cut_vertices has received
          edgeStack,   \* biconnected_components: edge_stk
          components   \* the output: the vertex sets found so far

cuts   == <<childCount, output>>
blocks == <<edgeStack, components>>

None == N

Init == /\ SearchInit
        /\ parent = [v \in Vertices |-> None]
        /\ childCount = [v \in Vertices |-> 0]
        /\ output = <<>>
        /\ edgeStack = <<>>
        /\ components = <<>>

Frame(v) == [uid |-> v, it |-> 1, parentSkipped |-> FALSE]

StartTree == /\ AtRoot
             /\ disc[start] = Unvisited
             /\ Discover(start)
             /\ frames' = <<Frame(start)>>
             /\ UNCHANGED <<graph, start, parent>>

SelfLoop == /\ AtEdge
            /\ Target = Top.uid
            /\ frames' = Resumed
            /\ UNCHANGED <<graph, start, disc, low, timer, parent>>

TreeEdge == /\ AtEdge
            /\ Target # Top.uid /\ disc[Target] = Unvisited
            /\ Discover(Target)
            /\ frames' = Append(Resumed, Frame(Target))
            /\ parent' = [parent EXCEPT ![Target] = Top.uid]
            /\ UNCHANGED <<graph, start>>

\* The first edge back to the parent is the tree edge; a second one is parallel to it.
IsReverse == parent[Top.uid] # None /\ Target = parent[Top.uid] /\ ~Top.parentSkipped

AtVisited == AtEdge /\ Target # Top.uid /\ disc[Target] # Unvisited

SkipReverse == /\ AtVisited /\ IsReverse
               /\ frames' = [Resumed EXCEPT ![Len(frames)].parentSkipped = TRUE]
               /\ UNCHANGED <<graph, start, disc, low, timer, parent>>

BackEdge == /\ AtVisited /\ ~IsReverse
            /\ frames' = Resumed
            /\ low' = Lowered(Top.uid, disc[Target])
            /\ UNCHANGED <<graph, start, disc, timer, parent>>

Backtrack == AtEnd /\ Pop /\ UNCHANGED <<graph, disc, timer, parent>>

-----------------------------------------------------------------------------
(* articulation_points *)

CountChild == /\ TreeEdge
              /\ childCount' = [childCount EXCEPT ![Top.uid] = @ + 1]
              /\ UNCHANGED output

\* Is u, the parent of the finished top frame, a cut vertex?  If u is a root, this
\* is asked when the whole tree is finished.
IsCut(u) == parent[u] # None /\ low[Top.uid] >= disc[u]

Emit(v) == output' = IF v \in ToSet(output) THEN output ELSE Append(output, v)

FindCut ==
  /\ Backtrack
  /\ CASE Len(frames) > 1 /\ IsCut(Last(Front(frames)).uid) -> Emit(Last(Front(frames)).uid)
       [] Len(frames) = 1 /\ childCount[start] >= 2         -> Emit(start)
       [] OTHER                                             -> UNCHANGED output
  /\ UNCHANGED childCount

CutNext == \/ StartTree /\ UNCHANGED cuts
           \/ SkipVisited /\ UNCHANGED <<parent, cuts>>
           \/ SelfLoop /\ UNCHANGED cuts
           \/ CountChild
           \/ (SkipReverse \/ BackEdge) /\ UNCHANGED cuts
           \/ FindCut

-----------------------------------------------------------------------------
(* biconnected_components *)

\* A vertex without edges is a component; its low-link is not set.
LabelIsolated == /\ AtRoot
                 /\ disc[start] = Unvisited
                 /\ graph[start] = <<>>
                 /\ components' = Append(components, {start})
                 /\ disc' = [disc EXCEPT ![start] = timer]
                 /\ timer' = timer + 1
                 /\ start' = start + 1
                 /\ UNCHANGED <<graph, frames, low, parent, edgeStack>>

StartBlocks == AtRoot /\ graph[start] # <<>> /\ StartTree /\ UNCHANGED blocks

PushTreeEdge == /\ TreeEdge
                /\ edgeStack' = Append(edgeStack, <<Top.uid, Target>>)
                /\ UNCHANGED components

\* Mutant of PushesEdge: an edge to a descendant is pushed a second time.
PushesEdgeTwice == TRUE

\* An edge to a descendant was pushed when it was seen from there.
PushesEdge == disc[Target] < disc[Top.uid]

PushBackEdge == /\ BackEdge
                /\ edgeStack' = IF PushesEdge THEN Append(edgeStack, <<Top.uid, Target>>) ELSE edgeStack
                /\ UNCHANGED components

\* flush_component: the edges from the tree edge to v upwards; v has one tree edge.
Flush(v) ==
  LET bottom == SelectLastInSeq(edgeStack, LAMBDA e : e = <<parent[v], v>>)
  IN  /\ components' = Append(components,
                              UNION {ToSet(edgeStack[i]) : i \in bottom..Len(edgeStack)})
      /\ edgeStack' = SubSeq(edgeStack, 1, bottom - 1)

FindBlock ==
  /\ Backtrack
  /\ IF Len(frames) > 1 /\ low[Top.uid] >= disc[parent[Top.uid]]
     THEN Flush(Top.uid)
     ELSE UNCHANGED blocks

BlockNext == \/ LabelIsolated \/ StartBlocks
             \/ SkipVisited /\ UNCHANGED <<parent, blocks>>
             \/ (SelfLoop \/ SkipReverse) /\ UNCHANGED blocks
             \/ PushTreeEdge \/ PushBackEdge
             \/ FindBlock

-----------------------------------------------------------------------------
(* Properties *)

\* When articulation_points returns the output is the cut vertices, each once.
CutVerticesExact ==
  SearchReturned => /\ ToSet(output) = CutVertices(Successors(graph))
                    /\ Cardinality(ToSet(output)) = Len(output)

\* The edge stack holds the tree edge of every frame but the first, so that the loop
\* of flush_component finds where to stop.  When the call returns it is empty, and the
\* output is the largest biconnected sets and the vertices without edges, each once.
BlocksExact ==
  /\ \A i \in 2..Len(frames) : <<frames[i - 1].uid, frames[i].uid>> \in ToSet(edgeStack)
  /\ SearchReturned =>
       /\ edgeStack = <<>>
       /\ ToSet(components) = Blocks(Successors(graph)) \cup {{v} : v \in {u \in Vertices : graph[u] = <<>>}}
       /\ Cardinality(ToSet(components)) = Len(components)
=============================================================================
