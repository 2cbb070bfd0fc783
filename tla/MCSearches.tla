----------------------------- MODULE MCSearches -----------------------------
(***************************************************************************)
(* The searches and the search views on all small graphs: the first state  *)
(* chooses one of them, a graph and its arguments.  Vertex 0 is the seed   *)
(* where there is one: the set of graphs is closed under renumbering.      *)
(***************************************************************************)
EXTENDS Digraphs

CONSTANTS N,            \* the number of vertices
          MaxEdges,     \* bound: the edges of a graph; one less for topological orders and
                        \* several sources
          MaxSources,   \* bound: the sources of a call
          CancelTwice,  \* see BfsViews
          Searches      \* those to be checked

ASSUME SearchesAssumption == /\ N \in Nat \ {0} /\ MaxEdges \in Nat \ {0} /\ MaxSources \in Nat
                             /\ CancelTwice \in BOOLEAN

VARIABLES search, graph, seed,
          calls,                                                 \* both algorithms
          sources, at, next,                                     \* BreadthFirstSearch
          color, given, finishOrder, returned, result,           \* DepthFirstSearch
          queue, visited, stack, cancel, count, visits, pruned,  \* the views
          maxDepth, skip, edge, begun, yields,
          detect, root, onPath, postOrder, cycle, phase, index, position, walked  \* TopologicalViews

Bfs      == INSTANCE BreadthFirstSearch
Dfs      == INSTANCE DepthFirstSearch
BfsView  == INSTANCE BfsViews
DfsView  == INSTANCE DfsViews
TopoView == INSTANCE TopologicalViews

Vertices == 0..(N - 1)

\* Sequences of up to MaxSources different vertices.
SourceLists == {s \in UNION {[1..n -> Vertices] : n \in 0..MaxSources} :
                  \A i, j \in DOMAIN s : s[i] = s[j] => i = j}

AllVertices == [i \in 1..N |-> i - 1]

Init ==
  /\ search \in Searches
  /\ seed = 0
  /\ graph \in AdjacencyLists(Vertices, IF search \in {"depth_first_search", "bfs_views", "dfs_views"}
                               THEN MaxEdges ELSE MaxEdges - 1)
  /\ given \in CASE search = "breadth_first_search" -> SourceLists
                 [] search = "topological_sort"     -> SourceLists \cup {AllVertices}
                 [] OTHER                           -> {<<>>}
  /\ yields \in IF search \in {"bfs_views", "dfs_views", "topological_views"} THEN {"vertices", "edges"} ELSE {"vertices"}
  /\ detect \in IF search = "topological_views" THEN BOOLEAN ELSE {FALSE}
  /\ sources = given
  /\ Bfs!Init /\ Dfs!Init
  /\ BfsView!Init /\ DfsView!Init /\ TopoView!Init

arguments == <<search, seed, given, yields, detect>>
bfsOnly   == <<at, next>>
sorted    == <<finishOrder, returned, result>>
bfsDepths == <<maxDepth, skip>>
edges     == <<edge, begun>>
views     == <<cancel, count, visits, pruned>>
ordering  == <<root, onPath, postOrder, cycle, phase, index, position, walked>>
vars      == <<arguments, graph, calls, sources, bfsOnly, color, sorted, queue, visited, stack, views,
               bfsDepths, edges, ordering>>

Next ==
  /\ UNCHANGED arguments
  /\ \/ /\ search = "breadth_first_search" /\ Bfs!Next
        /\ UNCHANGED <<color, sorted, stack, views, bfsDepths, edges, ordering>>
     \/ /\ search = "depth_first_search" /\ Dfs!SearchNext
        /\ UNCHANGED <<sources, bfsOnly, sorted, queue, visited, views, bfsDepths, edges, ordering>>
     \/ /\ search = "topological_sort" /\ Dfs!SortNext
        /\ UNCHANGED <<calls, bfsOnly, queue, visited, views, bfsDepths, edges, ordering>>
     \/ /\ search = "bfs_views" /\ BfsView!Next
        /\ UNCHANGED <<calls, sources, bfsOnly, color, sorted, stack, ordering>>
     \/ /\ search = "dfs_views" /\ DfsView!Next
        /\ UNCHANGED <<calls, sources, bfsOnly, color, sorted, queue, bfsDepths, ordering>>
     \/ /\ search = "topological_views" /\ TopoView!Next
        /\ UNCHANGED <<calls, sources, bfsOnly, color, sorted, queue, visits, pruned, bfsDepths, edges>>

Spec == Init /\ [][Next]_vars

\* One thread executes an algorithm without waiting, and a caller that has begun to
\* iterate over a view goes on; it need not cancel.
Proceed ==
  CASE search = "breadth_first_search" -> Bfs!Next
    [] search = "depth_first_search"   -> Dfs!SearchNext
    [] search = "topological_sort"     -> Dfs!SortNext
    [] search = "bfs_views"            -> BfsView!Make \/ BfsView!Advance
    [] search = "dfs_views"            -> DfsView!Make \/ DfsView!AdvanceCancelled \/ DfsView!Advance
    [] search = "topological_views"    -> TopoView!Construct \/ TopoView!Begin \/ TopoView!Advance

FairSpec == Spec /\ WF_vars(Next /\ Proceed)

-----------------------------------------------------------------------------
(* Properties *)

IsView == search \in {"bfs_views", "dfs_views"}

ViewEnded == CASE search = "bfs_views" -> BfsView!AtEnd
               [] search = "dfs_views" -> DfsView!AtEnd
               [] OTHER                -> FALSE

Promised == INSTANCE PrunedSearch WITH
              ended  <- ViewEnded,
              cancel <- IF IsView THEN cancel ELSE "continue_search",
              visits <- IF IsView THEN visits ELSE <<>>

\* breadth_first_search, depth_first_search and their views visit in their order what
\* the caller has left to be searched.
SearchInOrder ==
  CASE search = "breadth_first_search" -> Bfs!CallsInOrder /\ Bfs!AllReached
    [] search = "depth_first_search"   -> Dfs!DiscoveredInOrder /\ Dfs!WhitePaths
    [] search = "bfs_views"            -> BfsView!VisitsInOrder
    [] search = "dfs_views"            -> DfsView!VisitsInOrder
    [] OTHER                           -> TRUE

\* The depths and counts the views report are those of the search as pruned so far.
DepthsExact ==
  CASE search = "bfs_views" -> BfsView!DepthsExact
    [] search = "dfs_views" -> DfsView!DepthsExact
    [] OTHER                -> TRUE

\* depth_first_search classifies the edges.
EdgesClassified == search = "depth_first_search" => Dfs!EdgesClassified

\* topological_sort and the views of topological orders.
OrdersExact == /\ search = "topological_sort" => Dfs!OrderExact
               /\ search = "topological_views" => TopoView!WalkExact

\* A view visits, up to where it is cancelled altogether, the vertices reached without
\* passing one at which the search was cancelled, each once.
ImplementsPrunedSearch == Promised!Spec

\* Every call returns, and every view ends for a caller that goes on.
SearchesEnd ==
  <>CASE search = "breadth_first_search" -> Bfs!Returned
      [] search = "depth_first_search"   -> Dfs!SearchReturned
      [] search = "topological_sort"     -> Dfs!SortReturned
      [] search = "topological_views"    -> TopoView!Ended
      [] OTHER                           -> ViewEnded
=============================================================================
