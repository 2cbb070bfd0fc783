---------------------------- MODULE MCComponents ----------------------------
(***************************************************************************)
(* The component algorithms, and those about neighbourhoods, on all small  *)
(* graphs: the first state chooses an algorithm and a graph it is meant    *)
(* for.                                                                    *)
(***************************************************************************)
EXTENDS Digraphs

CONSTANTS N,           \* the number of vertices
          MaxEdges,    \* bound: the edges of a graph; one less for afforest
          MaxRounds,   \* bound: neighbor_rounds of afforest
          MaxIters,    \* bound: max_iters of label_propagation
          MaxVotes,    \* bound: the edges of its graph, which has N - 1 vertices
          Algorithms   \* those to be checked

ASSUME ComponentsAssumption == N \in Nat /\ MaxEdges \in Nat /\ MaxVotes \in Nat

VARIABLES algorithm, graph, start,
          frames, disc, low, timer,                                \* LowpointSearch
          sccStack, onStack,                                       \* TarjanSCC
          visited, stack, order,                                   \* ConnectedComponents
          component, cid, pending,                                 \* both
          parent, childCount, output, edgeStack, components,       \* Biconnectivity
          options, forest, phase, round, skipped, links, ends, todo, \* Afforest
          seed, stage, chosen, removed,                            \* IndependentSet
          sentinel, initial, label, iter, waiting, changed,        \* LabelPropagation
          position, triangles, reported                            \* TriangleCount

Tarjan       == INSTANCE TarjanSCC
Connected    == INSTANCE ConnectedComponents
Biconnected  == INSTANCE Biconnectivity
Forest       == INSTANCE Afforest WITH component <- forest
Independent  == INSTANCE IndependentSet WITH phase <- stage
Propagation  == INSTANCE LabelPropagation WITH
                  N <- N - 1, Labels <- {1, 2, 3}, Empty <- 0, todo <- waiting, phase <- stage
Triangles    == INSTANCE TriangleCount

Vertices == 0..(N - 1)

\* All those in which every edge was added to the lists of both ends.
UndirectedLists(k) ==
  LET lists[i \in 0..k] ==
        IF i = 0 THEN {[v \in Vertices |-> <<>>]}
        ELSE LET L == lists[i - 1]
             IN  L \cup {[[g[1] EXCEPT ![g[2]] = Append(@, g[3])] EXCEPT ![g[3]] = Append(@, g[2])] :
                           g \in L \X Vertices \X Vertices}
  IN  lists[k]

\* All those without parallel edges, in ascending order.
Ascending   == {s \in UNION {[1..k -> Vertices] : k \in 0..N} :
                  \A i, j \in 1..Len(s) : i < j => s[i] < s[j]}
SimpleLists == [Vertices -> Ascending]

GoBothWays(adj) == \A u, v \in Vertices : (\E i \in DOMAIN adj[u] : adj[u][i] = v)
                                       <=> (\E i \in DOMAIN adj[v] : adj[v][i] = u)
Undirected  == {adj \in SimpleLists : GoBothWays(adj)}
LoopsAt(adj) == {v \in Vertices : \E i \in DOMAIN adj[v] : adj[v][i] = v}

\* Graphs for label_propagation, and the labels before the call: the graphs of N - 1
\* vertices, each with its targets in ascending order, which make no difference.
VotingLists ==
  {[v \in 0..(N - 2) |-> adj[v]] :
     adj \in {a \in AdjacencyLists(Vertices, MaxVotes) :
               \A v \in Vertices : \A i \in DOMAIN a[v] :
                  /\ v < N - 1 /\ a[v][i] < N - 1
                  /\ i > 1 => a[v][i - 1] <= a[v][i]}}
InitialLabels == {f \in [0..(N - 2) -> 0..3] : \A v \in DOMAIN f : f[v] <= v + 1}

NoOptions == [rounds |-> 0, transposed |-> FALSE, mapped |-> FALSE]

Init ==
  /\ algorithm \in Algorithms
  /\ IF algorithm = "afforest"
     THEN options \in [rounds : 0..MaxRounds, transposed : BOOLEAN, mapped : BOOLEAN]
     ELSE options = NoOptions
  /\ graph \in CASE algorithm \in {"tarjan_scc", "kosaraju"} -> AdjacencyLists(Vertices, MaxEdges)
                  [] algorithm \in {"connected_components", "articulation_points", "biconnected_components"} ->
                       UndirectedLists(MaxEdges)
                  [] algorithm = "afforest" /\ options.transposed  -> AdjacencyLists(Vertices, MaxEdges - 1)
                  [] algorithm = "afforest" /\ ~options.transposed -> UndirectedLists(MaxEdges - 1)
                  [] algorithm = "label_propagation" -> VotingLists
                  [] algorithm = "directed_triangle_count" -> {adj \in SimpleLists : adj[N - 1] = <<>>}
                  [] OTHER -> Undirected
  /\ Tarjan!Init /\ Connected!Init
  /\ Biconnected!Init /\ Forest!Init
  /\ IF algorithm = "label_propagation"
     THEN initial \in InitialLabels /\ sentinel \in BOOLEAN /\ Propagation!Init
     ELSE /\ initial = <<>> /\ sentinel = FALSE /\ label = <<>> /\ iter = 0 /\ waiting = {} /\ changed = FALSE
          /\ stage = "seed"
  /\ IF algorithm = "maximal_independent_set"
     THEN seed \in Vertices /\ LoopsAt(graph) \subseteq {seed} ELSE seed = 0
  /\ chosen = <<>> /\ removed = {}
  /\ Triangles!Init

lowpoint   == <<frames, disc, low, timer>>
firstPass  == <<visited, stack, order>>
labels     == <<component, cid>>
tree       == <<parent, childCount, output, edgeStack, components>>
unionFind  == <<forest, phase, round, skipped, links, ends, todo>>
choosing   == <<stage, chosen, removed>>
voting     == <<sentinel, initial, label, iter, waiting, changed>>
counting   == <<position, triangles, reported>>
local      == <<choosing, voting, counting>>
global     == <<lowpoint, sccStack, onStack, firstPass, labels, pending, tree, unionFind>>
vars       == <<algorithm, graph, start, seed, options, global, local>>

Counting == {"triangle_count", "directed_triangle_count", "jaccard_coefficient"}

Next ==
  /\ UNCHANGED <<algorithm, options, seed>>
  /\ \/ /\ algorithm = "tarjan_scc" /\ Tarjan!Next
        /\ UNCHANGED <<firstPass, pending, tree, unionFind, local>>
     \/ /\ algorithm = "kosaraju" /\ Connected!KosarajuNext
        /\ UNCHANGED <<lowpoint, sccStack, onStack, tree, unionFind, local>>
     \/ /\ algorithm = "connected_components" /\ Connected!ComponentsNext
        /\ UNCHANGED <<lowpoint, sccStack, onStack, tree, unionFind, local>>
     \/ /\ algorithm = "articulation_points" /\ Biconnected!CutNext
        /\ UNCHANGED <<sccStack, onStack, firstPass, labels, pending, edgeStack, components, unionFind, local>>
     \/ /\ algorithm = "biconnected_components" /\ Biconnected!BlockNext
        /\ UNCHANGED <<sccStack, onStack, firstPass, labels, pending, childCount, output, unionFind, local>>
     \/ /\ algorithm = "afforest" /\ Forest!Next
        /\ UNCHANGED <<lowpoint, sccStack, onStack, firstPass, labels, pending, tree, local>>
     \/ /\ algorithm = "maximal_independent_set" /\ Independent!Next
        /\ UNCHANGED <<global, voting, counting>>
     \/ /\ algorithm = "label_propagation" /\ Propagation!Next
        /\ UNCHANGED <<start, global, chosen, removed, counting>>
     \/ /\ algorithm \in Counting /\ Triangles!Next
        /\ UNCHANGED <<global, choosing, voting>>

Spec == Init /\ [][Next]_vars

\* One thread executes the call without waiting.
FairSpec == Spec /\ WF_vars(Next)

-----------------------------------------------------------------------------
(* Properties *)

Numbering == algorithm \in {"tarjan_scc", "connected_components"}

Labelling == INSTANCE ComponentLabelling WITH
               None      <- N,
               count     <- IF Numbering THEN cid ELSE 0,
               component <- [v \in DOMAIN graph |-> IF Numbering /\ component[v] < cid
                                                THEN component[v] ELSE N]

\* tarjan_scc and connected_components number whole components, one after another;
\* tarjan_scc in reverse topological order.  An id counts as given once the search of
\* its component has ended.
ImplementsComponentLabelling == Labelling!Spec

\* tarjan_scc: what the low-links say of the stack is true after every iteration.
LowLinksOnStack == algorithm = "tarjan_scc" => Tarjan!LowLinksOnStack

\* kosaraju tears no strongly connected component apart, the trees of afforest's forest
\* become the connected components, articulation_points gives the cut vertices and
\* biconnected_components the blocks.
ComponentsExact == CASE algorithm = "kosaraju"               -> Connected!SameComponentSameId
                     [] algorithm = "afforest"               -> Forest!ForestExact
                     [] algorithm = "articulation_points"    -> Biconnected!CutVerticesExact
                     [] algorithm = "biconnected_components" -> Biconnected!BlocksExact
                     [] OTHER                                -> TRUE

\* kosaraju: no two strongly connected components are merged.
EachTreeOneComponent == algorithm = "kosaraju" => Connected!EachTreeOneComponent

\* maximal_independent_set, label_propagation, triangle_count, directed_triangle_count
\* and jaccard_coefficient give what their neighbourhoods define.
NeighbourhoodsExact ==
  CASE algorithm = "maximal_independent_set" -> Independent!IndependentAndMaximal
    [] algorithm = "label_propagation"       -> Propagation!LabelsSettled
    [] algorithm \in Counting                -> Triangles!CountsExact
    [] OTHER                                 -> TRUE

Returned == CASE algorithm = "kosaraju"             -> Connected!KosarajuReturned
              [] algorithm = "connected_components" -> Connected!ComponentsReturned
              [] algorithm = "afforest"             -> Forest!Returned
              [] algorithm = "maximal_independent_set" -> Independent!Returned
              [] algorithm = "label_propagation"    -> Propagation!Returned
              [] algorithm \in Counting             -> Triangles!Returned
              [] OTHER                              -> Tarjan!SearchReturned

\* Every call returns.
AllReturn == <>Returned
=============================================================================
