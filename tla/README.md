# Verification of graph-v3

TLA+ models of graph-v3, a header-only C++20 library of graph containers, views
and algorithms (`include/graph`), the TLC runs that check them on small
instances, and theorems about them that the TLA+ proof system (TLAPS) checks for
every value of the constants. Source references in the modules and in
`PROJECT.json` are to the files of the repository.

1. [The system](#the-system)
2. [Modules](#modules)
3. [Runs](#runs)
4. [Proofs](#proofs)
5. [Disagreements between code and documentation](#disagreements-between-code-and-documentation)
6. [What is not modelled](#what-is-not-modelled)
7. [Plan](#plan)

## The system

The library is single-threaded: nothing waits, nothing is concurrent, nothing is
persisted. What makes it hard is

- state kept in several places at once (links in two lists, cached counters,
  positions in a heap, starts of rows, incoming copies of outgoing edges), where a
  long sequence of legal calls may let one place fall behind another;
- loops that go on with an iterator taken before they changed the structure;
- calls that throw in the middle and leave what they did so far;
- callbacks: a visitor runs user code in the middle of an algorithm and sees its
  state;
- algorithms that are right only because of the order of their steps;
- ids: `remove_vertex` renumbers every higher vertex in every stored copy.

### Components

| Component | State | Operations | Hard behaviour | Correct when |
|---|---|---|---|---|
| `undirected_adjacency_list` | edge objects, each threaded through two intrusive lists by an *inward* and an *outward* link; per vertex a head, a tail and a cached degree; `edges_size_` | construction from lists and ranges, `add_vertex`, `add_edge`, five ways to erase edges, `remove_vertex`, `resize_vertices`, `clear`, copy, swap, move | which of two links belongs to a list is decided by comparing ids; erasing while iterating; renumbering by iteration; self-loops | both lists of every edge consistent, no pointer to a freed edge, degrees, count and ids right |
| `compressed_graph` | row index, column index, values, vertex values, partition table | constructors, `load_vertices`, `load_edges`, `load`, `clear` | sources without edges, ids only seen as targets, an unordered range found halfway, loads in any order | rows monotone; the edges of a row are the edges given for it; partitions agree with `partition_id` |
| `dynamic_graph` | vertices with containers of edges (8 combinations of vertex numbering, uniqueness and direction), `edge_count_` | constructors, `load_vertices`, `load_edges`, `add_edge`, `remove_edge`, `add_vertex`, `remove_vertex`, `resize_vertices`, `clear` | incoming copies; edges keyed by an id that changes; exceptions in the middle | outgoing and incoming edges mirror each other, ids exist, counts right, sets keep one edge per target |
| `adjacency_matrix` | a flag and a value per cell, a count | construction, `add_edge` | two cells of one undirected edge; the count kept by hand | the rows are what was added |
| graph functions (customization points), descriptors, property maps | none of their own | about 40 functions, each with up to four tiers: member of the edge, of the graph, friend, default | the tiers, ids that are not positions, incoming edges, wrapped graphs | all of them describe the same graph |
| basic views, `transpose_view`, `filtered_graph`, edge lists | an iterator | begin, dereference, increment, size | vertices without edges; which function of a wrapped graph is found | every vertex or edge once, in order, with its values |
| generators | locals of one call | ten generators | random draws, rejected ones, loops that give up | edges in range, sorted, as many and of the kind promised |
| I/O | the text read so far | writers and readers of six formats | lines matched by position, what a writer leaves out | what was written is read again |
| indexed d-ary heap with a position map | array of keys, slot of each key | `push`, `pop`, `decrease`, `push_or_decrease`, `contains`, `clear` | "hole-style" sift loops leave a copy and an outdated position behind | heap order; map and array inverse; `top` is least |
| Dijkstra (lazy queue and indexed heap), `prim` as its caller | distances, predecessors, queue | one call, many callbacks | stale queue entries, ties, zero and negative weights, several sources | distances shortest, each vertex examined once and in order, negative weights noticed; the tree of `prim` of least weight |
| Bellman-Ford | distances, predecessors, the round | one call | early end, the last pass | distances shortest, or a negative cycle noticed |
| `kruskal`, `inplace_kruskal` | disjoint sets, the tree so far | one call | path compression, union by rank, equal weights | sets are the components so far; the forest spans and is of least weight |
| `tarjan_scc`, `kosaraju` | search stack, discovery times, low-links, component ids | one call | low-links and the stack must stay in step; kosaraju needs the finish order of a depth-first search | ids are the strongly connected components, in the promised order |
| `connected_components`, `afforest` | search stack; union-find forest | one call | afforest skips a component and must find its edges from the other end | ids are the connected components |
| `articulation_points`, `biconnected_components` | the same search, child counts, a stack of edges | one call | roots, parallel edges, when to pop the edges of a block | output is the cut vertices, the blocks |
| `maximal_independent_set`, `label_propagation` | removed vertices; labels | one call | the order of vertices, ties | the set is independent and maximal; labels agree with a majority |
| triangle counts, Jaccard | two merged ranges, counters | one call | each triangle or pair exactly once | counts by definition |
| BFS, DFS, topological sort | colours or visited marks, queue or stack | one call, callbacks | order of events, cycles, several sources | every reachable vertex once, in order; edges classified; orders topological or refused |
| search views | the same, kept between increments of an iterator | construction, `begin`, `++`, `cancel` | cancelling a branch between two increments | what is left after cancelling, and nothing else |
| concepts, traits, pipe adaptors, visitor detection | none | selection at compile time | types only | not modelled |

### How they interact

Algorithms and views read a container through the graph functions and never
change it; they keep their state in property maps of the caller. An algorithm
therefore sees a graph as a fixed adjacency list: its model takes *all* small
graphs as initial states. That what a container hands out is such a list is shown
in two steps: the container models show what is stored after any sequence of calls,
`GraphFunctions` with `BasicViews` that all functions agree on it. The interactions
with state on both sides are

- Dijkstra and the heap: Dijkstra owns the distances that the heap compares, and
  must announce each improvement with `decrease`. The heap's contract is
  `PriorityQueue`: `IndexedDaryHeap` is shown to implement it, the indexed version in
  `Dijkstra` to use it only as it allows (`ObeysQueue`), so the two compose. `prim` calls
  Dijkstra's loop with its own weight function; its model is `Dijkstra` with another
  caller.
- The containers and their callers: `erase_edge` and `remove_edge` hand out
  iterators that callers go on with (`cursor` in `UndirectedAdjacencyList`).
- `compressed_graph` and `dynamic_graph` and the ranges they load from: a load is
  a loop that may throw between two elements. What a generator returns is given to
  the constructor of `compressed_graph` (`ConstructGenerated` in `MCContainers`).
- A search view and its caller, who cancels between two increments of the iterator.

`PROJECT.json` lists every component with its status, and the hazards of the code
at the line where each bites, with the properties that would show it going wrong.

## Modules

Each module translates the files named in the `map` of `PROJECT.json`, definition
by definition.

| Module | Models | State ↔ code |
|---|---|---|
| `UndirectedAdjacencyList` | `undirected_adjacency_list` | `live` = allocated edge objects, `id` = the two stored endpoint ids, `mem` = `next_`/`prev_` of both links and head, tail, `size_` per vertex, `n`, `edges_size_`, `call` = the call whose loop is running, `cursor` = the iterator last handed out, `fault` = a null or freed pointer was followed |
| `UndirectedAdjacencyListCopy` | the container as a value: constructors, copy, swap, move assignment, `resize_vertices` | the graph is replaced by another one, built by `add_edge` in the order the constructor meets the edges; `leaked` = edges that nobody frees |
| `UndirectedMultigraph` | what the class promises: a multigraph with an ordered incidence sequence per vertex | abstract |
| `UndirectedAdjacencyList_proofs` | theorems | |
| `CompressedGraph` | `compressed_graph` | `rows` = `row_index_`, `cols` = `col_index_`, `partition`, the load that is running |
| `OutEdgeLists` | a vertex count and a sequence of out-edges per vertex | abstract |
| `DynamicGraph` | `dynamic_graph` | `edges`, `inEdges`, `edgeCount`, `traits` = the kinds of containers |
| `DirectedMultigraph` | a set of vertices and a bag of edges | abstract |
| `DynamicGraph_proofs` | theorems | |
| `AdjacencyMatrix` | `adjacency_matrix` | the two planes `flags`, `cells`, the `count`, the edges still to be added |
| `GraphFunctions` | the graph functions with their tiers, on graphs of nine kinds | a graph is a record of the members of its kind; `Offers` says which functions it has of its own |
| `BasicViews` | the views that walk a graph or an edge list | `view` = what was begun, `cursor` = its iterator, `yielded` |
| `Generators` | `generators/*.hpp` | the locals of the generator; draws are choices |
| `GraphFiles` | `io/*.hpp` | `document` = lines, statements, tags or objects; `at`, `where` = where the reader is |
| `IndexedDaryHeap` | `detail/indexed_dary_heap.hpp` and the position maps | `heap`, `position` as in the code, `sift` = the locals of a running sift loop |
| `PriorityQueue` | what the heap promises | abstract |
| `IndexedDaryHeap_proofs` | theorems | |
| `Dijkstra` | the two versions of `dijkstra_shortest_paths` and what they share, called by the user or by `prim` | `distance`, `predecessor`, the queue, the vertex examined with its edges `todo`, how often each visitor event was called |
| `ShortestPaths` | settling vertices in order of their distance | abstract |
| `Dijkstra_proofs` | theorems | |
| `BellmanFord` | `bellman_ford_shortest_paths` | the round, the next edge, whether the round relaxed one |
| `Kruskal` | `kruskal`, `inplace_kruskal` and their disjoint sets | `parent`, `rank`, the edges left, the tree |
| `BreadthFirstSearch`, `DepthFirstSearch` | the algorithms; the second also `topological_sort`, which searches in the same way | queue or stack, marks, and `calls` = what the visitor was told |
| `BfsViews`, `DfsViews`, `TopologicalViews` | the search views | the state shared by the iterators, `cancel`, and `visits` = the elements so far |
| `PrunedSearch` | what a search with cancelled branches visits | abstract |
| `LowpointSearch` | the search that three algorithms share | `frames`, `disc`, `low`, `timer` |
| `TarjanSCC`, `Biconnectivity` | the algorithms built on it: `tarjan_scc`; `articulation_points` and `biconnected_components`, which share their steps | their arrays and stacks |
| `ConnectedComponents`, `Afforest` | `kosaraju` and `connected_components`; `afforest` | their arrays and stacks; the union-find forest |
| `IndependentSet`, `LabelPropagation`, `TriangleCount` | the algorithms about neighbourhoods | their arrays and counters |
| `Digraphs` | reachability, components, cut vertices, blocks, least distances, spanning forests and negative cycles by definition | reference definitions |
| `ComponentLabelling` | numbering whole components one after another | abstract |
| `MCComponents_proofs` | theorems about `tarjan_scc`, `connected_components` and the algorithms about neighbourhoods | |
| `DepthFirstSearch_proofs` | theorems about `depth_first_search` and the depth-first views, lemmas about the search of `topological_sort` | |
| `MCSearches_proofs` | theorems about the search views, their orders and depths, the topological orders and `breadth_first_search` | |
| `GraphLemmas` | what the proofs share: least elements, iteration and induction over the naturals, reachability, adjacency lists, orders and layers of searches | |
| `MCContainers`, `MCDijkstra`, `MCComponents`, `MCSearches` | choose the graphs, the arguments and the algorithm for TLC | |

**Granularity.** A call that is one pass of straight-line code is one action. A
loop has one action per iteration wherever its intermediate states matter: the
erasing loops and `clear` of the adjacency list, the sift loops, each edge of a
load, each line or object that a reader takes, each edge relaxed and each visitor
callback of Dijkstra, each iteration of the searches and component algorithms, each
increment of a view. Constructors of the adjacency list are one action: nobody sees
the graph before they return, and an exception in the middle is an action of its own.
Invariants therefore hold *between iterations*, where a
callback, a comparison or a throwing element runs code of the user, and not only
between calls.

**Pointers.** Edge objects are model values and `NULL` is another. Freed memory is
never read in a correct run: following a pointer that does not lead to a live
object sets `fault`, which stops the model.

**Abstracted data.** Allocator calls, names and the C++ type machinery are left out.
Edges carry a value where parallel edges must be told apart; the weights that
generators draw are left out. The order of edges is kept wherever something promised
depends on it (`UndirectedAdjacencyList`, `CompressedGraph`, the functions, views and
searches), and left open in `DynamicGraph` and `Dijkstra`. A random draw is a choice
among the values it can take, so that a property of a generator holds for every seed.
A file is the sequence of its lines, statements, tags or objects, each with the fields
that readers look at; the characters of a token matter only where a reader cuts a text
at the wrong one (`PlainTexts`). Sums of weights are exact: see *what is not modelled*.

**Mutants.** Definitions commented "Mutant of ..." stand before the definition they
vary, the way a plausible error in the code would. No behaviour uses them. For
each property of a passing run there is one that TLC must refute.

## Runs

Run with `tlc -config X.cfg M` in this directory.

| Run | Module, cfg | Instance | States |
|---|---|---|---|
| `ual` | `UndirectedAdjacencyList`, `UAL.cfg` | 3 edge objects, 3 vertices, no self-loops | 57,361 |
| `ual_copy` | `UndirectedAdjacencyListCopy`, `UALCopy.cfg` | 3 edge objects, 3 vertices, self-loops, edges symmetric | 6,003 |
| `heap` | `IndexedDaryHeap`, `Heap.cfg` | 5 keys, 3 children per slot, distances 0..2 | 231,923 |
| `dijkstra` | `MCDijkstra`, `Dijkstra.cfg` | weights -1, 0, 2; Dijkstra in both versions: graphs of 3 connected vertices and an isolated one, 3 edges, 2 sources; `prim`: 4 edges; Bellman-Ford: 3 edges, weights -1, 2; both `kruskal`s: 4 ids, lists of 4 edges in either direction, self-loops in those of 3, weights 0, 2 | 1,412,185 |
| `containers` | `MCContainers`, `Containers.cfg` | `dynamic_graph`: 4 edge values, 3 vertices, 4 edges, all 8 kinds; `compressed_graph`: ids 0..2, ranges of 2 edges, 9 partition tables; `adjacency_matrix`: 3 vertices, 4 calls; files of 3 vertices and 3 edges in 7 formats; generators up to 4 vertices; functions and views: 9 kinds of graphs, 3 vertices, 2 arcs | 1,853,717 |
| `components` | `MCComponents`, `Components.cfg` | all graphs of 4 vertices and up to 4 edges (afforest: 3), self-loops and parallel edges included; independent sets and triangles: all simple graphs of 4 vertices; labels: 3 vertices, 3 edges, 2 iterations | 1,933,128 |
| `searches` | `MCSearches`, `Searches.cfg` | all graphs of 4 vertices and up to 4 edges (topological orders and BFS from several sources: 3), up to 2 sources | 981,265 |

### What they show, and why the bounds are enough

**`ual`**: after every iteration of every call, the lists are doubly linked in both
directions (`ListsLinked`), iterating a vertex passes exactly its edges and its
degree counts them (`ListsComplete`), `edges_size_` counts the objects
(`EdgesCounted`), no freed pointer is followed (`NoFault`). `ImplementsMultigraph`
relates the pointers to sequences: order of insertion is kept, each call erases exactly
the edges it names, `remove_vertex` closes the gap in the numbering. `CallsReturn`:
every call ends. Three edges are the least number with an edge that has two neighbours
in a list; three vertices the least where a list mixes inward and outward links of
edges to different vertices, and where `remove_vertex` renumbers an edge that stays.
That larger graphs behave the same is not left to the bound: all but
termination is proved (below).

**`ual_copy`**: the container as a value. Self-loops are allowed, but of the calls that
erase only those that erase whole vertices, which unlink a self-loop together with its
neighbours: no pointer is left to a freed edge (`NoDanglingPointer`), also in a graph
that took part in a swap, an assignment or a construction that threw. A
graph made from a list or a range has exactly the edges given, in the order in
which the constructor adds them (`MadeAsGiven`). A copy holds the edges whose stored
source id is not the greater one (`CopyKeepsOrderedEdges`).

**`heap`**: one slot of the ternary heap has all its children and one slot has
fewer; sifts of two levels occur in both directions. Three distances give ties
and strict orders.
`PositionsExact` and `HeapOrdered` say what is true between two iterations;
`ImplementsQueue` says that nothing is lost or duplicated by the copies the loops
make and that `pop` takes a least key. Proved for every arity and size.

**`dijkstra`**: every graph with the shape that distinguishes the cases: a detour
that improves a queued vertex, ties, zero weights, self-loops, parallel edges,
an unreachable part, an invalid source, a negative edge, which ends in the exception.
`QueueMatchesDistances` says which queue entries are stale; `PredecessorsTight` and
`DistancesShortest` hold the result, and the settled part during the call, to the
definition. `ImplementsShortestPaths`: vertices are settled in the order of their
distance, each once. All four are proved for every graph. `ObeysQueue`: the indexed version pushes only absent and
decreases only present vertices. `AnswersExact`: Bellman-Ford returns a vertex if and
only if a negative cycle can be reached, and else leaves the shortest distances; `prim` and
`kruskal` give trees of least weight; the disjoint sets are at each step the
components of the edges met so far. The lists of `kruskal` are those of which not only the
first edge ends at the greatest id (see further disagreements). Three vertices with a negative edge are the least
with a negative cycle that is neither a self-loop nor reached at once; four ids the least
where two sets of two are united, which is where the rank decides.

**`containers`**: subjects that share nothing but the run: the first state chooses one.
- `dynamic_graph`: `InEdgesMirror` and the counts of `ContainersExact` hold between any
  two edges of a load, of which the second may throw, and after every sequence of
  mutations; `ImplementsDirectedMultigraph`. Three vertices are the least number in
  which renumbering makes an edge move past another one. The edge values are
  symmetric: they are only compared.
- `compressed_graph`: rows before the first source, between two and after the last
  one without edges; ids that are only targets; empty and unordered ranges; loads after
  loads and after an exception; partition tables that are accepted and that are
  refused for each reason. `ContainersExact`: every edge is found in the row of its
  source with its value, partitions agree. `ImplementsOutEdgeLists`: each step appends
  to one list, resizes, or empties.
- `adjacency_matrix`: the last value added to a pair is the one kept, both cells of an
  undirected edge agree, the count is that of the cells (`ContainersExact`).
- Graph functions: on each of nine kinds of graphs, a vector of vectors, a map, the four
  containers, a transposed, a filtered one and a list of edges, `FunctionsExact`
  compares every function with the arcs the graph was made of: whichever tier answers, a
  function by id agrees with the one by descriptor, degrees with the edges listed,
  searches with both. What the wrapped kinds get wrong is not in it but in the
  list of disagreements (`EndsExact`).
- Basic views: `ViewsExact` says, at each increment, that what was yielded is a prefix
  of what the graph holds, with the value of each element, all of it at the end. Vertices
  without edges come first, last and in between.
- Files: `FilesRoundTrip` for every graph, in every format a writer and a reader exist
  for, and for the formats that are only read, from the document the reader is made for.
- Generators: `GeneratedTaken` says that all edges are in range and in the order that
  `compressed_graph` expects, as many and of the kind the generator's
  comment promises, and that the container then holds exactly them.

Constructors that have thrown, failed assertions and readers that are done stop, so
deadlock is not an error here.

**`components`**: every graph of 4 vertices and up to 4 edges holds the shapes the
algorithms tell apart: a cycle with a tail, two blocks at one cut vertex, a root
with one and with two subtrees, parallel edges to the parent, an edge into a
finished component, a component that is skipped while its edges point in. Results are
compared with definitions by reachability (`ComponentsExact` with `Digraphs`),
`LowLinksOnStack` says what is true of the low-links in the middle of the search, and
`ImplementsComponentLabelling` also fixes the order of numbering. The choice of the
sampled component in afforest is open, so the result is right whichever it skips.
`NeighbourhoodsExact`: the set is independent and no vertex can be added; when
`label_propagation` stops by itself, each label is one that most neighbours have;
triangles are counted once each, in graphs of up to 4 triangles; every edge is reported
with its coefficient. The calls end, so deadlock is not an error.

**`searches`**: the same graphs. `SearchInOrder`: the visitor is told of vertices in the
order of a breadth-first or a depth-first search, at most once each, and at the
end of all that can be reached. `DepthsExact`: the depths and counts that the
views report are those of the search as pruned so far, for breadth-first the least
numbers of edges. `EdgesClassified`: the edges announced as
tree edges span what was reached, those announced as back edges lead to an ancestor, and
without them there is no cycle. `OrdersExact`: an order is given if and only if the
part that is searched has no cycle, and then each edge goes forward in it; what the cycle
detection names is on a cycle. `ImplementsPrunedSearch`: when the caller cancels a branch
or all between two increments, the view visits what can be reached from the seed without
the cancelled vertices' edges, and nothing twice. Four edges on four vertices give cycles
with a tail, diamonds, and a vertex that a cancelled and another branch both reach.
`SearchesEnd` also covers views.

### Runs that find a violation

| Run | Property | What happens |
|---|---|---|
| `ual_self_loop` | `NoDanglingPointer` | erasing a self-loop that is last in its list leaves a pointer to the freed edge in its predecessor |
| `ual_copy_all` | `CopyKeepsAllEdges` | a copy loses the edges added from the greater to the lesser id |
| `files_metis` | `FilesRoundTrip` | a METIS file with a vertex without edges has an empty line, which the reader skips: all later vertices get their predecessor's edges |
| `kosaraju_trees` | `EachTreeOneComponent` | for 0→1, 0→2, 2→1 vertices 1 and 2 get one id, though 1 does not reach 2 |
| `searches_cancel_twice` | `ImplementsPrunedSearch` | a second branch cancelled in `edges_bfs` before the search came to the first: the first is searched after all |

### Constants that restrict the passing runs

The passing runs leave out exactly what the violating runs and the list of
disagreements are about. Each restriction is a constant of its module:

| Constant | In the passing run | Otherwise |
|---|---|---|
| `SelfLoops` (`UndirectedAdjacencyList`) | `FALSE` in `ual` | `ual_self_loop` |
| `KnownVertices` (`CompressedGraph`) | vertices given with edges are named by them | `RowsMonotone` fails: `load_vertices` after `load_edges` with higher ids appends rows behind the terminating one |
| `EdgesFirst` (`CompressedGraph`) | `FALSE`: loads in any order | `TRUE` keeps the run of `RowsMonotone` short |
| `SourcesExist` (`DynamicGraph`) | callers name existing sources | `InEdgesMirror` fails: `add_edge` throws after it has added the in-edge |
| `Grows` (`DynamicGraph`) | `resize_vertices` only grows | edges to vertices that are gone |
| `Isolated` (`GraphFiles`) | graphs written as METIS have no vertex without neighbours | `files_metis` |
| `Uniform` (`GraphFiles`) | all vertices, and all edges, have the attributes of the first | GraphML names attributes by the first one's |
| `PlainTexts` (`GraphFiles`) | values are texts the format carries | DOT and JSON lose or cut them |
| `EnoughVertices` (`Generators`) | `barabasi_albert` has at least as many vertices as its clique | edges to vertices ≥ `n` |
| `DistinctSources` (`Dijkstra`) | no source given twice | a vertex is examined twice; the heap's rule is broken |
| `Initialised` (`Dijkstra`) | all distances infinite at the call | unreachable vertices keep their old distance |
| `CancelTwice` (`BfsViews`) | a branch is not cancelled while another one is to be skipped | `searches_cancel_twice` |

Two more restrictions are guards of an initial state or an action: a graph given to
`maximal_independent_set` has a self-loop at its seed only (`MCComponents`), and
`resize_vertices` of the adjacency list drops only vertices without edges
(`UndirectedAdjacencyListCopy`). Both are under *further disagreements*.

### Fairness

One thread executes each call without waiting and nothing can disable the next
iteration of a loop, so weak fairness of the continuation of a call is what the
machine gives: `WF_vars(Continue)` for the adjacency list, `WF_vars(Sift)` for the
heap, `WF_vars(Next)` for an algorithm, which is a single call. In `MCSearches` it is
`WF_vars(Next /\ Proceed)`: a caller that iterates over a view goes on, and need not
cancel anything. That a user *begins* a call is never assumed. Termination
(`CallsReturn`, `SiftsEnd`, `Terminates`, `AllReturn`, `SearchesEnd`) is not given by
fairness alone: an iteration that does not advance violates it, as the mutants show.
`label_propagation` ends because of `max_iters`; without it two labels may alternate, so
nothing is claimed of that.

## Proofs

TLAPS checks 28,190 obligations. No theorem depends on the bounds of a run.
`GraphLemmas` holds what several proofs need: least elements, that a recursive
function over the naturals exists, and induction as the absence of a least
counterexample, as the provers cannot instantiate the induction theorems of the library;
that `ReachedWithin`, which is defined by a number of rounds, is the least set closed
under successors (`Reachability`), so no proof about a search goes through the rounds
again; what `AdjacencyLists`, `Discoveries` and `FlattenSeq` are; and what the proofs about
searches need of calls, orders and layers alone, without the state of a search.

### Heap (`IndexedDaryHeap_proofs`)

Assumptions: `HeapAssumption` (a finite non-empty set of keys, at least two children
per slot, any greatest distance).

- `Invariant`, `PositionsStayExact`, `HeapStaysOrdered`: the inductive invariant is
  `TypeOK /\ PositionsExact /\ HeapOrdered`. The order is not inductive alone:
  `decrease` begins at the slot the position map names, and lowering the distance of a
  key changes one slot only because no key is in two. The last part of
  `HeapOrdered`, "the parent of the hole is not greater than the
  hole's children", is what lets one iteration re-establish the premise of the next.
- `TopStaysLeast`: when no loop is running the root is least. An order that holds
  from each parent to its child is carried to the root along a strictly decreasing
  sequence of slots. There is no induction on the slots: the argument takes the least
  slot that is a counterexample, and its parent is a smaller one.
- `Refinement`: the heap implements `PriorityQueue`, with the set of queued keys as
  the refinement mapping. Steps of the sift loops are stuttering steps: the key held
  aside counts as being in its hole.

### Adjacency list (`UndirectedAdjacencyList_proofs`)

Assumptions: `UALAssumption`, and `SelfLoops = FALSE` in each theorem: with
self-loops the statement is false (`ual_self_loop`).

- `InductiveInvariant`: `IInv == GraphInv /\ CallInv /\ CursorInv`.
- From it `TypeCorrect`, `ListsStayLinked`, `ListsStayComplete`,
  `EndpointsStayInRange`, `EdgesStayCounted`, `MemorySafe`, `NoPointerDangles`,
  `IteratorsStayLive`.
- `Refinement`: the pointers implement `UndirectedMultigraph`.

The invariants the run checks are not inductive. That links agree in both
directions does not exclude a cycle that iteration never reaches, so `GraphInv` adds
`Ordered`: the edges can be numbered so that every list is in increasing order, which
states acyclicity without recursion. (Adding an edge gives it the greatest number;
erasing keeps the numbers.) `unlink` takes out one end of an
edge and then the other; in between one end is in a list and the other is not, so
the lemmas are about link *ends* (`Linked(m, i, L, V)` for a set `L` of ends), once for
`LinkBack` and once for `Unlink`, and an edge operation uses them twice. `CallInv` says what
a loop relies on: the edge it stands on is of its vertex, and its end is still ahead;
`clear` has emptied the lists behind it, or `ClearReturn` would leave edges without
vertices. Renumbering is a lemma of its own (`RemoveVertexGood`): two ids that differ
still differ after it, so the choice between the two links of each edge is
unchanged, which is why the lists survive it.

The refinement turns each list into the sequence that iterating it gives. `Yields`
says that a sequence is that one, and that there is only one is proved by taking
the first place where two of them differ; `link_back` makes the sequence one longer and
`unlink` skips one place of it. What a loop still has to erase is a stretch of the
sequence, or the edges between two given vertices, which lie ahead of the iterator
(`RemoveEdgeInv`, inductive given `IInv`); the mapping shows the abstract graph these edges
as the pending ones of the call, so that every iteration is either one abstract erasure
or no step.

### Dijkstra (`Dijkstra_proofs`)

Assumptions: `DijkstraAssumption` (finite vertices, integer weights, a positive infinite
distance), and `FreshCall` in each theorem: the caller initialised the distances and
gives no source twice. Without either the statements are false (*further disagreements*).
Nothing is assumed of how many edges and sources there are, nor of how great `Infinite`
is: a sum that reaches it improves nothing.

- `InvariantHolds`: `IInv == CoreInv /\ LazyQueue /\ IndexedQueue`, for both versions and
  both callers.
- `PredecessorsStayTight`, `QueueStaysExact`, and `ExaminedIsFinal`: once the visitor was
  told that a vertex is examined, it is not told so again and its distance stays.
- `HeapRulesObeyed`: `ObeysQueue`; `SettlesInOrder`: both versions implement
  `ShortestPaths`; `DistancesAreShortest`: the result equals `LeastDistances`.

Everything depends on a vertex that was examined never being improved. Whether the
entry of the queue is outdated is decided by comparing distances, so `LazyQueue` has to
say that no entry is too small and the up-to-date ones are those of the vertices that
wait. For the user, `Settled` gives it: the examined vertices are the nearest ones and
their edges are relaxed, hence their weights not negative. For `prim` distances are weights
of single edges, and `Settled` is false; there the weight function itself makes edges to
finished vertices too heavy (`Finished`). That the distances are not too *great* follows from
`Settled` at the end: they are a fixed point of relaxation, so no walk is shorter. That
they are not too *small* needs a walk of each length: `Grounded` numbers the examined
vertices so that predecessors have lower numbers, which bounds the edges of the walk by
the number of vertices, as many as `LeastDistances` looks at.

### `dynamic_graph` (`DynamicGraph_proofs`)

Assumptions: `DynamicGraphAssumption`, and `CarefulCaller` in each theorem: sources exist
and `resize_vertices` does not drop vertices. For any set of traits.

- `InvariantHolds`, `InEdgesStayMirror`, `EdgesStayCounted`, in every state of a load, also
  after one that threw.
- `IsDirectedMultigraph`: `dynamic_graph` implements `DirectedMultigraph`.

`remove_vertex` erases the edges that point to the vertex by going through its
*in-edges*, then lowers the ids above it. That this is all of them is the mirror, which
is therefore not a consequence but a premise of the next step: one edge left behind
would get the id of another vertex. Lowering ids is injective on what is left, as no
entry has the removed id, so sets do not lose entries and the count stays right.

### Components (`MCComponents_proofs`)

Assumption: `ComponentsAssumption` (natural bounds).

- `InductiveInvariant`: `TarjanInv` for `tarjan_scc`, `LabelInv` for
  `connected_components`.
- `LowLinks`: `LowLinksOnStack` after every iteration of `tarjan_scc`.
- `NumbersComponents`: both implement `ComponentLabelling`, on every graph, or every
  undirected one.
- `NeighbourhoodsStayExact`: `NeighbourhoodsExact`, so what `maximal_independent_set`,
  `label_propagation`, `triangle_count`, `directed_triangle_count` and
  `jaccard_coefficient` return, on every graph they are meant for.

`Reached` is defined by rounds, and proved to be the least closed set (`ReachedIsLeast`): the
rounds grow until they stop, by counting. After that only closed sets are used. For
`tarjan_scc`, `LowLinksOnStack` is not inductive, as it does not say why the low-link is
low *enough*. `TarjanInv` adds that a low-link accounts for the edges already looked at
(`EdgesCounted`), that a vertex left behind has one older than itself to go back to
(`LeftReachesOlder`) and has handed its low-link to the frame that entered it
(`LowHandedUp`). When a vertex whose low-link is its own time is left, every edge from the
segment of the stack above it leads into the segment or to a complete component: the
segment is closed but for these, all of it is reached from the vertex (`PathReaches`) and
leads back to it, so it is one component, and all that its edges lead to have ids.
`connected_components` needs less: the labels of the current search are reached from its
root, every labelled vertex that is not pending has only labelled targets, and because
edges go both ways no earlier label is among them.

The algorithms about neighbourhoods have one invariant each, joined in `NeighbourInv`. What
`maximal_independent_set` has removed is exactly the chosen vertices, their targets and a
seed with a self-loop (`IndependentSoFar`); that a chosen vertex has no earlier chosen
one among its targets needs edges both ways. For `label_propagation`, a vertex the round has come
to is `Settled` as long as the round has changed nothing, because the votes are then those it
was settled by; at the end the vertices without a label are closed under edges, so none of them
reaches a labelled one. The counts are the number of triples whose first edge has been
passed (`Counted`). One edge adds those it is the first of (`CountsMore`), and the merge of two
ascending lists counts them: `MergeIs` shows it by induction over what is left of both lists, for
which the lists may not repeat a target. In ascending order each triangle is one triple
(`InOneOrder`), whichever of its six orders the definition sees.

### Searches (`DepthFirstSearch_proofs`, `MCSearches_proofs`)

Assumption: `SearchesAssumption` (natural bounds).

- `ViewsVisitWhatIsPromised`: the views of both searches, of vertices and of edges, implement
  `PrunedSearch`, whatever the caller cancels. For `CancelTwice = FALSE`: with it the
  statement is false (`searches_cancel_twice`).

`PrunedSearch` knows only what was visited and cancelled; that the view ends when nothing is
ahead, and takes no vertex that is not, has to follow from the queue or the stack. `ViewInv`
says for every visited vertex that it was cancelled, or all its edges lead to marked
vertices, or it still has an entry, whose position has passed edges to marked vertices only.
An exhausted entry may thus be dropped, and when none is left every edge of a vertex not cancelled
leads to a visited one. For `vertices_bfs` marked vertices are those visited and those on
the queue; for the others, marked and visited are the same, and cancelling takes effect at once
(`dfs`) or when the vertex comes to the front (`edges_bfs`), for which the
invariant says that an entry of a cancelled vertex is the one to be skipped: this is what
cancelling twice breaks.

- `DfsViewsStayInOrder`: `VisitsInOrder` and `DepthsExact` of `DfsViews`, the part of
  `SearchInOrder` and `DepthsExact` that is about the depth-first views, also with `CancelTwice`.

A cancelled vertex keeps no entry, so the stack is nested in the visits as in the algorithm
below; the order is that of the graph as pruned so far, and cancelling at the current vertex,
which nothing visited came after, leaves it an order of what remains (`DepthwiseCut`).

- `BfsViewsStayInOrder`: `VisitsInOrder` of `BfsViews`, the part of `SearchInOrder` that is
  about the breadth-first views, and `DepthsStayExact`: `DepthsExact`. For `CancelTwice = FALSE`.

What is marked is in layers (`Layered`): each vertex but the seed is one layer below the first
vertex that leads to it, and the layers never fall along the order. Such an order is
breadth-first (`LayersAreOrder`), and as long as all that the earlier vertices lead to is in
it (`ClosedTo`), the layer of each vertex is its distance from the seed (`LayersAreDistances`,
over the rounds in which `Distance` is defined). The queue holds the end of the order, so a
vertex appended goes below its front (`LayersGrow`); and a vertex the caller cancels has not
yet led to any other, so that nothing marked loses the vertex it was reached from (`CutAt`).

- `OrdersStayExact`: `OrdersExact`, for `topological_sort` from any sources and for the
  views of topological orders with and without cycle detection.

Both search in the same way, so the lemmas are about a stack and the finished vertices
(`Searching`, `Behind`, `Finished`): each entry has just followed the edge to the one above
it, the edges it has passed otherwise lead to finished vertices, and each finished vertex has
only targets that finished before it. Reversed, that is a topological order
(`FinishedBackwards`), and it excludes a cycle among the finished vertices
(`OrderExcludesCycle`: the vertex of the cycle that finished first would lead to an earlier
one). An edge to a vertex on the stack closes a cycle, as the stack is a path
(`ClosesCycle`). `SortInv` adds the colours and that what is not White is reached from the sources;
`TopoInv` that without detection the order is claimed only if there is no cycle, as then no edge
leads to the stack. The walk of the edges is a concatenation of lists; `FlattenIs`
gives the places where they begin, and the empty ones in between begin at the same place
(`NoneBetween`).

- `EdgesStayClassified`: `EdgesClassified`, for `depth_first_search` of any graph from any
  source.

The property reads the calls of the visitor, so `DfsInv` says what they add up to between
two steps (`Classified`): *d* and *f* are the vertices in the order they were discovered and
finished, *T*, *B* and *R* the edges told as tree, back, and forward or cross edges. The
colours say nothing beyond the stack and *f* (`Shades`). All that an entry of the stack has
passed is discovered, and all targets of a finished vertex are (`Discovering`); so with an
empty stack what is discovered is closed under edges, and is all that can be reached
(`DiscoveredIsReached`). Each discovered vertex is below the source in *T*, which holds the edge
between any two adjacent entries of the stack (`Spanning`): an edge to a Gray vertex leads to
an ancestor (`StackUnder`). A discovery and an edge of *T* come together, so *T* has one edge
less than there are discovered vertices: it is a tree. Each edge of *T* and *R* leads
to a vertex that finished before its source, or its source is still on the stack and its
target has finished or is the next entry (`OrderedBy`). At the end only the first is left, and
there is no cycle (`OrderedAcyclic`).

- `DiscoveryStaysInOrder`: `DiscoveredInOrder` and `WhitePaths`, the part of `SearchInOrder`
  that is about `depth_first_search`, of any graph from any source.

The entries of the stack are in the order in which their vertices were discovered
(`Nested`), and what was discovered after the top has finished. So when the top leads to a
new vertex, none discovered after the top leads to another one, and the order stays
depth-first (`DepthwiseGrows`). White paths are
about the places in the list of calls: whatever is discovered after an entry of the stack
is led to from it by a path of vertices undiscovered before (`WhiteSoFar`), as the path to the top
goes on to the new one; and when an entry finishes, all that was discovered since has only
discovered targets, so no such path leads elsewhere (`WhiteAtEnd`). Neither is undone when calls are added
(`OnwardsKept`, `BetweenKept`).

- `BreadthFirstInOrder`: `CallsInOrder` and `AllReached` of `BreadthFirstSearch`, for any graph
  and any list of different sources; with it `SearchStaysInOrder`: all of `SearchInOrder`, for
  `CancelTwice = FALSE`.

The property compares with a graph that has one vertex more, which leads to the sources, so
the invariant `BfsInv` is about that vertex and, behind it, the vertices discovered
(`FromRoot`, `RootedAt`): they are in layers as those of the views, and a source is discovered
only while nothing has been examined, so it is in the layer below the root
(`InLayersSeeded`) and no edge is overtaken. The queue is what was discovered after the last
vertex examined (`QueueBehind`); hence vertices are examined in the order of their discovery.
The edges told of are those of the vertices finished and the first ones of the vertex at hand
(`Examined`). When nothing is left, what was discovered is closed under edges, and by its layers
no more than what is reached (`ClosedLayersReached`).

### Only model-checked

- Liveness, in every module (`CallsReturn`, `SiftsEnd`, `Terminates`, `AllReturn`,
  `SearchesEnd`): fairness is out of the provers' reach.
- The refinement of `OutEdgeLists`.
- `UndirectedAdjacencyListCopy`: with self-loops the inductive invariant of the
  proofs is false, and `NoDanglingPointer` and `MadeAsGiven` need another one.
- Everything about the other containers, the functions and views, files, generators,
  and the other algorithms: `AnswersExact` (Bellman-Ford, `kruskal`, and that the tree of
  `prim` is of least weight) and `ComponentsExact` (`kosaraju`, `afforest`, articulation points
  and blocks). Of the searches only `SearchesEnd` is left.
- What a recursive definition computes for every input, in general: induction over data
  needs theorems with an operator as parameter. Where it is proved here, for reachability and
  `LeastDistances`, it is by a least counterexample.
- `GraphFunctions` declares `RECURSIVE` operators, as wrapped graphs forward to the
  functions themselves: no theorem can be about it or the modules that use it.

## Disagreements between code and documentation

The five violating runs above are recorded as findings.

### Further disagreements

Seen while modelling. Those with a name in brackets are definitions of the
component's modules: as an `INVARIANT` (or `PROPERTY`) of the cfg of the component's
passing run, where a constant is named with that value of it, each has a
counterexample. Files are relative to `include/graph`; *impl* is
`container/detail/undirected_adjacency_list_impl.hpp`, *CPO* is
`adj_list/detail/graph_cpo.hpp`.

`undirected_adjacency_list`
- The range constructor throws on unordered edges after linking some (impl:1175) and
  does not free those; the defaulted move assignment (hpp:902) does not free the edges of
  its target [`NothingLeaked`]. A moved-from graph keeps its `edges_size_`.
- The range constructors are declared for graphs without a graph value (hpp:1803) but
  not defined.
- An empty initializer list makes a graph of one vertex.
- `resize_vertices` to fewer vertices leaves the edges of the vertices dropped.
- `remove_edge(edge_iterator)` returns "iterator to the next edge" (hpp:1095), which
  may be the second appearance of the edge it has just freed (impl:1440)
  [`ReturnedEdgeIteratorLive`].
- `num_edges()` counts each edge once (impl:2640); its comment says "counted TWICE"
  (hpp:959) [`EdgesCountedTwice`]. The `edgelist` view yields each edge twice, so its
  `size` is half of what it yields.
- `in_edges(u)` are `edges(u)`: their source is `u`, and `in_neighbors` yields `u`
  itself; `docs/user-guide/bidirectional-access.md` (314–329) shows the other end.

Graph functions, property maps and views
- `source(g, e)` of an in-edge of `dynamic_graph` is the owner of the list, which is
  the target (CPO:3402); `docs/user-guide/bidirectional-access.md:289` says otherwise
  [`EndsExact`].
- `transpose_view`: `source_id` of an edge of `edges(tv, u)` is the target and
  `target_id` of one of `in_edges(tv, u)` the source, as the member of the edge goes first
  (`detail/edge_cpo.hpp:330`); `target(tv, e)` is wrong, so `views::neighbors` yields
  an id and a vertex that disagree [`EndsExact`]; `num_edges(tv, u)` is the out-degree
  of the base; `has_edges(tv, v)` is never found.
- `find_vertex_edge` and `find_in_edge` of a missing edge dereference the end (CPO:2162).
- `dynamic_graph`'s own `find_vertex_edge` is never called (CPO:2181–2198).
- `num_vertices(g, pid)` of a `compressed_graph` with several partitions takes the
  default (CPO:1550); `edges(g, uid)` and `num_edges(g, uid)` do not compile for it
  (`container/compressed_graph.hpp:1223`, 1297).
- A lazy property map of an index graph returns a default-constructed value, not the
  caller's default (`adj_list/vertex_property_map.hpp:80`, against :90)
  [`UnwrittenReadsDefault`].
- `filtered_graph` keeps the edges of excluded sources, and `num_edges` counts excluded
  vertices.

`compressed_graph` (`container/compressed_graph.hpp`)
- `load_vertices` after `load_edges` with higher ids appends rows behind the terminating
  one (:654) [`RowsMonotone`, `KnownVertices = FALSE`, `EdgesFirst = TRUE`].
- The last partition includes an id that is no vertex (:921, against :1392)
  [`PartitionsWithinGraph`].
- Construction from an empty range with the default partition table throws
  (:772, against :528) [`EmptyRangeAccepted`].
- A partition table that does not begin with 0 is refused (:901); :1430 says 0 is
  inserted [`ZeroInserted`].
- `load_edges` does not extend the vector of vertex values (:185, against :624)
  [`ValuesCoverVertices`].

`dynamic_graph` (`container/dynamic_graph.hpp`)
- `add_edge` from a missing source throws after it has added the in-edge (:1676)
  [`InEdgesMirror`, `SourcesExist = FALSE`].
- `num_edges` counts duplicates that a set or map did not take (:1681), and
  `resize_vertices` to fewer vertices leaves the count, and edges to the vertices that
  are gone (:1574, against :2067) [`NumEdgesIsStored`; also `Grows = FALSE`].
- A graph made from an empty range or initializer list has one vertex (:1157, against
  :1423) [`EmptyInputNoVertices`].

`adjacency_matrix`: `num_edges` of an undirected graph counts cells, two per edge.

Dijkstra and the algorithms on weighted graphs (`algorithm/`)
- A source that is given twice is examined twice (`dijkstra_shortest_paths.hpp:325`,
  against "exactly once per reachable vertex", :301) [`DistinctSources = FALSE`].
- Distances of unreachable vertices are not set to infinity by the call (:332, against
  :128 and :136) [`Initialised = FALSE`].
- Bellman-Ford: "Returns vertex ID in cycle if detected"
  (`bellman_ford_shortest_paths.hpp:54`) is not so [`BellmanFord!AnswerOnCycle`]: the
  vertex may only be reached from one. `find_negative_cycle` (:58), which starts at it,
  may then go round a cycle of predecessors that does not include it. The last pass adds
  to infinite distances (:311, against :256).
- `kruskal` learns the greatest id from the first argument of the comparator of its sort
  (`mst.hpp:614`). The edge that a list of up to 16 edges begins with is never that
  argument, as such lists are sorted by insertion: if it alone ends at the greatest id, as
  in (0, 3, weight 1), (0, 1, 2) or in a list of one edge, the disjoint sets are too short
  and accessed past their end [`Kruskal!ForestSpans`].
  `inplace_kruskal` of self-loops at 0 only reports 0 components, `kruskal` 1.
- `prim` relaxes a self-loop (against :99, "ignored"), and throws for negative weights
  (against :97, "algorithm works").

Component algorithms and neighbourhoods
- `biconnected_components.hpp:87` says "every vertex appears in at least one
  component"; a vertex whose only edges are self-loops does not.
- `tarjan_scc` and `articulation_points` read the id of the frame on top of their stack through
  a reference after they popped it (`tarjan_scc.hpp:212`, `articulation_points.hpp:188`);
  `biconnected_components.hpp:238` copies it before. The models take the value: a `deque`
  gives the memory back only when a block of it becomes empty, which takes more frames than the
  graphs of the runs have.
- `connected_components` follows outgoing edges only; its documentation lists
  directed graphs and "ignores edge direction".
- `afforest` without the transposed graph, on a directed graph, misses the edges that
  leave the component it skips; compressing a hash map goes in its order and can leave two
  ids in one component (`connected_components.hpp:596`); the empty graph makes the limit
  of a random index wrap around (:629, against :723).
- `maximal_independent_set` tests only the seed for a self-loop (`mis.hpp:146–163`,
  against :167).
- `label_propagation`: "reachable vertices acquire non-empty label" is false where
  labels would have to go against edges; without `max_iters` it need not converge.
- `jaccard_coefficient` does not call `out` for self-loops ("exactly once per directed
  edge"); `directed_triangle_count` counts transitive triples, not cycles;
  `triangle_count` counts pairs of parallel edges as the merge meets them.

Searches
- `breadth_first_search` examines a source given twice twice.
- `num_visited()` of `vertices_bfs` counts vertices that are discovered, not visited; that of
  the topological views (`views/topological_sort.hpp:385`) does not "start at 0" (:401).
- A second `begin()` of an edges view advances and counts again;
  `cancel(cancel_branch)` before the first one of `edges_bfs` skips vertex 0.
- `depth_first_search`: "Undirected graphs (tree/back edges only)" is false: the edge
  to a finished child is announced again from its other end.

Files and generators
- DOT: labels that are integers are written without quotes and not read as labels; a quote in a
  label cuts it, and `->` in one makes an edge of a vertex [`PlainTexts = FALSE`].
- GraphML names attributes by position after those of the first vertex and edge
  [`FilesRoundTrip`, `Uniform = FALSE`].
- JSON: `\u` escapes are not decoded [`FilesRoundTrip`, `PlainTexts = FALSE`], and an
  attribute called `id` or `source` replaces the id.
- `barabasi_albert` with fewer vertices than its clique names vertices ≥ `n`
  [`GeneratedTaken`, `EnoughVertices = FALSE`].
- `watts_strogatz` drops a lattice edge that a rewired one has taken; `erdos_renyi` with
  `p` 0 or 1 is outside the domain of `geometric_distribution`;
  `docs/user-guide/generators.md` describes the grid with edges to the right and bottom only.

## What is not modelled

- Everything that only exists at compile time: concepts, traits, detection of a
  visitor's members, pipe syntax of the views. `Offers` in `GraphFunctions` states the
  outcome of the selection between the tiers for each kind of graph.
- `graph_data` (tag types and records without behaviour), the adaptor to the Boost Graph
  Library, which is not in the repository, and `undirected_adjacency_list_api.hpp`, which is
  behind an `#ifdef` that nothing defines.
- `filtered_vertices`, and comparison and hashing of descriptors. Descriptors that
  outlive a renumbering: the documentation says they are invalidated, and the models use
  ids only within a call.
- The characters of files: tokens, whitespace, comments, number formats. What a reader
  does with a text that no writer of the library and none of the documented examples
  produces.
- Distributions and weights of generators.
- Overflow of distances in `combine`, and of the index type of a compressed graph: the
  models use exact integers.
- Values of vertices, and the order of edges, in `dynamic_graph`; its partition table,
  which is written and never read.
- Memory exhaustion: an allocation that throws.

## Plan

| # | Modules | Status |
|---|---|---|
| 1 | `UndirectedAdjacencyList`, its copy, `UndirectedMultigraph` | modelled; invariants and refinement proved without self-loops; open: the copy, with self-loops |
| 2 | `IndexedDaryHeap`, `PriorityQueue` | modelled; invariants and refinement proved |
| 3 | `Dijkstra`, `ShortestPaths` | modelled; invariants, the result and both refinements proved |
| 4 | `CompressedGraph`, `OutEdgeLists` | modelled; to prove: rows monotone, and the refinement |
| 5 | `DynamicGraph`, `DirectedMultigraph` | modelled; invariants and refinement proved |
| 6 | component algorithms | modelled; `tarjan_scc` and `connected_components` proved; to prove: the forest of afforest only joins vertices that are connected |
| 7 | searches and search views, `PrunedSearch` | modelled; the refinement, the topological orders and the classes of edges proved; so are the orders of both searches and of their views, and the depths |
| 8 | `Kruskal`, `BellmanFord`, `prim` | modelled; what `prim` needs of Dijkstra's queue is proved with it |
| 9 | `IndependentSet`, `LabelPropagation`, `TriangleCount` | modelled; proved: their results are exact |
| 10 | `AdjacencyMatrix`, `GraphFunctions`, `BasicViews` | modelled |
| 11 | `GraphFiles`, `Generators` | modelled |
