-------------------- MODULE UndirectedAdjacencyListCopy --------------------
(***************************************************************************)
(* undirected_adjacency_list as a value: a graph that is made from a list  *)
(* or a range of edges, grows, loses vertices, is cleared, and is replaced *)
(* by a copy of itself (copy construction, then the swap of copy-and-swap  *)
(* assignment; the temporary dies with the old edges) or by a new graph    *)
(* that it is swapped with or that is moved into it.  Here the caller may  *)
(* add self-loops: the operations that erase single edges are those of     *)
(* UndirectedAdjacencyList, and are not used.                              *)
(***************************************************************************)
EXTENDS UndirectedAdjacencyList, SequencesExt

VARIABLES leaked,  \* edge objects that no graph owns any more, and nobody frees
          given    \* the edges <<source, target>> the graph was made from and still has

copyVars == <<vars, leaked, given>>

NotGiven == [made |-> FALSE, edges |-> <<>>]

CopyInit == Init /\ leaked = {} /\ given = NotGiven

-----------------------------------------------------------------------------
(* Copies *)

\* Mutant of CopiedFrom: self-loops are taken for edges already copied.
CopiedFromStrict(u) ==
  SelectSeq(ListOf(u), LAMBDA e : id[<<e, "in">>] = u /\ u < id[<<e, "out">>])

\* The order in which the copy constructor meets the edges it copies: vertex by
\* vertex, in each list the edges that vertex owns, if the owner's id is not
\* greater than the other one's.
CopiedFrom(u) ==
  SelectSeq(ListOf(u), LAMBDA e : id[<<e, "in">>] = u /\ u <= id[<<e, "out">>])

CopyOrder == FlattenSeq([k \in 1..n |-> CopiedFrom(k - 1)])

\* A graph with the vertices V and no edges, then one add_edge after another.
EmptyLists(V) == [next |-> [l \in Link |-> NULL], prev |-> [l \in Link |-> NULL],
                  head |-> [u \in V |-> NULL], tail |-> [u \in V |-> NULL],
                  size |-> [u \in V |-> 0]]

AddAll(i, V, es) == FoldLeft(LAMBDA m, e : LinkBoth(m, i, e), EmptyLists(V), es)

\* The copy of an edge is named like the edge it was copied from.
CopyAssign ==
  /\ Ready
  /\ live' = Range(CopyOrder)
  /\ id' = [l \in Link |-> IF l[1] \in Range(CopyOrder) THEN id[l] ELSE 0]
  /\ mem' = AddAll(id, Vertices, CopyOrder)
  /\ edges_size' = Len(CopyOrder)
  /\ cursor' = NoCursor
  /\ given' = NotGiven
  /\ UNCHANGED <<n, call, fault, leaked>>

-----------------------------------------------------------------------------
(* Construction from edges, and move assignment *)

EdgeLists  == UNION {[1..k -> (0..(MaxVertices - 1)) \X (0..(MaxVertices - 1))] :
                       k \in 0..Cardinality(Edge)}
Addresses(k) == {es \in [1..k -> Edge \ (live \cup leaked)] : IsInjective(es)}

\* The greatest id, of an edge or of the vertices given.
MaxVertexId(pairs, hint) == Max({0, hint - 1} \cup {p[1] : p \in Range(pairs)} \cup {p[2] : p \in Range(pairs)})

\* The vertices and the count are those of another graph, made from pairs.
Becomes(es, pairs, size) ==
  LET newId == [l \in Link |-> IF l[1] \in Range(es)
                               THEN pairs[CHOOSE k \in DOMAIN es : es[k] = l[1]][IF l[2] = "in" THEN 1 ELSE 2]
                               ELSE 0]
  IN  /\ id' = newId
      /\ mem' = AddAll(newId, 0..(size - 1), es)
      /\ live' = Range(es)
      /\ edges_size' = Len(es)
      /\ n' = size
      /\ cursor' = NoCursor
      /\ given' = [made |-> TRUE, edges |-> pairs]
      /\ UNCHANGED <<call, fault>>

\* The defaulted move assignment: the vertices it replaces do not free their edges.
MoveAssign(es, pairs, size) ==
  /\ Becomes(es, pairs, size)
  /\ leaked' = leaked \cup live

\* swap: the other graph frees the edges it takes over when it ends.
Swap ==
  /\ Ready
  /\ \E pairs \in EdgeLists : \E es \in Addresses(Len(pairs)) :
       Becomes(es, pairs, MaxVertexId(pairs, 0) + 1)
  /\ UNCHANGED leaked

\* From an initializer list, in any order; there is a vertex 0 even if it is empty.
AssignList ==
  /\ Ready
  /\ \E pairs \in EdgeLists : \E es \in Addresses(Len(pairs)) :
       MoveAssign(es, pairs, MaxVertexId(pairs, 0) + 1)

\* No source among the first k is less than the one before.
InOrder(pairs, k) == \A j \in 2..k : pairs[j - 1][1] <= pairs[j][1]

\* From ranges of edges and of hint vertices.
AssignRange ==
  /\ Ready
  /\ \E pairs \in EdgeLists, hint \in 0..MaxVertices : \E es \in Addresses(Len(pairs)) :
       /\ InOrder(pairs, Len(pairs))
       /\ MoveAssign(es, pairs, IF pairs = <<>> /\ hint = 0 THEN 0 ELSE MaxVertexId(pairs, hint) + 1)

\* The constructor throws at the first edge k that is out of order.  The destructor of
\* an object that was never constructed does not run, and the edges so far stay allocated.
AssignUnorderedRange ==
  /\ Ready
  /\ \E pairs \in EdgeLists : \E k \in DOMAIN pairs : \E es \in Addresses(k - 1) :
       /\ InOrder(pairs, k - 1) /\ ~InOrder(pairs, k)
       /\ leaked' = leaked \cup Range(es)
  /\ UNCHANGED <<vars, given>>

\* vertices_.resize, called so that only vertices without edges go: it does not look.
ResizeVertices(size) ==
  /\ Ready
  /\ \A u \in size..(n - 1) : mem.size[u] = 0
  /\ LET Resized(f, new) == [u \in 0..(size - 1) |-> IF u < n THEN f[u] ELSE new]
     IN  mem' = [next |-> mem.next, prev |-> mem.prev, head |-> Resized(mem.head, NULL),
                 tail |-> Resized(mem.tail, NULL), size |-> Resized(mem.size, 0)]
  /\ n' = size
  /\ cursor' = NoCursor
  /\ UNCHANGED <<live, id, edges_size, call, fault, leaked, given>>

-----------------------------------------------------------------------------

Grow == \/ AddVertex
        \/ \E e \in Edge \ leaked, u, v \in Vertices : AddEdge(e, u, v)

Shrink == \/ \E u \in Vertices : RemoveVertex(u)
          \/ Clear
          \/ ClearEdgesStep \/ ClearNextVertex \/ ClearReturn \/ RemoveVertexReturn

CopyNext == \/ (Grow \/ Shrink) /\ given' = NotGiven /\ UNCHANGED leaked
            \/ CopyAssign \/ Swap
            \/ AssignList \/ AssignRange \/ AssignUnorderedRange
            \/ \E size \in 0..MaxVertices : ResizeVertices(size)

CopySpec == CopyInit /\ [][CopyNext]_copyVars

-----------------------------------------------------------------------------

\* A copy has every edge whose owner id is not greater than its target id, with
\* the same endpoints in the same roles, and no edge the original does not have.
CopyKeepsOrderedEdges ==
  [][CopyAssign =>
       /\ live' \subseteq live
       /\ \A e \in live : id[<<e, "in">>] <= id[<<e, "out">>] => e \in live'
       /\ \A e \in live', s \in Sides : id'[<<e, s>>] = id[<<e, s>>]]_copyVars

\* The edges of pairs that an iteration of u's list should give: each once, in order.
MeantAt(pairs, u) == SelectSeq(pairs, LAMBDA p : u \in {p[1], p[2]})

\* A graph made from edges in any order, or sorted by source, has all their vertices and
\* at each of its vertices exactly its edges, self-loops once, in the order given; one
\* made from edges that are not sorted is never seen, and leaves the old one as it was.
MadeAsGiven ==
  given.made =>
    /\ \A p \in Range(given.edges) : p[1] < n /\ p[2] < n
    /\ edges_size = Len(given.edges)
    /\ \A u \in Vertices :
         [k \in DOMAIN ListOf(u) |-> <<id[<<ListOf(u)[k], "in">>], id[<<ListOf(u)[k], "out">>]>>]
           = MeantAt(given.edges, u)

\* "Copy constructor - deep copies all vertices and edges".
CopyKeepsAllEdges == [][CopyAssign => live' = live]_copyVars

\* Not so: an edge object belongs to the graph, whatever is assigned or thrown.
NothingLeaked == leaked = {}

\* The addresses of edge objects are interchangeable.
EdgeSymmetry == Permutations(Edge)
=============================================================================
