------------------------------ MODULE Kruskal ------------------------------
(***************************************************************************)
(* kruskal and inplace_kruskal, one step per edge of the sorted list.  Of  *)
(* several edges of equal weight any may come first.  The lists have at    *)
(* most 16 edges, which std::ranges::sort sorts by insertion; no two of    *)
(* them agree in both ends and the weight.                                 *)
(***************************************************************************)
EXTENDS Digraphs

CONSTANTS Id,       \* the vertex ids that may occur, integers from 0
          Weights,  \* the edge weights considered
          MaxEdges  \* bound: edges of a list; one of as many has no self-loop

VARIABLES graph,      \* the edges of the input
          todo,       \* those the loop has not come to
          parent,     \* subsets[v].id
          rank,       \* subsets[v].count
          tree,       \* the edges put into the output
          total,      \* total_weight
          components, \* num_components
          pc

vars == <<graph, todo, parent, rank, tree, total, components, pc>>

\* The lists of up to k edges.
ListsUpTo[k \in Nat] ==
  IF k = 0 THEN {{}}
  ELSE ListsUpTo[k - 1]
       \cup {edges \cup {e} : edges \in ListsUpTo[k - 1], e \in [u : Id, v : Id, w : Weights]}

Init ==
  /\ graph \in ListsUpTo[MaxEdges]
  /\ Cardinality(graph) = MaxEdges => \A e \in graph : e.u # e.v
  /\ todo = graph
  /\ parent = <<>> /\ rank = <<>>
  /\ tree = {}
  /\ total = 0 /\ components = 0
  /\ pc = "sort"

EndsOf(edges) == {e.u : e \in edges} \cup {e.v : e \in edges}

\* N is found by the comparison function of the sort, which looks at the ends of its
\* first argument only; the edge that the unsorted list begins with is never that.
Greatest(first) == Max({0} \cup EndsOf(graph \ {first}))

\* For an empty list, or inplace_kruskal that knows no vertex but 0.
ReturnEmpty ==
  /\ pc = "sort"
  /\ graph = {} \/ \E first \in graph : Greatest(first) = 0
  /\ pc' = "returned"
  /\ UNCHANGED <<graph, todo, parent, rank, tree, total, components>>

Sort ==
  /\ pc = "sort"
  /\ \E first \in graph :
       /\ parent' = [v \in 0..Greatest(first) |-> v]
       /\ rank' = [v \in 0..Greatest(first) |-> 0]
       /\ components' = Greatest(first) + 1
  /\ pc' = "edges"
  /\ UNCHANGED <<graph, todo, tree, total>>

-----------------------------------------------------------------------------
(* The disjoint sets *)

\* The vertices on the way from v to its root, the root included.
Climb(p, v) ==
  LET way[x \in DOMAIN p] == IF p[x] = x THEN {x} ELSE {x} \cup way[p[x]]
  IN  way[v]

Root(p, v) == CHOOSE r \in Climb(p, v) : p[r] = r

\* disjoint_find: the vertices on the way are put right below the root.
Compress(p, v) == [x \in DOMAIN p |-> IF x \in Climb(p, v) THEN Root(p, v) ELSE p[x]]

\* Mutant of Attach: the target itself, not its root, is put below the other root.
AttachTarget(p, e) == [p EXCEPT ![e.v] = Root(p, e.u)]

\* The root of lower rank is put below the other one, with equal ranks that of the
\* target.
Attach(p, e) ==
  IF rank[Root(p, e.u)] < rank[Root(p, e.v)] THEN [p EXCEPT ![Root(p, e.u)] = Root(p, e.v)]
  ELSE [p EXCEPT ![Root(p, e.v)] = Root(p, e.u)]

Found(e) == Compress(Compress(parent, e.u), e.v)

AtEdge(e) == pc = "edges" /\ e \in todo /\ \A f \in todo : e.w <= f.w

InRange(e) == {e.u, e.v} \subseteq DOMAIN parent

\* disjoint_union_find is true: the edge belongs to the tree.
AddToTree(e) ==
  /\ AtEdge(e) /\ InRange(e)
  /\ Root(parent, e.u) # Root(parent, e.v)
  /\ parent' = Attach(Found(e), e)
  /\ rank' = IF rank[Root(parent, e.u)] = rank[Root(parent, e.v)]
             THEN [rank EXCEPT ![Root(parent, e.u)] = @ + 1] ELSE rank
  /\ tree' = tree \cup {e}
  /\ total' = total + e.w
  /\ components' = components - 1
  /\ todo' = todo \ {e}
  /\ UNCHANGED <<graph, pc>>

SkipEdge(e) ==
  /\ AtEdge(e) /\ InRange(e)
  /\ Root(parent, e.u) = Root(parent, e.v)
  /\ parent' = Found(e)
  /\ todo' = todo \ {e}
  /\ UNCHANGED <<graph, rank, tree, total, components, pc>>

\* An access past the end of subsets.
Overrun(e) ==
  /\ AtEdge(e) /\ ~InRange(e)
  /\ pc' = "undefined"
  /\ UNCHANGED <<graph, todo, parent, rank, tree, total, components>>

Return ==
  /\ pc = "edges" /\ todo = {}
  /\ pc' = "returned"
  /\ UNCHANGED <<graph, todo, parent, rank, tree, total, components>>

Next == \/ ReturnEmpty \/ Sort
        \/ \E e \in todo : AddToTree(e) \/ SkipEdge(e) \/ Overrun(e)
        \/ Return

-----------------------------------------------------------------------------
(* Properties *)

Vertices == DOMAIN parent

\* If the greatest id is not only that of the edge the list begins with, no access is
\* past the end of the disjoint sets, which are between any two steps the components of
\* the edges so far, and the tree is a spanning forest of these edges; at the end it is
\* one of least weight.
ForestMinimal ==
  pc # "sort" /\ EndsOf(graph) \subseteq Vertices =>
    LET done == graph \ todo
        sets == {{v \in Vertices : Root(parent, v) = r} : r \in {v \in Vertices : parent[v] = v}}
    IN  /\ pc # "undefined"
        /\ ComponentsIn(Vertices, done) = sets
        /\ ComponentsIn(Vertices, tree) = sets
        /\ tree \subseteq done
        /\ components = Cardinality(sets)
        /\ Cardinality(tree) = Cardinality(Vertices) - components
        /\ total = TotalWeight(tree)
        /\ pc = "returned" => total = LeastWeight(Vertices, graph)

\* "t contains V-1 edges forming minimum spanning tree": does not hold for a list that
\* begins with its only edge to the greatest id, see README.
ForestSpans == LET ids == EndsOf(graph)
               IN  pc \in {"returned", "undefined"} => ComponentsIn(ids, tree) = ComponentsIn(ids, graph)
=============================================================================
