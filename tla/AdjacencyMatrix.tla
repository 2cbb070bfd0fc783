-------------------------- MODULE AdjacencyMatrix ---------------------------
(***************************************************************************)
(* adjacency_matrix: a presence flag and a value for every pair of         *)
(* vertices, in two flat planes that are addressed by row * order + column,*)
(* and a count of the flags.  The out-edges of a vertex are found by an    *)
(* iterator that skips the absent cells of its row.                        *)
(***************************************************************************)
EXTENDS Integers, Sequences, FiniteSets, FiniteSetsExt

CONSTANTS MaxOrder,  \* bound: vertices of a matrix
          MaxCalls,  \* bound: calls of add_edge
          EdgeValues

VARIABLES directed,  \* Directed
          order,     \* n_
          flags,     \* flags_, plane[i + 1] is at offset i
          cells,     \* cells_
          count,     \* edge_count_
          pending,   \* the rest of a range given to the constructor
          added      \* the calls of add_edge so far, in order

vars == <<directed, order, flags, cells, count, pending, added>>

Vertices == 0..(order - 1)
Edge(vs) == [u : vs, v : vs, value : EdgeValues]

\* A matrix of n x n absent cells, and the range that is to be loaded.
Init ==
  /\ directed \in BOOLEAN
  /\ order \in 0..MaxOrder
  /\ flags = [i \in 1..(order * order) |-> FALSE]
  /\ cells = [i \in 1..(order * order) |-> 0]
  /\ count = 0
  /\ pending \in {<<>>} \cup [1..2 -> Edge(Vertices)]
  /\ added = <<>>

\* Mutant of index: the planes are addressed by column * order + row.
indexByColumn(u, v) == v * order + u + 1

index(u, v) == u * order + v + 1

\* set_cell counts a cell once, however often its edge is added; the value given last stays.
AddEdge(e) ==
  LET at == {index(e.u, e.v)} \cup IF directed THEN {} ELSE {index(e.v, e.u)}
  IN  /\ flags' = [i \in DOMAIN flags |-> flags[i] \/ i \in at]
      /\ cells' = [i \in DOMAIN cells |-> IF i \in at THEN e.value ELSE cells[i]]
      /\ count' = count + Cardinality({i \in at : ~flags[i]})
      /\ added' = Append(added, e)
      /\ UNCHANGED <<directed, order>>

\* The constructor adds the edges of its range.
Construct == /\ pending # <<>>
             /\ AddEdge(Head(pending))
             /\ pending' = Tail(pending)

Call == /\ pending = <<>> /\ Len(added) < MaxCalls
        /\ \E e \in Edge(Vertices) : AddEdge(e)
        /\ UNCHANGED pending

Next == Construct \/ Call

-----------------------------------------------------------------------------
(* Reading *)

\* row_edge_iterator: the first present cell of the row of u from column col on.
SkipAbsent(u, col) ==
  Min({order} \cup {c \in col..(order - 1) : flags[u * order + c + 1]})

\* The out-edges of u as begin() to end() yield them: targets and values.
Row(u) ==
  LET from[col \in 0..order] ==
        LET c == SkipAbsent(u, col)
        IN  IF c = order THEN <<>>
            ELSE <<[target |-> c, value |-> cells[u * order + c + 1]]>> \o from[c + 1]
  IN  from[0]

exists(u, v) == flags[index(u, v)]

-----------------------------------------------------------------------------
(* Properties *)

\* The calls that gave the graph an edge from u to v.
Giving(u, v) == {k \in DOMAIN added : LET e == added[k]
                                      IN  \/ e.u = u /\ e.v = v
                                          \/ ~directed /\ e.u = v /\ e.v = u}

\* The rows hold, in the order of the targets, what was added with the value given last,
\* in an undirected graph from both ends; exists agrees, and num_edges counts the cells.
MatrixExact ==
  /\ \A u \in Vertices :
       /\ \A i \in DOMAIN Row(u) :
            LET calls == Giving(u, Row(u)[i].target)
            IN  calls # {} /\ Row(u)[i].value = added[Max(calls)].value
       /\ \A i, j \in DOMAIN Row(u) : i < j => Row(u)[i].target < Row(u)[j].target
       /\ \A v \in Vertices : /\ Giving(u, v) # {} <=> \E i \in DOMAIN Row(u) : Row(u)[i].target = v
                              /\ Giving(u, v) # {} <=> exists(u, v)
  /\ count = MapThenSumSet(LAMBDA u : Len(Row(u)), Vertices)
=============================================================================
