-------------------------- MODULE CompressedGraph --------------------------
(***************************************************************************)
(* compressed_graph: the row index, the columns with their values, the     *)
(* number of vertex values, the partition table, and the calls that fill   *)
(* them.  The loop of load_edges takes one step per edge, as it may throw  *)
(* between two.  Sequences are those of the code shifted by one: rows[u+1] *)
(* is row_index_[u].  The value of an edge is its number in the range.     *)
(***************************************************************************)
EXTENDS Integers, Sequences, FiniteSets, FiniteSetsExt

CONSTANTS MaxId,            \* the greatest vertex id in a range of edges
          MaxEdges,         \* bound: edges of a range
          VertexRanges,     \* sets of ids that ranges of vertices have
          Hints,            \* vertex_count arguments
          PartitionStarts,  \* partition_start_ids arguments
          Debug,            \* are assertions compiled in?
          EdgesFirst,       \* is load_edges called on an empty graph only?
          KnownVertices     \* does load_vertices name only vertices of a graph with edges?

CompressedAssumption ==
  /\ MaxId \in Nat /\ MaxEdges \in Nat /\ Hints \subseteq Nat
  /\ \A vs \in VertexRanges : vs \subseteq Nat
  /\ {Debug, EdgesFirst, KnownVertices} \subseteq BOOLEAN

VARIABLES rows,        \* row_index_
          cols,        \* col_index_
          values,      \* the values beside col_index_
          valueCount,  \* the size of the vector of vertex values
          partition,   \* partition_
          pc,          \* new: not constructed; idle; in a call; dead: destroyed or aborted
          load,        \* the load_edges in progress and what the caller does next
          thrown,      \* why the last call threw, "none" if it returned
          given        \* the edges of the loads that returned, <<>> after one that threw

vars == <<rows, cols, values, valueCount, partition, pc, load, thrown, given>>

Ids    == 0..MaxId
Edges  == [u : Ids, v : Ids]
Ranges == UNION {[1..n -> Edges] : n \in 0..MaxEdges}
Sorted(es) == \A i, j \in DOMAIN es : i <= j => es[i].u <= es[j].u

\* Does a range of vertices given with a range of edges name its vertices only?
Known(es, vs) ==
  KnownVertices /\ es # <<>> =>
    \A u \in vs : \E i \in DOMAIN es : u <= es[i].u \/ u <= es[i].v

Size == IF rows = <<>> THEN 0 ELSE Len(rows) - 1

\* std::vector::resize(n, x).
Resized(s, n, x) == [i \in 1..n |-> IF i <= Len(s) THEN s[i] ELSE x]

NoLoad == [edges |-> <<>>, i |-> 0, last |-> 0, max |-> 0, count |-> 0,
           overload |-> "const", vertices |-> {}, then |-> "return"]

-----------------------------------------------------------------------------
(* Partitions *)

\* What terminate_partitions throws.
PartitionError ==
  CASE partition = <<>>                            -> "none"
    [] partition # <<>> /\ partition[1] # 0        -> "not zero"
    [] \E i \in 2..Len(partition) : partition[i] <= partition[i - 1] -> "order"
    [] partition # <<>> /\ partition[Len(partition)] > Len(rows) -> "range"
    [] OTHER                                       -> "none"

\* The table after terminate_partitions, with n entries in the row index.
Terminated(n) == IF partition = <<>> THEN <<0, n>> ELSE Append(partition, n)

NumPartitions == IF partition = <<>> THEN 1 ELSE Len(partition) - 1

\* Mutant of PartitionVertices: the terminating entry is taken for a partition.
PartitionVerticesShifted(pid) ==
  IF Size = 0 THEN {}
  ELSE IF Len(partition) <= 2 THEN IF pid = 0 THEN 0..(Size - 1) ELSE {}
  ELSE IF pid \in 1..NumPartitions THEN partition[pid]..(partition[pid + 1] - 1) ELSE {}

\* vertices(g, pid).
PartitionVertices(pid) ==
  IF Size = 0 THEN {}
  ELSE IF Len(partition) <= 2 THEN IF pid = 0 THEN 0..(Size - 1) ELSE {}
  ELSE IF pid \in 0..(NumPartitions - 1) THEN partition[pid + 1]..(partition[pid + 2] - 1)
  ELSE {}

\* partition_id(g, u): the last partition that starts at u or before.
PartitionId(u) ==
  IF Len(partition) <= 2 THEN 0
  ELSE Max({i \in 0..(NumPartitions - 1) : partition[i + 1] <= u})

-----------------------------------------------------------------------------
(* Operations *)

Init == /\ rows = <<>> /\ cols = <<>> /\ values = <<>>
        /\ valueCount = 0
        /\ partition = <<>>
        /\ pc = "new"
        /\ load = NoLoad
        /\ thrown = "none"
        /\ given = <<>>

Empty == rows = <<>> /\ cols = <<>> /\ values = <<>>

DefaultConstruct == /\ pc = "new"
                    /\ pc' = "idle"
                    /\ UNCHANGED <<rows, cols, values, valueCount, partition, load, thrown, given>>

AllocConstruct == /\ pc = "new"
                  /\ pc' = "idle"
                  /\ partition' = Terminated(Len(rows))
                  /\ UNCHANGED <<rows, cols, values, valueCount, load, thrown, given>>

\* A constructor that takes edges, and vertices or none, copies the partition
\* starts and enters load_edges.
Construct(es, vs, starts, then) ==
  /\ Known(es, vs)
  /\ partition' = starts
  /\ pc' = "call"
  /\ load' = [NoLoad EXCEPT !.edges = es, !.vertices = vs, !.then = then]
  /\ UNCHANGED <<rows, cols, values, valueCount, thrown, given>>

LoadEdges(es, hint, overload) ==
  /\ pc' = "call"
  /\ load' = [NoLoad EXCEPT !.edges = es, !.count = hint, !.overload = overload]
  /\ thrown' = "none"
  /\ UNCHANGED <<rows, cols, values, valueCount, partition, given>>

\* load(erng, vrng).
Load(es, vs) ==
  /\ Known(es, vs)
  /\ pc' = "call"
  /\ load' = [NoLoad EXCEPT !.edges = es, !.vertices = vs, !.then = "vertices"]
  /\ thrown' = "none"
  /\ UNCHANGED <<rows, cols, values, valueCount, partition, given>>

\* The call goes on at pc "then", or returns.
GoesOn(then) == /\ pc' = IF then = "return" THEN "idle" ELSE then
                /\ load' = IF then = "return" THEN NoLoad ELSE load
                /\ UNCHANGED thrown

\* An exception leaves the object as it is, or destroys it under construction.
Throws(why) ==
  /\ pc' = IF load.then \in {"terminate", "vertices and terminate"} THEN "dead" ELSE "idle"
  /\ thrown' = why
  /\ load' = NoLoad

\* Entering load_edges.
AssertionFails ==
  /\ pc = "call"
  /\ Debug /\ ~Empty
  /\ pc' = "dead"
  /\ UNCHANGED <<rows, cols, values, valueCount, partition, load, thrown, given>>

NothingToLoad ==
  /\ pc = "call"
  /\ ~(Debug /\ ~Empty)
  /\ load.edges = <<>>
  /\ IF PartitionError = "none"
     THEN /\ partition' = Terminated(Len(rows))
          /\ GoesOn(load.then)
     ELSE Throws(PartitionError) /\ UNCHANGED partition
  /\ UNCHANGED <<rows, cols, values, valueCount, given>>

StartEdges ==
  /\ pc = "call"
  /\ ~(Debug /\ ~Empty)
  /\ load.edges # <<>>
  /\ LET e == load.edges[Len(load.edges)]
     IN  load' = [load EXCEPT !.count = Max({load.count, e.u + 1, e.v + 1}), !.i = 1]
  /\ pc' = "edges"
  /\ UNCHANGED <<rows, cols, values, valueCount, partition, thrown, given>>

\* Mutant of AddEdge: only the row of the source gets its start.
AddEdgeSkipsRows(e) ==
  /\ pc = "edges" /\ load.i <= Len(load.edges) /\ e = load.edges[load.i]
  /\ e.u >= load.last \/ load.overload = "forward"
  /\ rows' = IF e.u # load.last \/ rows = <<>>
             THEN [Resized(rows, e.u + 1, 0) EXCEPT ![e.u + 1] = Len(cols)] ELSE rows
  /\ cols' = Append(cols, e.v)
  /\ values' = Append(values, Len(given) + load.i)
  /\ load' = [load EXCEPT !.i = @ + 1, !.last = e.u, !.max = Max({@, e.v})]
  /\ UNCHANGED <<valueCount, partition, pc, thrown, given>>

\* An iteration of the loop.  Rows up to the source are added at a new source.
AddEdge(e) ==
  /\ pc = "edges" /\ load.i <= Len(load.edges) /\ e = load.edges[load.i]
  /\ e.u >= load.last \/ load.overload = "forward"
  /\ rows' = IF e.u # load.last \/ rows = <<>> THEN Resized(rows, e.u + 1, Len(cols)) ELSE rows
  /\ cols' = Append(cols, e.v)
  /\ values' = Append(values, Len(given) + load.i)
  /\ load' = [load EXCEPT !.i = @ + 1, !.last = e.u, !.max = Max({@, e.v})]
  /\ UNCHANGED <<valueCount, partition, pc, thrown, given>>

\* The const& overload throws at a source that is less than the one before.
UnorderedThrows(e) ==
  /\ pc = "edges" /\ load.i <= Len(load.edges) /\ e = load.edges[load.i]
  /\ e.u < load.last /\ load.overload = "const"
  /\ Throws("unordered")
  /\ given' = <<>>
  /\ UNCHANGED <<rows, cols, values, valueCount, partition>>

\* Mutant of FinishEdges: no rows are added for targets beyond the last source.
FinishEdgesIgnoresTargets ==
  LET count == Max({load.count, Len(rows)})
  IN  /\ pc = "edges" /\ load.i > Len(load.edges)
      /\ rows' = Resized(rows, count + 1, Len(cols))
      /\ GoesOn(load.then)
      /\ given' = given \o load.edges
      /\ UNCHANGED <<cols, values, valueCount, partition>>

\* Rows are added for all targets and the count that was asked for, and the
\* terminating row; the vertex values are extended.
FinishEdges ==
  LET count == Max({load.count, Len(rows), load.max + 1})
      least == IF load.overload = "const" THEN 0 ELSE 1
  IN  /\ pc = "edges" /\ load.i > Len(load.edges)
      /\ rows' = Resized(rows, count + 1, Len(cols))
      /\ valueCount' = IF valueCount > least /\ valueCount < count THEN count ELSE valueCount
      /\ GoesOn(load.then)
      /\ given' = given \o load.edges
      /\ UNCHANGED <<cols, values, partition>>

\* load_vertices and load_row_values: new rows start at 0.
FillVertices(vs, hint) ==
  LET greatest == IF vs = {} THEN 0 ELSE Max(vs)
      count    == Max({hint, greatest + 1, Size})
  IN  /\ rows' = IF count > Size THEN Resized(rows, count + 1, 0) ELSE rows
      /\ valueCount' = IF vs = {} THEN valueCount ELSE Max({count, valueCount})
      /\ UNCHANGED <<cols, values, partition, given>>

LoadVertices(vs, hint) ==
  /\ pc = "idle"
  /\ KnownVertices /\ cols # <<>> => vs \subseteq 0..(Size - 1) /\ hint <= Size
  /\ FillVertices(vs, hint)
  /\ thrown' = "none"
  /\ UNCHANGED <<pc, load>>

\* load, or a constructor, goes on with load_vertices.
VerticesAfterEdges ==
  /\ pc \in {"vertices", "vertices and terminate"}
  /\ FillVertices(load.vertices, 0)
  /\ GoesOn(IF pc = "vertices" THEN "return" ELSE "terminate")

\* A constructor ends with terminate_partitions.
TerminatePartitions ==
  /\ pc = "terminate"
  /\ IF PartitionError = "none"
     THEN /\ partition' = Terminated(Len(rows))
          /\ GoesOn("return")
     ELSE Throws(PartitionError) /\ UNCHANGED partition
  /\ UNCHANGED <<rows, cols, values, valueCount, given>>

\* clear() empties the table before it terminates it.
Clear ==
  /\ pc = "idle"
  /\ rows' = <<>> /\ cols' = <<>> /\ values' = <<>>
  /\ valueCount' = 0
  /\ partition' = <<0, 0>>
  /\ thrown' = "none"
  /\ given' = <<>>
  /\ UNCHANGED <<pc, load>>

Constructs ==
  \E es \in Ranges, starts \in PartitionStarts :
    \/ Construct(es, {}, starts, "terminate")
    \/ \E vs \in VertexRanges : Construct(es, vs, starts, "vertices and terminate")

Loads ==
  \E es \in Ranges :
    \/ \E hint \in Hints : LoadEdges(es, hint, "const") \/ (Sorted(es) /\ LoadEdges(es, hint, "forward"))
    \/ \E vs \in VertexRanges : Load(es, vs)

Next ==
  \/ DefaultConstruct \/ AllocConstruct
  \/ pc = "new" /\ Constructs
  \/ pc = "idle" /\ (EdgesFirst => Empty) /\ Loads
  \/ AssertionFails \/ NothingToLoad \/ StartEdges
  \/ \E e \in Edges : AddEdge(e) \/ UnorderedThrows(e)
  \/ FinishEdges
  \/ \E vs \in VertexRanges, hint \in Hints : LoadVertices(vs, hint)
  \/ VerticesAfterEdges
  \/ TerminatePartitions
  \/ Clear

Spec == Init /\ [][Next]_vars

-----------------------------------------------------------------------------
(* Properties *)

\* The edges of u, as edges(g, u) and edge_value read them.
OutEdges(u) == [i \in 1..(rows[u + 2] - rows[u + 1]) |->
                  [v |-> cols[rows[u + 1] + i], value |-> values[rows[u + 1] + i]]]

\* Whatever was called, and also after a load that threw in its loop, edges(g, u)
\* stays within the columns and their values for every vertex of the graph.
RowsMonotone ==
  /\ Len(cols) = Len(values)
  /\ pc = "idle" => \A u \in 0..(Size - 1) : rows[u + 1] <= rows[u + 2] /\ rows[u + 2] <= Len(cols)

\* The rows can be read at any time, and the graph that load_edges leaves has the edges of the range, in their order
\* and with their values, each at its source, and no other.
EdgesAsGiven ==
  /\ RowsMonotone
  /\ pc = "idle" /\ thrown = "none" /\ (cols # <<>> => given # <<>>) =>
       /\ \A i \in DOMAIN given : given[i].u < Size /\ given[i].v < Size
       /\ \A u \in 0..(Size - 1) :
            LET own == {i \in DOMAIN given : given[i].u = u}
            IN  /\ rows[u + 2] - rows[u + 1] = Cardinality(own)
                /\ \A i \in own :
                     LET nth == Cardinality({j \in own : j <= i})
                     IN  OutEdges(u)[nth] = [v |-> given[i].v, value |-> i]

\* vertices(g, pid) and partition_id(g, u) agree, and each vertex is in exactly
\* one partition.
PartitionsAgree ==
  pc = "idle" =>
    \A u \in 0..(Size - 1) :
      {pid \in 0..(NumPartitions - 1) : u \in PartitionVertices(pid)} = {PartitionId(u)}

\* The out-edges of each vertex while they are loaded: the last row is open.
Lists ==
  IF pc = "edges"
  THEN [u \in 0..(Len(rows) - 1) |->
          LET end == IF u + 2 <= Len(rows) THEN rows[u + 2] ELSE Len(cols)
          IN  [i \in 1..(end - rows[u + 1]) |->
                 <<cols[rows[u + 1] + i], values[rows[u + 1] + i]>>]]
  ELSE [u \in 0..(Size - 1) |->
          [i \in 1..(rows[u + 2] - rows[u + 1]) |->
             <<cols[rows[u + 1] + i], values[rows[u + 1] + i]>>]]

-----------------------------------------------------------------------------
(* What documentation says and the code does not do.  No run checks these;    *)
(* as an INVARIANT of Containers.cfg (Csr!...) each has a counterexample.              *)

\* "The row_values_ vector will be extended to match the number of
\* row_index_.size()-1 to avoid out-of-bounds errors": if there are vertex
\* values, every vertex has one.
ValuesCoverVertices ==
  pc = "idle" => valueCount = 0 \/ valueCount >= Size

\* The ids that vertices(g, pid) lists are vertices of the graph.
PartitionsWithinGraph ==
  pc = "idle" => \A pid \in 0..(NumPartitions - 1) : PartitionVertices(pid) \subseteq 0..(Size - 1)

\* Where no partition starts are given, no complaint about them is made.
EmptyRangeAccepted == thrown # "order"

\* A first partition that does not start at 0 is no error either.
ZeroInserted == thrown # "not zero"
=============================================================================
