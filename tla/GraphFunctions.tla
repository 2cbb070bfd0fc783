--------------------------- MODULE GraphFunctions ---------------------------
(***************************************************************************)
(* The functions through which every algorithm and view sees a graph: each *)
(* calls a member of the graph, else a friend found by its argument, else  *)
(* answers from the other functions.  A graph is a record of its kind:     *)
(*   vov         a vector of vectors of pairs                              *)
(*   mapped      a map from keys to vectors of pairs                       *)
(*   compressed  compressed_graph      rows into columns; partition starts *)
(*   dynamic     dynamic_graph         bidirectional, edges with ids       *)
(*   undirected  undirected_adjacency_list   edges with both ends          *)
(*   matrix      adjacency_matrix      directed                            *)
(*   transpose, filtered               views of another graph              *)
(* A vertex descriptor is a position; its id is the same but in a map,     *)
(* where the position is an iterator and the id a key.  An edge descriptor *)
(* has the vertex in whose list it is, and what is stored there.  The      *)
(* functions that take ids or descriptors have names for each: _id, _uid.  *)
(***************************************************************************)
EXTENDS Integers, Sequences, FiniteSets, SequencesExt, FiniteSetsExt

\* Members and friends of a graph that take the place of a default answer.
Offers(g) ==
  CASE g.kind = "compressed" -> {"vertices_pid", "num_vertices", "has_edge",
                                 "partition_id", "num_partitions"}
    [] g.kind = "dynamic"    -> {"num_vertices", "has_edge", "in_edges"}
    [] g.kind = "undirected" -> {"num_vertices", "has_edge", "in_edges"}
    [] g.kind = "matrix"     -> {"num_vertices"}
    [] g.kind = "transpose"  -> {"in_edges"}
    [] OTHER                 -> {}

-----------------------------------------------------------------------------
(* Descriptors *)

\* vertex_descriptor_view: the positions of a container with n elements, in order.
Upto(n) == [k \in 1..n |-> k - 1]

Keyed(g) == "keys" \in DOMAIN g

\* vertex_descriptor: what is at a position, the key left out, and the id.
stored_at(g, u)     == g.lists[u + 1]
own_vertex_id(g, u) == IF Keyed(g) THEN g.keys[u + 1] ELSE u

\* edge_descriptor_view, of what is stored at u.
descriptors(u, in, stored) == [k \in DOMAIN stored |-> [source |-> u, in |-> in, edge |-> stored[k]]]

\* edge_descriptor: the ids and the value as they are found in what is stored.  The source
\* of an edge, also of an in-edge, is the vertex in whose list it is.
own_target_id(g, e) ==
  IF e.in THEN own_vertex_id(g, e.source)
  ELSE IF "target_id" \in DOMAIN e.edge THEN e.edge.target_id ELSE e.edge.first

own_source_id(g, e) == own_vertex_id(g, e.source)
own_value(e)        == IF "second" \in DOMAIN e.edge THEN e.edge.second ELSE e.edge.value

-----------------------------------------------------------------------------
(* Members of compressed_graph and dynamic_graph *)

\* No edges behind the last vertex.
edge_ids(g, u) ==
  IF u >= g.size THEN <<>> ELSE [k \in 1..(g.rows[u + 2] - g.rows[u + 1]) |-> g.rows[u + 1] + k - 1]

target_id_of(g, edge_id)  == g.cols[edge_id + 1]
edge_value_of(g, edge_id) == g.values[edge_id + 1]

row_size(g, u) == IF u >= g.size THEN 0 ELSE g.rows[u + 2] - g.rows[u + 1]

\* The whole graph is one partition unless there are more than two starts.
partition_range(g, pid) ==
  IF Len(g.partition) <= 2 THEN IF pid = 0 THEN Upto(g.size) ELSE <<>>
  ELSE IF pid + 1 >= Len(g.partition) THEN <<>>
  ELSE SelectSeq(Upto(g.size), LAMBDA u : g.partition[pid + 1] <= u /\ u < g.partition[pid + 2])

\* upper_bound over all starts but the terminating one, and one back.
partition_of(g, u) ==
  IF Len(g.partition) <= 2 THEN 0
  ELSE Cardinality({k \in 1..(Len(g.partition) - 1) : g.partition[k] <= u}) - 1

partitions(g) == IF g.partition = <<>> THEN 1 ELSE Len(g.partition) - 1

contains_vertex(g, uid) == IF Keyed(g) THEN uid \in ToSet(g.keys) ELSE uid < g.size

\* The end if there is no vertex with this id.
try_find_vertex(g, uid) ==
  IF ~contains_vertex(g, uid) THEN g.size
  ELSE IF Keyed(g) THEN CHOOSE u \in 0..(g.size - 1) : g.keys[u + 1] = uid ELSE uid

-----------------------------------------------------------------------------
(* Vertices *)

RECURSIVE vertices(_), num_vertices(_), find_vertex(_, _), vertex_id(_, _)

vertices(g) ==
  CASE g.kind = "transpose" -> vertices(g.of)
    [] g.kind = "filtered"  -> Upto(Len(g.of.lists))
    [] OTHER                -> Upto(g.size)

vertices_pid(g, pid) ==
  IF "vertices_pid" \in Offers(g) THEN partition_range(g, pid) ELSE IF pid = 0 THEN vertices(g) ELSE <<>>

vertex_id(g, u) == IF g.kind = "transpose" THEN vertex_id(g.of, u) ELSE own_vertex_id(g, u)

\* The others advance an iterator by the id, unchecked.
find_vertex(g, uid) ==
  CASE g.kind = "transpose" -> find_vertex(g.of, uid)
    [] g.kind \in {"mapped", "dynamic", "undirected"} -> try_find_vertex(g, uid)
    [] OTHER -> uid

num_vertices(g) ==
  IF g.kind = "transpose" THEN num_vertices(g.of)
  ELSE IF "num_vertices" \in Offers(g) THEN g.size ELSE Len(vertices(g))

\* There is no num_vertices(g, pid) to be found for any of the graphs.
num_vertices_pid(g, pid) == IF pid = 0 THEN num_vertices(g) ELSE 0

partition_id(g, u) == IF "partition_id" \in Offers(g) THEN partition_of(g, u) ELSE 0

num_partitions(g) ==
  IF "num_partitions" \in Offers(g) THEN partitions(g) ELSE 1

vertex_value(g, u) == g.vertexValues[u + 1]
vertex_value_id(g, uid) == vertex_value(g, find_vertex(g, uid))
graph_value(g) == g.value

-----------------------------------------------------------------------------
(* Edges *)

RECURSIVE out_edges(_, _), in_edges(_, _), target_id(_, _), source_id(_, _), edge_value(_, _),
          in_degree(_, _), degree(_, _), num_edges(_), num_edges_u(_, _), target(_, _), source(_, _)

\* transpose_view swaps the directions and the ends.
transposed_edges(g, u)     == in_edges(g.of, u)
transposed_in_edges(g, u)  == out_edges(g.of, u)
transposed_target_id(g, e) == source_id(g.of, e)
transposed_source_id(g, e) == target_id(g.of, e)
transposed_target(g, e)    == source(g.of, e)
transposed_source(g, e)    == target(g.of, e)
transposed_degree(g, u)    == in_degree(g.of, u)
transposed_in_degree(g, u) == degree(g.of, u)

\* compressed_graph: the columns of a row.
Row(g, u) ==
  LET ids == edge_ids(g, u) IN [k \in DOMAIN ids |-> [index |-> target_id_of(g, ids[k]), position |-> ids[k]]]

\* adjacency_matrix: the present cells of a row.
Cells(g, u) ==
  LET present == SelectSeq(Upto(g.size), LAMBDA v : g.flags[u * g.size + v + 1])
  IN  [k \in DOMAIN present |-> [column |-> present[k], cell |-> u * g.size + present[k] + 1]]

\* filtered_graph: the predicates are asked about the target and about both ends.
Kept(g, u) == SelectSeq(stored_at(g.of, u), LAMBDA e : e.first \in g.vpred /\ <<u, e.first>> \in g.epred)

out_edges(g, u) ==
  CASE g.kind = "transpose"  -> transposed_edges(g, u)
    [] g.kind = "filtered"   -> descriptors(u, FALSE, Kept(g, u))
    [] g.kind = "compressed" -> descriptors(u, FALSE, Row(g, u))
    [] g.kind = "matrix"     -> descriptors(u, FALSE, Cells(g, u))
    [] OTHER                 -> descriptors(u, FALSE, stored_at(g, u))

\* undirected_adjacency_list gives the same list with another tag.
in_edges(g, u) ==
  CASE g.kind = "transpose"  -> transposed_in_edges(g, u)
    [] g.kind = "undirected" -> descriptors(u, TRUE, stored_at(g, u))
    [] g.kind = "dynamic"    -> descriptors(u, TRUE, g.inLists[u + 1])

\* The end that the owner of the list is not; of a self-loop both are.
other_vertex_id(ends, u) == IF ends[1] = u THEN ends[2] ELSE ends[1]

\* The edges of edge lists are tuples, or have the ids as data members or functions.  Of a
\* graph, a target_id() of what is stored comes before everything that the graph has to say.
target_id(g, e) ==
  IF g.kind = "list" THEN IF e.form = "tuple" THEN e.get[2] ELSE e.target_id
  ELSE IF "target_id" \in DOMAIN e.edge THEN e.edge.target_id
  ELSE CASE g.kind = "transpose"  -> transposed_target_id(g, e)
         [] g.kind = "compressed" -> e.edge.index
         [] g.kind = "matrix"     -> e.edge.column
         [] g.kind = "undirected" -> other_vertex_id(e.edge.ends, e.source)
         [] OTHER                 -> own_target_id(g, e)

source_id(g, e) ==
  IF g.kind = "list" THEN IF e.form = "tuple" THEN e.get[1] ELSE e.source_id
  ELSE IF "source_id" \in DOMAIN e.edge THEN e.edge.source_id
  ELSE IF g.kind = "transpose" THEN transposed_source_id(g, e)
  ELSE own_source_id(g, e)

edge_value(g, e) ==
  CASE g.kind = "list"       -> IF e.form = "tuple" THEN e.get[3] ELSE e.value
    [] g.kind = "transpose"  -> edge_value(g.of, e)
    [] g.kind = "compressed" -> edge_value_of(g, e.edge.position)
    [] g.kind = "matrix"     -> g.cells[e.edge.cell]
    [] OTHER                 -> own_value(e)

\* The default of source is the vertex in whose list the edge is, of target a search by id.
target(g, e) == IF g.kind = "transpose" THEN transposed_target(g, e) ELSE find_vertex(g, target_id(g, e))
source(g, e) == IF g.kind = "transpose" THEN transposed_source(g, e) ELSE e.source

degree(g, u)    == IF g.kind = "transpose" THEN transposed_degree(g, u) ELSE Len(out_edges(g, u))
in_degree(g, u) == IF g.kind = "transpose" THEN transposed_in_degree(g, u) ELSE Len(in_edges(g, u))

num_edges_u(g, u) ==
  CASE g.kind = "transpose"  -> num_edges_u(g.of, u)
    [] g.kind = "compressed" -> row_size(g, u)
    [] OTHER                 -> Len(out_edges(g, u))

\* Containers count by themselves; by default the edges of all vertices are counted.
num_edges(g) ==
  CASE g.kind = "transpose"  -> num_edges(g.of)
    [] g.kind = "compressed" -> Len(g.cols)
    [] g.kind \in {"dynamic", "undirected", "matrix"} -> g.count
    [] OTHER                 -> FoldLeft(LAMBDA n, u : n + Len(out_edges(g, u)), 0, vertices(g))

has_edges(g) ==
  IF "has_edge" \in Offers(g) THEN num_edges(g) > 0 ELSE \E u \in ToSet(vertices(g)) : out_edges(g, u) # <<>>

\* By id: of the vertex that is found.
out_edges_id(g, uid) == out_edges(g, find_vertex(g, uid))
in_edges_id(g, uid)  == in_edges(g, find_vertex(g, uid))
degree_id(g, uid)    == degree(g, find_vertex(g, uid))
in_degree_id(g, uid) == in_degree(g, find_vertex(g, uid))

-----------------------------------------------------------------------------
(* Searches *)

NoEdge == [source |-> -1]

\* find_if over a list of edges, for the first one to vid.
FirstEdge(g, es, vid) ==
  LET found == SelectSeq(es, LAMBDA e : target_id(g, e) = vid)
  IN  IF found = <<>> THEN NoEdge ELSE found[1]

find_vertex_edge_uid(g, u, vid) == FirstEdge(g, out_edges(g, u), vid)
find_vertex_edge(g, u, v)       == find_vertex_edge_uid(g, u, vertex_id(g, v))
find_vertex_edge_id(g, uid, vid) == find_vertex_edge_uid(g, find_vertex(g, uid), vid)

\* The in-edge of u from v is looked for among the out-edges of v.
find_in_edge(g, u, v) == find_vertex_edge(g, v, u)

\* Mutant of find_in_edge_uid: it is looked for among the out-edges of u.
find_in_edge_own(g, u, vid) == FirstEdge(g, out_edges(g, u), vid)

find_in_edge_uid(g, u, vid) ==
  FirstEdge(g, out_edges(g, find_vertex(g, vid)), vertex_id(g, u))

find_in_edge_id(g, uid, vid) == find_vertex_edge_id(g, vid, uid)

contains_edge(g, u, v) == \E e \in ToSet(out_edges(g, u)) : target_id(g, e) = vertex_id(g, v)
contains_edge_id(g, uid, vid) == \E e \in ToSet(out_edges(g, find_vertex(g, uid))) : target_id(g, e) = vid

contains_in_edge(g, u, v) == \E e \in ToSet(out_edges(g, v)) : target_id(g, e) = vertex_id(g, u)
contains_in_edge_id(g, uid, vid) == \E e \in ToSet(out_edges(g, find_vertex(g, vid))) : target_id(g, e) = uid

-----------------------------------------------------------------------------
(* Property maps *)

\* A vector over the positions or, of a map, a hash map over the keys.
make_vertex_property_map(g, init) ==
  IF Keyed(g) THEN [uid \in {vertex_id(g, u) : u \in ToSet(vertices(g))} |-> init]
  ELSE [uid \in 0..(num_vertices(g) - 1) |-> init]

\* Without a value to start from: a vector of zeros, or nothing.
make_lazy_property_map(g) ==
  IF Keyed(g) THEN [uid \in {} |-> 0] ELSE [uid \in 0..(num_vertices(g) - 1) |-> 0]

vertex_property_map_contains(m, uid)     == uid \in DOMAIN m
vertex_property_map_get(m, uid, default) == IF uid \in DOMAIN m THEN m[uid] ELSE default
=============================================================================
