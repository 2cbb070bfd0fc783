----------------------------- MODULE BasicViews -----------------------------
(***************************************************************************)
(* The views that only walk a graph or a list of edges: vertexlist,        *)
(* edgelist, incidence and neighbors (with the accessor of the in-edges    *)
(* in_incidence and in_neighbors), each in four flavours: with or without  *)
(* the descriptor (basic_), with or without a value function.  A view is   *)
(* begun on a graph of any kind and incremented to its end.  The graph     *)
(* holds the arcs that were meant for it, each with its number as value.   *)
(***************************************************************************)
EXTENDS GraphFunctions

CONSTANTS ViewOrder,  \* vertices of the graphs
          MaxArcs,    \* bound: arcs of a graph
          Kinds       \* kinds of graphs

VARIABLES viewed,  \* g_, the graph or the edge list
          arcs,    \* what it holds, in the order given, as <<source, target>>
          view,    \* the view that is walked
          cursor,  \* its iterator: v_ or current_, and the position among the edges of v
          yielded  \* what it yielded so far

vars == <<viewed, arcs, view, cursor, yielded>>

Vertices == 0..(ViewOrder - 1)
NoView   == [name |-> "none"]
Start    == [v |-> 0, k |-> 1]

-----------------------------------------------------------------------------
(* The graphs, as their containers hold the arcs *)

\* The numbers of the arcs with a property, in order.
Numbers(as, Test(_)) == SelectSeq([k \in DOMAIN as |-> k], LAMBDA k : Test(as[k]))

\* For each vertex, the arcs that Test finds there, stored as Stored(number) says.
Lists(as, Test(_, _), Stored(_)) ==
  [p \in 1..ViewOrder |-> LET ks == Numbers(as, LAMBDA a : Test(a, p - 1))
                          IN  [j \in DOMAIN ks |-> Stored(ks[j])]]

Leaves(a, u)  == a[1] = u
Enters(a, u)  == a[2] = u
Touches(a, u) == u \in {a[1], a[2]}

Base(kind) == [kind |-> kind, size |-> ViewOrder, value |-> "graph",
               vertexValues |-> [p \in 1..ViewOrder |-> p + 10]]

\* The keys of a map; of the other graphs an id is a position.
Key(u)  == 2 * u + 1
Name(u) == IF viewed.kind = "mapped" THEN Key(u) ELSE u

Mapped(as) == [keys |-> [p \in 1..ViewOrder |-> Key(p - 1)],
               lists |-> Lists(as, Leaves, LAMBDA k : [first |-> Key(as[k][2]), second |-> k])] @@ Base("mapped")

Vov(as) == [lists |-> Lists(as, Leaves, LAMBDA k : [first |-> as[k][2], second |-> k])] @@ Base("vov")

Compressed(as, partition) ==
  [rows      |-> [p \in 1..(ViewOrder + 1) |-> Len(Numbers(as, LAMBDA a : a[1] < p - 1))],
   cols      |-> [k \in DOMAIN as |-> as[k][2]],
   values    |-> [k \in DOMAIN as |-> k],
   partition |-> partition] @@ Base("compressed")

Dynamic(as) ==
  [lists   |-> Lists(as, Leaves, LAMBDA k : [target_id |-> as[k][2], value |-> k]),
   inLists |-> Lists(as, Enters, LAMBDA k : [source_id |-> as[k][1], value |-> k]),
   count   |-> Len(as)] @@ Base("dynamic")

Undirected(as) ==
  [lists |-> Lists(as, Touches, LAMBDA k : [ends |-> as[k], value |-> k]),
   count |-> Len(as)] @@ Base("undirected")

Matrix(as) ==
  LET plane == [p \in 1..(ViewOrder * ViewOrder) |->
                  Numbers(as, LAMBDA a : a[1] * ViewOrder + a[2] + 1 = p)]
  IN  [flags |-> [p \in DOMAIN plane |-> plane[p] # <<>>],
       cells |-> [p \in DOMAIN plane |-> IF plane[p] = <<>> THEN 0 ELSE plane[p][1]],
       count |-> Len(as)] @@ Base("matrix")

\* The edges of edge lists: tuples, aggregates with members, or descriptors with functions.
edge_descriptor(form, src, tgt, val) ==
  IF form = "tuple" THEN [form |-> form, get |-> <<src, tgt, val>>]
  ELSE [form |-> form, source_id |-> src, target_id |-> tgt, value |-> val]

GraphsOf(kind, as) ==
  CASE kind = "vov"        -> {Vov(as)}
    [] kind = "mapped"     -> {Mapped(as)}
    [] kind = "compressed" -> {Compressed(as, p) : p \in {<<0, ViewOrder>>, <<0, 1, ViewOrder>>, <<0, 1, 2, ViewOrder>>}}
    [] kind = "dynamic"    -> {Dynamic(as)}
    [] kind = "undirected" -> IF \E a \in ToSet(as) : a[1] = a[2] THEN {} ELSE {Undirected(as)}
    [] kind = "matrix"     -> IF IsInjective(as) THEN {Matrix(as)} ELSE {}
    [] kind = "transpose"  -> {[kind |-> "transpose", of |-> Dynamic(as)]}
    [] kind = "filtered"   -> {[of |-> Vov(as), vpred |-> vs, epred |-> es] @@ Base("filtered") :
                                 vs \in {Vertices, {0, 2}},
                                 es \in {Vertices \X Vertices, {p \in Vertices \X Vertices : p[1] <= p[2]}}}
    [] kind = "list"       -> {[kind |-> "list", edges |-> [k \in DOMAIN as |-> edge_descriptor(form, as[k][1], as[k][2], k)]] :
                                 form \in {"tuple", "edge_data", "edge_descriptor"}}

\* A range of edges as load_edges of compressed_graph takes it, sorted by source.
Init ==
  /\ \E n \in 0..MaxArcs, kind \in Kinds :
       /\ arcs \in [1..n -> Vertices \X Vertices]
       /\ kind # "list" => \A k \in 2..n : arcs[k - 1][1] <= arcs[k][1]
       /\ viewed \in GraphsOf(kind, arcs)
  /\ view = NoView /\ cursor = Start /\ yielded = <<>>

-----------------------------------------------------------------------------
(* Accessors *)

accessed_edges(in, u) == IF in THEN in_edges(viewed, u) ELSE out_edges(viewed, u)
neighbor_id(in, e)    == IF in THEN source_id(viewed, e) ELSE target_id(viewed, e)
neighbor(in, e)       == IF in THEN find_vertex(viewed, source_id(viewed, e)) ELSE target(viewed, e)

\* Are source_id of in-edges, and vertex values, to be had?
InEdgesHaveSources == viewed.kind = "dynamic"
HasVertexValues    == viewed.kind \in {"compressed", "dynamic", "undirected"}

-----------------------------------------------------------------------------
(* Iterators *)

\* Mutant of advance_to_valid_edge: a vertex without edges is not passed.
advance_to_next_vertex(v) == [v |-> v, k |-> 1]

\* To the first edge of the first vertex, from v on, that has edges.
advance_to_valid_edge(v) ==
  [v |-> Min({ViewOrder} \cup {w \in v..(ViewOrder - 1) : out_edges(viewed, w) # <<>>}), k |-> 1]

Begin(name, in, first, last, basic, valued) ==
  /\ view = NoView
  /\ view' = [name |-> name, in |-> in, first |-> first, last |-> last, basic |-> basic, valued |-> valued]
  /\ cursor' = CASE name = "edgelist"      -> advance_to_valid_edge(0)
                 [] name = "edge_list"     -> Start
                 [] OTHER                  -> [v |-> first, k |-> 1]
  /\ UNCHANGED <<viewed, arcs, yielded>>

\* vertexlist(g) runs over all vertices, the other overloads over a range or up to a vertex.
BeginVertexlist ==
  /\ viewed.kind # "list"
  /\ \E first \in 0..num_vertices(viewed), last \in 0..num_vertices(viewed), basic, valued \in BOOLEAN :
       /\ first <= last
       /\ valued => HasVertexValues
       /\ Begin("vertexlist", FALSE, first, last, basic, valued)

BeginEdgelist ==
  /\ viewed.kind # "list"
  /\ \E basic, valued \in BOOLEAN : Begin("edgelist", FALSE, 0, 0, basic, valued)

BeginEdgeListEdgelist ==
  /\ viewed.kind = "list"
  /\ \E valued \in BOOLEAN : Begin("edge_list", FALSE, 0, 0, FALSE, valued)

BeginIncidence ==
  /\ viewed.kind # "list"
  /\ \E u \in Vertices, basic, valued \in BOOLEAN : Begin("incidence", FALSE, u, u, basic, valued)

BeginInIncidence ==
  /\ InEdgesHaveSources
  /\ \E u \in Vertices, basic, valued \in BOOLEAN : Begin("incidence", TRUE, u, u, basic, valued)

BeginNeighbors ==
  /\ viewed.kind # "list"
  /\ \E u \in Vertices, basic, valued \in BOOLEAN :
       /\ valued => HasVertexValues
       /\ Begin("neighbors", FALSE, u, u, basic, valued)

BeginInNeighbors ==
  /\ InEdgesHaveSources
  /\ \E u \in Vertices, basic, valued \in BOOLEAN : Begin("neighbors", TRUE, u, u, basic, valued)

AtEnd ==
  CASE view.name = "vertexlist" -> cursor.v = view.last
    [] view.name = "edgelist"   -> cursor.v = ViewOrder
    [] view.name = "edge_list"  -> cursor.k > Len(viewed.edges)
    [] OTHER                    -> cursor.k > Len(accessed_edges(view.in, cursor.v))

\* What a value function, if there is one, adds to what is yielded.
VertexValue(u) == IF view.valued THEN [value |-> vertex_value(viewed, u)] ELSE <<>>
EdgeValue(e)   == IF view.valued THEN [value |-> edge_value(viewed, e)] ELSE <<>>

Yield(x)   == yielded' = Append(yielded, x)
NextVertex == cursor' = [cursor EXCEPT !.v = @ + 1]
NextEdge   == cursor' = [cursor EXCEPT !.k = @ + 1]

\* The next edge of a vertex, or the first one of the next vertex that has any.
NextOfAllEdges ==
  cursor' = IF cursor.k < Len(out_edges(viewed, cursor.v)) THEN [cursor EXCEPT !.k = @ + 1]
            ELSE advance_to_valid_edge(cursor.v + 1)

\* operator*, then operator++ of each view.
IncrementVertexlist ==
  LET u == cursor.v
  IN  NextVertex /\ Yield([target |-> vertex_id(viewed, u), vertex |-> u] @@ VertexValue(u))

IncrementBasicVertexlist ==
  NextVertex /\ Yield([target |-> vertex_id(viewed, cursor.v)] @@ VertexValue(cursor.v))

IncrementEdgelist ==
  LET u == cursor.v
      e == out_edges(viewed, u)[cursor.k]
  IN  /\ Yield([source |-> vertex_id(viewed, u), target |-> target_id(viewed, e), edge |-> e] @@ EdgeValue(e))
      /\ NextOfAllEdges

IncrementBasicEdgelist ==
  LET u == cursor.v
      e == out_edges(viewed, u)[cursor.k]
  IN  /\ Yield([source |-> vertex_id(viewed, u), target |-> target_id(viewed, e)] @@ EdgeValue(e))
      /\ NextOfAllEdges

IncrementEdgeListEdgelist ==
  LET e == viewed.edges[cursor.k]
  IN  /\ Yield([source |-> source_id(viewed, e), target |-> target_id(viewed, e), edge |-> e] @@ EdgeValue(e))
      /\ NextEdge

IncrementIncidence ==
  LET e == accessed_edges(view.in, cursor.v)[cursor.k]
  IN  NextEdge /\ Yield([target |-> neighbor_id(view.in, e), edge |-> e] @@ EdgeValue(e))

IncrementBasicIncidence ==
  LET e == accessed_edges(view.in, cursor.v)[cursor.k]
  IN  NextEdge /\ Yield([target |-> neighbor_id(view.in, e)] @@ EdgeValue(e))

IncrementNeighbors ==
  LET e == accessed_edges(view.in, cursor.v)[cursor.k]
      w == neighbor(view.in, e)
  IN  NextEdge /\ Yield([target |-> neighbor_id(view.in, e), vertex |-> w] @@ VertexValue(w))

IncrementBasicNeighbors ==
  LET e == accessed_edges(view.in, cursor.v)[cursor.k]
  IN  NextEdge /\ Yield([target |-> neighbor_id(view.in, e)] @@ VertexValue(neighbor(view.in, e)))

Increment ==
  /\ view # NoView /\ ~AtEnd
  /\ CASE view.name = "vertexlist" -> IF view.basic THEN IncrementBasicVertexlist ELSE IncrementVertexlist
       [] view.name = "edgelist"   -> IF view.basic THEN IncrementBasicEdgelist ELSE IncrementEdgelist
       [] view.name = "edge_list"  -> IncrementEdgeListEdgelist
       [] view.name = "incidence"  -> IF view.basic THEN IncrementBasicIncidence ELSE IncrementIncidence
       [] view.name = "neighbors"  -> IF view.basic THEN IncrementBasicNeighbors ELSE IncrementNeighbors
  /\ UNCHANGED <<viewed, arcs, view>>

Next == \/ BeginVertexlist \/ BeginEdgelist \/ BeginEdgeListEdgelist
        \/ BeginIncidence \/ BeginInIncidence \/ BeginNeighbors \/ BeginInNeighbors
        \/ Increment

Spec == Init /\ [][Next]_vars

size ==
  CASE view.name = "vertexlist" -> IF Keyed(viewed) THEN view.last - view.first  \* that of the range
                                   ELSE vertex_id(viewed, view.last) - vertex_id(viewed, view.first)
    [] view.name = "edgelist"   -> num_edges(viewed)
    [] view.name = "edge_list"  -> Len(viewed.edges)
    [] OTHER                    -> Len(accessed_edges(view.in, view.first))

-----------------------------------------------------------------------------
(* Properties *)

\* What the edges at u should lead to: the other end and the number of each arc.  For a
\* filtered graph this is what filtered_graph does, which tests the predicate on targets
\* only; its comment excludes the edges of excluded sources too (README).
Meant(u, in) ==
  LET entering == in # (viewed.kind = "transpose")
      here(a)  == CASE viewed.kind = "undirected" -> Touches(a, u)
                    [] viewed.kind = "filtered"   -> Leaves(a, u) /\ a[2] \in viewed.vpred /\ a \in viewed.epred
                    [] OTHER -> IF entering THEN Enters(a, u) ELSE Leaves(a, u)
      ks       == Numbers(arcs, here)
      found    == [j \in DOMAIN ks |->
                     <<Name(IF entering \/ (viewed.kind = "undirected" /\ arcs[ks[j]][1] # u)
                            THEN arcs[ks[j]][1] ELSE arcs[ks[j]][2]), ks[j]>>]
  IN  IF viewed.kind = "matrix" THEN SortSeq(found, LAMBDA a, b : a[1] < b[1]) ELSE found

\* vertices, partitions and values of vertices agree with each other.
VerticesExact(g) ==
  /\ vertices(g) = Upto(ViewOrder) /\ num_vertices(g) = ViewOrder
  /\ g.kind \in {"mapped", "dynamic", "undirected"} => find_vertex(g, 2 * ViewOrder) = ViewOrder
  /\ num_partitions(g) = 1 => \A pid \in 0..1 : num_vertices_pid(g, pid) = Len(vertices_pid(g, pid))
  /\ LET m == make_vertex_property_map(g, 7)
     IN  \A id \in 0..(2 * ViewOrder) :
           LET known == \E u \in Vertices : Name(u) = id
           IN  /\ vertex_property_map_contains(m, id) <=> known
               /\ vertex_property_map_get(m, id, 9) = IF known THEN 7 ELSE 9
  /\ \A u \in Vertices :
       /\ find_vertex(g, Name(u)) = u /\ vertex_id(g, u) = Name(u)
       /\ \A pid \in 0..num_partitions(g) :
            u \in ToSet(vertices_pid(g, pid)) <=> pid = partition_id(g, u)
       /\ HasVertexValues => vertex_value_id(g, u) = u + 11

\* So do the edges at u and their ends, as far as EndsExact does not go wrong.
EdgesExact(g, u) ==
  LET out == out_edges_id(g, Name(u))
  IN  /\ [k \in DOMAIN out |-> <<target_id(g, out[k]), edge_value(g, out[k])>>] = Meant(u, FALSE)
      /\ out = out_edges(g, u)
      /\ {degree(g, u), degree_id(g, Name(u))} = {Len(out)}
      /\ g.kind # "transpose" => num_edges_u(g, u) = Len(out)
      /\ \A e \in ToSet(out) : source(g, e) = u
      /\ g.kind # "transpose" =>
           \A e \in ToSet(out) : vertex_id(g, target(g, e)) = target_id(g, e) /\ source_id(g, e) = Name(u)
      /\ g.kind \in {"dynamic", "transpose"} =>
           LET in == in_edges_id(g, u)
           IN  /\ [k \in DOMAIN in |-> <<source_id(g, in[k]), edge_value(g, in[k])>>] = Meant(u, TRUE)
               /\ in_degree(g, u) = Len(in) /\ in_degree_id(g, u) = Len(in)

\* Every search for an edge by ids or descriptors finds the same, from either end.
SearchesExact(g, u, v) ==
  LET there   == \E p \in ToSet(Meant(u, FALSE)) : p[1] = Name(v)
      answers == <<find_vertex_edge(g, u, v), find_vertex_edge_uid(g, u, Name(v)),
                   find_vertex_edge_id(g, Name(u), Name(v)),
                   find_in_edge(g, v, u), find_in_edge_uid(g, v, Name(u)), find_in_edge_id(g, Name(v), Name(u))>>
  IN  /\ {contains_edge(g, u, v), contains_edge_id(g, Name(u), Name(v)),
           contains_in_edge(g, v, u), contains_in_edge_id(g, Name(v), Name(u))} = {there}
      /\ \A k \in DOMAIN answers :
           IF answers[k] = NoEdge THEN ~there
           ELSE there /\ answers[k].source = u /\ target_id(g, answers[k]) = Name(v)

\* On a graph of any kind, whichever of its own functions the generic ones find, all of
\* them give the same graph: the one that the arcs describe.
FunctionsExact ==
  view = NoView /\ viewed.kind # "list" =>
    /\ VerticesExact(viewed)
    /\ \A u \in Vertices : EdgesExact(viewed, u)
    /\ \A u, v \in Vertices : SearchesExact(viewed, u, v)
    /\ LET ends == FoldLeft(LAMBDA n, u : n + Len(Meant(u, FALSE)), 0, Upto(ViewOrder))
       IN  /\ num_edges(viewed) = IF viewed.kind = "undirected" THEN ends \div 2 ELSE ends
           /\ has_edges(viewed) <=> ends > 0

\* What a view should yield, with all fields.
Wanted ==
  CASE view.name = "vertexlist" ->
         [k \in 1..(view.last - view.first) |->
            LET u == view.first + k - 1 IN [target |-> Name(u), vertex |-> u, value |-> u + 11]]
    [] view.name = "edgelist" ->
         FlattenSeq([p \in 1..ViewOrder |->
           LET meant == Meant(p - 1, FALSE)
           IN  [k \in DOMAIN meant |-> [source |-> Name(p - 1), target |-> meant[k][1], value |-> meant[k][2]]]])
    [] view.name = "edge_list" ->
         [k \in DOMAIN arcs |-> [source |-> arcs[k][1], target |-> arcs[k][2], value |-> k]]
    [] OTHER ->
         LET meant == Meant(view.first, view.in)
         IN  [k \in DOMAIN meant |->
                LET w == CHOOSE x \in Vertices : Name(x) = meant[k][1]
                IN  [target |-> Name(w), vertex |-> w,
                     value  |-> IF view.name = "neighbors" THEN w + 11 ELSE meant[k][2]]]

\* A view yields the vertices or the arcs it is about, each once and in order, with the
\* right values and descriptors, past vertices without edges; and its size says how many.
ViewsExact ==
  view # NoView =>
    LET wanted == Wanted
    IN  /\ Len(yielded) <= Len(wanted)
        /\ AtEnd <=> Len(yielded) = Len(wanted)
        /\ \A k \in DOMAIN yielded : \A f \in DOMAIN yielded[k] :
             IF f = "edge" THEN edge_value(viewed, yielded[k].edge) = wanted[k].value
             ELSE \/ yielded[k][f] = wanted[k][f]
                  \/ f = "vertex" /\ view.name = "neighbors" /\ viewed.kind = "transpose"
        /\ (view.name = "edgelist" /\ viewed.kind = "undirected") \/ size = Len(wanted)

\* Not so of every graph: each edge at u has u as its source, each in-edge as its target,
\* whether asked for ids or vertices, and there are num_edges(g, u) edges.
EndsExact ==
  view = NoView /\ viewed.kind # "list" =>
    \A u \in Vertices :
      /\ num_edges_u(viewed, u) = Len(out_edges(viewed, u))
      /\ \A e \in ToSet(out_edges(viewed, u)) :
           source_id(viewed, e) = Name(u) /\ vertex_id(viewed, target(viewed, e)) = target_id(viewed, e)
      /\ "in_edges" \in Offers(viewed) =>
           \A e \in ToSet(in_edges(viewed, u)) :
             /\ target_id(viewed, e) = u /\ \E p \in ToSet(Meant(u, TRUE)) : p[1] = source_id(viewed, e)
             /\ source(viewed, e) = source_id(viewed, e)

\* Nor: what was never written reads as the default value that the caller names.
UnwrittenReadsDefault ==
  view = NoView /\ viewed.kind # "list" =>
    \A u \in Vertices : vertex_property_map_get(make_lazy_property_map(viewed), Name(u), 9) = 9
=============================================================================
