---------------------------- MODULE DynamicGraph ----------------------------
(***************************************************************************)
(* dynamic_graph: a container of vertices, each with a container of        *)
(* out-edges and, in a bidirectional graph, one of in-edges.  The traits   *)
(* choose the containers: vertices numbered by position or with keys,      *)
(* edge containers that keep every entry (vector, deque, list,             *)
(* forward_list) or one per id (set, unordered_set, map).  The order of    *)
(* entries is left out; an entry has the id of the other endpoint and a    *)
(* value that tells parallel edges apart.  load_edges takes one step per   *)
(* edge, as it may throw between two.                                      *)
(***************************************************************************)
EXTENDS Integers, Sequences, FiniteSets, FiniteSetsExt

CONSTANTS Val,           \* edge values
          MaxVertices,   \* bound: vertices of a graph
          MaxEdges,      \* bound: num_edges
          MaxRange,      \* bound: edges of one load
          Traits,        \* the kinds of containers
          SourcesExist,  \* does every caller of add_edge name a source that exists?
          Grows          \* is resize_vertices used only to grow a graph?

ASSUME DynamicGraphAssumption ==
  /\ {MaxVertices, MaxEdges, MaxRange} \subseteq Nat /\ MaxRange <= MaxEdges /\ MaxVertices > 0
  /\ Traits \subseteq [keyed : BOOLEAN, unique : BOOLEAN, bidirectional : BOOLEAN]
  /\ {SourcesExist, Grows} \subseteq BOOLEAN

VARIABLES traits,     \* the containers of this graph
          edges,      \* vertices_ with their out-edges
          inEdges,    \* their in-edges
          edgeCount,  \* edge_count_
          load        \* the load_edges in progress: the edges still to come

vars == <<traits, edges, inEdges, edgeCount, load>>

Ids      == 0..(MaxVertices - 1)
Entry    == [id : Ids, val : Val]
Ranges   == UNION {[1..n -> [u : Ids, v : Ids]] : n \in 0..MaxRange}
NoLoad   == [edges |-> <<>>, by |-> "none"]
Vertices == DOMAIN edges

\* The numbers up to the greatest id in a range of edges.
Named(es) == 0..Max({0} \cup {es[i].u : i \in DOMAIN es} \cup {es[i].v : i \in DOMAIN es})

Stored(f) == {s \in (DOMAIN f) \X Entry : s[2] \in f[s[1]]}
Fresh(val) == \A s \in Stored(edges) \cup Stored(inEdges) : s[2].val # val

\* vertices_.resize: vertices that stay keep their edges.
Over(f, vs) == [u \in vs |-> IF u \in DOMAIN f THEN f[u] ELSE {}]

Resized(vs) == /\ edges' = Over(edges, vs)
               /\ inEdges' = Over(inEdges, vs)

-----------------------------------------------------------------------------
(* Containers of edges *)

\* emplace_edge: a set or map keeps the entry that it has.
Emplace(es, id, val) ==
  IF traits.unique /\ \E e \in es : e.id = id THEN es ELSE es \cup {[id |-> id, val |-> val]}

\* remove_out_edges_targeting and remove_in_edges_for.
Without(es, id) == {e \in es : e.id # id}

\* adjust_out_edge_ids and adjust_in_edge_ids: entries beyond u are lowered; in
\* a set or map they are taken out and put in again, unless the id is there.
Adjusted(es, u) ==
  LET low     == {e \in es : e.id <= u}
      lowered == {[e EXCEPT !.id = @ - 1] : e \in es \ low}
  IN  low \cup {e \in lowered : ~(traits.unique /\ \E f \in low : f.id = e.id)}

-----------------------------------------------------------------------------
(* Construction and loading *)

\* The constructors without edges, or the one that takes an initializer list,
\* which sizes the graph for the ids it names and enters load_edges.  The other
\* constructors make an empty graph and call load_vertices and load_edges.
Init ==
  /\ traits \in Traits
  /\ \/ /\ \E n \in 0..MaxVertices :
             edges = [u \in IF traits.keyed THEN {} ELSE 0..(n - 1) |-> {}]
        /\ load = NoLoad
     \/ \E es \in Ranges :
          /\ edges = [u \in IF traits.keyed THEN {} ELSE Named(es) |-> {}]
          /\ load = [edges |-> es, by |-> "list"]
  /\ inEdges = edges
  /\ edgeCount = 0

\* A new load_edges.  Without a vertex count, a range that can be read twice
\* makes the graph large enough.
LoadEdges(es, count, forward) ==
  /\ load = NoLoad
  /\ edgeCount + Len(es) <= MaxEdges
  /\ load' = [edges |-> es, by |-> "call"]
  /\ IF traits.keyed THEN UNCHANGED <<edges, inEdges>>
     ELSE LET infers == count = 0 /\ forward /\ es # <<>>
          IN  Resized(Vertices \cup 0..(count - 1) \cup IF infers THEN Named(es) ELSE {})
  /\ UNCHANGED <<traits, edgeCount>>

\* Both lists get the entry.
Link(f, g, u, v, val) ==
  /\ edges' = [f EXCEPT ![u] = Emplace(@, v, val)]
  /\ inEdges' = IF traits.bidirectional THEN [g EXCEPT ![v] = Emplace(@, u, val)] ELSE g

\* Vertices with keys are inserted when an edge names them.
LoadEdge(val) ==
  /\ load.edges # <<>>
  /\ LET e  == Head(load.edges)
         vs == IF traits.keyed THEN Vertices \cup {e.u, e.v} ELSE Vertices
     IN  /\ {e.u, e.v} \subseteq vs
         /\ Fresh(val)
         /\ Link(Over(edges, vs), Over(inEdges, vs), e.u, e.v, val)
  /\ edgeCount' = edgeCount + 1
  /\ load' = [load EXCEPT !.edges = Tail(@)]
  /\ UNCHANGED traits

\* An id that is too large throws; the edges before it stay.
LoadThrows ==
  /\ load.edges # <<>>
  /\ ~traits.keyed
  /\ ~({Head(load.edges).u, Head(load.edges).v} \subseteq Vertices)
  /\ load' = NoLoad
  /\ UNCHANGED <<traits, edges, inEdges, edgeCount>>

LoadReturns ==
  /\ load # NoLoad /\ load.edges = <<>>
  /\ load' = NoLoad
  /\ UNCHANGED <<traits, edges, inEdges, edgeCount>>

\* load_vertices: a numbered graph grows by the count and by how many there are, if the
\* range knows its size; an id beyond that throws and changes no more.
LoadVertices(vs, count, sized) ==
  /\ load = NoLoad
  /\ Resized(Vertices \cup IF traits.keyed THEN vs
                          ELSE IF sized THEN 0..(Max({count, Cardinality(vs)}) - 1)
                          ELSE {})
  /\ UNCHANGED <<traits, edgeCount, load>>

-----------------------------------------------------------------------------
(* Mutation *)

\* add_vertex() or, with keys, add_vertex(id).
AddVertex(u) ==
  /\ load = NoLoad
  /\ traits.keyed \/ u = Cardinality(Vertices)
  /\ Resized(Vertices \cup {u})
  /\ UNCHANGED <<traits, edgeCount, load>>

\* Mutant of AddEdge: the in-edge has the id of its target.
AddEdgeBackwards(u, v, val) ==
  /\ load = NoLoad
  /\ {u, v} \subseteq Vertices
  /\ edgeCount < MaxEdges /\ Fresh(val)
  /\ edges' = [edges EXCEPT ![u] = Emplace(@, v, val)]
  /\ inEdges' = IF traits.bidirectional THEN [inEdges EXCEPT ![u] = Emplace(@, v, val)]
                ELSE inEdges
  /\ edgeCount' = edgeCount + 1
  /\ UNCHANGED <<traits, load>>

AddEdge(u, v, val) ==
  /\ load = NoLoad
  /\ {u, v} \subseteq Vertices
  /\ edgeCount < MaxEdges /\ Fresh(val)
  /\ Link(edges, inEdges, u, v, val)
  /\ edgeCount' = edgeCount + 1
  /\ UNCHANGED <<traits, load>>

\* The in-edge is there already when a missing source throws.
AddEdgeThrows(u, v, val) ==
  /\ load = NoLoad
  /\ ~({u, v} \subseteq Vertices)
  /\ SourcesExist => u \in Vertices
  /\ Fresh(val)
  /\ inEdges' = IF traits.bidirectional /\ v \in Vertices
                THEN [inEdges EXCEPT ![v] = Emplace(@, u, val)] ELSE inEdges
  /\ UNCHANGED <<traits, edges, edgeCount, load>>

\* Mutant of RemoveEdge: one edge is counted, however many are removed.
RemoveEdgeCountsOne(u, v) ==
  /\ load = NoLoad
  /\ u \in Vertices
  /\ \E e \in edges[u] : e.id = v
  /\ edges' = [edges EXCEPT ![u] = Without(@, v)]
  /\ inEdges' = IF traits.bidirectional /\ v \in Vertices
                THEN [inEdges EXCEPT ![v] = Without(@, u)] ELSE inEdges
  /\ edgeCount' = edgeCount - 1
  /\ UNCHANGED <<traits, load>>

\* remove_edge removes all the parallel edges.
RemoveEdge(u, v) ==
  /\ load = NoLoad
  /\ u \in Vertices
  /\ LET count == Cardinality({e \in edges[u] : e.id = v})
     IN  /\ edges' = [edges EXCEPT ![u] = Without(@, v)]
         /\ inEdges' = IF traits.bidirectional /\ count > 0 /\ v \in Vertices
                       THEN [inEdges EXCEPT ![v] = Without(@, u)] ELSE inEdges
         /\ edgeCount' = edgeCount - count
  /\ UNCHANGED <<traits, load>>

\* Mutant of Unlinked: edges to u are looked for at the targets of u.
UnlinkedAtTargets(u) ==
  LET targets == {e.id : e \in edges[u]}
  IN  [out |-> [s \in Vertices |-> IF s # u /\ s \in targets THEN Without(edges[s], u)
                                   ELSE edges[s]],
       in  |-> [v \in Vertices |-> IF traits.bidirectional /\ v # u /\ v \in targets
                                   THEN Without(inEdges[v], u) ELSE inEdges[v]]]

\* The lists of the others without u.  A bidirectional graph visits only the
\* targets of the out-edges and the sources of the in-edges.
Unlinked(u) ==
  LET targets == {e.id : e \in edges[u]}
      sources == IF traits.bidirectional THEN {e.id : e \in inEdges[u]} ELSE Vertices
  IN  [out |-> [s \in Vertices |-> IF s # u /\ s \in sources THEN Without(edges[s], u)
                                   ELSE edges[s]],
       in  |-> [v \in Vertices |-> IF traits.bidirectional /\ v # u /\ v \in targets
                                   THEN Without(inEdges[v], u) ELSE inEdges[v]]]

\* vertices_.erase: a numbered graph has one position less.
Erased(f, u) ==
  IF traits.keyed THEN [w \in Vertices \ {u} |-> f[w]]
  ELSE [w \in 0..(Cardinality(Vertices) - 2) |-> Adjusted(f[IF w < u THEN w ELSE w + 1], u)]

RemoveVertex(u) ==
  /\ load = NoLoad
  /\ u \in Vertices
  /\ LET lists   == Unlinked(u)
         removed == {s \in Stored(edges) : s[1] = u \/ s[2] \notin lists.out[s[1]]}
     IN  /\ edges' = Erased(lists.out, u)
         /\ inEdges' = Erased(lists.in, u)
         /\ edgeCount' = edgeCount - Cardinality(removed)
  /\ UNCHANGED <<traits, load>>

ResizeVertices(count) ==
  /\ load = NoLoad
  /\ ~traits.keyed
  /\ Grows => count >= Cardinality(Vertices)
  /\ Resized(0..(count - 1))
  /\ UNCHANGED <<traits, edgeCount, load>>

Clear ==
  /\ load = NoLoad
  /\ Resized({})
  /\ edgeCount' = 0
  /\ UNCHANGED <<traits, load>>

Loads ==
  \/ \E es \in Ranges, count \in 0..MaxVertices, forward \in BOOLEAN :
       LoadEdges(es, count, forward)
  \/ \E vs \in SUBSET Ids, count \in 0..MaxVertices, sized \in BOOLEAN : LoadVertices(vs, count, sized)

Changes ==
  \/ \E u \in Ids : AddVertex(u) \/ RemoveVertex(u)
  \/ \E u, v \in Ids : RemoveEdge(u, v)
  \/ \E u, v \in Ids, val \in Val : AddEdge(u, v, val) \/ AddEdgeThrows(u, v, val)
  \/ \E count \in 0..MaxVertices : ResizeVertices(count)
  \/ Clear

Next == \/ load = NoLoad /\ (Loads \/ Changes)
        \/ \E val \in Val : LoadEdge(val)
        \/ LoadThrows
        \/ LoadReturns

Spec == Init /\ [][Next]_vars

-----------------------------------------------------------------------------
(* Properties *)

\* Whatever is added, removed, renumbered or half loaded, every out-edge leads
\* to a vertex of the graph, and every in-edge comes from one.
EndpointsExist == \A s \in Stored(edges) \cup Stored(inEdges) : s[2].id \in Vertices

\* The in-edges of v are exactly the out-edges that lead to v, with the same values:
\* the two lists are changed by different code and the in-edges are copies.
InEdgesMirror ==
  /\ EndpointsExist
  /\ IF traits.bidirectional
     THEN \A u, v \in Vertices, val \in Val :
            [id |-> v, val |-> val] \in edges[u] <=> [id |-> u, val |-> val] \in inEdges[v]
     ELSE Stored(inEdges) = {}

\* num_edges(g) counts the edges; where duplicates are refused it counts them too.
EdgesCounted ==
  LET stored == Cardinality(Stored(edges))
  IN  IF traits.unique THEN edgeCount >= stored ELSE edgeCount = stored

Abstract == INSTANCE DirectedMultigraph WITH
              Id       <- Ids,
              numbered <- ~traits.keyed,
              vertices <- Vertices,
              arcs     <- {[u |-> s[1], v |-> s[2].id, val |-> s[2].val] : s \in Stored(edges)}

\* Each call does to the graph what it promises: also a bidirectional graph,
\* which finds the edges to a vertex it removes through its in-edges only.
ImplementsDirectedMultigraph == Abstract!Spec

-----------------------------------------------------------------------------
(* What documentation says and the code does not do.  No run checks these;    *)
(* as an INVARIANT of Containers.cfg each has a counterexample.                 *)

\* "total number of edges in the graph".
NumEdgesIsStored == edgeCount = Cardinality(Stored(edges))

\* "empty input should not create vertices".
EmptyInputNoVertices == load.by = "list" /\ load.edges = <<>> /\ edgeCount = 0 => Vertices = {}
=============================================================================
