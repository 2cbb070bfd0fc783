------------------------ MODULE DynamicGraph_proofs ------------------------
(***************************************************************************)
(* dynamic_graph, with containers of every kind: the in-edges of a         *)
(* bidirectional graph stay the mirror image of its out-edges, and each    *)
(* call does to the graph what it promises.                                *)
(*                                                                         *)
(* The argument is about the edges to and from a vertex that is removed:   *)
(* the mirror is what lets remove_vertex find all edges to the vertex      *)
(* through its in-edges, so that none with its id is left when the ids     *)
(* beyond it are lowered, and no two entries of a set collide.             *)
(***************************************************************************)
EXTENDS DynamicGraph, GraphLemmas

\* Edges are added at vertices that exist, and resize_vertices only adds vertices.
CarefulCaller == SourcesExist /\ Grows

-----------------------------------------------------------------------------
(* The inductive invariant, for the out-edges f and in-edges g of a graph *)

\* Vertices with numbers have the first ones.
VerticesOf(t, f) ==
  /\ DOMAIN f \subseteq Ids
  /\ ~t.keyed => \E n \in 0..MaxVertices : DOMAIN f = 0..(n - 1)

Lists(f, g) ==
  /\ f \in [DOMAIN f -> SUBSET Entry]
  /\ g \in [DOMAIN f -> SUBSET Entry]

Within(f, g) == \A u \in DOMAIN f : \A e \in f[u] \cup g[u] : e.id \in DOMAIN f

Mirror(t, f, g) ==
  /\ t.bidirectional => \A u, v \in DOMAIN f, val \in Val :
                          [id |-> v, val |-> val] \in f[u] <=> [id |-> u, val |-> val] \in g[v]
  /\ ~t.bidirectional => \A v \in DOMAIN f : g[v] = {}

Graph(t, f, g) == VerticesOf(t, f) /\ Lists(f, g) /\ Within(f, g) /\ Mirror(t, f, g)

\* edge_count_ counts the edges, and in sets and maps also those that were refused.
Counted(t, f, n) ==
  /\ IsFiniteSet(Stored(f))
  /\ n \in Int
  /\ IF t.unique THEN n >= Cardinality(Stored(f)) ELSE n = Cardinality(Stored(f))

GraphInv == Graph(traits, edges, inEdges) /\ Counted(traits, edges, edgeCount)

LoadInv == load \in [edges : Seq([u : Ids, v : Ids]), by : {"none", "list", "call"}]

IInv == GraphInv /\ LoadInv

\* The arcs of the abstract graph.
Arcs(f) == {[u |-> s[1], v |-> s[2].id, val |-> s[2].val] : s \in Stored(f)}

LEMMA ArcIs ==
  ASSUME NEW f, f \in [DOMAIN f -> SUBSET Entry]
  PROVE  Arcs(f) = {a \in [u : DOMAIN f, v : Ids, val : Val] :
                      [id |-> a.v, val |-> a.val] \in f[a.u]}
  <1>1. ASSUME NEW s \in Stored(f)
        PROVE  /\ [u |-> s[1], v |-> s[2].id, val |-> s[2].val] \in [u : DOMAIN f, v : Ids, val : Val]
               /\ [id |-> s[2].id, val |-> s[2].val] \in f[s[1]]
    <2>1. PICK u \in DOMAIN f, e \in Entry : s = <<u, e>> /\ e \in f[u]
      BY DEF Stored
    <2>2. e = [id |-> e.id, val |-> e.val] /\ e.id \in Ids /\ e.val \in Val
      BY DEF Entry
    <2> QED
      BY <2>1, <2>2
  <1>2. ASSUME NEW a \in [u : DOMAIN f, v : Ids, val : Val], [id |-> a.v, val |-> a.val] \in f[a.u]
        PROVE  a \in Arcs(f)
    <2> DEFINE e == [id |-> a.v, val |-> a.val]
    <2>1. e \in Entry /\ a.u \in DOMAIN f
      BY DEF Entry
    <2>2. <<a.u, e>> \in Stored(f)
      BY <1>2, <2>1 DEF Stored
    <2>3. a = [u |-> a.u, v |-> a.v, val |-> a.val]
      OBVIOUS
    <2> QED
      BY <2>2, <2>3 DEF Arcs
  <1> QED
    BY <1>1, <1>2 DEF Arcs

-----------------------------------------------------------------------------
(* What the operations do to the lists *)

\* Resizing that keeps the vertices there are.
LEMMA OverKeeps ==
  ASSUME NEW t, NEW f, NEW g, Graph(t, f, g),
         NEW vs \in SUBSET Ids, DOMAIN f \subseteq vs,
         ~t.keyed => \E n \in 0..MaxVertices : vs = 0..(n - 1)
  PROVE  /\ Graph(t, Over(f, vs), Over(g, vs))
         /\ DOMAIN Over(f, vs) = vs
         /\ Stored(Over(f, vs)) = Stored(f)
         /\ Stored(Over(g, vs)) = Stored(g)
  <1> DEFINE F == Over(f, vs)
             G == Over(g, vs)
  <1>1. /\ DOMAIN f \subseteq Ids
        /\ f \in [DOMAIN f -> SUBSET Entry] /\ g \in [DOMAIN f -> SUBSET Entry]
    BY DEF Graph, VerticesOf, Lists
  <1>2. F \in [vs -> SUBSET Entry] /\ G \in [vs -> SUBSET Entry]
    BY <1>1 DEF Over
  <1>3. ASSUME NEW u \in vs
        PROVE  /\ u \in DOMAIN f => F[u] = f[u] /\ G[u] = g[u]
               /\ u \notin DOMAIN f => F[u] = {} /\ G[u] = {}
    BY <1>1 DEF Over
  <1>4. VerticesOf(t, F)
    BY <1>2 DEF VerticesOf
  <1> HIDE DEF F, G
  <1>5. Lists(F, G)
    BY <1>2 DEF Lists
  <1>6. Within(F, G)
    <2>1. ASSUME NEW u \in vs, NEW e \in F[u] \cup G[u] PROVE e.id \in vs
      <3>1. u \in DOMAIN f /\ e \in f[u] \cup g[u]
        BY <1>3
      <3> QED
        BY <3>1 DEF Graph, Within
    <2> QED
      BY <1>2, <2>1 DEF Within
  <1>7. Mirror(t, F, G)
    <2>1. ASSUME t.bidirectional, NEW u \in vs, NEW v \in vs, NEW val \in Val
          PROVE  [id |-> v, val |-> val] \in F[u] <=> [id |-> u, val |-> val] \in G[v]
      <3>1. CASE u \in DOMAIN f /\ v \in DOMAIN f
        BY <1>3, <2>1, <3>1 DEF Graph, Mirror
      <3>2. CASE ~(u \in DOMAIN f /\ v \in DOMAIN f)
        <4>1. [id |-> v, val |-> val] \notin F[u]
          BY <1>3, <3>2 DEF Graph, Within
        <4>2. [id |-> u, val |-> val] \notin G[v]
          BY <1>3, <3>2 DEF Graph, Within
        <4> QED
          BY <4>1, <4>2
      <3> QED
        BY <3>1, <3>2
    <2>2. ASSUME ~t.bidirectional, NEW v \in vs PROVE G[v] = {}
      BY <1>3, <2>2 DEF Graph, Mirror
    <2> QED
      BY <1>2, <2>1, <2>2 DEF Mirror
  <1>8. Stored(F) = Stored(f) /\ Stored(G) = Stored(g)
    BY <1>1, <1>2, <1>3 DEF Stored
  <1> QED
    BY <1>2, <1>4, <1>5, <1>6, <1>7, <1>8 DEF F, G, Graph

\* F and G are f and g after Link.
LinkOf(f, g, u, v, val, F, G) ==
  /\ F = [f EXCEPT ![u] = Emplace(@, v, val)]
  /\ G = IF traits.bidirectional THEN [g EXCEPT ![v] = Emplace(@, u, val)] ELSE g

NotIn(val, f, g) == \A w \in DOMAIN f, id \in Ids : [id |-> id, val |-> val] \notin f[w] \cup g[w]

\* Both lists get an entry, which neither has.
LEMMA LinkKeeps ==
  ASSUME NEW f, NEW g, Graph(traits, f, g),
         NEW u \in DOMAIN f, NEW v \in DOMAIN f, NEW val \in Val, NotIn(val, f, g),
         NEW F, NEW G, LinkOf(f, g, u, v, val, F, G)
  PROVE  /\ Graph(traits, F, G)
         /\ DOMAIN F = DOMAIN f
         /\ \/ traits.unique /\ Stored(F) = Stored(f)
            \/ /\ Stored(F) = Stored(f) \cup {<<u, [id |-> v, val |-> val]>>}
               /\ <<u, [id |-> v, val |-> val]>> \notin Stored(f)
  <1> DEFINE there == [id |-> v, val |-> val]
             back  == [id |-> u, val |-> val]
  <1>1. /\ DOMAIN f \subseteq Ids
        /\ f \in [DOMAIN f -> SUBSET Entry] /\ g \in [DOMAIN f -> SUBSET Entry]
    BY DEF Graph, VerticesOf, Lists
  <1>2. there \in Entry /\ back \in Entry
    BY <1>1 DEF Entry
  <1>3. /\ \A w \in DOMAIN f : w # u => F[w] = f[w]
        /\ F[u] = Emplace(f[u], v, val)
        /\ DOMAIN F = DOMAIN f
        /\ F = [w \in DOMAIN f |-> F[w]]
    BY <1>1 DEF LinkOf
  <1>4. CASE traits.unique /\ \E e \in f[u] : e.id = v
    <2>1. F[u] = f[u]
      BY <1>3, <1>4 DEF Emplace
    <2>2. F = f
      BY <1>1, <1>3, <2>1
    <2>3. G = g
      <3>1. ASSUME traits.bidirectional PROVE Emplace(g[v], u, val) = g[v]
        <4>1. PICK e \in f[u] : e.id = v
          BY <1>4
        <4>2. e \in Entry /\ e = [id |-> v, val |-> e.val] /\ e.val \in Val
          BY <1>1, <4>1 DEF Entry
        <4>3. [id |-> u, val |-> e.val] \in g[v]
          BY <3>1, <4>1, <4>2 DEF Graph, Mirror
        <4> QED
          BY <1>4, <4>3 DEF Emplace
      <3> QED
        BY <1>1, <3>1 DEF LinkOf
    <2> QED
      BY <1>4, <2>2, <2>3
  <1>5. CASE ~(traits.unique /\ \E e \in f[u] : e.id = v)
    <2>1. F[u] = f[u] \cup {there}
      BY <1>3, <1>5 DEF Emplace
    <2>2. ASSUME traits.bidirectional
          PROVE  /\ \A w \in DOMAIN f : w # v => G[w] = g[w]
                 /\ G[v] = g[v] \cup {back}
                 /\ G \in [DOMAIN f -> SUBSET Entry]
      <3>1. ASSUME traits.unique, NEW e \in g[v], e.id = u PROVE FALSE
        <4>1. e \in Entry /\ e = [id |-> u, val |-> e.val] /\ e.val \in Val
          BY <1>1, <3>1 DEF Entry
        <4>2. [id |-> v, val |-> e.val] \in f[u]
          BY <2>2, <3>1, <4>1 DEF Graph, Mirror
        <4> QED
          BY <1>5, <3>1, <4>2
      <3>2. Emplace(g[v], u, val) = g[v] \cup {back}
        BY <3>1 DEF Emplace
      <3>3. G = [g EXCEPT ![v] = g[v] \cup {back}]
        BY <2>2, <3>2 DEF LinkOf
      <3> QED
        BY <1>1, <1>2, <3>3
    <2>3. F \in [DOMAIN f -> SUBSET Entry]
      BY <1>1, <1>2, <1>3, <2>1
    <2>4. G \in [DOMAIN f -> SUBSET Entry]
      BY <1>1, <2>2 DEF LinkOf
    <2>5. VerticesOf(traits, F)
      BY <1>3 DEF Graph, VerticesOf
    <2>6. Lists(F, G)
      BY <1>3, <2>3, <2>4 DEF Lists
    <2>7. Within(F, G)
      <3>1. ASSUME NEW w \in DOMAIN f, NEW e \in F[w] \cup G[w] PROVE e.id \in DOMAIN f
        <4>1. CASE e \in f[w] \cup g[w]
          BY <4>1 DEF Graph, Within
        <4>2. CASE e \notin f[w] \cup g[w]
          <5>1. e = there \/ e = back
            <6>1. ~traits.bidirectional => G = g
              BY DEF LinkOf
            <6> QED
              BY <1>3, <2>1, <2>2, <3>1, <4>2, <6>1
          <5> QED
            BY <5>1
        <4> QED
          BY <4>1, <4>2
      <3> QED
        BY <1>3, <3>1 DEF Within
    <2>8. Mirror(traits, F, G)
      <3>1. ASSUME traits.bidirectional, NEW x \in DOMAIN f, NEW y \in DOMAIN f, NEW w \in Val
            PROVE  [id |-> y, val |-> w] \in F[x] <=> [id |-> x, val |-> w] \in G[y]
        <4>1. [id |-> y, val |-> w] \in F[x] <=> \/ [id |-> y, val |-> w] \in f[x]
                                                 \/ x = u /\ y = v /\ w = val
          BY <1>3, <2>1
        <4>2. [id |-> x, val |-> w] \in G[y] <=> \/ [id |-> x, val |-> w] \in g[y]
                                                 \/ x = u /\ y = v /\ w = val
          BY <2>2, <3>1
        <4> QED
          BY <3>1, <4>1, <4>2 DEF Graph, Mirror
      <3>2. ASSUME ~traits.bidirectional PROVE G = g
        BY <3>2 DEF LinkOf
      <3> QED
        BY <1>3, <3>1, <3>2 DEF Graph, Mirror
    <2>9. Stored(F) = Stored(f) \cup {<<u, there>>}
      <3>1. ASSUME NEW w \in DOMAIN f, NEW e \in Entry
            PROVE  e \in F[w] <=> e \in f[w] \/ <<w, e>> = <<u, there>>
        BY <1>3, <2>1
      <3> QED
        BY <1>2, <1>3, <3>1 DEF Stored
    <2>10. <<u, there>> \notin Stored(f)
      BY <1>1, <1>2 DEF Stored, NotIn
    <2> QED
      BY <1>3, <2>5, <2>6, <2>7, <2>8, <2>9, <2>10 DEF Graph
  <1> QED
    BY <1>4, <1>5

\* F and G are f and g after remove_edge.
UnlinkOf(f, g, u, v, F, G) ==
  /\ F = [f EXCEPT ![u] = Without(@, v)]
  /\ \/ traits.bidirectional /\ v \in DOMAIN f /\ G = [g EXCEPT ![v] = Without(@, u)]
     \/ (traits.bidirectional => v \notin DOMAIN f \/ \A e \in f[u] : e.id # v) /\ G = g

\* The edges from u to v leave both lists.
LEMMA UnlinkKeeps ==
  ASSUME NEW f, NEW g, Graph(traits, f, g),
         NEW u \in DOMAIN f, NEW v, NEW F, NEW G, UnlinkOf(f, g, u, v, F, G)
  PROVE  /\ Graph(traits, F, G)
         /\ DOMAIN F = DOMAIN f
         /\ Stored(F) = {s \in Stored(f) : ~(s[1] = u /\ s[2].id = v)}
  <1>1. /\ DOMAIN f \subseteq Ids
        /\ f \in [DOMAIN f -> SUBSET Entry] /\ g \in [DOMAIN f -> SUBSET Entry]
    BY DEF Graph, VerticesOf, Lists
  <1>2. /\ DOMAIN F = DOMAIN f
        /\ \A x \in DOMAIN f : F[x] = {e \in f[x] : ~(x = u /\ e.id = v)}
    BY <1>1 DEF Without, UnlinkOf
  <1>3. F \in [DOMAIN f -> SUBSET Entry]
    BY <1>1 DEF Without, UnlinkOf
  <1>4. /\ G \in [DOMAIN f -> SUBSET Entry]
        /\ \A y \in DOMAIN f : G[y] = {e \in g[y] : ~(y = v /\ e.id = u)}
    <2>1. CASE traits.bidirectional /\ v \in DOMAIN f /\ G = [g EXCEPT ![v] = Without(@, u)]
      BY <1>1, <2>1 DEF Without
    <2>2. CASE (traits.bidirectional => v \notin DOMAIN f \/ \A e \in f[u] : e.id # v) /\ G = g
      <3>1. ASSUME NEW y \in DOMAIN f, NEW e \in g[y], y = v, e.id = u PROVE FALSE
        <4>1. traits.bidirectional
          BY <3>1 DEF Graph, Mirror
        <4>2. e = [id |-> u, val |-> e.val] /\ e.val \in Val
          BY <1>1, <3>1 DEF Entry
        <4>3. [id |-> v, val |-> e.val] \in f[u]
          BY <3>1, <4>1, <4>2 DEF Graph, Mirror
        <4> QED
          BY <2>2, <3>1, <4>1, <4>3
      <3> QED
        BY <1>1, <2>2, <3>1
    <2> QED
      BY <2>1, <2>2 DEF UnlinkOf
  <1>5. VerticesOf(traits, F) /\ Lists(F, G)
    BY <1>2, <1>3, <1>4 DEF Graph, VerticesOf, Lists
  <1>6. Within(F, G)
    BY <1>2, <1>4 DEF Graph, Within
  <1>7. Mirror(traits, F, G)
    <2>1. ASSUME traits.bidirectional, NEW x \in DOMAIN f, NEW y \in DOMAIN f, NEW w \in Val
          PROVE  [id |-> y, val |-> w] \in F[x] <=> [id |-> x, val |-> w] \in G[y]
      <3>1. [id |-> y, val |-> w] \in F[x] <=> [id |-> y, val |-> w] \in f[x] /\ ~(x = u /\ y = v)
        BY <1>2
      <3>2. [id |-> x, val |-> w] \in G[y] <=> [id |-> x, val |-> w] \in g[y] /\ ~(x = u /\ y = v)
        BY <1>4
      <3> QED
        BY <2>1, <3>1, <3>2 DEF Graph, Mirror
    <2>2. ASSUME ~traits.bidirectional, NEW y \in DOMAIN f PROVE G[y] = {}
      BY <1>4, <2>2 DEF Graph, Mirror
    <2> QED
      BY <1>2, <2>1, <2>2 DEF Mirror
  <1>8. Stored(F) = {s \in Stored(f) : ~(s[1] = u /\ s[2].id = v)}
    BY <1>2 DEF Stored
  <1> QED
    BY <1>2, <1>5, <1>6, <1>7, <1>8 DEF Graph

\* Before a vertex is erased, the lists of the others are without it: the in-edges of u
\* name all vertices with edges to u.
LEMMA UnlinkedIs ==
  ASSUME Graph(traits, edges, inEdges), NEW u \in Vertices, NEW s \in Vertices, s # u
  PROVE  /\ Unlinked(u).out[s] = {e \in edges[s] : e.id # u}
         /\ Unlinked(u).in[s] = {e \in inEdges[s] : e.id # u}
  <1>1. edges \in [Vertices -> SUBSET Entry] /\ inEdges \in [Vertices -> SUBSET Entry]
    BY DEF Graph, Lists, Vertices
  <1> DEFINE sources == IF traits.bidirectional THEN {e.id : e \in inEdges[u]} ELSE Vertices
             targets == {e.id : e \in edges[u]}
  <1>2. /\ Unlinked(u).out[s] = IF s \in sources THEN Without(edges[s], u) ELSE edges[s]
        /\ Unlinked(u).in[s] = IF traits.bidirectional /\ s \in targets THEN Without(inEdges[s], u)
                               ELSE inEdges[s]
    BY DEF Unlinked
  <1>3. ASSUME s \notin sources, NEW e \in edges[s] PROVE e.id # u
    <2>1. e = [id |-> e.id, val |-> e.val] /\ e.val \in Val
      BY <1>1 DEF Entry
    <2>2. SUFFICES ASSUME e.id = u PROVE FALSE
      OBVIOUS
    <2>3. [id |-> s, val |-> e.val] \in inEdges[u]
      BY <1>3, <2>1, <2>2 DEF Graph, Mirror, Vertices
    <2> QED
      BY <1>3, <2>3
  <1>4. ASSUME ~(traits.bidirectional /\ s \in targets), NEW e \in inEdges[s] PROVE e.id # u
    <2>1. e = [id |-> e.id, val |-> e.val] /\ e.val \in Val
      BY <1>1 DEF Entry
    <2>2. SUFFICES ASSUME e.id = u PROVE FALSE
      OBVIOUS
    <2>3. traits.bidirectional
      BY DEF Graph, Mirror, Vertices
    <2>4. [id |-> s, val |-> e.val] \in edges[u]
      BY <2>1, <2>2, <2>3 DEF Graph, Mirror, Vertices
    <2> QED
      BY <1>4, <2>3, <2>4
  <1> HIDE DEF sources, targets
  <1>5. Unlinked(u).out[s] = {e \in edges[s] : e.id # u}
    BY <1>2, <1>3 DEF Without
  <1>6. Unlinked(u).in[s] = {e \in inEdges[s] : e.id # u}
    BY <1>2, <1>4 DEF Without
  <1> QED
    BY <1>5, <1>6

\* The vertex that gets position x when u is erased.
Up(u, x) == IF ~traits.keyed /\ x >= u THEN x + 1 ELSE x

\* What is left of the vertices.
Left(u) == IF traits.keyed THEN Vertices \ {u} ELSE 0..(Cardinality(Vertices) - 2)

\* The new id of vertex x.
Low(u, x) == IF ~traits.keyed /\ x > u THEN x - 1 ELSE x

LEMMA PositionsLeft ==
  ASSUME VerticesOf(traits, edges), NEW u \in Vertices
  PROVE  /\ \A x \in Left(u) : Up(u, x) \in Vertices \ {u} /\ Low(u, Up(u, x)) = x
         /\ \A y \in Vertices \ {u} : Low(u, y) \in Left(u) /\ Up(u, Low(u, y)) = y
         /\ Left(u) \subseteq Ids
         /\ ~traits.keyed => \E n \in 0..MaxVertices : Left(u) = 0..(n - 1)
  <1> USE DynamicGraphAssumption
  <1>1. CASE traits.keyed
    BY <1>1 DEF VerticesOf, Vertices, Left, Up, Low
  <1>2. CASE ~traits.keyed
    <2>1. PICK n \in 0..MaxVertices : Vertices = 0..(n - 1)
      BY <1>2 DEF VerticesOf, Vertices
    <2>2. n \in Nat /\ n > 0 /\ u \in Nat /\ u < n /\ MaxVertices \in Nat /\ n <= MaxVertices
      BY <2>1
    <2>3. Cardinality(Vertices) = n
      BY <2>1, <2>2, FS_Interval
    <2>4. Left(u) = 0..(n - 2)
      BY <1>2, <2>3 DEF Left
    <2> HIDE DEF Vertices
    <2>5. ASSUME NEW x \in 0..(n - 2) PROVE Up(u, x) \in Vertices \ {u} /\ Low(u, Up(u, x)) = x
      BY <1>2, <2>1, <2>2 DEF Up, Low
    <2>6. ASSUME NEW y \in Vertices \ {u} PROVE Low(u, y) \in 0..(n - 2) /\ Up(u, Low(u, y)) = y
      BY <1>2, <2>1, <2>2 DEF Up, Low
    <2>7. n - 1 \in 0..MaxVertices /\ 0..(n - 2) = 0..((n - 1) - 1) /\ 0..(n - 2) \subseteq Ids
      BY <2>2 DEF Ids
    <2> QED
      BY <2>4, <2>5, <2>6, <2>7
  <1> QED
    BY <1>1, <1>2

\* Erasing a vertex that no entry leads to moves and renumbers the rest.
LEMMA ErasedIs ==
  ASSUME VerticesOf(traits, edges), NEW u \in Vertices,
         NEW h, h \in [Vertices -> SUBSET Entry],
         \A s \in Vertices \ {u} : \A e \in h[s] : e.id # u /\ e.id \in Vertices
  PROVE  /\ Erased(h, u) \in [Left(u) -> SUBSET Entry]
         /\ \A x, id \in Left(u) : \A val :
              [id |-> id, val |-> val] \in Erased(h, u)[x] <=> [id |-> Up(u, id), val |-> val] \in h[Up(u, x)]
         /\ \A x \in Left(u) : \A e \in Erased(h, u)[x] : e.id \in Left(u)
  <1> USE DynamicGraphAssumption
  <1>1. /\ \A x \in Left(u) : Up(u, x) \in Vertices \ {u} /\ Low(u, Up(u, x)) = x
        /\ \A y \in Vertices \ {u} : Low(u, y) \in Left(u) /\ Up(u, Low(u, y)) = y
        /\ Left(u) \subseteq Ids
    BY PositionsLeft
  <1>2. Vertices \subseteq Ids /\ Ids \subseteq Nat
    BY DEF VerticesOf, Vertices, Ids
  <1>3. /\ DOMAIN Erased(h, u) = Left(u)
        /\ Erased(h, u) = [x \in Left(u) |-> Erased(h, u)[x]]
    BY DEF Erased, Left
  <1>4. ASSUME NEW x \in Left(u)
        PROVE  Erased(h, u)[x] = {[id |-> Low(u, e.id), val |-> e.val] : e \in h[Up(u, x)]}
    <2> DEFINE es == h[Up(u, x)]
    <2>1. \A e \in es : /\ e \in Entry /\ e.id \in Vertices /\ e.id # u
                        /\ e = [id |-> e.id, val |-> e.val] /\ e.id \in Nat
      <3>1. Up(u, x) \in Vertices \ {u}
        BY <1>1
      <3>2. \A e \in es : e \in Entry /\ e.id \in Vertices /\ e.id # u
        BY <3>1
      <3>3. \A e \in Entry : e = [id |-> e.id, val |-> e.val]
        BY DEF Entry
      <3> QED
        BY <1>2, <3>2, <3>3
    <2>2. u \in Nat
      BY <1>2
    <2>3. CASE traits.keyed
      <3>1. Erased(h, u)[x] = es
        BY <2>3 DEF Erased, Up, Left
      <3>2. \A e \in es : [id |-> Low(u, e.id), val |-> e.val] = e
        BY <2>1, <2>3 DEF Low
      <3> HIDE DEF es
      <3>3. es = {[id |-> Low(u, e.id), val |-> e.val] : e \in es}
        BY <3>2
      <3> QED
        BY <3>1, <3>3 DEF es
    <2>4. CASE ~traits.keyed
      <3>1. Erased(h, u)[x] = Adjusted(es, u)
        <4>1. x \in Nat
          BY <1>1, <1>2
        <4>2. (IF x < u THEN x ELSE x + 1) = Up(u, x)
          BY <2>2, <2>4, <4>1 DEF Up
        <4> QED
          BY <2>4, <4>2 DEF Erased, Left
      <3> HIDE DEF es
      <3> DEFINE low     == {e \in es : e.id <= u}
                 lowered == {[e EXCEPT !.id = @ - 1] : e \in es \ low}
      <3>2. \A e \in low : e.id < u /\ [id |-> Low(u, e.id), val |-> e.val] = e
        BY <2>1, <2>2 DEF Low
      <3>3. \A e \in es \ low : /\ e.id > u
                               /\ [e EXCEPT !.id = @ - 1] = [id |-> Low(u, e.id), val |-> e.val]
        BY <2>1, <2>2, <2>4 DEF Low
      <3>4. \A e \in lowered, f \in low : f.id # e.id
        <4>1. ASSUME NEW d \in es \ low, NEW f \in low PROVE f.id # [d EXCEPT !.id = @ - 1].id
          <5>1. [d EXCEPT !.id = @ - 1].id = d.id - 1
            BY <2>1, <4>1
          <5>2. d.id > u /\ f.id < u /\ d.id \in Nat /\ f.id \in Nat
            BY <2>1, <3>2, <3>3, <4>1
          <5> QED
            BY <2>2, <5>1, <5>2
        <4> QED
          BY <4>1
      <3>5. Adjusted(es, u) = low \cup lowered
        BY <3>4 DEF Adjusted
      <3>6. ASSUME NEW r PROVE r \in low \cup lowered <=> \E e \in es : r = [id |-> Low(u, e.id), val |-> e.val]
        BY <3>2, <3>3
      <3> HIDE DEF low, lowered
      <3> QED
        BY <3>1, <3>5, <3>6 DEF es
    <2> QED
      BY <2>3, <2>4
  <1>5. ASSUME NEW x \in Left(u), NEW e \in h[Up(u, x)]
        PROVE  /\ e.id \in Vertices \ {u} /\ e.val \in Val
               /\ e = [id |-> Up(u, Low(u, e.id)), val |-> e.val]
               /\ Low(u, e.id) \in Left(u)
    <2>1. e \in Entry /\ e.id \in Vertices \ {u}
      BY <1>1
    <2>2. e = [id |-> e.id, val |-> e.val] /\ e.val \in Val
      BY <2>1 DEF Entry
    <2> QED
      BY <1>1, <2>1, <2>2
  <1>6. ASSUME NEW x \in Left(u), NEW r \in Erased(h, u)[x] PROVE r \in Entry /\ r.id \in Left(u)
    BY <1>1, <1>4, <1>5 DEF Entry
  <1>7. ASSUME NEW x \in Left(u), NEW id \in Left(u), NEW val
        PROVE  [id |-> id, val |-> val] \in Erased(h, u)[x] <=> [id |-> Up(u, id), val |-> val] \in h[Up(u, x)]
    <2>1. ASSUME [id |-> Up(u, id), val |-> val] \in h[Up(u, x)]
          PROVE  [id |-> id, val |-> val] \in Erased(h, u)[x]
      <3>1. Low(u, Up(u, id)) = id
        BY <1>1
      <3> QED
        BY <1>4, <2>1, <3>1
    <2>2. ASSUME [id |-> id, val |-> val] \in Erased(h, u)[x]
          PROVE  [id |-> Up(u, id), val |-> val] \in h[Up(u, x)]
      <3>1. PICK e \in h[Up(u, x)] : [id |-> id, val |-> val] = [id |-> Low(u, e.id), val |-> e.val]
        BY <1>4, <2>2
      <3>2. id = Low(u, e.id) /\ val = e.val
        BY <3>1
      <3> QED
        BY <1>5, <3>2
    <2> QED
      BY <2>1, <2>2
  <1>8. Erased(h, u) \in [Left(u) -> SUBSET Entry]
    BY <1>3, <1>6
  <1> QED
    BY <1>6, <1>7, <1>8

LEMMA RemovalKeeps ==
  ASSUME Graph(traits, edges, inEdges), NEW u \in Vertices,
         NEW F, F = Erased(Unlinked(u).out, u),
         NEW G, G = Erased(Unlinked(u).in, u)
  PROVE  /\ Graph(traits, F, G)
         /\ DOMAIN F = Left(u)
         /\ \A x \in Left(u), id \in Left(u), val \in Val :
              [id |-> id, val |-> val] \in F[x] <=> [id |-> Up(u, id), val |-> val] \in edges[Up(u, x)]
  <1> DEFINE out == Unlinked(u).out
             in  == Unlinked(u).in
  <1>1. edges \in [Vertices -> SUBSET Entry] /\ inEdges \in [Vertices -> SUBSET Entry]
    BY DEF Graph, Lists, Vertices
  <1>2. /\ out \in [Vertices -> SUBSET Entry] /\ in \in [Vertices -> SUBSET Entry]
    BY <1>1 DEF Unlinked, Without
  <1>3. \A s \in Vertices \ {u} : /\ out[s] = {e \in edges[s] : e.id # u}
                                  /\ in[s] = {e \in inEdges[s] : e.id # u}
    BY UnlinkedIs
  <1>4. \A s \in Vertices \ {u} : /\ \A e \in out[s] : e.id # u /\ e.id \in Vertices
                                  /\ \A e \in in[s] : e.id # u /\ e.id \in Vertices
    BY <1>3 DEF Graph, Within, Vertices
  <1>5. VerticesOf(traits, edges)
    BY DEF Graph
  <1> HIDE DEF out, in
  <1>6. F = Erased(out, u) /\ G = Erased(in, u)
    BY DEF out, in
  <1>7. /\ F \in [Left(u) -> SUBSET Entry]
        /\ \A x, id \in Left(u) : \A val :
             [id |-> id, val |-> val] \in F[x] <=> [id |-> Up(u, id), val |-> val] \in out[Up(u, x)]
        /\ \A x \in Left(u) : \A e \in F[x] : e.id \in Left(u)
    BY <1>2, <1>4, <1>5, <1>6, ErasedIs
  <1>8. /\ G \in [Left(u) -> SUBSET Entry]
        /\ \A x, id \in Left(u) : \A val :
             [id |-> id, val |-> val] \in G[x] <=> [id |-> Up(u, id), val |-> val] \in in[Up(u, x)]
        /\ \A x \in Left(u) : \A e \in G[x] : e.id \in Left(u)
    BY <1>2, <1>4, <1>5, <1>6, ErasedIs
  <1>9. \A x \in Left(u) : Up(u, x) \in Vertices \ {u}
    BY <1>5, PositionsLeft
  <1>10. DOMAIN F = Left(u)
    BY <1>7
  <1>11. VerticesOf(traits, F)
    BY <1>5, <1>10, PositionsLeft DEF VerticesOf
  <1>12. Lists(F, G)
    BY <1>7, <1>8, <1>10 DEF Lists
  <1>13. Within(F, G)
    BY <1>7, <1>8, <1>10 DEF Within
  <1>14. ASSUME NEW x \in Left(u), NEW id \in Left(u), NEW val \in Val
         PROVE  /\ [id |-> id, val |-> val] \in F[x] <=> [id |-> Up(u, id), val |-> val] \in edges[Up(u, x)]
                /\ [id |-> id, val |-> val] \in G[x] <=> [id |-> Up(u, id), val |-> val] \in inEdges[Up(u, x)]
    <2>1. Up(u, x) \in Vertices \ {u} /\ Up(u, id) # u
      BY <1>9
    <2>2. [id |-> id, val |-> val] \in F[x] <=> [id |-> Up(u, id), val |-> val] \in out[Up(u, x)]
      BY <1>7
    <2>3. [id |-> id, val |-> val] \in G[x] <=> [id |-> Up(u, id), val |-> val] \in in[Up(u, x)]
      BY <1>8
    <2> QED
      BY <1>3, <2>1, <2>2, <2>3
  <1>15. Mirror(traits, F, G)
    <2>1. ASSUME traits.bidirectional, NEW x \in Left(u), NEW y \in Left(u), NEW val \in Val
          PROVE  [id |-> y, val |-> val] \in F[x] <=> [id |-> x, val |-> val] \in G[y]
      <3>1. Up(u, x) \in Vertices /\ Up(u, y) \in Vertices
        BY <1>9
      <3>2. [id |-> Up(u, y), val |-> val] \in edges[Up(u, x)] <=> [id |-> Up(u, x), val |-> val] \in inEdges[Up(u, y)]
        BY <2>1, <3>1 DEF Graph, Mirror, Vertices
      <3> QED
        BY <1>14, <3>2
    <2>2. ASSUME ~traits.bidirectional, NEW x \in Left(u) PROVE G[x] = {}
      <3>1. in[Up(u, x)] = {}
        BY <1>3, <1>9, <2>2 DEF Graph, Mirror, Vertices
      <3>2. ASSUME NEW r \in G[x] PROVE FALSE
        <4>1. r \in Entry /\ r.id \in Left(u)
          BY <1>8
        <4>2. r = [id |-> r.id, val |-> r.val]
          BY <4>1 DEF Entry
        <4>3. [id |-> Up(u, r.id), val |-> r.val] \in in[Up(u, x)]
          BY <1>8, <3>2, <4>1, <4>2
        <4> QED
          BY <3>1, <4>3
      <3> QED
        BY <3>2
    <2> QED
      BY <1>10, <2>1, <2>2 DEF Mirror
  <1> QED
    BY <1>10, <1>11, <1>12, <1>13, <1>14, <1>15 DEF Graph

\* How many edges are left when a vertex is removed: those that remain are renumbered one
\* to one.
LEMMA RemovalCounts ==
  ASSUME Graph(traits, edges, inEdges), NEW u \in Vertices, IsFiniteSet(Stored(edges)),
         NEW F, F = Erased(Unlinked(u).out, u),
         NEW removed, removed = {s \in Stored(edges) : s[1] = u \/ s[2] \notin Unlinked(u).out[s[1]]}
  PROVE  /\ IsFiniteSet(Stored(F))
         /\ IsFiniteSet(removed)
         /\ Cardinality(Stored(F)) = Cardinality(Stored(edges)) - Cardinality(removed)
  <1> DEFINE rest  == Stored(edges) \ removed
             Moved(s) == <<Low(u, s[1]), [id |-> Low(u, s[2].id), val |-> s[2].val]>>
             move  == [s \in rest |-> Moved(s)]
  <1>1. edges \in [Vertices -> SUBSET Entry]
    BY DEF Graph, Lists, Vertices
  <1>2. VerticesOf(traits, edges)
    BY DEF Graph
  <1>3. /\ \A x \in Left(u) : Up(u, x) \in Vertices \ {u} /\ Low(u, Up(u, x)) = x
        /\ \A y \in Vertices \ {u} : Low(u, y) \in Left(u) /\ Up(u, Low(u, y)) = y
        /\ Left(u) \subseteq Ids
    BY <1>2, PositionsLeft
  <1>4. /\ Graph(traits, F, Erased(Unlinked(u).in, u))
        /\ DOMAIN F = Left(u)
        /\ \A x \in Left(u), id \in Left(u), val \in Val :
              [id |-> id, val |-> val] \in F[x] <=> [id |-> Up(u, id), val |-> val] \in edges[Up(u, x)]
    BY RemovalKeeps
  <1>5. ASSUME NEW s
        PROVE  s \in rest <=> \E x \in Vertices \ {u}, e \in Entry :
                                s = <<x, e>> /\ e \in edges[x] /\ e.id # u
    <2>1. ASSUME NEW x \in Vertices \ {u}, NEW e \in edges[x]
          PROVE  e \in Unlinked(u).out[x] <=> e.id # u
      BY <2>1, UnlinkedIs
    <2> QED
      BY <1>1, <2>1 DEF Stored, Vertices
  <1>6. ASSUME NEW s \in rest
        PROVE  /\ s[1] \in Vertices \ {u} /\ s[2].id \in Vertices \ {u} /\ s[2].val \in Val
               /\ s = <<s[1], [id |-> s[2].id, val |-> s[2].val]>>
               /\ s[2] \in edges[s[1]]
    <2>1. PICK x \in Vertices \ {u}, e \in Entry : s = <<x, e>> /\ e \in edges[x] /\ e.id # u
      BY <1>5
    <2>2. e.id \in Vertices /\ e.val \in Val /\ e = [id |-> e.id, val |-> e.val]
      BY <2>1 DEF Graph, Within, Vertices, Entry
    <2> QED
      BY <2>1, <2>2
  <1>7. ASSUME NEW s \in rest PROVE Moved(s) \in Stored(F)
    <2>1. /\ Low(u, s[1]) \in Left(u) /\ Low(u, s[2].id) \in Left(u)
          /\ Up(u, Low(u, s[1])) = s[1] /\ Up(u, Low(u, s[2].id)) = s[2].id
      BY <1>3, <1>6
    <2>2. [id |-> Low(u, s[2].id), val |-> s[2].val] \in F[Low(u, s[1])]
      BY <1>4, <1>6, <2>1
    <2>3. [id |-> Low(u, s[2].id), val |-> s[2].val] \in Entry
      BY <1>3, <1>6, <2>1 DEF Entry
    <2> QED
      BY <1>4, <2>1, <2>2, <2>3 DEF Stored
  <1>8. ASSUME NEW r \in Stored(F) PROVE \E s \in rest : Moved(s) = r
    <2>1. PICK x \in Left(u), e \in Entry : r = <<x, e>> /\ e \in F[x]
      BY <1>4 DEF Stored
    <2>2. e.id \in Left(u) /\ e.val \in Val /\ e = [id |-> e.id, val |-> e.val]
      BY <1>4, <2>1 DEF Graph, Within, Entry
    <2> DEFINE d == [id |-> Up(u, e.id), val |-> e.val]
    <2>3. d \in edges[Up(u, x)] /\ Up(u, x) \in Vertices \ {u} /\ Up(u, e.id) \in Vertices \ {u}
      BY <1>3, <1>4, <2>1, <2>2
    <2>4. d \in Entry
      BY <1>1, <2>3
    <2>5. <<Up(u, x), d>> \in rest
      BY <1>5, <2>3, <2>4
    <2>6. Moved(<<Up(u, x), d>>) = r
      BY <1>3, <2>1, <2>2
    <2> QED
      BY <2>5, <2>6
  <1>9. ASSUME NEW r \in rest, NEW s \in rest, Moved(r) = Moved(s) PROVE r = s
    <2>1. Low(u, r[1]) = Low(u, s[1]) /\ Low(u, r[2].id) = Low(u, s[2].id) /\ r[2].val = s[2].val
      BY <1>9
    <2>2. r[1] = s[1] /\ r[2].id = s[2].id
      BY <1>3, <1>6, <2>1
    <2> QED
      BY <1>6, <2>1, <2>2
  <1>10. IsFiniteSet(removed) /\ IsFiniteSet(rest) /\ Cardinality(rest) = Cardinality(Stored(edges)) - Cardinality(removed)
    <2>1. removed \in SUBSET Stored(edges) /\ Stored(edges) \cap removed = removed
      OBVIOUS
    <2>2. IsFiniteSet(removed)
      BY <2>1, FS_Subset
    <2>3. IsFiniteSet(rest) /\ Cardinality(rest) = Cardinality(Stored(edges)) - Cardinality(Stored(edges) \cap removed)
      BY FS_Difference
    <2> QED
      BY <2>1, <2>2, <2>3
  <1> HIDE DEF rest
  <1>11. move \in Bijection(rest, Stored(F))
    <2>1. move \in Surjection(rest, Stored(F))
      BY <1>7, <1>8 DEF Surjection
    <2>2. move \in Injection(rest, Stored(F))
      BY <1>7, <1>9 DEF Injection, IsInjective
    <2> QED
      BY <2>1, <2>2 DEF Bijection
  <1>12. IsFiniteSet(Stored(F)) /\ Cardinality(Stored(F)) = Cardinality(rest)
    BY <1>10, <1>11, FS_Bijection DEF ExistsBijection
  <1> QED
    BY <1>10, <1>12

-----------------------------------------------------------------------------
(* The sizes that constructors and loads ask for *)

\* A range of edges names vertices up to the greatest id in it.
LEMMA NamedIs ==
  ASSUME NEW es \in Ranges
  PROVE  \E m \in 0..(MaxVertices - 1) : Named(es) = 0..m
  <1> USE DynamicGraphAssumption
  <1> DEFINE S == {0} \cup {es[i].u : i \in DOMAIN es} \cup {es[i].v : i \in DOMAIN es}
  <1>1. MaxVertices \in Nat /\ MaxVertices - 1 \in Nat /\ 0 \in 0..(MaxVertices - 1)
    OBVIOUS
  <1>2. \A i \in DOMAIN es : es[i].u \in 0..(MaxVertices - 1) /\ es[i].v \in 0..(MaxVertices - 1)
    BY DEF Ranges, Ids
  <1>3. S \in SUBSET (0..(MaxVertices - 1)) /\ S # {}
    BY <1>1, <1>2
  <1>4. Named(es) = 0..Max(S)
    BY DEF Named
  <1> HIDE DEF S
  <1>5. Max(S) \in S
    BY <1>1, <1>3, MaxOf
  <1> QED
    BY <1>3, <1>4, <1>5

\* Enlarging a graph with numbered vertices by first numbers.
LEMMA PositionsGrow ==
  \A n, k \in 0..MaxVertices : \E m \in 0..MaxVertices : 0..(n - 1) \cup 0..(k - 1) = 0..(m - 1)
  <1> TAKE n, k \in 0..MaxVertices
  <1> USE DynamicGraphAssumption
  <1>1. n \in Nat /\ k \in Nat /\ MaxVertices \in Nat
    OBVIOUS
  <1>2. CASE n <= k
    BY <1>1, <1>2
  <1>3. CASE k <= n
    BY <1>1, <1>3
  <1> QED
    BY <1>1, <1>2, <1>3

LEMMA RangesAre ==
  ASSUME NEW es \in Ranges
  PROVE  es \in Seq([u : Ids, v : Ids])
  <1> DEFINE T == [u : Ids, v : Ids]
  <1>1. PICK n \in 0..MaxRange : es \in [1..n -> T]
    BY DEF Ranges
  <1>2. n \in Nat
    BY DynamicGraphAssumption
  <1> HIDE DEF T
  <1>3. Seq(T) = UNION {[1..m -> T] : m \in Nat}
    BY SeqDef
  <1>4. es \in Seq(T)
    BY <1>1, <1>2, <1>3
  <1> QED
    BY <1>4 DEF T

-----------------------------------------------------------------------------
(* What a step does: the invariant holds again, and how the edges changed *)

LEMMA EmptyGraph ==
  ASSUME NEW t, NEW S \in SUBSET Ids,
         ~t.keyed => \E n \in 0..MaxVertices : S = 0..(n - 1),
         NEW f, f = [u \in S |-> {}]
  PROVE  Graph(t, f, f) /\ Counted(t, f, 0) /\ DOMAIN f = S /\ Stored(f) = {}
  <1>1. DOMAIN f = S /\ \A u \in S : f[u] = {}
    OBVIOUS
  <1>2. f \in [DOMAIN f -> SUBSET Entry]
    OBVIOUS
  <1>3. VerticesOf(t, f) /\ Lists(f, f) /\ Within(f, f) /\ Mirror(t, f, f)
    BY <1>1, <1>2 DEF VerticesOf, Lists, Within, Mirror
  <1>4. Stored(f) = {}
    BY <1>1 DEF Stored
  <1>5. Counted(t, f, 0)
    <2>1. IsFiniteSet({}) /\ Cardinality({}) = 0
      BY FS_EmptySet
    <2>2. IsFiniteSet(Stored(f)) /\ Cardinality(Stored(f)) = 0
      BY <1>4, <2>1, Zenon
    <2> QED
      BY <2>2 DEF Counted
  <1> QED
    BY <1>1, <1>3, <1>4, <1>5 DEF Graph

\* Vertices were added and no edges.
Grown == GraphInv' /\ Vertices \subseteq Vertices' /\ Vertices' \subseteq Ids /\ Stored(edges') = Stored(edges)

LEMMA ResizedGrows ==
  ASSUME GraphInv, UNCHANGED <<traits, edgeCount>>,
         NEW vs \in SUBSET Ids, Vertices \subseteq vs, Resized(vs),
         ~traits.keyed => \E n \in 0..MaxVertices : vs = 0..(n - 1)
  PROVE  Grown
  <1>1. edges' = Over(edges, vs) /\ inEdges' = Over(inEdges, vs)
    BY DEF Resized
  <1>2. Graph(traits, edges, inEdges)
    BY DEF GraphInv
  <1>3. /\ Graph(traits, Over(edges, vs), Over(inEdges, vs))
        /\ DOMAIN Over(edges, vs) = vs
        /\ Stored(Over(edges, vs)) = Stored(edges)
    BY <1>2, OverKeeps DEF Vertices
  <1>4. Graph(traits', edges', inEdges') /\ Stored(edges') = Stored(edges) /\ Vertices' = vs
    BY <1>1, <1>3 DEF Vertices
  <1>5. Counted(traits', edges', edgeCount')
    BY <1>4 DEF GraphInv, Counted
  <1> QED
    BY <1>4, <1>5 DEF Grown, GraphInv

LEMMA ActionsGrow ==
  ASSUME CarefulCaller, GraphInv
  PROVE  /\ \A es \in Ranges, count \in 0..MaxVertices, forward \in BOOLEAN :
              LoadEdges(es, count, forward) => Grown
         /\ \A vs \in SUBSET Ids, count \in 0..MaxVertices, sized \in BOOLEAN :
              LoadVertices(vs, count, sized) => Grown
         /\ \A u \in Ids : AddVertex(u) => Grown
         /\ \A count \in 0..MaxVertices : ResizeVertices(count) => Grown
  <1> USE DynamicGraphAssumption
  <1>1. /\ Vertices \subseteq Ids
        /\ ~traits.keyed => \E n \in 0..MaxVertices : Vertices = 0..(n - 1)
    BY DEF GraphInv, Graph, VerticesOf, Vertices
  <1>2. ASSUME NEW count \in 0..MaxVertices PROVE 0..(count - 1) \subseteq Ids
    BY DEF Ids
  <1>3. ASSUME NEW count \in 0..MaxVertices, ~traits.keyed
        PROVE  \E m \in 0..MaxVertices : Vertices \cup 0..(count - 1) = 0..(m - 1)
    <2>1. PICK n \in 0..MaxVertices : Vertices = 0..(n - 1)
      BY <1>1, <1>3
    <2>2. \E m \in 0..MaxVertices : 0..(n - 1) \cup 0..(count - 1) = 0..(m - 1)
      BY PositionsGrow
    <2> QED
      BY <2>1, <2>2
  <1>4. ASSUME UNCHANGED <<traits, edgeCount, edges, inEdges>> PROVE Grown
    BY <1>1, <1>4 DEF Grown, GraphInv, Vertices
  <1>5. ASSUME NEW es \in Ranges, NEW count \in 0..MaxVertices, NEW forward \in BOOLEAN,
               LoadEdges(es, count, forward)
        PROVE  Grown
    <2>1. CASE traits.keyed
      BY <1>4, <1>5, <2>1 DEF LoadEdges
    <2>2. CASE ~traits.keyed
      <3> DEFINE infers == count = 0 /\ forward /\ es # <<>>
                 vs == Vertices \cup 0..(count - 1) \cup IF infers THEN Named(es) ELSE {}
      <3>1. Resized(vs) /\ UNCHANGED <<traits, edgeCount>>
        BY <1>5, <2>2 DEF LoadEdges
      <3>2. PICK m \in 0..MaxVertices : Vertices \cup 0..(count - 1) = 0..(m - 1)
        BY <1>3, <2>2
      <3>3. PICK k \in 0..(MaxVertices - 1) : Named(es) = 0..k
        BY NamedIs
      <3>4. k + 1 \in 0..MaxVertices /\ (k + 1) - 1 = k
        BY <3>3
      <3>5. \E n \in 0..MaxVertices : 0..(m - 1) \cup 0..k = 0..(n - 1)
        <4>1. \E n \in 0..MaxVertices : 0..(m - 1) \cup 0..((k + 1) - 1) = 0..(n - 1)
          BY <3>4, PositionsGrow
        <4> QED
          BY <3>4, <4>1
      <3>6. \E n \in 0..MaxVertices : vs = 0..(n - 1)
        BY <3>2, <3>3, <3>5
      <3>7. Vertices \subseteq vs
        OBVIOUS
      <3> HIDE DEF vs
      <3>8. vs \in SUBSET Ids
        BY <1>2, <3>6
      <3> QED
        BY <3>1, <3>6, <3>7, <3>8, ResizedGrows
    <2> QED
      BY <2>1, <2>2
  <1>6. ASSUME NEW vs \in SUBSET Ids, NEW count \in 0..MaxVertices, NEW sized \in BOOLEAN,
               LoadVertices(vs, count, sized)
        PROVE  Grown
    <2>1. UNCHANGED <<traits, edgeCount>>
      BY <1>6 DEF LoadVertices
    <2>2. CASE traits.keyed
      <3>1. Resized(Vertices \cup vs)
        BY <1>6, <2>2 DEF LoadVertices
      <3> QED
        BY <1>1, <2>1, <2>2, <3>1, ResizedGrows
    <2>3. CASE ~traits.keyed /\ ~sized
      <3>1. Resized(Vertices)
        BY <1>6, <2>3 DEF LoadVertices
      <3> QED
        BY <1>1, <2>1, <2>3, <3>1, ResizedGrows
    <2>4. CASE ~traits.keyed /\ sized
      <3> DEFINE k == Max({count, Cardinality(vs)})
      <3>1. Resized(Vertices \cup 0..(k - 1))
        BY <1>6, <2>4 DEF LoadVertices
      <3>2. Cardinality(vs) \in 0..MaxVertices
        <4>1. IsFiniteSet(Ids) /\ Cardinality(Ids) = MaxVertices
          <5>1. 0 \in Int /\ MaxVertices - 1 \in Int /\ ~(0 > MaxVertices - 1)
            OBVIOUS
          <5>2. Ids = 0..(MaxVertices - 1)
            BY DEF Ids
          <5> QED
            BY <5>1, <5>2, FS_Interval
        <4>2. IsFiniteSet(vs) /\ Cardinality(vs) <= MaxVertices
          BY <4>1, FS_Subset
        <4>3. Cardinality(vs) \in Nat
          BY <4>2, FS_CardinalityType
        <4> QED
          BY <4>2, <4>3
      <3>3. k \in 0..MaxVertices
        <4>1. {count, Cardinality(vs)} \in SUBSET (0..MaxVertices) /\ {count, Cardinality(vs)} # {} /\ MaxVertices \in Nat
          BY <3>2
        <4> QED
          BY <4>1, MaxOf
      <3> HIDE DEF k
      <3>4. \E m \in 0..MaxVertices : Vertices \cup 0..(k - 1) = 0..(m - 1)
        BY <1>3, <2>4, <3>3
      <3>5. Vertices \cup 0..(k - 1) \in SUBSET Ids
        BY <1>1, <1>2, <3>3
      <3> QED
        BY <2>1, <3>1, <3>4, <3>5, ResizedGrows
    <2> QED
      BY <2>2, <2>3, <2>4
  <1>7. ASSUME NEW u \in Ids, AddVertex(u) PROVE Grown
    <2>1. Resized(Vertices \cup {u}) /\ UNCHANGED <<traits, edgeCount>>
      BY <1>7 DEF AddVertex
    <2>2. ASSUME ~traits.keyed PROVE \E n \in 0..MaxVertices : Vertices \cup {u} = 0..(n - 1)
      <3>1. PICK n \in 0..MaxVertices : Vertices = 0..(n - 1)
        BY <1>1, <2>2
      <3>2. n \in Nat /\ Cardinality(Vertices) = n
        BY <3>1, FS_Interval
      <3>3. u = n
        BY <1>7, <2>2, <3>2 DEF AddVertex
      <3>4. n + 1 \in 0..MaxVertices /\ 0..(n - 1) \cup {n} = 0..((n + 1) - 1)
        BY <3>2, <3>3 DEF Ids
      <3> QED
        BY <3>1, <3>3, <3>4
    <2> QED
      BY <1>1, <2>1, <2>2, ResizedGrows
  <1>8. ASSUME NEW count \in 0..MaxVertices, ResizeVertices(count) PROVE Grown
    <2>1. Resized(0..(count - 1)) /\ UNCHANGED <<traits, edgeCount>> /\ ~traits.keyed
      BY <1>8 DEF ResizeVertices
    <2>2. PICK n \in 0..MaxVertices : Vertices = 0..(n - 1)
      BY <1>1, <2>1
    <2>3. n \in Nat /\ Cardinality(Vertices) = n
      BY <2>2, FS_Interval
    <2>4. count >= n
      BY <1>8, <2>3 DEF ResizeVertices, CarefulCaller
    <2>5. Vertices \subseteq 0..(count - 1)
      BY <2>2, <2>3, <2>4
    <2> QED
      BY <1>2, <2>1, <2>5, ResizedGrows
  <1> QED
    BY <1>5, <1>6, <1>7, <1>8

\* An edge was added from u to v, unless a set or map refused it.
Linked(u, v, val) ==
  /\ GraphInv'
  /\ \/ Stored(edges') = Stored(edges)
     \/ Stored(edges') = Stored(edges) \cup {<<u, [id |-> v, val |-> val]>>}

LEMMA LinkLinks ==
  ASSUME GraphInv, NEW f, NEW g, Graph(traits, f, g),
         Stored(f) = Stored(edges), Stored(g) = Stored(inEdges),
         NEW u \in DOMAIN f, NEW v \in DOMAIN f, NEW val \in Val, Fresh(val),
         Link(f, g, u, v, val), edgeCount' = edgeCount + 1, traits' = traits
  PROVE  Linked(u, v, val) /\ Vertices' = DOMAIN f
  <1> DEFINE new == <<u, [id |-> v, val |-> val]>>
             F   == [f EXCEPT ![u] = Emplace(@, v, val)]
             G   == IF traits.bidirectional THEN [g EXCEPT ![v] = Emplace(@, u, val)] ELSE g
  <1>1. ASSUME NEW w \in DOMAIN f, NEW id \in Ids PROVE [id |-> id, val |-> val] \notin f[w] \cup g[w]
    <2> DEFINE e == [id |-> id, val |-> val]
    <2>1. e \in Entry /\ e.val = val
      BY DEF Entry
    <2>2. DOMAIN g = DOMAIN f
      BY DEF Graph, Lists
    <2> HIDE DEF e
    <2>3. ASSUME e \in f[w] PROVE FALSE
      <3>1. <<w, e>> \in Stored(f)
        BY <2>1, <2>3 DEF Stored
      <3> QED
        BY <2>1, <3>1 DEF Fresh
    <2>4. ASSUME e \in g[w] PROVE FALSE
      <3>1. <<w, e>> \in Stored(g)
        BY <2>1, <2>2, <2>4 DEF Stored
      <3> QED
        BY <2>1, <3>1 DEF Fresh
    <2> QED
      BY <2>3, <2>4 DEF e
  <1>2. /\ Graph(traits, F, G) /\ DOMAIN F = DOMAIN f
        /\ \/ traits.unique /\ Stored(F) = Stored(f)
           \/ Stored(F) = Stored(f) \cup {new} /\ new \notin Stored(f)
    <2>1. LinkOf(f, g, u, v, val, F, G) /\ NotIn(val, f, g)
      BY <1>1 DEF LinkOf, NotIn
    <2> HIDE DEF F, G
    <2> QED
      BY <2>1, LinkKeeps
  <1>3. edges' = F /\ inEdges' = G
    BY DEF Link
  <1> HIDE DEF F, G, new
  <1>4. /\ IsFiniteSet(Stored(edges)) /\ edgeCount \in Int
        /\ IF traits.unique THEN edgeCount >= Cardinality(Stored(edges)) ELSE edgeCount = Cardinality(Stored(edges))
        /\ Cardinality(Stored(edges)) \in Nat
    BY FS_CardinalityType DEF GraphInv, Counted
  <1>5. Counted(traits, F, edgeCount + 1)
    <2>1. CASE traits.unique /\ Stored(F) = Stored(f)
      BY <1>4, <2>1 DEF Counted
    <2>2. CASE Stored(F) = Stored(f) \cup {new} /\ new \notin Stored(f)
      <3>1. IsFiniteSet(Stored(F)) /\ Cardinality(Stored(F)) = Cardinality(Stored(edges)) + 1
        BY <1>4, <2>2, FS_AddElement
      <3> QED
        BY <1>4, <3>1 DEF Counted
    <2> QED
      BY <1>2, <2>1, <2>2
  <1>6. GraphInv'
    BY <1>2, <1>3, <1>5 DEF GraphInv
  <1> QED
    BY <1>2, <1>3, <1>6 DEF Linked, Vertices, new

LEMMA ActionsLink ==
  ASSUME IInv
  PROVE  /\ \A u, v \in Ids, val \in Val :
              AddEdge(u, v, val) => Linked(u, v, val) /\ Vertices' = Vertices /\ {u, v} \subseteq Vertices
         /\ \A val \in Val :
              LoadEdge(val) =>
                /\ Linked(Head(load.edges).u, Head(load.edges).v, val)
                /\ {Head(load.edges).u, Head(load.edges).v} \subseteq Ids
                /\ {Head(load.edges).u, Head(load.edges).v} \subseteq Vertices'
                /\ Vertices' = IF traits.keyed THEN Vertices \cup {Head(load.edges).u, Head(load.edges).v}
                               ELSE Vertices
                /\ LoadInv'
  <1>1. ASSUME NEW u \in Ids, NEW v \in Ids, NEW val \in Val, AddEdge(u, v, val)
        PROVE  Linked(u, v, val) /\ Vertices' = Vertices /\ {u, v} \subseteq Vertices
    <2>1. /\ u \in DOMAIN edges /\ v \in DOMAIN edges /\ Fresh(val)
          /\ Link(edges, inEdges, u, v, val) /\ edgeCount' = edgeCount + 1 /\ traits' = traits
      BY <1>1 DEF AddEdge, Vertices
    <2>2. GraphInv /\ Graph(traits, edges, inEdges)
      BY DEF IInv, GraphInv
    <2>3. Linked(u, v, val) /\ Vertices' = DOMAIN edges
      BY <2>1, <2>2, LinkLinks
    <2> QED
      BY <2>1, <2>3 DEF Vertices
  <1>2. ASSUME NEW val \in Val, LoadEdge(val)
        PROVE  /\ Linked(Head(load.edges).u, Head(load.edges).v, val)
               /\ {Head(load.edges).u, Head(load.edges).v} \subseteq Ids
               /\ {Head(load.edges).u, Head(load.edges).v} \subseteq Vertices'
               /\ Vertices' = IF traits.keyed THEN Vertices \cup {Head(load.edges).u, Head(load.edges).v}
                              ELSE Vertices
               /\ LoadInv'
    <2> DEFINE T  == [u : Ids, v : Ids]
               es == load.edges
               e  == Head(es)
               vs == IF traits.keyed THEN Vertices \cup {e.u, e.v} ELSE Vertices
               f  == Over(edges, vs)
               g  == Over(inEdges, vs)
    <2>1. es \in Seq(T) /\ es # <<>>
      BY <1>2 DEF IInv, LoadInv, LoadEdge
    <2>2. e \in T /\ Tail(es) \in Seq(T)
      <3> HIDE DEF T, es
      <3> QED
        BY <2>1, HeadTailProperties DEF e
    <2>3. LoadInv'
      BY <1>2, <2>2 DEF IInv, LoadInv, LoadEdge
    <2>4. /\ {e.u, e.v} \subseteq vs /\ Fresh(val)
          /\ Link(f, g, e.u, e.v, val) /\ edgeCount' = edgeCount + 1 /\ traits' = traits
      BY <1>2 DEF LoadEdge
    <2>5. GraphInv /\ Graph(traits, edges, inEdges)
      BY DEF IInv, GraphInv
    <2>6. /\ vs \in SUBSET Ids /\ DOMAIN edges \subseteq vs
          /\ ~traits.keyed => \E n \in 0..MaxVertices : vs = 0..(n - 1)
      BY <2>2, <2>5 DEF Graph, VerticesOf, Vertices
    <2> HIDE DEF vs
    <2>7. /\ Graph(traits, f, g) /\ DOMAIN f = vs
          /\ Stored(f) = Stored(edges) /\ Stored(g) = Stored(inEdges)
      BY <2>5, <2>6, OverKeeps
    <2>8. e.u \in DOMAIN f /\ e.v \in DOMAIN f
      BY <2>4, <2>7
    <2> DEFINE a == e.u
               b == e.v
    <2> HIDE DEF f, g, a, b
    <2>9. Linked(a, b, val) /\ Vertices' = DOMAIN f
      <3>1. a \in DOMAIN f /\ b \in DOMAIN f /\ Link(f, g, a, b, val)
        BY <2>4, <2>8 DEF a, b
      <3> QED
        BY <2>4, <2>5, <2>7, <3>1, LinkLinks
    <2> QED
      BY <2>2, <2>3, <2>4, <2>7, <2>9 DEF a, b, vs
  <1> QED
    BY <1>1, <1>2

\* The edges from u to v were removed.
Removed(u, v) ==
  GraphInv' /\ Vertices' = Vertices /\ Stored(edges') = {s \in Stored(edges) : ~(s[1] = u /\ s[2].id = v)}

LEMMA RemovesEdges ==
  ASSUME GraphInv, NEW u \in Ids, NEW v \in Ids, RemoveEdge(u, v)
  PROVE  Removed(u, v)
  <1> DEFINE es == {e \in edges[u] : e.id = v}
             P  == {<<u, e>> : e \in es}
             F  == [edges EXCEPT ![u] = Without(@, v)]
             G  == IF traits.bidirectional /\ Cardinality(es) > 0 /\ v \in Vertices
                   THEN [inEdges EXCEPT ![v] = Without(@, u)] ELSE inEdges
  <1>1. /\ u \in DOMAIN edges /\ edges' = F /\ inEdges' = G /\ traits' = traits
        /\ edgeCount' = edgeCount - Cardinality(es)
    BY DEF RemoveEdge, Vertices
  <1>2. /\ Graph(traits, edges, inEdges)
        /\ IsFiniteSet(Stored(edges)) /\ edgeCount \in Int
        /\ IF traits.unique THEN edgeCount >= Cardinality(Stored(edges)) ELSE edgeCount = Cardinality(Stored(edges))
    BY DEF GraphInv, Counted
  <1>3. edges \in [DOMAIN edges -> SUBSET Entry]
    BY <1>2 DEF Graph, Lists
  <1>4. P \in SUBSET Stored(edges) /\ P = {s \in Stored(edges) : s[1] = u /\ s[2].id = v}
    BY <1>1, <1>3 DEF Stored
  <1>5. IsFiniteSet(P)
    BY <1>2, <1>4, FS_Subset
  <1>6. IsFiniteSet(es) /\ Cardinality(es) = Cardinality(P)
    <2> DEFINE second == [s \in P |-> s[2]]
    <2>1. \A s \in P : s = <<u, s[2]>> /\ s[2] \in es
      OBVIOUS
    <2>2. \A e \in es : <<u, e>> \in P /\ <<u, e>>[2] = e
      OBVIOUS
    <2>3. second \in Bijection(P, es)
      <3> HIDE DEF P, es
      <3>1. second \in Injection(P, es)
        BY <2>1 DEF Injection, IsInjective
      <3>2. second \in Surjection(P, es)
        BY <2>1, <2>2 DEF Surjection
      <3> QED
        BY <3>1, <3>2 DEF Bijection
    <2> HIDE DEF P, es
    <2> QED
      BY <1>5, <2>3, FS_Bijection DEF ExistsBijection
  <1>7. \/ traits.bidirectional /\ v \in DOMAIN edges /\ G = [inEdges EXCEPT ![v] = Without(@, u)]
        \/ (traits.bidirectional => v \notin DOMAIN edges \/ \A e \in edges[u] : e.id # v) /\ G = inEdges
    <2>1. CASE Cardinality(es) > 0
      BY <2>1 DEF Vertices
    <2>2. CASE ~(Cardinality(es) > 0)
      <3>1. Cardinality(es) = 0
        BY <1>6, <2>2, FS_CardinalityType
      <3>2. es = {}
        <4> HIDE DEF es
        <4> QED
          BY <1>6, <3>1, FS_EmptySet
      <3> QED
        BY <2>2, <3>2
    <2> QED
      BY <2>1, <2>2
  <1>8. /\ Graph(traits, F, G) /\ DOMAIN F = DOMAIN edges
        /\ Stored(F) = {s \in Stored(edges) : ~(s[1] = u /\ s[2].id = v)}
    <2>1. UnlinkOf(edges, inEdges, u, v, F, G)
      BY <1>7 DEF UnlinkOf
    <2> HIDE DEF F, G
    <2> QED
      BY <1>1, <1>2, <2>1, UnlinkKeeps
  <1>9. /\ IsFiniteSet(Stored(F)) /\ Cardinality(Stored(F)) = Cardinality(Stored(edges)) - Cardinality(es)
        /\ Cardinality(es) \in Nat /\ Cardinality(Stored(edges)) \in Nat
    <2>1. Stored(F) = Stored(edges) \ P /\ Stored(edges) \cap P = P
      BY <1>4, <1>8
    <2> HIDE DEF P, es, F
    <2>2. /\ IsFiniteSet(Stored(edges) \ P)
          /\ Cardinality(Stored(edges) \ P) = Cardinality(Stored(edges)) - Cardinality(Stored(edges) \cap P)
      BY <1>2, FS_Difference
    <2>3. Cardinality(es) \in Nat /\ Cardinality(Stored(edges)) \in Nat
      BY <1>2, <1>6, FS_CardinalityType
    <2> QED
      BY <1>6, <2>1, <2>2, <2>3
  <1> HIDE DEF es, P, F, G
  <1>10. Counted(traits, F, edgeCount - Cardinality(es))
    BY <1>2, <1>9 DEF Counted
  <1>11. GraphInv'
    BY <1>1, <1>8, <1>10 DEF GraphInv
  <1> QED
    BY <1>1, <1>8, <1>11 DEF Removed, Vertices

\* Vertex u and its edges were removed and the rest renumbered.
Erases(u) ==
  /\ GraphInv'
  /\ Vertices' = Left(u)
  /\ \A x \in Left(u), id \in Left(u), val \in Val :
       [id |-> id, val |-> val] \in edges'[x] <=> [id |-> Up(u, id), val |-> val] \in edges[Up(u, x)]

LEMMA RemovesVertex ==
  ASSUME GraphInv, NEW u \in Ids, RemoveVertex(u)
  PROVE  u \in Vertices /\ Erases(u)
  <1> DEFINE removed == {s \in Stored(edges) : s[1] = u \/ s[2] \notin Unlinked(u).out[s[1]]}
             F == Erased(Unlinked(u).out, u)
             G == Erased(Unlinked(u).in, u)
  <1>1. /\ u \in Vertices /\ edges' = F /\ inEdges' = G /\ traits' = traits
        /\ edgeCount' = edgeCount - Cardinality(removed)
    BY DEF RemoveVertex
  <1>2. /\ Graph(traits, edges, inEdges)
        /\ IsFiniteSet(Stored(edges)) /\ edgeCount \in Int
        /\ IF traits.unique THEN edgeCount >= Cardinality(Stored(edges)) ELSE edgeCount = Cardinality(Stored(edges))
    BY DEF GraphInv, Counted
  <1>3. /\ F = Erased(Unlinked(u).out, u) /\ G = Erased(Unlinked(u).in, u)
        /\ removed = {s \in Stored(edges) : s[1] = u \/ s[2] \notin Unlinked(u).out[s[1]]}
    OBVIOUS
  <1> HIDE DEF F, G, removed
  <1>4. /\ Graph(traits, F, G) /\ DOMAIN F = Left(u)
        /\ \A x \in Left(u), id \in Left(u), val \in Val :
              [id |-> id, val |-> val] \in F[x] <=> [id |-> Up(u, id), val |-> val] \in edges[Up(u, x)]
    BY <1>1, <1>2, <1>3, RemovalKeeps
  <1>5. /\ IsFiniteSet(Stored(F)) /\ IsFiniteSet(removed)
        /\ Cardinality(Stored(F)) = Cardinality(Stored(edges)) - Cardinality(removed)
    BY <1>1, <1>2, <1>3, RemovalCounts
  <1>6. Cardinality(removed) \in Nat /\ Cardinality(Stored(edges)) \in Nat
    BY <1>2, <1>5, FS_CardinalityType
  <1>7. Counted(traits, F, edgeCount - Cardinality(removed))
    BY <1>2, <1>5, <1>6 DEF Counted
  <1>8. GraphInv'
    BY <1>1, <1>4, <1>7 DEF GraphInv
  <1> QED
    BY <1>1, <1>4, <1>8 DEF Erases, Vertices

LEMMA Clears ==
  ASSUME GraphInv, Clear
  PROVE  GraphInv' /\ Vertices' = {} /\ Stored(edges') = {}
  <1> USE DynamicGraphAssumption
  <1> DEFINE f == [u \in {} |-> {}]
  <1>1. edges' = f /\ inEdges' = f /\ edgeCount' = 0 /\ traits' = traits
    BY DEF Clear, Resized, Over
  <1>2. {} \in SUBSET Ids /\ \E n \in 0..MaxVertices : {} = 0..(n - 1)
    <2>1. 0 \in 0..MaxVertices /\ 0..(0 - 1) = {}
      OBVIOUS
    <2> QED
      BY <2>1
  <1>3. Graph(traits, f, f) /\ Counted(traits, f, 0) /\ DOMAIN f = {} /\ Stored(f) = {}
    <2>1. f = [u \in {} |-> {}]
      OBVIOUS
    <2> HIDE DEF f
    <2> QED
      BY <1>2, <2>1, EmptyGraph
  <1> HIDE DEF f
  <1> QED
    BY <1>1, <1>3 DEF GraphInv, Vertices
-----------------------------------------------------------------------------
(* The invariant *)

\* What a step did to the graph.
Changed ==
  \/ Grown
  \/ \E u, v \in Ids, val \in Val :
       /\ Linked(u, v, val) /\ Fresh(val)
       /\ Vertices' = Vertices \cup {u, v}
       /\ ~traits.keyed => {u, v} \subseteq Vertices
  \/ \E u, v \in Ids : Removed(u, v)
  \/ \E u \in Vertices : Erases(u)
  \/ GraphInv' /\ Vertices' = {} /\ Stored(edges') = {}

LEMMA NoLoadTyped == NoLoad \in [edges : Seq([u : Ids, v : Ids]), by : {"none", "list", "call"}]
  <1> DEFINE T == [u : Ids, v : Ids]
  <1> HIDE DEF T
  <1>1. <<>> \in Seq(T)
    OBVIOUS
  <1> QED
    BY <1>1 DEF NoLoad, T

LEMMA InitIInv == Init => IInv
  <1> SUFFICES ASSUME Init PROVE IInv
    OBVIOUS
  <1> USE DynamicGraphAssumption
  <1>1. ASSUME NEW S \in SUBSET Ids, ~traits.keyed => \E n \in 0..MaxVertices : S = 0..(n - 1),
               edges = [u \in S |-> {}]
        PROVE  GraphInv
    <2>1. Graph(traits, edges, edges) /\ Counted(traits, edges, 0)
      BY <1>1, EmptyGraph
    <2> QED
      BY <2>1 DEF Init, GraphInv
  <1>2. {} \in SUBSET Ids
    OBVIOUS
  <1>3. CASE \E n \in 0..MaxVertices : edges = [u \in IF traits.keyed THEN {} ELSE 0..(n - 1) |-> {}] /\ load = NoLoad
    <2>1. PICK n \in 0..MaxVertices : edges = [u \in IF traits.keyed THEN {} ELSE 0..(n - 1) |-> {}]
      BY <1>3
    <2> DEFINE S == IF traits.keyed THEN {} ELSE 0..(n - 1)
    <2>2. S \in SUBSET Ids
      BY DEF Ids
    <2>3. GraphInv
      BY <1>1, <2>1, <2>2
    <2> QED
      BY <1>3, <2>3, NoLoadTyped DEF IInv, LoadInv
  <1>4. CASE \E es \in Ranges : /\ edges = [u \in IF traits.keyed THEN {} ELSE Named(es) |-> {}]
                                /\ load = [edges |-> es, by |-> "list"]
    <2>1. PICK es \in Ranges : /\ edges = [u \in IF traits.keyed THEN {} ELSE Named(es) |-> {}]
                               /\ load = [edges |-> es, by |-> "list"]
      BY <1>4
    <2> DEFINE S == IF traits.keyed THEN {} ELSE Named(es)
    <2>2. PICK m \in 0..(MaxVertices - 1) : Named(es) = 0..m
      BY NamedIs
    <2>3. m + 1 \in 0..MaxVertices /\ 0..m = 0..((m + 1) - 1) /\ 0..m \subseteq Ids
      BY DEF Ids
    <2>4. GraphInv
      <3>1. S \in SUBSET Ids /\ (~traits.keyed => \E n \in 0..MaxVertices : S = 0..(n - 1))
        BY <2>2, <2>3
      <3> QED
        BY <1>1, <2>1, <3>1
    <2>5. es \in Seq([u : Ids, v : Ids])
      BY RangesAre
    <2> QED
      BY <2>1, <2>4, <2>5 DEF IInv, LoadInv
  <1> QED
    BY <1>3, <1>4 DEF Init

LEMMA NextChanges ==
  ASSUME CarefulCaller, IInv, [Next]_vars
  PROVE  IInv' /\ traits' = traits /\ Changed
  <1>1. GraphInv /\ LoadInv
    BY DEF IInv
  <1>2. ASSUME UNCHANGED <<traits, edges, inEdges, edgeCount>> PROVE Changed /\ GraphInv'
    <2>1. Grown
      BY <1>1, <1>2 DEF Grown, GraphInv, Vertices, Graph, VerticesOf
    <2> QED
      BY <2>1 DEF Changed, Grown
  <1>3. ASSUME UNCHANGED load PROVE LoadInv'
    BY <1>1, <1>3 DEF LoadInv
  <1>4. ASSUME load' = NoLoad PROVE LoadInv'
    BY <1>4, NoLoadTyped DEF LoadInv
  <1>5. ASSUME NEW es \in Ranges, NEW count \in 0..MaxVertices, NEW forward \in BOOLEAN,
               LoadEdges(es, count, forward)
        PROVE  IInv' /\ traits' = traits /\ Changed
    <2>1. Grown
      BY <1>1, <1>5, ActionsGrow
    <2>2. load' = [edges |-> es, by |-> "call"] /\ traits' = traits
      BY <1>5 DEF LoadEdges
    <2>3. LoadInv'
      BY <2>2, RangesAre DEF LoadInv
    <2> QED
      BY <2>1, <2>2, <2>3 DEF IInv, Changed, Grown
  <1>6. ASSUME NEW vs \in SUBSET Ids, NEW count \in 0..MaxVertices, NEW sized \in BOOLEAN,
               LoadVertices(vs, count, sized)
        PROVE  IInv' /\ traits' = traits /\ Changed
    <2>1. Grown /\ UNCHANGED <<traits, load>>
      BY <1>1, <1>6, ActionsGrow DEF LoadVertices
    <2> QED
      BY <1>3, <2>1 DEF IInv, Changed, Grown
  <1>7. ASSUME NEW u \in Ids, AddVertex(u) PROVE IInv' /\ traits' = traits /\ Changed
    <2>1. Grown /\ UNCHANGED <<traits, load>>
      BY <1>1, <1>7, ActionsGrow DEF AddVertex
    <2> QED
      BY <1>3, <2>1 DEF IInv, Changed, Grown
  <1>8. ASSUME NEW u \in Ids, RemoveVertex(u) PROVE IInv' /\ traits' = traits /\ Changed
    <2>1. u \in Vertices /\ Erases(u) /\ UNCHANGED <<traits, load>>
      BY <1>1, <1>8, RemovesVertex DEF RemoveVertex
    <2> QED
      BY <1>3, <2>1 DEF IInv, Changed, Erases
  <1>9. ASSUME NEW u \in Ids, NEW v \in Ids, RemoveEdge(u, v) PROVE IInv' /\ traits' = traits /\ Changed
    <2>1. Removed(u, v) /\ UNCHANGED <<traits, load>>
      BY <1>1, <1>9, RemovesEdges DEF RemoveEdge
    <2> QED
      BY <1>3, <2>1 DEF IInv, Changed, Removed
  <1>10. ASSUME NEW u \in Ids, NEW v \in Ids, NEW val \in Val, AddEdge(u, v, val)
         PROVE  IInv' /\ traits' = traits /\ Changed
    <2>1. Linked(u, v, val) /\ Vertices' = Vertices /\ {u, v} \subseteq Vertices
      BY <1>10, ActionsLink
    <2>2. Fresh(val) /\ UNCHANGED <<traits, load>>
      BY <1>10 DEF AddEdge
    <2>3. Vertices' = Vertices \cup {u, v}
      BY <2>1
    <2>4. Changed
      BY <2>1, <2>2, <2>3 DEF Changed
    <2> QED
      BY <1>3, <2>1, <2>2, <2>4 DEF IInv, Linked
  <1>11. ASSUME NEW u \in Ids, NEW v \in Ids, NEW val \in Val, AddEdgeThrows(u, v, val)
         PROVE  IInv' /\ traits' = traits /\ Changed
    <2>1. UNCHANGED <<traits, edges, inEdges, edgeCount, load>>
      BY <1>11 DEF AddEdgeThrows, CarefulCaller
    <2> QED
      BY <1>2, <1>3, <2>1 DEF IInv
  <1>12. ASSUME NEW count \in 0..MaxVertices, ResizeVertices(count)
         PROVE  IInv' /\ traits' = traits /\ Changed
    <2>1. Grown /\ UNCHANGED <<traits, load>>
      BY <1>1, <1>12, ActionsGrow DEF ResizeVertices
    <2> QED
      BY <1>3, <2>1 DEF IInv, Changed, Grown
  <1>13. ASSUME Clear PROVE IInv' /\ traits' = traits /\ Changed
    <2>1. GraphInv' /\ Vertices' = {} /\ Stored(edges') = {} /\ UNCHANGED <<traits, load>>
      BY <1>1, <1>13, Clears DEF Clear
    <2> QED
      BY <1>3, <2>1 DEF IInv, Changed
  <1>14. ASSUME NEW val \in Val, LoadEdge(val) PROVE IInv' /\ traits' = traits /\ Changed
    <2> DEFINE a == Head(load.edges).u
               b == Head(load.edges).v
    <2>1. /\ Linked(a, b, val)
          /\ {a, b} \subseteq Ids
          /\ {a, b} \subseteq Vertices'
          /\ Vertices' = IF traits.keyed THEN Vertices \cup {a, b} ELSE Vertices
          /\ LoadInv'
      BY <1>14, ActionsLink
    <2>2. Fresh(val) /\ traits' = traits
      BY <1>14 DEF LoadEdge
    <2> HIDE DEF a, b
    <2>3. a \in Ids /\ b \in Ids /\ Vertices' = Vertices \cup {a, b} /\ (~traits.keyed => {a, b} \subseteq Vertices)
      BY <2>1
    <2>4. Changed
      BY <2>1, <2>2, <2>3 DEF Changed
    <2> QED
      BY <2>1, <2>2, <2>4 DEF IInv, Linked
  <1>15. ASSUME LoadThrows \/ LoadReturns PROVE IInv' /\ traits' = traits /\ Changed
    <2>1. UNCHANGED <<traits, edges, inEdges, edgeCount>> /\ load' = NoLoad
      BY <1>15 DEF LoadThrows, LoadReturns
    <2> QED
      BY <1>2, <1>4, <2>1 DEF IInv
  <1>16. ASSUME UNCHANGED vars PROVE IInv' /\ traits' = traits /\ Changed
    <2>1. UNCHANGED <<traits, edges, inEdges, edgeCount>> /\ UNCHANGED load
      BY <1>16 DEF vars
    <2> QED
      BY <1>2, <1>3, <2>1 DEF IInv
  <1>17. Loads => IInv' /\ traits' = traits /\ Changed
    BY <1>5, <1>6 DEF Loads
  <1>18. Changes => IInv' /\ traits' = traits /\ Changed
    BY <1>7, <1>8, <1>9, <1>10, <1>11, <1>12, <1>13 DEF Changes
  <1> QED
    BY <1>14, <1>15, <1>16, <1>17, <1>18 DEF Next

\* Every state, also in the middle of a load or after one that threw, satisfies the
\* invariant: numbers without gaps, edges between vertices, mirrored lists, and a count.
THEOREM InvariantHolds ==
  ASSUME CarefulCaller
  PROVE  Spec => []IInv
  <1>1. IInv /\ [Next]_vars => IInv'
    BY NextChanges
  <1> QED
    BY <1>1, InitIInv, PTL DEF Spec

\* The in-edges of a bidirectional graph are exactly its out-edges seen from the other
\* end, and no edge leads to a vertex that does not exist, whatever the calls.
THEOREM InEdgesStayMirror ==
  ASSUME CarefulCaller
  PROVE  Spec => []InEdgesMirror
  <1>1. IInv => InEdgesMirror
    <2>1. SUFFICES ASSUME Graph(traits, edges, inEdges) PROVE InEdgesMirror
      BY DEF IInv, GraphInv
    <2>2. DOMAIN inEdges = DOMAIN edges
      BY <2>1 DEF Graph, Lists
    <2>3. EndpointsExist
      BY <2>1, <2>2 DEF Graph, Within, EndpointsExist, Stored, Vertices
    <2>4. ASSUME ~traits.bidirectional PROVE Stored(inEdges) = {}
      BY <2>1, <2>2, <2>4 DEF Graph, Mirror, Stored
    <2> QED
      BY <2>1, <2>3, <2>4 DEF InEdgesMirror, Graph, Mirror, Vertices
  <1> QED
    BY <1>1, InvariantHolds, PTL

\* num_edges counts the edges, except that sets and maps count those they refuse.
THEOREM EdgesStayCounted ==
  ASSUME CarefulCaller
  PROVE  Spec => []EdgesCounted
  <1>1. IInv => EdgesCounted
    BY DEF IInv, GraphInv, Counted, EdgesCounted
  <1> QED
    BY <1>1, InvariantHolds, PTL

-----------------------------------------------------------------------------
(* Each call does to the abstract graph what it promises *)

\* Stored edges and arcs are the same thing.
LEMMA ArcOf ==
  ASSUME NEW f, f \in [DOMAIN f -> SUBSET Entry]
  PROVE  \A a : a \in Arcs(f) <=> /\ a \in [u : DOMAIN f, v : Ids, val : Val]
                                  /\ [id |-> a.v, val |-> a.val] \in f[a.u]
  BY ArcIs

LEMMA LinkedArcs ==
  ASSUME IInv, NEW u \in Ids, NEW v \in Ids, NEW val \in Val, Linked(u, v, val), Fresh(val)
  PROVE  /\ \A a \in Arcs(edges) : a.val # val
         /\ \/ Arcs(edges') = Arcs(edges)
            \/ Arcs(edges') = Arcs(edges) \cup {[u |-> u, v |-> v, val |-> val]}
  <1> DEFINE new == <<u, [id |-> v, val |-> val]>>
  <1>1. ASSUME NEW a \in Arcs(edges) PROVE a.val # val
    BY DEF Arcs, Fresh
  <1>2. ASSUME Stored(edges') = Stored(edges) PROVE Arcs(edges') = Arcs(edges)
    BY <1>2 DEF Arcs
  <1>3. ASSUME Stored(edges') = Stored(edges) \cup {new}
        PROVE  Arcs(edges') = Arcs(edges) \cup {[u |-> u, v |-> v, val |-> val]}
    <2>1. Arcs(edges') = {[u |-> s[1], v |-> s[2].id, val |-> s[2].val] : s \in Stored(edges) \cup {new}}
      BY <1>3 DEF Arcs
    <2>2. new[1] = u /\ new[2].id = v /\ new[2].val = val
      OBVIOUS
    <2> HIDE DEF new
    <2> QED
      BY <2>1, <2>2 DEF Arcs
  <1> QED
    BY <1>1, <1>2, <1>3 DEF Linked

LEMMA RemovedArcs ==
  ASSUME NEW u \in Ids, NEW v \in Ids, Removed(u, v)
  PROVE  Arcs(edges') = {a \in Arcs(edges) : ~(a.u = u /\ a.v = v)}
  <1>1. Arcs(edges') = {[u |-> s[1], v |-> s[2].id, val |-> s[2].val] :
                          s \in {s \in Stored(edges) : ~(s[1] = u /\ s[2].id = v)}}
    BY DEF Removed, Arcs
  <1> QED
    BY <1>1 DEF Arcs

LEMMA ErasedArcs ==
  ASSUME IInv, NEW u \in Vertices, Erases(u)
  PROVE  /\ Vertices' = {Low(u, x) : x \in Vertices \ {u}}
         /\ Arcs(edges') = {[u |-> Low(u, a.u), v |-> Low(u, a.v), val |-> a.val] :
                              a \in {a \in Arcs(edges) : u \notin {a.u, a.v}}}
  <1> DEFINE Lower(a) == [u |-> Low(u, a.u), v |-> Low(u, a.v), val |-> a.val]
             rest     == {a \in Arcs(edges) : u \notin {a.u, a.v}}
  <1>1. /\ VerticesOf(traits, edges) /\ Lists(edges, inEdges) /\ Within(edges, inEdges)
        /\ Lists(edges', inEdges') /\ Within(edges', inEdges') /\ Vertices' = Left(u)
    BY DEF IInv, GraphInv, Graph, Erases
  <1>2. /\ \A x \in Left(u) : Up(u, x) \in Vertices \ {u} /\ Low(u, Up(u, x)) = x
        /\ \A y \in Vertices \ {u} : Low(u, y) \in Left(u) /\ Up(u, Low(u, y)) = y
        /\ Left(u) \subseteq Ids
    BY <1>1, PositionsLeft
  <1>3. ASSUME NEW a
        PROVE  a \in rest <=> /\ a \in [u : Vertices \ {u}, v : Vertices \ {u}, val : Val]
                              /\ [id |-> a.v, val |-> a.val] \in edges[a.u]
    <2>1. a \in Arcs(edges) <=> /\ a \in [u : Vertices, v : Ids, val : Val]
                                /\ [id |-> a.v, val |-> a.val] \in edges[a.u]
      BY <1>1, ArcOf DEF Lists, Vertices
    <2>2. ASSUME a \in [u : Vertices, v : Ids, val : Val], [id |-> a.v, val |-> a.val] \in edges[a.u]
          PROVE  a.v \in Vertices
      BY <1>1, <2>2 DEF Within, Vertices
    <2>3. Vertices \subseteq Ids
      BY <1>1 DEF VerticesOf, Vertices
    <2> QED
      BY <2>1, <2>2, <2>3
  <1>4. ASSUME NEW b
        PROVE  b \in Arcs(edges') <=> /\ b \in [u : Left(u), v : Left(u), val : Val]
                                      /\ [id |-> b.v, val |-> b.val] \in edges'[b.u]
    <2>1. b \in Arcs(edges') <=> /\ b \in [u : Left(u), v : Ids, val : Val]
                                 /\ [id |-> b.v, val |-> b.val] \in edges'[b.u]
      BY <1>1, ArcOf DEF Lists, Vertices
    <2>2. ASSUME b \in [u : Left(u), v : Ids, val : Val], [id |-> b.v, val |-> b.val] \in edges'[b.u]
          PROVE  b.v \in Left(u)
      BY <1>1, <2>2 DEF Within, Vertices
    <2> QED
      BY <1>2, <2>1, <2>2
  <1> HIDE DEF rest
  <1>5. ASSUME NEW x \in Left(u), NEW id \in Left(u), NEW val \in Val
        PROVE  [id |-> id, val |-> val] \in edges'[x] <=> [id |-> Up(u, id), val |-> val] \in edges[Up(u, x)]
    BY DEF Erases
  <1>6. ASSUME NEW a \in rest PROVE Lower(a) \in Arcs(edges')
    <2>1. /\ a.u \in Vertices \ {u} /\ a.v \in Vertices \ {u} /\ a.val \in Val
          /\ [id |-> a.v, val |-> a.val] \in edges[a.u]
      BY <1>3
    <2>2. /\ Low(u, a.u) \in Left(u) /\ Low(u, a.v) \in Left(u)
          /\ Up(u, Low(u, a.u)) = a.u /\ Up(u, Low(u, a.v)) = a.v
      BY <1>2, <2>1
    <2>3. [id |-> Low(u, a.v), val |-> a.val] \in edges'[Low(u, a.u)]
      BY <1>5, <2>1, <2>2
    <2> QED
      BY <1>4, <2>1, <2>2, <2>3
  <1>7. ASSUME NEW b \in Arcs(edges') PROVE \E a \in rest : b = Lower(a)
    <2>1. /\ b.u \in Left(u) /\ b.v \in Left(u) /\ b.val \in Val /\ b = [u |-> b.u, v |-> b.v, val |-> b.val]
          /\ [id |-> b.v, val |-> b.val] \in edges'[b.u]
      BY <1>4
    <2> DEFINE a == [u |-> Up(u, b.u), v |-> Up(u, b.v), val |-> b.val]
    <2>2. [id |-> Up(u, b.v), val |-> b.val] \in edges[Up(u, b.u)]
      BY <1>5, <2>1
    <2>3. a \in rest
      BY <1>2, <1>3, <2>1, <2>2
    <2>4. b = Lower(a)
      BY <1>2, <2>1
    <2> QED
      BY <2>3, <2>4
  <1>8. Arcs(edges') = {Lower(a) : a \in rest}
    BY <1>6, <1>7
  <1>9. Left(u) = {Low(u, x) : x \in Vertices \ {u}}
    BY <1>2
  <1> QED
    BY <1>1, <1>8, <1>9 DEF rest

\* dynamic_graph is the directed multigraph that it promises, for every kind of container:
\* remove_vertex takes the vertex and its edges, those only, and renumbers the rest.
THEOREM IsDirectedMultigraph ==
  ASSUME CarefulCaller
  PROVE  Spec => ImplementsDirectedMultigraph
  <1> DEFINE arcs  == {[u |-> s[1], v |-> s[2].id, val |-> s[2].val] : s \in Stored(edges)}
             Stays == UNCHANGED <<~traits.keyed, Vertices, arcs>>
  <1>1. ASSUME Init PROVE Abstract!Init
    <2>1. (~traits.keyed) \in BOOLEAN
      OBVIOUS
    <2>2. IInv
      BY <1>1, InitIInv
    <2>3. Vertices \in SUBSET Ids
      BY <2>2 DEF IInv, GraphInv, Graph, VerticesOf, Vertices
    <2>4. Stored(edges) = {}
      BY <1>1 DEF Init, Stored
    <2> QED
      BY <2>1, <2>3, <2>4 DEF Abstract!Init
  <1>2. ASSUME IInv, [Next]_vars PROVE Abstract!Next \/ Stays
    <2> USE <1>2
    <2>1. IInv' /\ traits' = traits /\ Changed
      BY NextChanges
    <2>2. arcs = Arcs(edges) /\ arcs' = Arcs(edges')
      BY DEF Arcs
    <2> HIDE DEF arcs
    <2>3. CASE Grown
      <3>1. Vertices \subseteq Vertices' /\ Vertices' \in SUBSET Ids /\ arcs' = arcs
        BY <2>2, <2>3 DEF Grown, Arcs
      <3>2. Vertices' = Vertices \cup Vertices'
        BY <3>1
      <3>3. Abstract!Grow
        BY <2>1, <3>1, <3>2 DEF Abstract!Grow, arcs
      <3> QED
        BY <3>3 DEF Abstract!Next
    <2>4. CASE \E u, v \in Ids, val \in Val :
                 /\ Linked(u, v, val) /\ Fresh(val)
                 /\ Vertices' = Vertices \cup {u, v}
                 /\ ~traits.keyed => {u, v} \subseteq Vertices
      <3>1. PICK u \in Ids, v \in Ids, val \in Val :
                 /\ Linked(u, v, val) /\ Fresh(val)
                 /\ Vertices' = Vertices \cup {u, v}
                 /\ ~traits.keyed => {u, v} \subseteq Vertices
        BY <2>4
      <3>2. /\ \A a \in Arcs(edges) : a.val # val
            /\ \/ Arcs(edges') = Arcs(edges)
               \/ Arcs(edges') = Arcs(edges) \cup {[u |-> u, v |-> v, val |-> val]}
        BY <3>1, LinkedArcs
      <3>3. CASE Arcs(edges') = Arcs(edges)
        <4>1. arcs' = arcs /\ {u, v} \in SUBSET Ids
          BY <2>2, <3>3
        <4>2. Abstract!Grow
          BY <2>1, <3>1, <4>1 DEF Abstract!Grow, arcs
        <4> QED
          BY <4>2 DEF Abstract!Next
      <3>4. CASE Arcs(edges') = Arcs(edges) \cup {[u |-> u, v |-> v, val |-> val]}
        <4>1. /\ \A a \in arcs : a.val # val
              /\ arcs' = arcs \cup {[u |-> u, v |-> v, val |-> val]}
          BY <2>2, <3>2, <3>4
        <4>2. Abstract!AddEdge(u, v, val)
          BY <2>1, <3>1, <4>1 DEF Abstract!AddEdge, arcs
        <4> QED
          BY <4>2 DEF Abstract!Next
      <3> QED
        BY <3>2, <3>3, <3>4
    <2>5. CASE \E u, v \in Ids : Removed(u, v)
      <3>1. PICK u \in Ids, v \in Ids : Removed(u, v)
        BY <2>5
      <3>2. arcs' = {a \in arcs : ~(a.u = u /\ a.v = v)} /\ Vertices' = Vertices
        BY <2>2, <3>1, RemovedArcs DEF Removed
      <3>3. Abstract!RemoveEdge(u, v)
        BY <2>1, <3>2 DEF Abstract!RemoveEdge, arcs
      <3> QED
        BY <3>3 DEF Abstract!Next
    <2>6. CASE \E u \in Vertices : Erases(u)
      <3>1. PICK u \in Vertices : Erases(u)
        BY <2>6
      <3>2. /\ Vertices' = {Low(u, x) : x \in Vertices \ {u}}
            /\ arcs' = {[u |-> Low(u, a.u), v |-> Low(u, a.v), val |-> a.val] :
                          a \in {a \in arcs : u \notin {a.u, a.v}}}
        BY <2>2, <3>1, ErasedArcs
      <3>3. Abstract!RemoveVertex(u)
        BY <2>1, <3>2 DEF Abstract!RemoveVertex, Low, arcs
      <3>4. u \in Ids
        BY DEF IInv, GraphInv, Graph, VerticesOf, Vertices
      <3> QED
        BY <3>3, <3>4 DEF Abstract!Next
    <2>7. CASE GraphInv' /\ Vertices' = {} /\ Stored(edges') = {}
      <3>1. Vertices' = {} /\ arcs' = {}
        BY <2>2, <2>7 DEF Arcs
      <3>2. Abstract!Clear
        BY <2>1, <3>1 DEF Abstract!Clear, arcs
      <3> QED
        BY <3>2 DEF Abstract!Next
    <2> QED
      BY <2>1, <2>3, <2>4, <2>5, <2>6, <2>7 DEF Changed
  <1>3. Spec => []IInv
    BY InvariantHolds
  <1> HIDE DEF Stays
  <1>4. IInv /\ [Next]_vars => [Abstract!Next]_<<~traits.keyed, Vertices, arcs>>
    BY <1>2 DEF Stays
  <1> QED
    BY <1>1, <1>3, <1>4, PTL DEF Spec, ImplementsDirectedMultigraph, Abstract!Spec, Abstract!vars
=============================================================================
