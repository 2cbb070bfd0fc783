---------------------------- MODULE TriangleCount ----------------------------
(***************************************************************************)
(* triangle_count, directed_triangle_count and jaccard_coefficient: what   *)
(* the neighbourhoods of the two ends of every edge have in common.  One   *)
(* step per edge.                                                          *)
(***************************************************************************)
EXTENDS Digraphs

CONSTANT N            \* the number of vertices

VARIABLES algorithm,  \* "triangle_count", "directed_triangle_count" or "jaccard_coefficient"
          graph,      \* the lists of targets, in ascending order
          start,      \* the vertex u whose edges are looked at
          position,   \* of u_it among them, from 1
          triangles,  \* the count
          reported    \* what jaccard_coefficient has given to its callback

vars == <<algorithm, graph, start, position, triangles, reported>>

Vertices == 0..(N - 1)

Init == position = 1 /\ triangles = 0 /\ reported = {}

\* The merge of the lists of u, from the i-th place on, and of v: how many common
\* targets are in counted.
Common(us, vs, i, counted) ==
  LET merge[at \in (1..(Len(us) + 1)) \X (1..(Len(vs) + 1))] ==
        LET x == at[1]
            y == at[2]
        IN  IF x > Len(us) \/ y > Len(vs) THEN 0
            ELSE IF us[x] < vs[y] THEN merge[<<x + 1, y>>]
            ELSE IF vs[y] < us[x] THEN merge[<<x, y + 1>>]
            ELSE (IF us[x] \in counted THEN 1 ELSE 0) + merge[<<x + 1, y + 1>>]
  IN  merge[<<i, 1>>]

AtEdge == start < N /\ position <= Len(graph[start])
Target == graph[start][position]

\* triangle_count looks at each edge from its smaller end and counts greater vertices.
CountTriangles ==
  /\ algorithm = "triangle_count" /\ AtEdge
  /\ triangles' = IF start < Target
                  THEN triangles + Common(graph[start], graph[Target], position + 1, (Target + 1)..(N - 1))
                  ELSE triangles
  /\ position' = position + 1
  /\ UNCHANGED <<algorithm, graph, start, reported>>

CountDirected ==
  /\ algorithm = "directed_triangle_count" /\ AtEdge
  /\ triangles' = IF start # Target
                  THEN triangles + Common(graph[start], graph[Target], 1, Vertices \ {start, Target})
                  ELSE triangles
  /\ position' = position + 1
  /\ UNCHANGED <<algorithm, graph, start, reported>>

\* nbrs: the sets of targets without self-loops.
Neighbours(u) == {graph[u][i] : i \in DOMAIN graph[u]} \ {u}

\* jaccard_coefficient calls out with a quotient, given here by its two numbers.
Report ==
  /\ algorithm = "jaccard_coefficient" /\ AtEdge
  /\ LET shared == Cardinality(Neighbours(start) \cap Neighbours(Target))
         all    == Cardinality(Neighbours(start)) + Cardinality(Neighbours(Target)) - shared
     IN  reported' = IF Target = start THEN reported
                     ELSE reported \cup {[u |-> start, at |-> position, shared |-> shared, all |-> all]}
  /\ position' = position + 1
  /\ UNCHANGED <<algorithm, graph, start, triangles>>

NextVertex ==
  /\ start < N /\ ~AtEdge
  /\ start' = start + 1
  /\ position' = 1
  /\ UNCHANGED <<algorithm, graph, triangles, reported>>

Next == CountTriangles \/ CountDirected \/ Report \/ NextVertex

Returned == start = N

-----------------------------------------------------------------------------
(* Properties *)

\* The triples (u, v, w) of different vertices with edges u->v, v->w and u->w.
Triples == {t \in Vertices \X Vertices \X Vertices :
              /\ t[1] # t[2] /\ t[1] # t[3] /\ t[2] # t[3]
              /\ {t[2], t[3]} \subseteq Neighbours(t[1]) /\ t[3] \in Neighbours(t[2])}

\* Without parallel edges each triangle of an undirected graph is counted once, each
\* triple of a directed one once; a coefficient is |N(u) /\ N(v)| / |N(u) \/ N(v)|,
\* given once for every edge that is no self-loop.
CountsExact ==
  Returned =>
    CASE algorithm = "triangle_count" ->
           triangles = Cardinality({{t[1], t[2], t[3]} : t \in Triples})
      [] algorithm = "directed_triangle_count" -> triangles = Cardinality(Triples)
      [] algorithm = "jaccard_coefficient" ->
           /\ {<<r.u, graph[r.u][r.at]>> : r \in reported} =
                {e \in Vertices \X Vertices : e[2] \in Neighbours(e[1])}
           /\ \A r \in reported :
                LET a == Neighbours(r.u)
                    b == Neighbours(graph[r.u][r.at])
                IN  r.shared = Cardinality(a \cap b) /\ r.all = Cardinality(a \cup b) /\ r.all > 0
=============================================================================
