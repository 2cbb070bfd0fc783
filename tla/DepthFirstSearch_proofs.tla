---------------------- MODULE DepthFirstSearch_proofs -----------------------
(***************************************************************************)
(* Proofs about the depth-first searches as MCSearches runs them, for any  *)
(* number of vertices, edges and sources: what the stack of                *)
(* depth_first_search is at any time, that the order of topological_sort   *)
(* is exact, that the visitor of depth_first_search is told of the         *)
(* vertices in order and of each edge what it is, and that the depth-first *)
(* views visit in the order of a depth-first search and report its depths. *)
(***************************************************************************)
EXTENDS MCSearches, GraphLemmas

-----------------------------------------------------------------------------
(* Vertices and graphs *)

Adjacency == Adjacencies(Vertices)

LEMMA VerticesFinite == IsFiniteSet(Vertices) /\ Cardinality(Vertices) = N /\ 0 \in Vertices
  <1>1. N \in Nat /\ 0 <= N - 1
    BY SearchesAssumption
  <1> QED
    BY <1>1, FS_Interval DEF Vertices

LEMMA ListsOf ==
  ASSUME graph \in Adjacency
  PROVE  /\ Successors(graph) \in [Vertices -> SUBSET Vertices]
         /\ \A v \in Vertices : /\ graph[v] \in Seq(Vertices)
                                /\ Len(graph[v]) \in Nat
                                /\ DOMAIN graph[v] = 1..Len(graph[v])
                                /\ \A i \in 1..Len(graph[v]) : graph[v][i] \in Vertices
                                /\ Successors(graph)[v] = {graph[v][i] : i \in 1..Len(graph[v])}
  BY SuccessorsOf, LenProperties DEF Adjacency

LEMMA GraphIsGiven ==
  ASSUME Init
  PROVE  graph \in Adjacency /\ seed \in Vertices
  <1>1. MaxEdges \in Nat /\ MaxEdges - 1 \in Nat
    BY SearchesAssumption
  <1>2. \A k \in Nat : AdjacencyLists(Vertices, k) \subseteq Adjacency
    BY ListsAreAdjacencies DEF Adjacency
  <1>3. graph \in AdjacencyLists(Vertices, MaxEdges) \/ graph \in AdjacencyLists(Vertices, MaxEdges - 1)
    BY DEF Init
  <1> QED
    BY <1>1, <1>2, <1>3, VerticesFinite DEF Init

LEMMA SeenIs ==
  ASSUME NEW s \in Seq(Vertices)
  PROVE  /\ ToSet(s) = {v \in Vertices : Listed(s, v)}
         /\ \A v : Listed(s, v) => v \in Vertices
         /\ s # <<>> => Last(s) \in Vertices /\ Listed(s, Last(s))
         /\ s = <<>> => \A v : ~Listed(s, v)
  <1>1. Len(s) \in Nat /\ DOMAIN s = 1..Len(s) /\ \A i \in 1..Len(s) : s[i] \in Vertices
    BY LenProperties, ElementOfSeq
  <1>2. ToSet(s) = {s[i] : i \in 1..Len(s)}
    BY <1>1 DEF ToSet
  <1>3. \A v : Listed(s, v) => v \in Vertices
    BY <1>1 DEF Listed
  <1>4. s # <<>> => Len(s) \in 1..Len(s)
    BY <1>1, EmptySeq
  <1>5. s = <<>> => Len(s) = 0
    BY EmptySeq
  <1>6. ToSet(s) = {v \in Vertices : Listed(s, v)}
    BY <1>1, <1>2 DEF Listed
  <1>7. s # <<>> => Last(s) \in Vertices /\ Listed(s, Last(s))
    BY <1>1, <1>4 DEF Listed, Last
  <1> QED
    BY <1>3, <1>5, <1>6, <1>7 DEF Listed

\* No vertex has two entries.
Apart(q) == \A i, j \in 1..Len(q) : q[i].vertex = q[j].vertex => i = j

\* q has an entry of v.
On(q, v) == \E i \in 1..Len(q) : q[i].vertex = v

\* The stack of a depth-first search.
Frames == [vertex : Vertices, next : Nat \ {0}]

-----------------------------------------------------------------------------
(* Depth-first search, as the topological orders use it: a stack and the vertices that *)
(* have finished                                                                       *)

\* Each entry has just followed the edge to the one above it.
IsPath(g, s) == \A k \in 1..(Len(s) - 1) :
                  /\ s[k].next - 1 \in 1..Len(g[s[k].vertex])
                  /\ g[s[k].vertex][s[k].next - 1] = s[k + 1].vertex

Searching(g, s, f) == /\ s \in Seq(Frames) /\ f \in Seq(Vertices)
                      /\ Apart(s) /\ Distinct(f)
                      /\ \A v : ~(On(s, v) /\ Listed(f, v))
                      /\ IsPath(g, s)

\* The edges behind an entry lead to finished vertices, but for the one to the entry above.
Behind(g, s, f) ==
  \A k \in 1..Len(s) : \A i \in 1..Len(g[s[k].vertex]) :
    i < s[k].next => Listed(f, g[s[k].vertex][i]) \/ (k < Len(s) /\ i = s[k].next - 1)

\* The edges of finished vertices lead to vertices that finished earlier.
Finished(g, f) == \A j \in 1..Len(f) : \A e \in 1..Len(g[f[j]]) : \E i \in 1..(j - 1) : f[i] = g[f[j]][e]

New(v) == [vertex |-> v, next |-> 1]

\* s with its last entry, the n-th, at its next edge.
Moved(r, s, n, e) == r = [s EXCEPT ![n] = [e EXCEPT !.next = e.next + 1]]

\* r is m with an entry for v on top.
Topped(r, m, v) == r = Append(m, New(v))

LEMMA ListsOfGraph ==
  ASSUME NEW g \in Adjacency, NEW v \in Vertices
  PROVE  Len(g[v]) \in Nat /\ \A i \in 1..Len(g[v]) : g[v][i] \in Vertices
  BY LenProperties, ElementOfSeq DEF Adjacency, Adjacencies

LEMMA FrameOf ==
  ASSUME NEW s \in Seq(Frames)
  PROVE  /\ Len(s) \in Nat
         /\ \A i \in 1..Len(s) : s[i] \in Frames /\ s[i].vertex \in Vertices /\ s[i].next \in Nat \ {0}
  <1>1. Len(s) \in Nat /\ \A i \in 1..Len(s) : s[i] \in Frames
    BY LenProperties, ElementOfSeq
  <1> QED
    BY <1>1 DEF Frames

LEMMA FirstFrame ==
  ASSUME NEW g, NEW f \in Seq(Vertices), Distinct(f), NEW v \in Vertices, ~Listed(f, v),
         NEW r, r = <<New(v)>>
  PROVE  /\ Searching(g, r, f) /\ Behind(g, r, f)
         /\ \A w : On(r, w) <=> w = v
  <1>1. New(v) \in Frames /\ New(v).vertex = v /\ New(v).next = 1
    BY DEF New, Frames
  <1>2. r \in Seq(Frames) /\ Len(r) = 1 /\ r[1] = New(v)
    BY <1>1
  <1>3. \A i \in 1..Len(r) : i = 1 /\ r[i].vertex = v /\ r[i].next = 1
    BY <1>1, <1>2
  <1>4. \A w : On(r, w) <=> w = v
    BY <1>2, <1>3 DEF On
  <1>5. Apart(r) /\ IsPath(g, r) /\ Behind(g, r, f)
    BY <1>2, <1>3 DEF Apart, IsPath, Behind
  <1> QED
    BY <1>2, <1>4, <1>5 DEF Searching

MovedOn(r, s, n, e) == /\ r \in Seq(Frames) /\ Len(r) = n
                       /\ \A i \in 1..(n - 1) : r[i] = s[i]
                       /\ \A i \in 1..n : r[i].vertex = s[i].vertex
                       /\ r[n].next = e.next + 1

LEMMA MovedIs ==
  ASSUME NEW s \in Seq(Frames), NEW n \in Nat \ {0}, n = Len(s), NEW e, e = s[n]
  PROVE  \A r : Moved(r, s, n, e) => MovedOn(r, s, n, e)
  <1> SUFFICES ASSUME NEW r, Moved(r, s, n, e) PROVE MovedOn(r, s, n, e)
    OBVIOUS
  <1>1. n \in 1..n /\ e \in Frames /\ e.next \in Nat \ {0}
    BY FrameOf
  <1>2. PICK d : d = [e EXCEPT !.next = e.next + 1]
    OBVIOUS
  <1>3. d \in Frames /\ d.next = e.next + 1 /\ d.vertex = e.vertex
    BY <1>1, <1>2 DEF Frames
  <1>4. r = [s EXCEPT ![n] = d]
    BY <1>2 DEF Moved
  <1>5. /\ r \in Seq(Frames) /\ Len(r) = Len(s)
        /\ \A i \in 1..Len(s) : r[i] = IF i = n THEN d ELSE s[i]
    BY <1>1, <1>3, <1>4, ExceptSeq
  <1>6. \A i \in 1..(n - 1) : i \in 1..n /\ i # n
    OBVIOUS
  <1> QED
    BY <1>1, <1>3, <1>5, <1>6 DEF MovedOn

\* What an iteration leaves in r: it passes an edge to t, ...
HasMovedOn(g, s, f, t, r) == /\ Searching(g, r, f)
                             /\ \A w : On(r, w) <=> On(s, w)
                             /\ Behind(g, s, f) /\ Listed(f, t) => Behind(g, r, f)

\* ... follows it, ...
HasGoneDown(g, s, f, t, r) == /\ Searching(g, r, f)
                              /\ \A w : On(r, w) <=> On(s, w) \/ w = t
                              /\ Behind(g, s, f) => Behind(g, r, f)

\* ... or leaves v, with entry e, and appends it to h.
HasGoneUp(g, s, f, e, v, r, h) ==
  /\ Searching(g, r, h)
  /\ \A w : On(s, w) <=> On(r, w) \/ w = v
  /\ \A w : Listed(h, w) <=> Listed(f, w) \/ w = v
  /\ Behind(g, s, f) => Behind(g, r, h)
  /\ Behind(g, s, f) /\ Finished(g, f) /\ e.next > Len(g[v]) => Finished(g, h)

LEMMA MovesOn ==
  ASSUME NEW g \in Adjacency, NEW s, NEW f, Searching(g, s, f), NEW n \in Nat \ {0}, n = Len(s),
         NEW e, e = s[n], e.next <= Len(g[e.vertex]), NEW t, t = g[e.vertex][e.next],
         NEW r, Moved(r, s, n, e)
  PROVE  HasMovedOn(g, s, f, t, r)
  <1>1. s \in Seq(Frames) /\ e \in Frames /\ e.vertex \in Vertices /\ e.next \in Nat \ {0}
    BY FrameOf DEF Searching
  <1>2. /\ r \in Seq(Frames) /\ Len(r) = n
        /\ \A i \in 1..(n - 1) : r[i] = s[i]
        /\ \A i \in 1..n : r[i].vertex = s[i].vertex
        /\ r[n].next = e.next + 1
    <2>1. MovedOn(r, s, n, e)
      BY <1>1, MovedIs
    <2> QED
      BY <2>1 DEF MovedOn
  <1>3. \A w : On(r, w) <=> On(s, w)
    BY <1>2 DEF On
  <1>4. Apart(r) /\ f \in Seq(Vertices) /\ Distinct(f)
    BY <1>2 DEF Apart, Searching
  <1>5. IsPath(g, r)
    <2>1. \A k \in 1..(n - 1) : k + 1 \in 1..n
      OBVIOUS
    <2> QED
      BY <1>2, <2>1 DEF IsPath, Searching
  <1>6. ASSUME Behind(g, s, f), Listed(f, t) PROVE Behind(g, r, f)
    <2> SUFFICES ASSUME NEW k \in 1..n, NEW i \in 1..Len(g[s[k].vertex]), i < r[k].next
                 PROVE  Listed(f, g[s[k].vertex][i]) \/ (k < n /\ i = r[k].next - 1)
      BY <1>2 DEF Behind
    <2>1. CASE k # n
      <3>1. k \in 1..(n - 1)
        BY <2>1
      <3>2. r[k] = s[k]
        BY <1>2, <3>1
      <3> QED
        BY <1>6, <3>1, <3>2 DEF Behind
    <2>2. CASE k = n /\ i # e.next
      <3>1. i < s[k].next /\ ~(k < n)
        BY <1>1, <1>2, <2>2
      <3> QED
        BY <1>6, <3>1 DEF Behind
    <2>3. CASE k = n /\ i = e.next
      BY <1>6, <2>3
    <2> QED
      BY <2>1, <2>2, <2>3
  <1> QED
    BY <1>2, <1>3, <1>4, <1>5, <1>6 DEF Searching, HasMovedOn

LEMMA GoesDown ==
  ASSUME NEW g \in Adjacency, NEW s, NEW f, Searching(g, s, f), NEW n \in Nat \ {0}, n = Len(s),
         NEW e, e = s[n], e.next <= Len(g[e.vertex]), NEW t, t = g[e.vertex][e.next],
         NEW m, Moved(m, s, n, e), NEW r, Topped(r, m, t), ~On(s, t), ~Listed(f, t)
  PROVE  HasGoneDown(g, s, f, t, r)
  <1>1. s \in Seq(Frames) /\ e \in Frames /\ e.vertex \in Vertices /\ e.next \in Nat \ {0}
    BY FrameOf DEF Searching
  <1>2. /\ m \in Seq(Frames) /\ Len(m) = n
        /\ \A i \in 1..(n - 1) : m[i] = s[i]
        /\ \A i \in 1..n : m[i].vertex = s[i].vertex
        /\ m[n].next = e.next + 1
    <2>1. MovedOn(m, s, n, e)
      BY <1>1, MovedIs
    <2> QED
      BY <2>1 DEF MovedOn
  <1>3. New(t) \in Frames /\ New(t).vertex = t /\ New(t).next = 1 /\ t \in Vertices
    <2>1. e.next \in 1..Len(g[e.vertex])
      BY <1>1, ListsOfGraph
    <2>2. t \in Vertices
      BY <1>1, <2>1, ListsOfGraph
    <2> QED
      BY <2>2 DEF New, Frames
  <1>4. /\ r \in Seq(Frames) /\ Len(r) = n + 1
        /\ \A i \in 1..n : r[i] = m[i]
        /\ r[n + 1] = New(t)
    BY <1>2, <1>3, AppendProperties DEF Topped
  <1>5. /\ \A i \in 1..(n + 1) : i \in 1..n \/ i = n + 1
        /\ \A i \in 1..n : i \in 1..(n + 1) /\ r[i].vertex = s[i].vertex
        /\ n + 1 \in 1..(n + 1) /\ r[n + 1].vertex = t
    BY <1>2, <1>3, <1>4
  <1>6. \A w : On(r, w) <=> On(s, w) \/ w = t
    BY <1>4, <1>5 DEF On
  <1>7. Apart(r)
    <2> SUFFICES ASSUME NEW i \in 1..(n + 1), NEW j \in 1..(n + 1), r[i].vertex = r[j].vertex PROVE i = j
      BY <1>4 DEF Apart
    <2>1. CASE i \in 1..n /\ j \in 1..n
      BY <1>5, <2>1 DEF Apart, Searching
    <2>2. CASE i = n + 1 /\ j \in 1..n
      BY <1>5, <2>2 DEF On
    <2>3. CASE i \in 1..n /\ j = n + 1
      BY <1>5, <2>3 DEF On
    <2> QED
      BY <1>5, <2>1, <2>2, <2>3
  <1>8. IsPath(g, r)
    <2>0. (n + 1) - 1 = n
      OBVIOUS
    <2> SUFFICES ASSUME NEW k \in 1..n
                 PROVE  /\ r[k].next - 1 \in 1..Len(g[s[k].vertex])
                        /\ g[s[k].vertex][r[k].next - 1] = r[k + 1].vertex
      <3>1. \A k \in 1..n : r[k].vertex = s[k].vertex
        BY <1>5
      <3> QED
        BY <1>4, <2>0, <3>1 DEF IsPath
    <2>1. CASE k # n
      <3>1. k \in 1..(n - 1) /\ k + 1 \in 1..n
        BY <2>1
      <3>2. r[k] = s[k] /\ r[k + 1].vertex = s[k + 1].vertex
        BY <1>2, <1>4, <1>5, <3>1
      <3> QED
        BY <3>1, <3>2 DEF IsPath, Searching
    <2>2. CASE k = n
      <3>1. r[k].next = e.next + 1 /\ r[k + 1].vertex = t /\ s[k].vertex = e.vertex
        BY <1>2, <1>4, <1>5, <2>2
      <3>2. r[k].next - 1 = e.next /\ e.next \in 1..Len(g[e.vertex])
        BY <1>1, <3>1, ListsOfGraph
      <3> QED
        BY <3>1, <3>2
    <2> QED
      BY <2>1, <2>2
  <1>9. ASSUME Behind(g, s, f) PROVE Behind(g, r, f)
    <2>1. ASSUME NEW k \in 1..n, NEW i \in 1..Len(g[s[k].vertex]), i < r[k].next
          PROVE  Listed(f, g[s[k].vertex][i]) \/ i = r[k].next - 1
      <3>1. CASE k # n
        <4>1. k \in 1..(n - 1) /\ r[k] = s[k]
          BY <1>2, <1>4, <3>1
        <4> QED
          BY <1>9, <2>1, <4>1 DEF Behind
      <3>2. CASE k = n
        <4>1. r[k].next = e.next + 1 /\ s[k].next = e.next /\ ~(k < n)
          BY <1>2, <1>4, <3>2
        <4>2. i < s[k].next \/ i = r[k].next - 1
          BY <1>1, <2>1, <4>1
        <4> QED
          BY <1>9, <4>1, <4>2 DEF Behind
      <3> QED
        BY <3>1, <3>2
    <2>2. \A i \in 1..Len(g[t]) : ~(i < r[n + 1].next)
      BY <1>3, <1>4
    <2> SUFFICES ASSUME NEW k \in 1..(n + 1), NEW i \in 1..Len(g[r[k].vertex]), i < r[k].next
                 PROVE  Listed(f, g[r[k].vertex][i]) \/ (k < n + 1 /\ i = r[k].next - 1)
      BY <1>4 DEF Behind
    <2>3. CASE k \in 1..n
      BY <1>5, <2>1, <2>3
    <2>4. CASE k = n + 1
      BY <1>5, <2>2, <2>4
    <2> QED
      BY <1>5, <2>3, <2>4
  <1>10. f \in Seq(Vertices) /\ Distinct(f) /\ \A v : ~(On(r, v) /\ Listed(f, v))
    BY <1>6 DEF Searching
  <1> QED
    BY <1>4, <1>6, <1>7, <1>8, <1>9, <1>10 DEF Searching, HasGoneDown

\* The last entry of s, which has no edge left, is left, and its vertex appended to f.
Leaves(r, h, s, f, v) == r = Front(s) /\ h = Append(f, v)

Left(r, h, s, n, f, l, v) ==
  /\ r \in Seq(Frames) /\ Len(r) = n - 1 /\ \A i \in 1..(n - 1) : r[i] = s[i]
  /\ h \in Seq(Vertices) /\ Len(h) = l + 1
  /\ \A i \in 1..l : h[i] = f[i]
  /\ h[l + 1] = v

LEMMA LeavesIs ==
  ASSUME NEW s \in Seq(Frames), NEW n \in Nat \ {0}, n = Len(s), NEW f \in Seq(Vertices),
         NEW v \in Vertices, NEW l, l = Len(f)
  PROVE  l \in Nat /\ \A r, h : Leaves(r, h, s, f, v) => Left(r, h, s, n, f, l, v)
  <1>1. Front(s) \in Seq(Frames) /\ Len(Front(s)) = n - 1 /\ \A i \in 1..(n - 1) : Front(s)[i] = s[i]
    <2>1. \A i \in 1..(n - 1) : s[i] \in Frames
      BY ElementOfSeq
    <2>2. /\ SubSeq(s, 1, n - 1) \in Seq(Frames)
          /\ Len(SubSeq(s, 1, n - 1)) = IF 1 <= n - 1 THEN (n - 1) - 1 + 1 ELSE 0
          /\ \A i \in 1..((n - 1) - 1 + 1) : SubSeq(s, 1, n - 1)[i] = s[1 + i - 1]
      BY <2>1, SubSeqProperties
    <2>3. (n - 1) - 1 + 1 = n - 1 /\ \A i \in 1..(n - 1) : 1 + i - 1 = i
      OBVIOUS
    <2>4. Front(s) = SubSeq(s, 1, n - 1)
      BY DEF Front
    <2> QED
      BY <2>2, <2>3, <2>4
  <1>2. /\ l \in Nat /\ Append(f, v) \in Seq(Vertices) /\ Len(Append(f, v)) = l + 1
        /\ \A i \in 1..l : Append(f, v)[i] = f[i]
        /\ Append(f, v)[l + 1] = v
    BY LenProperties, AppendProperties
  <1> QED
    BY <1>1, <1>2 DEF Leaves, Left

LEMMA GoesUp ==
  ASSUME NEW g \in Adjacency, NEW s, NEW f, Searching(g, s, f), NEW n \in Nat \ {0}, n = Len(s),
         NEW e, e = s[n], NEW v, v = e.vertex, NEW r, NEW h, Leaves(r, h, s, f, v)
  PROVE  HasGoneUp(g, s, f, e, v, r, h)
  <1>0. PICK l : l = Len(f)
    OBVIOUS
  <1>1. s \in Seq(Frames) /\ f \in Seq(Vertices) /\ e \in Frames /\ v \in Vertices /\ e.next \in Nat \ {0}
        /\ n \in 1..n
    BY FrameOf DEF Searching
  <1>2. /\ r \in Seq(Frames) /\ Len(r) = n - 1 /\ \A i \in 1..(n - 1) : r[i] = s[i]
        /\ l \in Nat /\ h \in Seq(Vertices) /\ Len(h) = l + 1
        /\ \A i \in 1..l : h[i] = f[i]
        /\ h[l + 1] = v
    <2>1. l \in Nat /\ Left(r, h, s, n, f, l, v)
      BY <1>0, <1>1, LeavesIs
    <2> QED
      BY <2>1 DEF Left
  <1>3. /\ \A i \in 1..(l + 1) : i \in 1..l \/ i = l + 1
        /\ \A i \in 1..l : i \in 1..(l + 1)
        /\ l + 1 \in 1..(l + 1)
        /\ \A i \in 1..n : i \in 1..(n - 1) \/ i = n
        /\ \A i \in 1..(n - 1) : i \in 1..n /\ i # n
    BY <1>2
  <1>4. \A w : On(s, w) <=> On(r, w) \/ w = v
    <2> TAKE w
    <2>1. ASSUME On(s, w) PROVE On(r, w) \/ w = v
      <3>1. PICK i \in 1..n : s[i].vertex = w
        BY <2>1 DEF On
      <3>2. CASE i \in 1..(n - 1)
        BY <1>2, <3>1, <3>2 DEF On
      <3> QED
        BY <1>3, <3>1, <3>2
    <2>2. ASSUME On(r, w) PROVE On(s, w)
      <3>1. PICK i \in 1..(n - 1) : s[i].vertex = w
        BY <1>2, <2>2 DEF On
      <3> QED
        BY <1>3, <3>1 DEF On
    <2>3. On(s, v)
      BY <1>1 DEF On
    <2> QED
      BY <2>1, <2>2, <2>3
  <1>5. \A w : Listed(h, w) <=> Listed(f, w) \/ w = v
    <2> TAKE w
    <2>1. ASSUME NEW i \in 1..(l + 1), h[i] = w PROVE (\E j \in 1..l : f[j] = w) \/ w = v
      <3>1. CASE i \in 1..l
        BY <1>2, <2>1, <3>1
      <3> QED
        BY <1>2, <1>3, <2>1, <3>1
    <2>2. ASSUME NEW i \in 1..l, f[i] = w PROVE \E j \in 1..(l + 1) : h[j] = w
      BY <1>2, <1>3, <2>2
    <2>3. \E j \in 1..(l + 1) : h[j] = v
      BY <1>2, <1>3
    <2> QED
      BY <1>0, <1>2, <2>1, <2>2, <2>3 DEF Listed
  <1>6. ~On(r, v)
    <2> SUFFICES ASSUME NEW i \in 1..(n - 1), s[i].vertex = v PROVE FALSE
      BY <1>2 DEF On
    <2> QED
      BY <1>1, <1>3 DEF Apart, Searching
  <1>7. \A w : ~(On(r, w) /\ Listed(h, w))
    BY <1>4, <1>5, <1>6 DEF Searching
  <1>8. Apart(r)
    <2>1. \A i, j \in 1..(n - 1) : s[i].vertex = s[j].vertex => i = j
      BY <1>3 DEF Apart, Searching
    <2> QED
      BY <1>2, <2>1 DEF Apart
  <1>9. Distinct(h)
    <2>1. \A i \in 1..l : f[i] # v
      <3>1. On(s, v)
        BY <1>1 DEF On
      <3> QED
        BY <1>0, <3>1 DEF Searching, Listed
    <2>2. \A i, j \in 1..l : f[i] = f[j] => i = j
      BY <1>0 DEF Searching, Distinct
    <2> SUFFICES ASSUME NEW i \in 1..(l + 1), NEW j \in 1..(l + 1), h[i] = h[j] PROVE i = j
      BY <1>2 DEF Distinct
    <2>3. CASE i \in 1..l /\ j \in 1..l
      BY <1>2, <2>2, <2>3
    <2>4. CASE i = l + 1 /\ j \in 1..l
      BY <1>2, <2>1, <2>4
    <2>5. CASE i \in 1..l /\ j = l + 1
      BY <1>2, <2>1, <2>5
    <2> QED
      BY <1>3, <2>3, <2>4, <2>5
  <1>10. IsPath(g, r)
    <2> SUFFICES ASSUME NEW k \in 1..((n - 1) - 1)
                 PROVE  /\ r[k].next - 1 \in 1..Len(g[r[k].vertex])
                        /\ g[r[k].vertex][r[k].next - 1] = r[k + 1].vertex
      BY <1>2 DEF IsPath
    <2>1. k \in 1..(n - 1) /\ k + 1 \in 1..(n - 1)
      OBVIOUS
    <2>2. r[k] = s[k] /\ r[k + 1] = s[k + 1]
      BY <1>2, <2>1
    <2> QED
      BY <2>1, <2>2 DEF IsPath, Searching
  <1>11. ASSUME Behind(g, s, f) PROVE Behind(g, r, h)
    <2> SUFFICES ASSUME NEW k \in 1..(n - 1), NEW i \in 1..Len(g[s[k].vertex]), i < s[k].next
                 PROVE  Listed(h, g[s[k].vertex][i]) \/ (k < n - 1 /\ i = s[k].next - 1)
      BY <1>2 DEF Behind
    <2>1. k \in 1..n
      BY <1>3
    <2>2. CASE Listed(f, g[s[k].vertex][i])
      BY <1>5, <2>2
    <2>3. CASE k < n /\ i = s[k].next - 1
      <3>1. CASE k = n - 1
        <4>1. g[s[k].vertex][i] = s[k + 1].vertex /\ k + 1 = n
          BY <2>3, <3>1 DEF IsPath, Searching
        <4>2. g[s[k].vertex][i] = v
          BY <4>1
        <4> QED
          BY <1>5, <4>2
      <3>2. CASE k # n - 1
        BY <2>3, <3>2
      <3> QED
        BY <3>1, <3>2
    <2> QED
      BY <1>11, <2>1, <2>2, <2>3 DEF Behind
  <1>12. ASSUME Behind(g, s, f), Finished(g, f), e.next > Len(g[v]) PROVE Finished(g, h)
    <2>1. ASSUME NEW j \in 1..l, NEW i \in 1..Len(g[f[j]]) PROVE \E k \in 1..(j - 1) : h[k] = g[f[j]][i]
      <3>1. PICK k \in 1..(j - 1) : f[k] = g[f[j]][i]
        BY <1>0, <1>12, <2>1 DEF Finished
      <3>2. k \in 1..l
        BY <1>2
      <3> QED
        BY <1>2, <3>1, <3>2
    <2>2. ASSUME NEW i \in 1..Len(g[v]) PROVE \E k \in 1..l : h[k] = g[v][i]
      <3>1. i < e.next /\ ~(n < n)
        BY <1>1, <1>12, ListsOfGraph
      <3>2. Listed(f, g[v][i])
        BY <1>1, <1>12, <3>1 DEF Behind
      <3> QED
        BY <1>0, <1>2, <3>2 DEF Listed
    <2>3. (l + 1) - 1 = l
      BY <1>2
    <2> SUFFICES ASSUME NEW j \in 1..(l + 1), NEW i \in 1..Len(g[h[j]]) PROVE \E k \in 1..(j - 1) : h[k] = g[h[j]][i]
      BY <1>2 DEF Finished
    <2>4. CASE j \in 1..l
      <3>1. h[j] = f[j]
        BY <1>2, <2>4
      <3> QED
        BY <2>1, <2>4, <3>1
    <2>5. CASE j = l + 1
      BY <1>2, <2>2, <2>3, <2>5
    <2> QED
      BY <1>3, <2>4, <2>5
  <1> QED
    BY <1>2, <1>4, <1>5, <1>7, <1>8, <1>9, <1>10, <1>11, <1>12 DEF Searching, HasGoneUp

LEMMA SuccessorEdge ==
  ASSUME NEW g \in Adjacency, NEW v \in Vertices
  PROVE  \A w : w \in Successors(g)[v] <=> \E i \in 1..Len(g[v]) : g[v][i] = w
  <1>1. Successors(g)[v] = {g[v][i] : i \in 1..Len(g[v])}
    BY SuccessorsOf DEF Adjacency
  <1> QED
    BY <1>1

\* The path on the stack leads from each entry to those above it.
LEMMA PathLeadsUp ==
  ASSUME NEW g \in Adjacency, NEW s, NEW f, Searching(g, s, f), NEW n \in Nat, n = Len(s),
         NEW S \in SUBSET Vertices, NEW k \in 1..n, \A i \in k..n : s[i].vertex \in S
  PROVE  s[n].vertex \in ReachedWithin(Successors(g), S, s[k].vertex)
  <1> DEFINE R == ReachedWithin(Successors(g), S, s[k].vertex)
  <1>1. LeastClosed(S, Successors(g), s[k].vertex, R)
    <2>1. IsFiniteSet(S)
      BY VerticesFinite, FS_Subset
    <2>2. s[k].vertex \in S
      OBVIOUS
    <2> QED
      BY <2>1, <2>2, ReachedIsLeast
  <1> HIDE DEF R
  <1> DEFINE Good == {j \in Nat : k + j <= n => s[k + j].vertex \in R}
  <1>2. 0 \in Good
    BY <1>1 DEF LeastClosed
  <1>3. ASSUME NEW j \in Nat, j \in Good PROVE j + 1 \in Good
    <2> SUFFICES ASSUME k + (j + 1) <= n PROVE s[k + (j + 1)].vertex \in R
      OBVIOUS
    <2>1. PICK i \in 1..(n - 1) : i = k + j /\ k + (j + 1) = i + 1 /\ i + 1 \in k..n
      OBVIOUS
    <2>2. s[i].vertex \in R
      BY <1>3, <2>1
    <2>3. /\ s[i].next - 1 \in 1..Len(g[s[i].vertex])
          /\ g[s[i].vertex][s[i].next - 1] = s[i + 1].vertex
      BY <2>1 DEF Searching, IsPath
    <2>4. s[i].vertex \in Vertices
      BY <2>1, FrameOf DEF Searching
    <2>5. s[i + 1].vertex \in Successors(g)[s[i].vertex]
      BY <2>3, <2>4, SuccessorsOf DEF Adjacency
    <2>6. s[i + 1].vertex \in S
      BY <2>1
    <2> QED
      BY <1>1, <2>1, <2>2, <2>5, <2>6 DEF LeastClosed, ClosedWithin
  <1>4. Nat \subseteq Good
    <2> HIDE DEF Good
    <2> QED
      BY <1>2, <1>3, InductiveSet
  <1>5. n - k \in Nat /\ k + (n - k) = n
    OBVIOUS
  <1> QED
    BY <1>4, <1>5 DEF R

\* An edge from the last entry to one on the stack closes a cycle.
LEMMA ClosesCycle ==
  ASSUME NEW g \in Adjacency, NEW s, NEW f, Searching(g, s, f), NEW n \in Nat, n = Len(s),
         NEW S \in SUBSET Vertices, NEW k \in 1..n, \A i \in 1..n : s[i].vertex \in S,
         s[k].vertex \in Successors(g)[s[n].vertex]
  PROVE  CyclicWithin(Successors(g), S)
  <1>1. s[n].vertex \in ReachedWithin(Successors(g), S, s[k].vertex)
    <2>1. \A i \in k..n : s[i].vertex \in S
      OBVIOUS
    <2> QED
      BY <2>1, PathLeadsUp
  <1>2. s[n].vertex \in S /\ s[k].vertex \in S
    OBVIOUS
  <1> QED
    BY <1>1, <1>2 DEF CyclicWithin

\* Every edge within S leads backwards in f.
LeadsBack(succ, S, f) ==
  \A u \in S : \A v \in succ[u] \cap S : \E j \in 1..Len(f) : f[j] = u /\ \E i \in 1..(j - 1) : f[i] = v

\* Then there is no cycle.
LEMMA BackwardsNoCycle ==
  ASSUME NEW succ, NEW f \in Seq(Vertices), Distinct(f), NEW S \in SUBSET Vertices, LeadsBack(succ, S, f)
  PROVE  ~CyclicWithin(succ, S)
  <1> SUFFICES ASSUME NEW u \in S, NEW v \in succ[u] \cap S, u \in ReachedWithin(succ, S, v)
               PROVE  FALSE
    BY DEF CyclicWithin
  <1>1. Len(f) \in Nat
    BY LenProperties
  <1>2. PICK j \in 1..Len(f) : f[j] = u /\ \E i \in 1..(j - 1) : f[i] = v
    BY DEF LeadsBack
  <1>3. PICK i \in 1..(j - 1) : f[i] = v
    BY <1>2
  <1>4. PICK C : C = {w \in S : \E k \in 1..i : f[k] = w}
    OBVIOUS
  <1>5. ClosedWithin(S, succ, C)
    <2> SUFFICES ASSUME NEW w \in C, NEW x \in S, x \in succ[w] PROVE x \in C
      BY DEF ClosedWithin
    <2>1. PICK k \in 1..i : f[k] = w
      BY <1>4
    <2>2. w \in S
      BY <1>4
    <2>3. PICK y \in 1..Len(f) : f[y] = w /\ \E z \in 1..(y - 1) : f[z] = x
      BY <2>2 DEF LeadsBack
    <2>4. k \in 1..Len(f)
      BY <1>1, <1>2, <1>3
    <2>5. y = k
      BY <2>1, <2>3, <2>4 DEF Distinct
    <2>6. PICK z \in 1..(k - 1) : f[z] = x
      BY <2>3, <2>5
    <2>7. z \in 1..i
      BY <1>1, <1>3, <2>1, <2>6
    <2> QED
      BY <1>4, <2>6, <2>7
  <1>6. u \in C
    <2>1. LeastClosed(S, succ, v, ReachedWithin(succ, S, v))
      <3>1. IsFiniteSet(S) /\ v \in S
        BY VerticesFinite, FS_Subset
      <3> QED
        BY <3>1, ReachedIsLeast
    <2>2. i \in 1..i
      BY <1>1, <1>2, <1>3
    <2>3. v \in C /\ C \subseteq S
      BY <1>3, <1>4, <2>2
    <2> QED
      BY <1>5, <2>1, <2>3 DEF LeastClosed
  <1>7. PICK k \in 1..i : f[k] = u
    BY <1>4, <1>6
  <1>8. k \in 1..Len(f) /\ k # j
    BY <1>1, <1>2, <1>3
  <1> QED
    BY <1>2, <1>7, <1>8 DEF Distinct

\* Where every vertex has finished after those its edges lead to there is no cycle.
LEMMA OrderExcludesCycle ==
  ASSUME NEW g \in Adjacency, NEW f \in Seq(Vertices), Distinct(f), Finished(g, f),
         NEW S \in SUBSET Vertices, \A v \in S : Listed(f, v)
  PROVE  ~CyclicWithin(Successors(g), S)
  <1>1. LeadsBack(Successors(g), S, f)
    <2> SUFFICES ASSUME NEW u \in S, NEW v \in Successors(g)[u] \cap S
                 PROVE  \E j \in 1..Len(f) : f[j] = u /\ \E i \in 1..(j - 1) : f[i] = v
      BY DEF LeadsBack
    <2>1. PICK j \in 1..Len(f) : f[j] = u
      BY DEF Listed
    <2>2. PICK e \in 1..Len(g[u]) : g[u][e] = v
      BY SuccessorEdge
    <2> QED
      BY <2>1, <2>2 DEF Finished
  <1> QED
    BY <1>1, BackwardsNoCycle

\* The order in which vertices finished, backwards, is topological.
LEMMA FinishedBackwards ==
  ASSUME NEW g \in Adjacency, NEW f \in Seq(Vertices), Distinct(f)
  PROVE  /\ Reverse(f) \in Seq(Vertices) /\ DOMAIN Reverse(f) = 1..Len(f) /\ Len(Reverse(f)) = Len(f)
         /\ IsInjective(Reverse(f))
         /\ \A w : w \in ToSet(Reverse(f)) <=> Listed(f, w)
         /\ Finished(g, f) => Topological(Successors(g), Reverse(f))
  <1>0. PICK n \in Nat : n = Len(f)
    BY LenProperties
  <1>1. PICK r : r = Reverse(f)
    OBVIOUS
  <1>2. DOMAIN r = 1..n /\ \A i \in 1..n : r[i] = f[(n - i) + 1]
    BY <1>0, <1>1 DEF Reverse
  <1>3. \A i \in 1..n : (n - i) + 1 \in 1..n /\ (n - ((n - i) + 1)) + 1 = i
    OBVIOUS
  <1>4. \A i \in 1..n : f[i] \in Vertices
    BY <1>0, ElementOfSeq
  <1>5. r \in Seq(Vertices) /\ Len(r) = n
    <2>1. r = [i \in 1..n |-> f[(n - i) + 1]]
      BY <1>0, <1>1 DEF Reverse
    <2>2. \A i \in 1..n : f[(n - i) + 1] \in Vertices
      BY <1>3, <1>4
    <2>3. r \in [1..n -> Vertices]
      BY <2>1, <2>2
    <2> QED
      BY <2>3, IsASeq, LenProperties
  <1>6. IsInjective(r)
    <2> SUFFICES ASSUME NEW a \in 1..n, NEW b \in 1..n, r[a] = r[b] PROVE a = b
      BY <1>2 DEF IsInjective
    <2>1. (n - a) + 1 = (n - b) + 1
      BY <1>0, <1>2, <1>3 DEF Distinct
    <2> QED
      BY <2>1
  <1>7. \A w : w \in ToSet(r) <=> Listed(f, w)
    <2> TAKE w
    <2>1. w \in ToSet(r) <=> \E i \in 1..n : r[i] = w
      BY <1>2 DEF ToSet
    <2>2. ASSUME NEW i \in 1..n, r[i] = w PROVE \E j \in 1..n : f[j] = w
      BY <1>2, <1>3, <2>2
    <2>3. ASSUME NEW i \in 1..n, f[i] = w PROVE \E j \in 1..n : r[j] = w
      <3>1. PICK j \in 1..n : (n - j) + 1 = i
        BY <1>3
      <3> QED
        BY <1>2, <2>3, <3>1
    <2> QED
      BY <1>0, <2>1, <2>2, <2>3 DEF Listed
  <1>8. ASSUME Finished(g, f) PROVE Topological(Successors(g), r)
    <2> SUFFICES ASSUME NEW a \in 1..n, NEW b \in 1..n, r[b] \in Successors(g)[r[a]] PROVE a < b
      BY <1>2, <1>6 DEF Topological
    <2>1. PICK x \in 1..n : x = (n - a) + 1 /\ r[a] = f[x]
      BY <1>2, <1>3
    <2>2. PICK y \in 1..n : y = (n - b) + 1 /\ r[b] = f[y]
      BY <1>2, <1>3
    <2>3. PICK e \in 1..Len(g[f[x]]) : g[f[x]][e] = f[y]
      <3>1. f[x] \in Vertices /\ f[y] \in Successors(g)[f[x]]
        BY <1>4, <2>1, <2>2
      <3> QED
        BY <3>1, SuccessorEdge
    <2>4. PICK z \in 1..(x - 1) : f[z] = f[y]
      <3>1. x \in 1..Len(f)
        BY <1>0
      <3>2. \E z \in 1..(x - 1) : f[z] = g[f[x]][e]
        BY <1>8, <3>1 DEF Finished
      <3> QED
        BY <2>3, <3>2
    <2>5. z \in 1..n /\ z < x
      BY <2>4
    <2>6. z = y
      BY <1>0, <2>4, <2>5 DEF Distinct
    <2> QED
      BY <2>1, <2>2, <2>5, <2>6
  <1> QED
    BY <1>0, <1>1, <1>2, <1>5, <1>6, <1>7, <1>8

-----------------------------------------------------------------------------
(* topological_sort *)

\* The vertices that paths from one of the sources lead to.
From(g, from) == {v \in Vertices : \E i \in 1..Len(from) : v \in ReachedFrom(g, from[i])}

LEMMA FromIs ==
  ASSUME NEW g \in Adjacency, NEW from \in Seq(Vertices)
  PROVE  /\ \A v : Listed(from, v) => v \in From(g, from)
         /\ \A v \in From(g, from) : \A i \in 1..Len(g[v]) : g[v][i] \in From(g, from)
         /\ \A S \in SUBSET Vertices : (\A v : Listed(from, v) => v \in S) /\ ClosedIn(g, S) => From(g, from) \subseteq S
  <1>1. \A v \in Vertices : ReachesOnwards(Vertices, g, v)
    BY VerticesFinite, Reachability DEF Adjacency
  <1>2. \A i \in 1..Len(from) : from[i] \in Vertices
    BY ElementOfSeq
  <1>3. ASSUME NEW v, Listed(from, v) PROVE v \in From(g, from)
    BY <1>1, <1>2, <1>3 DEF Listed, From, ReachesOnwards
  <1>4. ASSUME NEW v \in From(g, from), NEW i \in 1..Len(g[v]) PROVE g[v][i] \in From(g, from)
    <2>1. PICK j \in 1..Len(from) : v \in ReachedFrom(g, from[j])
      BY DEF From
    <2>2. g[v][i] \in ReachedFrom(g, from[j])
      BY <1>1, <1>2, <2>1 DEF ReachesOnwards
    <2>3. g[v][i] \in Vertices
      BY ListsOfGraph DEF From
    <2> QED
      BY <2>2, <2>3 DEF From
  <1>5. ASSUME NEW S \in SUBSET Vertices, \A v : Listed(from, v) => v \in S, ClosedIn(g, S)
        PROVE  From(g, from) \subseteq S
    <2> SUFFICES ASSUME NEW v \in From(g, from) PROVE v \in S
      OBVIOUS
    <2>1. PICK j \in 1..Len(from) : v \in ReachedFrom(g, from[j])
      BY DEF From
    <2>2. from[j] \in S
      BY <1>5 DEF Listed
    <2> QED
      BY <1>1, <1>2, <1>5, <2>1, <2>2 DEF ReachesOnwards
  <1> QED
    BY <1>3, <1>4, <1>5

Colors == {"White", "Gray", "Black"}

\* Gray vertices are those on the stack, black ones those that have finished.
Colored == \A v \in Vertices : /\ color[v] = "Gray" <=> On(stack, v)
                               /\ color[v] = "Black" <=> Listed(finishOrder, v)

\* What was discovered is reached from the sources, and a source ahead or discovered.
SourcesFollowed ==
  /\ \A v \in Vertices : color[v] # "White" => v \in From(graph, given)
  /\ \A v : Listed(sources, v) => Listed(given, v)
  /\ \A v : Listed(given, v) => Listed(sources, v) \/ color[v] # "White"

SortEnded ==
  /\ returned = "none"  => Behind(graph, stack, finishOrder) /\ result = <<>>
  /\ returned = "false" => CyclicWithin(Successors(graph), From(graph, given)) /\ result = <<>>
  /\ returned = "true"  => stack = <<>> /\ sources = <<>> /\ result = Reverse(finishOrder)

SortTypes == /\ graph \in Adjacency /\ given \in Seq(Vertices) /\ sources \in Seq(Vertices)
             /\ color \in [Vertices -> Colors]
             /\ returned \in {"none", "false", "true"}

SortInv == /\ SortTypes
           /\ Searching(graph, stack, finishOrder) /\ Finished(graph, finishOrder)
           /\ Colored /\ SourcesFollowed /\ SortEnded

LEMMA SortBegins ==
  ASSUME Init, search = "topological_sort"
  PROVE  SortInv
  <1>1. graph \in Adjacency
    BY GraphIsGiven
  <1>2. /\ color = [v \in Vertices |-> "White"] /\ stack = <<>> /\ sources = given /\ finishOrder = <<>>
        /\ returned = "none" /\ result = <<>>
        /\ given \in SourceLists \cup {AllVertices}
    BY DEF Init, Dfs!Init, Dfs!Vertices, Vertices
  <1>3. given \in Seq(Vertices)
    <2>1. CASE given \in SourceLists
      <3>1. PICK n \in 0..MaxSources : given \in [1..n -> Vertices]
        BY <2>1 DEF SourceLists
      <3>2. n \in Nat
        BY SearchesAssumption
      <3> QED
        BY <3>1, <3>2, IsASeq
    <2>2. CASE given = AllVertices
      <3>1. given \in [1..N -> Vertices] /\ N \in Nat
        BY <2>2, SearchesAssumption DEF AllVertices, Vertices
      <3> QED
        BY <3>1, IsASeq
    <2> QED
      BY <1>2, <2>1, <2>2
  <1>4. /\ stack \in Seq(Frames) /\ finishOrder \in Seq(Vertices) /\ Len(stack) = 0 /\ Len(finishOrder) = 0
        /\ \A i \in 1..0 : FALSE
    BY <1>2, EmptySeq
  <1>5. SortTypes
    BY <1>1, <1>2, <1>3 DEF SortTypes, Colors
  <1>6. /\ \A v : ~On(stack, v) /\ ~Listed(finishOrder, v)
        /\ Apart(stack) /\ Distinct(finishOrder)
    BY <1>4 DEF On, Listed, Apart, Distinct
  <1>7. Finished(graph, finishOrder) /\ Behind(graph, stack, finishOrder)
    BY <1>4 DEF Finished, Behind
  <1>8. IsPath(graph, stack)
    <2>1. \A i \in 1..(0 - 1) : FALSE
      OBVIOUS
    <2> QED
      BY <1>4, <2>1 DEF IsPath
  <1>9. Searching(graph, stack, finishOrder)
    BY <1>4, <1>6, <1>8 DEF Searching
  <1>10. Colored /\ SourcesFollowed /\ SortEnded
    BY <1>2, <1>6, <1>7 DEF Colored, SourcesFollowed, SortEnded
  <1> QED
    BY <1>5, <1>7, <1>9, <1>10 DEF SortInv

\* The parts of the invariant in the next state, of an unchanged graph.
SortKept(s, f, c, from) == /\ Searching(graph, s, f) /\ Finished(graph, f)
                           /\ c \in [Vertices -> Colors]
                           /\ \A v \in Vertices : /\ c[v] = "Gray" <=> On(s, v)
                                                  /\ c[v] = "Black" <=> Listed(f, v)
                                                  /\ c[v] # "White" => v \in From(graph, given)
                           /\ from \in Seq(Vertices)
                           /\ \A v : Listed(from, v) => Listed(given, v)
                           /\ \A v : Listed(given, v) => Listed(from, v) \/ c[v] # "White"

LEMMA SortKeeps ==
  ASSUME SortInv, UNCHANGED <<graph, given>>, SortKept(stack', finishOrder', color', sources'),
         returned' \in {"none", "false", "true"}, SortEnded'
  PROVE  SortInv'
  <1>1. Searching(graph, stack, finishOrder)' /\ Finished(graph, finishOrder)'
    BY DEF SortKept
  <1>2. SortTypes'
    BY DEF SortKept, SortTypes, SortInv
  <1>3. Colored' /\ SourcesFollowed'
    BY DEF SortKept, Colored, SourcesFollowed
  <1> QED
    BY <1>1, <1>2, <1>3 DEF SortInv

LEMMA SortStep ==
  ASSUME SortInv, UNCHANGED arguments, Dfs!SortNext
  PROVE  SortInv'
  <1>1. /\ graph \in Adjacency /\ given \in Seq(Vertices) /\ sources \in Seq(Vertices)
        /\ color \in [Vertices -> Colors]
        /\ Searching(graph, stack, finishOrder) /\ Finished(graph, finishOrder)
        /\ Colored /\ SourcesFollowed /\ SortEnded
    BY DEF SortInv, SortTypes
  <1>2. UNCHANGED <<given, graph>>
    BY DEF arguments, Dfs!SortNext, Dfs!SkipSource, Dfs!Visit, Dfs!SortFinish, Dfs!Follow, Dfs!Output
  <1>3. SortKept(stack, finishOrder, color, sources)
    BY <1>1 DEF SortKept, Colored, SourcesFollowed
  <1>4. CASE Dfs!SkipSource
    <2>1. /\ returned = "none" /\ stack = <<>> /\ sources # <<>> /\ color[Head(sources)] # "White"
          /\ sources' = Tail(sources)
          /\ UNCHANGED <<graph, given, color, stack, finishOrder, returned, result>>
      BY <1>4 DEF Dfs!SkipSource, Dfs!AtSource
    <2>2. /\ sources' \in Seq(Vertices)
          /\ \A w : Listed(sources, w) <=> w = Head(sources) \/ Listed(sources', w)
      BY <1>1, <2>1, TailListed
    <2>3. SortKept(stack', finishOrder', color', sources')
      BY <1>3, <2>1, <2>2 DEF SortKept
    <2>4. SortEnded'
      BY <1>1, <2>1 DEF SortEnded
    <2> QED
      BY <1>1, <1>2, <2>1, <2>3, <2>4, SortKeeps DEF SortInv, SortTypes
  <1>5. CASE Dfs!Visit
    <2>1. /\ returned = "none" /\ stack = <<>> /\ sources # <<>> /\ color[Head(sources)] = "White"
          /\ color' = [color EXCEPT ![Head(sources)] = "Gray"]
          /\ stack' = <<New(Head(sources))>>
          /\ sources' = Tail(sources)
          /\ UNCHANGED <<graph, given, finishOrder, returned, result>>
      BY <1>5 DEF Dfs!Visit, Dfs!AtSource, Dfs!Frame, New
    <2>2. PICK v \in Vertices : v = Head(sources)
      BY <1>1, <2>1, TailListed
    <2>3. /\ sources' \in Seq(Vertices)
          /\ \A w : Listed(sources, w) <=> w = v \/ Listed(sources', w)
      BY <1>1, <2>1, <2>2, TailListed
    <2>4. ~Listed(finishOrder, v) /\ finishOrder \in Seq(Vertices) /\ Distinct(finishOrder)
      BY <1>1, <2>1, <2>2 DEF Colored, Searching
    <2>5. /\ Searching(graph, stack', finishOrder) /\ Behind(graph, stack', finishOrder)
          /\ \A w : On(stack', w) <=> w = v
      BY <2>1, <2>2, <2>4, FirstFrame
    <2>6. /\ color' \in [Vertices -> Colors]
          /\ \A w \in Vertices : color'[w] = IF w = v THEN "Gray" ELSE color[w]
      BY <1>1, <2>1, <2>2 DEF Colors
    <2>7. \A w : ~On(stack, w)
      <3>1. Len(stack) = 0
        BY <2>1, EmptySeq
      <3> QED
        BY <3>1 DEF On
    <2>8. v \in From(graph, given)
      <3>1. Listed(given, v)
        BY <1>1, <2>3 DEF SourcesFollowed
      <3> QED
        BY <1>1, <3>1, FromIs
    <2>9. SortKept(stack', finishOrder', color', sources')
      <3>1. \A w \in Vertices : /\ color'[w] = "Gray" <=> On(stack', w)
                                /\ color'[w] = "Black" <=> Listed(finishOrder, w)
                                /\ color'[w] # "White" => w \in From(graph, given)
        BY <1>3, <2>4, <2>5, <2>6, <2>7, <2>8 DEF SortKept
      <3>2. ASSUME NEW w, Listed(given, w) PROVE Listed(sources', w) \/ color'[w] # "White"
        <4>1. w \in Vertices
          BY <1>1, <3>2, ElementOfSeq DEF Listed
        <4> QED
          BY <1>3, <2>3, <2>6, <3>2, <4>1 DEF SortKept
      <3> QED
        BY <1>3, <2>1, <2>3, <2>5, <2>6, <3>1, <3>2 DEF SortKept
    <2>10. SortEnded'
      BY <1>1, <2>1, <2>5 DEF SortEnded
    <2> QED
      BY <1>1, <1>2, <2>1, <2>9, <2>10, SortKeeps DEF SortInv, SortTypes
  <1>6. CASE Dfs!SortFinish
    <2>1. /\ returned = "none" /\ stack # <<>> 
          /\ Dfs!top.next > Len(graph[Dfs!top.vertex])
          /\ color' = [color EXCEPT ![Dfs!top.vertex] = "Black"]
          /\ finishOrder' = Append(finishOrder, Dfs!top.vertex)
          /\ stack' = Front(stack)
          /\ UNCHANGED <<graph, given, sources, returned, result>>
      BY <1>6 DEF Dfs!SortFinish, Dfs!Exhausted, Dfs!Front, Front
    <2>2. PICK n \in Nat \ {0} : n = Len(stack)
      BY <1>1, <2>1, LenProperties, EmptySeq DEF Searching
    <2>3. PICK e : e = stack[n] /\ e = Dfs!top
      BY <2>2 DEF Dfs!top, Dfs!Last
    <2>4. PICK v \in Vertices : v = e.vertex
      <3>1. n \in 1..Len(stack) /\ stack \in Seq(Frames)
        BY <1>1, <2>2 DEF Searching
      <3>2. stack[n].vertex \in Vertices
        BY <3>1, FrameOf
      <3> QED
        BY <2>3, <3>2
    <2>5. Leaves(stack', finishOrder', stack, finishOrder, v) /\ e.next > Len(graph[v])
      BY <2>1, <2>3, <2>4 DEF Leaves
    <2>6. Behind(graph, stack, finishOrder)
      BY <1>1, <2>1 DEF SortEnded
    <2>7. /\ Searching(graph, stack', finishOrder')
          /\ \A w : On(stack, w) <=> On(stack', w) \/ w = v
          /\ \A w : Listed(finishOrder', w) <=> Listed(finishOrder, w) \/ w = v
          /\ Behind(graph, stack', finishOrder') /\ Finished(graph, finishOrder')
      <3>1. HasGoneUp(graph, stack, finishOrder, e, v, stack', finishOrder')
        BY <1>1, <2>2, <2>3, <2>4, <2>5, GoesUp
      <3> QED
        BY <1>1, <2>5, <2>6, <3>1 DEF HasGoneUp
    <2>8. ~On(stack', v)
      BY <2>7 DEF Searching
    <2>9. /\ color' \in [Vertices -> Colors]
          /\ \A w \in Vertices : color'[w] = IF w = v THEN "Black" ELSE color[w]
      BY <1>1, <2>1, <2>3, <2>4 DEF Colors
    <2>10. SortKept(stack', finishOrder', color', sources')
      <3>1. color[v] = "Gray" /\ v \in From(graph, given)
        BY <1>3, <2>7 DEF SortKept
      <3>2. \A w \in Vertices : /\ color'[w] = "Gray" <=> On(stack', w)
                                /\ color'[w] = "Black" <=> Listed(finishOrder', w)
                                /\ color'[w] # "White" => w \in From(graph, given)
        BY <1>3, <2>7, <2>8, <2>9, <3>1 DEF SortKept
      <3>3. ASSUME NEW w, Listed(given, w) PROVE Listed(sources, w) \/ color'[w] # "White"
        <4>1. w \in Vertices
          BY <1>1, <3>3, ElementOfSeq DEF Listed
        <4> QED
          BY <1>3, <2>9, <3>3, <4>1 DEF SortKept
      <3> QED
        BY <1>3, <2>1, <2>7, <2>9, <3>2, <3>3 DEF SortKept
    <2>11. SortEnded'
      BY <1>1, <2>1, <2>7 DEF SortEnded
    <2> QED
      BY <1>1, <1>2, <2>1, <2>10, <2>11, SortKeeps DEF SortInv, SortTypes
  <1>7. CASE Dfs!Follow
    <2>1. /\ returned = "none" /\ stack # <<>>
          /\ ~(Dfs!top.next > Len(graph[Dfs!top.vertex]))
          /\ CASE color[Dfs!target] = "White" -> /\ color' = [color EXCEPT ![Dfs!target] = "Gray"]
                                                 /\ stack' = Append(Dfs!Advanced, New(Dfs!target))
                                                 /\ UNCHANGED returned
               [] color[Dfs!target] = "Gray"  -> /\ returned' = "false"
                                                 /\ stack' = Dfs!Advanced
                                                 /\ UNCHANGED color
               [] color[Dfs!target] = "Black" -> /\ stack' = Dfs!Advanced
                                                 /\ UNCHANGED <<color, returned>>
          /\ UNCHANGED <<graph, given, sources, finishOrder, result>>
      BY <1>7 DEF Dfs!Follow, Dfs!Exhausted, Dfs!Frame, New
    <2>2. PICK n \in Nat \ {0} : n = Len(stack)
      BY <1>1, <2>1, LenProperties, EmptySeq DEF Searching
    <2>3. PICK e : e = stack[n] /\ e = Dfs!top
      BY <2>2 DEF Dfs!top, Dfs!Last
    <2>4. e.vertex \in Vertices /\ e.next \in Nat \ {0} /\ n \in 1..n
      <3>1. n \in 1..Len(stack) /\ stack \in Seq(Frames)
        BY <1>1, <2>2 DEF Searching
      <3>2. stack[n].vertex \in Vertices /\ stack[n].next \in Nat \ {0}
        BY <3>1, FrameOf
      <3> QED
        BY <2>2, <2>3, <3>1, <3>2
    <2>5. e.next \in 1..Len(graph[e.vertex]) /\ e.next <= Len(graph[e.vertex])
      BY <1>1, <2>1, <2>3, <2>4, ListsOfGraph
    <2>6. PICK t \in Vertices : t = graph[e.vertex][e.next] /\ t = Dfs!target
      BY <1>1, <2>3, <2>4, <2>5, ListsOfGraph DEF Dfs!target
    <2>7. PICK m : Moved(m, stack, n, e) /\ m = Dfs!Advanced
      BY <2>2, <2>3 DEF Moved, Dfs!Advanced
    <2>8. Behind(graph, stack, finishOrder) /\ result = <<>>
      BY <1>1, <2>1 DEF SortEnded
    <2>9. e.vertex \in From(graph, given) /\ t \in From(graph, given)
      <3>1. On(stack, e.vertex)
        BY <2>2, <2>3, <2>4 DEF On
      <3>2. e.vertex \in From(graph, given)
        BY <1>3, <2>4, <3>1 DEF SortKept
      <3>3. graph[e.vertex][e.next] \in From(graph, given)
        BY <1>1, <2>5, <3>2, FromIs
      <3> QED
        BY <2>6, <3>2, <3>3
    <2>10. CASE color[t] = "White"
      <3>1. /\ color' = [color EXCEPT ![t] = "Gray"]
            /\ Topped(stack', m, t)
            /\ UNCHANGED returned
        BY <2>1, <2>6, <2>7, <2>10 DEF Topped
      <3>2. ~On(stack, t) /\ ~Listed(finishOrder, t)
        BY <1>1, <2>10 DEF Colored
      <3>3. /\ Searching(graph, stack', finishOrder)
            /\ \A w : On(stack', w) <=> On(stack, w) \/ w = t
            /\ Behind(graph, stack', finishOrder)
        <4>1. HasGoneDown(graph, stack, finishOrder, t, stack')
          BY <1>1, <2>2, <2>3, <2>5, <2>6, <2>7, <3>1, <3>2, GoesDown
        <4> QED
          BY <2>8, <4>1 DEF HasGoneDown
      <3>4. /\ color' \in [Vertices -> Colors]
            /\ \A w \in Vertices : color'[w] = IF w = t THEN "Gray" ELSE color[w]
        BY <1>1, <3>1 DEF Colors
      <3>5. SortKept(stack', finishOrder', color', sources')
        <4>1. \A w \in Vertices : /\ color'[w] = "Gray" <=> On(stack', w)
                                  /\ color'[w] = "Black" <=> Listed(finishOrder, w)
                                  /\ color'[w] # "White" => w \in From(graph, given)
          BY <1>3, <2>9, <3>2, <3>3, <3>4 DEF SortKept
        <4>2. ASSUME NEW w, Listed(given, w) PROVE Listed(sources, w) \/ color'[w] # "White"
          <5>1. w \in Vertices
            BY <1>1, <4>2, ElementOfSeq DEF Listed
          <5> QED
            BY <1>3, <3>4, <4>2, <5>1 DEF SortKept
        <4> QED
          BY <1>3, <2>1, <3>3, <3>4, <4>1, <4>2 DEF SortKept
      <3>6. SortEnded'
        BY <1>1, <2>1, <2>8, <3>1, <3>3 DEF SortEnded
      <3> QED
        BY <1>1, <1>2, <2>1, <3>1, <3>5, <3>6, SortKeeps DEF SortInv, SortTypes
    <2>11. CASE color[t] # "White"
      <3>1. /\ stack' = m /\ color' = color
            /\ color[t] = "Gray" => returned' = "false"
            /\ color[t] = "Black" => returned' = "none"
            /\ color[t] \in {"Gray", "Black"}
        BY <1>1, <2>1, <2>6, <2>7, <2>11 DEF Colors
      <3>2. Moved(stack', stack, n, e)
        BY <2>7, <3>1
      <3>3. /\ Searching(graph, stack', finishOrder)
            /\ \A w : On(stack', w) <=> On(stack, w)
            /\ Listed(finishOrder, t) => Behind(graph, stack', finishOrder)
        <4>1. HasMovedOn(graph, stack, finishOrder, t, stack')
          BY <1>1, <2>2, <2>3, <2>5, <2>6, <3>2, MovesOn
        <4> QED
          BY <2>8, <4>1 DEF HasMovedOn
      <3>4. SortKept(stack', finishOrder', color', sources')
        BY <1>3, <2>1, <3>1, <3>3 DEF SortKept
      <3>5. CASE color[t] = "Gray"
        <4>1. PICK k \in 1..n : stack[k].vertex = t
          BY <1>1, <2>2, <3>5 DEF Colored, On
        <4>2. \A i \in 1..n : stack[i].vertex \in From(graph, given)
          <5> TAKE i \in 1..n
          <5>1. stack[i].vertex \in Vertices /\ On(stack, stack[i].vertex)
            BY <1>1, <2>2, FrameOf DEF Searching, On
          <5> QED
            BY <1>3, <5>1 DEF SortKept
        <4>3. stack[k].vertex \in Successors(graph)[stack[n].vertex]
          <5>1. t \in Successors(graph)[e.vertex]
            BY <1>1, <2>4, <2>5, <2>6, SuccessorEdge
          <5> QED
            BY <2>3, <4>1, <5>1
        <4>4. CyclicWithin(Successors(graph), From(graph, given))
          <5>1. From(graph, given) \in SUBSET Vertices
            BY DEF From
          <5> QED
            BY <1>1, <2>2, <4>2, <4>3, <5>1, ClosesCycle
        <4>5. SortEnded'
          BY <1>2, <2>1, <2>8, <3>1, <3>5, <4>4 DEF SortEnded
        <4> QED
          BY <1>2, <3>1, <3>4, <3>5, <4>5, SortKeeps
      <3>6. CASE color[t] = "Black"
        <4>1. SortEnded'
          BY <1>1, <2>1, <2>8, <3>1, <3>3, <3>6 DEF SortEnded, Colored
        <4> QED
          BY <1>2, <3>1, <3>4, <3>6, <4>1, SortKeeps
      <3> QED
        BY <3>1, <3>5, <3>6
    <2> QED
      BY <2>10, <2>11
  <1>8. CASE Dfs!Output
    <2>1. /\ returned = "none" /\ stack = <<>> /\ sources = <<>>
          /\ result' = Reverse(finishOrder) /\ returned' = "true"
          /\ UNCHANGED <<graph, given, sources, color, stack, finishOrder>>
      BY <1>8 DEF Dfs!Output, Dfs!Reverse, Reverse
    <2>2. SortEnded'
      BY <2>1 DEF SortEnded
    <2>3. SortKept(stack', finishOrder', color', sources')
      BY <1>3, <2>1
    <2> QED
      BY <1>2, <2>1, <2>2, <2>3, SortKeeps
  <1> QED
    BY <1>4, <1>5, <1>6, <1>7, <1>8 DEF Dfs!SortNext

-----------------------------------------------------------------------------
(* topological_sort is exact *)

LEMMA SortExact ==
  ASSUME SortInv
  PROVE  Dfs!OrderExact
  <1>1. /\ graph \in Adjacency /\ given \in Seq(Vertices) /\ color \in [Vertices -> Colors]
        /\ finishOrder \in Seq(Vertices) /\ Distinct(finishOrder) /\ Finished(graph, finishOrder)
        /\ Colored /\ SourcesFollowed /\ SortEnded
        /\ returned \in {"none", "false", "true"}
    BY DEF SortInv, SortTypes, Searching
  <1>2. PICK F : F = From(graph, given)
    OBVIOUS
  <1>3. PICK succ : succ = Successors(graph)
    OBVIOUS
  <1>4. Dfs!Successors(graph) = succ
    BY <1>3 DEF Successors, Dfs!Successors
  <1>5. \A s : Dfs!ToSet(s) = ToSet(s) /\ Dfs!Reverse(s) = Reverse(s)
    BY DEF ToSet, Dfs!ToSet, Reverse, Dfs!Reverse
  <1>6. \A s : Dfs!Topological(succ, s) <=> Topological(succ, s)
    BY DEF Topological, Dfs!Topological, IsInjective, Dfs!IsInjective
  <1>7. \A S, u : Dfs!ReachedWithin(succ, S, u) = ReachedWithin(succ, S, u)
    BY DEF ReachedWithin, Dfs!ReachedWithin, Cardinality, Dfs!Cardinality
  <1>8. \A S : Dfs!CyclicWithin(succ, S) <=> CyclicWithin(succ, S)
    BY <1>7 DEF CyclicWithin, Dfs!CyclicWithin
  <1>9. Dfs!FromSources = F
    <2>1. \A u : Dfs!Reached(succ, u) = ReachedFrom(graph, u)
      BY <1>3, <1>7 DEF Reached, Dfs!Reached, ReachedFrom
    <2>2. Dfs!FromSources = UNION {ReachedFrom(graph, u) : u \in ToSet(given)}
      BY <1>4, <1>5, <2>1 DEF Dfs!FromSources
    <2>3. \A u : u \in ToSet(given) <=> \E i \in 1..Len(given) : given[i] = u
      BY <1>1, LenProperties DEF ToSet
    <2>4. \A i \in 1..Len(given) : ReachedFrom(graph, given[i]) \subseteq Vertices
      BY <1>1, VerticesFinite, Reachability, ElementOfSeq DEF Adjacency, ReachesOnwards
    <2> QED
      BY <1>2, <2>2, <2>3, <2>4 DEF From
  <1>10. PICK r : r = Reverse(finishOrder)
    OBVIOUS
  <1>11. Topological(succ, r) /\ \A w : w \in ToSet(r) <=> Listed(finishOrder, w)
    BY <1>1, <1>3, <1>10, FinishedBackwards
  <1>12. \A u \in ToSet(finishOrder) : succ[u] \subseteq ToSet(finishOrder)
    <2>1. /\ ToSet(finishOrder) = {v \in Vertices : Listed(finishOrder, v)}
          /\ \A v : Listed(finishOrder, v) => v \in Vertices
      BY <1>1, SeenIs
    <2> SUFFICES ASSUME NEW u \in Vertices, Listed(finishOrder, u), NEW w \in succ[u] PROVE Listed(finishOrder, w)
      BY <2>1
    <2>2. PICK j \in 1..Len(finishOrder) : finishOrder[j] = u
      BY DEF Listed
    <2>3. PICK e \in 1..Len(graph[u]) : graph[u][e] = w
      BY <1>1, <1>3, SuccessorEdge
    <2>4. PICK i \in 1..(j - 1) : finishOrder[i] = w
      BY <1>1, <2>2, <2>3 DEF Finished
    <2>5. i \in 1..Len(finishOrder)
      BY <1>1, LenProperties
    <2> QED
      BY <2>4, <2>5 DEF Listed
  <1>13. ASSUME returned = "true"
         PROVE  ~CyclicWithin(succ, F) /\ Topological(succ, result) /\ ToSet(result) = F
    <2>1. stack = <<>> /\ sources = <<>> /\ result = r
      BY <1>1, <1>10, <1>13 DEF SortEnded
    <2>2. \A w : ~On(stack, w) /\ ~Listed(sources, w)
      <3>1. Len(stack) = 0 /\ Len(sources) = 0 /\ \A i \in 1..0 : FALSE
        BY <2>1, EmptySeq
      <3> QED
        BY <3>1 DEF On, Listed
    <2>3. \A v \in Vertices : color[v] # "White" <=> Listed(finishOrder, v)
      BY <1>1, <2>2 DEF Colored, Colors
    <2>4. PICK C : C = {v \in Vertices : Listed(finishOrder, v)}
      OBVIOUS
    <2>5. C \subseteq F
      BY <1>1, <1>2, <2>3, <2>4 DEF SourcesFollowed
    <2>6. ClosedIn(graph, C)
      <3> SUFFICES ASSUME NEW x \in C, NEW i \in 1..Len(graph[x]) PROVE graph[x][i] \in C
        BY DEF ClosedIn
      <3>1. x \in Vertices /\ Listed(finishOrder, x)
        BY <2>4
      <3>2. graph[x][i] \in succ[x] /\ graph[x][i] \in Vertices
        BY <1>1, <1>3, <3>1, SuccessorEdge, ListsOfGraph
      <3>3. x \in ToSet(finishOrder) /\ \A w \in ToSet(finishOrder) : w \in C
        BY <1>1, <2>4, <3>1, SeenIs
      <3> QED
        BY <1>12, <3>2, <3>3
    <2>7. F \subseteq C
      <3>1. \A v : Listed(given, v) => v \in C
        <4> TAKE v
        <4> HAVE Listed(given, v)
        <4>1. v \in Vertices
          BY <1>1, SeenIs
        <4> QED
          BY <1>1, <2>2, <2>3, <2>4, <4>1 DEF SourcesFollowed
      <3>2. C \in SUBSET Vertices
        BY <2>4
      <3> QED
        BY <1>1, <1>2, <2>6, <3>1, <3>2, FromIs
    <2>8. ToSet(result) = F
      <3>1. \A w : Listed(finishOrder, w) => w \in Vertices
        BY <1>1, SeenIs
      <3>2. \A w : w \in ToSet(result) <=> w \in C
        BY <1>11, <2>1, <2>4, <3>1
      <3> QED
        BY <2>5, <2>7, <3>2
    <2>9. ~CyclicWithin(succ, F)
      <3>1. F \in SUBSET Vertices /\ \A v \in F : Listed(finishOrder, v)
        BY <2>4, <2>7
      <3> QED
        BY <1>1, <1>3, <3>1, OrderExcludesCycle
    <2> QED
      BY <1>11, <2>1, <2>8, <2>9
  <1>14. returned = "false" => CyclicWithin(succ, F) /\ result = <<>>
    BY <1>1, <1>2, <1>3 DEF SortEnded
  <1> QED
    BY <1>4, <1>5, <1>6, <1>8, <1>9, <1>10, <1>11, <1>12, <1>13, <1>14 DEF Dfs!OrderExact

-----------------------------------------------------------------------------
(* The calls of a visitor *)

EdgesIn(s, event)    == {<<c.vertex, c.target>> : c \in ToSet(OfKind(s, event))}

EdgesAfter(r, s, c, event) ==
  EdgesIn(r, event) = IF c.on = event THEN EdgesIn(s, event) \cup {<<c.vertex, c.target>>} ELSE EdgesIn(s, event)
LEMMA EdgesAppended ==
  ASSUME NEW U, NEW s \in Seq(U), NEW c \in U, NEW r, r = Append(s, c), NEW event
  PROVE  EdgesAfter(r, s, c, event)
  <1>1. PICK k : k = OfKind(s, event)
    OBVIOUS
  <1>2. k \in Seq(U) /\ OfKind(r, event) = Kept(k, c, event)
    BY <1>1, OfKindAppend
  <1>3. CASE c.on # event
    <2>1. OfKind(r, event) = k
      BY <1>2, <1>3 DEF Kept
    <2> QED
      BY <1>1, <1>3, <2>1 DEF EdgesAfter, EdgesIn
  <1>4. CASE c.on = event
    <2>1. PICK q : q = Append(k, c) /\ OfKind(r, event) = q
      BY <1>2, <1>4 DEF Kept
    <2>2. PICK n \in Nat : n = Len(k)
      BY <1>2, LenProperties
    <2>3. q \in Seq(U) /\ Len(q) = n + 1 /\ (\A i \in 1..n : q[i] = k[i]) /\ q[n + 1] = c
      BY <1>2, <2>1, <2>2, AppendProperties
    <2>4. DOMAIN k = 1..n /\ DOMAIN q = 1..(n + 1)
      BY <1>2, <2>2, <2>3, LenProperties
    <2>5. ToSet(k) = {k[i] : i \in 1..n} /\ ToSet(q) = {q[i] : i \in 1..(n + 1)}
      BY <2>4 DEF ToSet
    <2>6. \A i \in 1..(n + 1) : i \in 1..n \/ i = n + 1
      OBVIOUS
    <2>7. (\A i \in 1..n : i \in 1..(n + 1)) /\ n + 1 \in 1..(n + 1)
      OBVIOUS
    <2>8. ToSet(q) = ToSet(k) \cup {c}
      BY <2>3, <2>5, <2>6, <2>7
    <2> QED
      BY <1>1, <1>4, <2>1, <2>8 DEF EdgesAfter, EdgesIn
  <1> QED
    BY <1>3, <1>4

-----------------------------------------------------------------------------
(* What depth-first search has discovered *)

\* d lists what is on the stack and what has finished, and the edges passed lead there.
Discovering(g, s, f, d) ==
  /\ d \in Seq(Vertices) /\ Distinct(d)
  /\ \A w : Listed(d, w) <=> On(s, w) \/ Listed(f, w)
  /\ \A k \in 1..Len(s) : \A i \in 1..Len(g[s[k].vertex]) : i < s[k].next => Listed(d, g[s[k].vertex][i])
  /\ \A w : Listed(f, w) => \A i \in 1..Len(g[w]) : Listed(d, g[w][i])

LEMMA FirstDiscovered ==
  ASSUME NEW g, NEW v \in Vertices, NEW s, s = <<New(v)>>, NEW f, f = <<>>, NEW d, d = <<v>>
  PROVE  Discovering(g, s, f, d) /\ Len(d) = 1 /\ d[1] = v
  <1>1. d \in Seq(Vertices) /\ Len(d) = 1 /\ d[1] = v /\ Len(f) = 0
    BY EmptySeq
  <1>2. Len(s) = 1 /\ s[1] = New(v) /\ New(v).vertex = v /\ New(v).next = 1
    BY DEF New
  <1>3. \A i \in 1..1 : i = 1
    OBVIOUS
  <1>4. \A w : (Listed(d, w) <=> w = v) /\ (On(s, w) <=> w = v) /\ ~Listed(f, w)
    BY <1>1, <1>2, <1>3 DEF Listed, On
  <1>5. Distinct(d)
    BY <1>1, <1>3 DEF Distinct
  <1>6. \A k \in 1..Len(s) : \A i \in 1..Len(g[s[k].vertex]) : ~(i < s[k].next)
    BY <1>2, <1>3
  <1> QED
    BY <1>1, <1>4, <1>5, <1>6 DEF Discovering

LEMMA PassedDiscovered ==
  ASSUME NEW g \in Adjacency, NEW s \in Seq(Frames), NEW f, NEW d, Discovering(g, s, f, d),
         NEW n \in Nat \ {0}, n = Len(s), NEW e, e = s[n], NEW t, t = g[e.vertex][e.next],
         Listed(d, t), NEW r, Moved(r, s, n, e)
  PROVE  Discovering(g, r, f, d)
  <1>1. e.next \in Nat \ {0} /\ n \in 1..n
    BY FrameOf
  <1>2. /\ r \in Seq(Frames) /\ Len(r) = n
        /\ \A i \in 1..(n - 1) : r[i] = s[i]
        /\ \A i \in 1..n : r[i].vertex = s[i].vertex
        /\ r[n].next = e.next + 1
    BY MovedIs DEF MovedOn
  <1>3. \A w : On(r, w) <=> On(s, w)
    BY <1>2 DEF On
  <1>4. ASSUME NEW k \in 1..n, NEW i \in 1..Len(g[r[k].vertex]), i < r[k].next PROVE Listed(d, g[r[k].vertex][i])
    <2>1. r[k].vertex = s[k].vertex
      BY <1>2
    <2>2. CASE k # n
      <3>1. k \in 1..(n - 1)
        BY <2>2
      <3>2. r[k] = s[k]
        BY <1>2, <3>1
      <3> QED
        BY <1>4, <3>2 DEF Discovering
    <2>3. CASE k = n /\ i # e.next
      <3>1. i < s[k].next
        BY <1>1, <1>2, <1>4, <2>3
      <3> QED
        BY <1>4, <2>1, <3>1 DEF Discovering
    <2>4. CASE k = n /\ i = e.next
      BY <2>1, <2>4
    <2> QED
      BY <2>2, <2>3, <2>4
  <1> QED
    BY <1>2, <1>3, <1>4 DEF Discovering

LEMMA MoreDiscovered ==
  ASSUME NEW g \in Adjacency, NEW s \in Seq(Frames), NEW f, NEW d, Discovering(g, s, f, d),
         NEW n \in Nat \ {0}, n = Len(s), NEW e, e = s[n], NEW t \in Vertices, t = g[e.vertex][e.next],
         ~Listed(d, t), NEW m, Moved(m, s, n, e), NEW r, Topped(r, m, t), NEW b, b = Append(d, t)
  PROVE  Discovering(g, r, f, b)
  <1>1. e.next \in Nat \ {0} /\ n \in 1..n /\ d \in Seq(Vertices) /\ Distinct(d)
    BY FrameOf DEF Discovering
  <1>2. /\ m \in Seq(Frames) /\ Len(m) = n
        /\ \A i \in 1..(n - 1) : m[i] = s[i]
        /\ \A i \in 1..n : m[i].vertex = s[i].vertex
        /\ m[n].next = e.next + 1
    BY MovedIs DEF MovedOn
  <1>3. New(t) \in Frames /\ New(t).vertex = t /\ New(t).next = 1
    BY DEF New, Frames
  <1>4. /\ r \in Seq(Frames) /\ Len(r) = n + 1
        /\ \A i \in 1..n : r[i] = m[i]
        /\ r[n + 1] = New(t)
    BY <1>2, <1>3, AppendProperties DEF Topped
  <1>5. b \in Seq(Vertices) /\ Distinct(b) /\ \A w : Listed(b, w) <=> Listed(d, w) \/ w = t
    <2>1. HasAppended(b, d, t, Vertices)
      BY <1>1, AppendListed
    <2> QED
      BY <1>1, <2>1 DEF HasAppended
  <1>6. /\ \A i \in 1..(n + 1) : i \in 1..n \/ i = n + 1
        /\ \A i \in 1..n : i \in 1..(n + 1) /\ r[i].vertex = s[i].vertex
        /\ n + 1 \in 1..(n + 1) /\ r[n + 1].vertex = t
    BY <1>2, <1>3, <1>4
  <1>7. \A w : On(r, w) <=> On(s, w) \/ w = t
    BY <1>4, <1>6 DEF On
  <1>8. ASSUME NEW k \in 1..(n + 1), NEW i \in 1..Len(g[r[k].vertex]), i < r[k].next PROVE Listed(b, g[r[k].vertex][i])
    <2>1. CASE k \in 1..(n - 1)
      <3>1. r[k] = s[k] /\ k \in 1..n
        BY <1>2, <1>4, <1>6, <2>1
      <3>2. Listed(d, g[s[k].vertex][i])
        BY <1>8, <3>1 DEF Discovering
      <3> QED
        BY <1>5, <3>1, <3>2
    <2>2. CASE k = n
      <3>1. r[k].next = e.next + 1 /\ r[k].vertex = e.vertex
        BY <1>1, <1>2, <1>4, <2>2
      <3>2. CASE i # e.next
        <4>1. i < s[n].next
          BY <1>1, <1>8, <3>1, <3>2
        <4>2. Listed(d, g[s[n].vertex][i])
          BY <1>1, <1>8, <3>1, <4>1 DEF Discovering
        <4> QED
          BY <1>5, <3>1, <4>2
      <3>3. CASE i = e.next
        BY <1>5, <3>1, <3>3
      <3> QED
        BY <3>2, <3>3
    <2>3. CASE k = n + 1
      <3>1. r[k].next = 1
        BY <1>3, <1>4, <2>3
      <3> QED
        BY <1>8, <3>1
    <2> QED
      BY <2>1, <2>2, <2>3
  <1>9. ASSUME NEW w, Listed(f, w), NEW i \in 1..Len(g[w]) PROVE Listed(b, g[w][i])
    BY <1>5, <1>9 DEF Discovering
  <1>10. \A w : Listed(b, w) <=> On(r, w) \/ Listed(f, w)
    BY <1>5, <1>7 DEF Discovering
  <1> QED
    BY <1>4, <1>5, <1>8, <1>9, <1>10 DEF Discovering

LEMMA FinishedDiscovered ==
  ASSUME NEW g \in Adjacency, NEW s \in Seq(Frames), NEW f \in Seq(Vertices), NEW d, Discovering(g, s, f, d),
         NEW n \in Nat \ {0}, n = Len(s), NEW e, e = s[n], NEW v \in Vertices, v = e.vertex, e.next > Len(g[v]),
         NEW r, NEW h, Leaves(r, h, s, f, v), HasGoneUp(g, s, f, e, v, r, h)
  PROVE  Discovering(g, r, h, d)
  <1>1. e.next \in Nat \ {0} /\ n \in 1..n
    BY FrameOf
  <1>2. Len(r) = n - 1 /\ \A i \in 1..(n - 1) : r[i] = s[i]
    <2>1. Left(r, h, s, n, f, Len(f), v)
      BY LeavesIs
    <2> QED
      BY <2>1 DEF Left
  <1>3. /\ \A w : On(s, w) <=> On(r, w) \/ w = v
        /\ \A w : Listed(h, w) <=> Listed(f, w) \/ w = v
    BY DEF HasGoneUp
  <1>4. \A w : Listed(d, w) <=> On(r, w) \/ Listed(h, w)
    BY <1>3 DEF Discovering
  <1>5. ASSUME NEW k \in 1..(n - 1), NEW i \in 1..Len(g[r[k].vertex]), i < r[k].next PROVE Listed(d, g[r[k].vertex][i])
    <2>1. r[k] = s[k] /\ k \in 1..n
      BY <1>2
    <2> QED
      BY <1>5, <2>1 DEF Discovering
  <1>6. ASSUME NEW w, Listed(h, w), NEW i \in 1..Len(g[w]) PROVE Listed(d, g[w][i])
    <2>1. CASE Listed(f, w)
      BY <1>6, <2>1 DEF Discovering
    <2>2. CASE w = v
      <3>1. Len(g[v]) \in Nat
        BY ListsOfGraph
      <3>2. i < s[n].next /\ i \in 1..Len(g[s[n].vertex])
        BY <1>1, <1>6, <2>2, <3>1
      <3> QED
        BY <1>1, <2>2, <3>2 DEF Discovering
    <2> QED
      BY <1>3, <1>6, <2>1, <2>2
  <1> QED
    BY <1>2, <1>4, <1>5, <1>6 DEF Discovering

-----------------------------------------------------------------------------
(* The tree of a depth-first search *)

Tree(T) == [w \in Vertices |-> {x \in Vertices : <<w, x>> \in T}]

\* Edges of T lead from u to v.
Under(T, u, v) == v \in ReachedWithin(Tree(T), Vertices, u)

LEMMA UnderIs ==
  ASSUME NEW T, NEW u \in Vertices
  PROVE  /\ Under(T, u, u)
         /\ \A v : Under(T, u, v) => v \in Vertices
         /\ \A v, w \in Vertices : Under(T, u, v) /\ <<v, w>> \in T => Under(T, u, w)
         /\ \A S \in SUBSET Vertices : u \in S /\ (\A x \in S : \A y \in Vertices : <<x, y>> \in T => y \in S)
                                         => \A v : Under(T, u, v) => v \in S
  <1>1. PICK R : R = ReachedWithin(Tree(T), Vertices, u)
    OBVIOUS
  <1>2. LeastClosed(Vertices, Tree(T), u, R)
    BY <1>1, VerticesFinite, ReachedIsLeast
  <1>3. \A v \in Vertices : Tree(T)[v] = {x \in Vertices : <<v, x>> \in T}
    BY DEF Tree
  <1>4. ASSUME NEW S \in SUBSET Vertices, u \in S, \A x \in S : \A y \in Vertices : <<x, y>> \in T => y \in S
        PROVE  R \subseteq S
    <2>1. ClosedWithin(Vertices, Tree(T), S)
      BY <1>3, <1>4 DEF ClosedWithin
    <2> QED
      BY <1>2, <1>4, <2>1 DEF LeastClosed
  <1>5. \A v \in R, w \in Vertices : <<v, w>> \in T => w \in R
    BY <1>2, <1>3 DEF LeastClosed, ClosedWithin
  <1>6. u \in R /\ R \subseteq Vertices
    BY <1>2 DEF LeastClosed
  <1> QED
    BY <1>1, <1>4, <1>5, <1>6 DEF Under

LEMMA UnderNext ==
  ASSUME NEW T, NEW u \in Vertices, NEW v \in Vertices, NEW w \in Vertices, Under(T, u, v), <<v, w>> \in T
  PROVE  Under(T, u, w)
  BY UnderIs

\* A larger tree.
LEMMA UnderMore ==
  ASSUME NEW T, NEW M, T \subseteq M, NEW u \in Vertices
  PROVE  \A v : Under(T, u, v) => Under(M, u, v)
  <1>1. PICK S : S = {v \in Vertices : Under(M, u, v)}
    OBVIOUS
  <1>2. S \in SUBSET Vertices /\ u \in S
    BY <1>1, UnderIs
  <1>3. \A x \in S : \A y \in Vertices : <<x, y>> \in T => y \in S
    BY <1>1, UnderIs
  <1>4. \A v : Under(T, u, v) => v \in S
    BY <1>2, <1>3, UnderIs
  <1> QED
    BY <1>1, <1>4

\* Tree edges lead up the stack ...
StackInTree(s, T) == \A k \in 1..(Len(s) - 1) : <<s[k].vertex, s[k + 1].vertex>> \in T

LEMMA StackUnder ==
  ASSUME NEW s \in Seq(Frames), NEW T, StackInTree(s, T), NEW n \in Nat, n = Len(s), NEW k \in 1..n
  PROVE  Under(T, s[k].vertex, s[n].vertex)
  <1> DEFINE Good == {j \in Nat : k + j <= n => Under(T, s[k].vertex, s[k + j].vertex)}
  <1>0. \A i \in 1..n : s[i].vertex \in Vertices
    BY FrameOf
  <1>1. 0 \in Good
    <2>1. k + 0 = k
      OBVIOUS
    <2> QED
      BY <1>0, <2>1, UnderIs
  <1>2. ASSUME NEW j \in Nat, j \in Good PROVE j + 1 \in Good
    <2> SUFFICES ASSUME k + (j + 1) <= n PROVE Under(T, s[k].vertex, s[k + (j + 1)].vertex)
      OBVIOUS
    <2>1. PICK i \in 1..(n - 1) : i = k + j /\ k + (j + 1) = i + 1
      OBVIOUS
    <2>2. Under(T, s[k].vertex, s[i].vertex)
      BY <1>2, <2>1
    <2>3. <<s[i].vertex, s[i + 1].vertex>> \in T
      BY <2>1 DEF StackInTree
    <2>4. s[i].vertex \in Vertices /\ s[i + 1].vertex \in Vertices /\ s[k].vertex \in Vertices
      BY <1>0, <2>1
    <2>5. Under(T, s[k].vertex, s[i + 1].vertex)
      BY <2>2, <2>3, <2>4, UnderNext
    <2> QED
      BY <2>1, <2>5
  <1>3. Nat \subseteq Good
    <2> HIDE DEF Good
    <2> QED
      BY <1>1, <1>2, InductiveSet
  <1>4. n - k \in Nat /\ k + (n - k) = n
    OBVIOUS
  <1> QED
    BY <1>3, <1>4

\* ... and from the seed to all that was discovered, each along an edge of the graph.
Spanning(g, s, d, T) ==
  /\ \A e \in T : e \in Vertices \X Vertices /\ e[2] \in Successors(g)[e[1]]
  /\ StackInTree(s, T)
  /\ \A v : Listed(d, v) => Under(T, seed, v)

LEMMA SameTree ==
  ASSUME NEW g, NEW s, Len(s) \in Nat, NEW r, SameVertices(r, s), NEW d, NEW T, Spanning(g, s, d, T)
  PROVE  Spanning(g, r, d, T)
  <1>1. \A k \in 1..(Len(s) - 1) : k \in 1..Len(s) /\ k + 1 \in 1..Len(s)
    OBVIOUS
  <1>2. StackInTree(r, T)
    BY <1>1 DEF SameVertices, StackInTree, Spanning
  <1> QED
    BY <1>2 DEF Spanning

ShrunkFrom(r, s)  == Len(r) = Len(s) - 1 /\ \A i \in 1..(Len(s) - 1) : r[i] = s[i]

LEMMA MovedSame ==
  ASSUME NEW s \in Seq(Frames), NEW n \in Nat \ {0}, n = Len(s), NEW e, e = s[n], NEW r, Moved(r, s, n, e)
  PROVE  SameVertices(r, s)
  <1>1. MovedOn(r, s, n, e)
    BY MovedIs
  <1> QED
    BY <1>1 DEF MovedOn, SameVertices

LEMMA ToppedGrown ==
  ASSUME NEW s \in Seq(Frames), NEW n \in Nat \ {0}, n = Len(s), NEW e, e = s[n], NEW m, Moved(m, s, n, e),
         NEW t \in Vertices, NEW r, Topped(r, m, t)
  PROVE  GrownBy(r, s, t)
  <1>1. m \in Seq(Frames) /\ Len(m) = n /\ \A i \in 1..n : m[i].vertex = s[i].vertex
    <2>1. MovedOn(m, s, n, e)
      BY MovedIs
    <2> QED
      BY <2>1 DEF MovedOn
  <1>2. New(t) \in Frames /\ New(t).vertex = t
    BY DEF New, Frames
  <1>3. Len(r) = n + 1 /\ (\A i \in 1..n : r[i] = m[i]) /\ r[n + 1] = New(t)
    BY <1>1, <1>2, AppendProperties DEF Topped
  <1> QED
    BY <1>1, <1>2, <1>3 DEF GrownBy

LEMMA LeftShrunk ==
  ASSUME NEW s \in Seq(Frames), NEW n \in Nat \ {0}, n = Len(s), NEW f \in Seq(Vertices), NEW v \in Vertices,
         NEW r, NEW h, Leaves(r, h, s, f, v)
  PROVE  ShrunkFrom(r, s)
  <1>1. Left(r, h, s, n, f, Len(f), v)
    BY LeavesIs
  <1> QED
    BY <1>1 DEF Left, ShrunkFrom

LEMMA TreeGrows ==
  ASSUME NEW g, NEW s \in Seq(Frames), NEW n \in Nat \ {0}, n = Len(s), NEW u \in Vertices, u = s[n].vertex,
         NEW t \in Vertices, t \in Successors(g)[u], NEW r, GrownBy(r, s, t),
         NEW d, Listed(d, u), NEW b, \A w : Listed(b, w) <=> Listed(d, w) \/ w = t,
         NEW T, Spanning(g, s, d, T), NEW M, M = T \cup {<<u, t>>}, seed \in Vertices
  PROVE  Spanning(g, r, b, M)
  <1>1. \A e \in M : e \in Vertices \X Vertices /\ e[2] \in Successors(g)[e[1]]
    BY DEF Spanning
  <1>2. StackInTree(r, M)
    <2> SUFFICES ASSUME NEW k \in 1..n PROVE <<r[k].vertex, r[k + 1].vertex>> \in M
      BY DEF StackInTree, GrownBy
    <2>1. CASE k = n
      BY <2>1 DEF GrownBy
    <2>2. CASE k # n
      <3>1. k \in 1..(n - 1) /\ k + 1 \in 1..n
        BY <2>2
      <3>2. <<s[k].vertex, s[k + 1].vertex>> \in T
        BY <3>1 DEF Spanning, StackInTree
      <3> QED
        BY <3>1, <3>2 DEF GrownBy
    <2> QED
      BY <2>1, <2>2
  <1>3. ASSUME NEW v, Listed(b, v) PROVE Under(M, seed, v)
    <2>1. \A x : Listed(d, x) => Under(M, seed, x)
      <3>1. T \subseteq M
        OBVIOUS
      <3> QED
        BY <3>1, UnderMore DEF Spanning
    <2>2. Under(M, seed, t)
      <3>1. <<u, t>> \in M /\ Under(M, seed, u)
        BY <2>1
      <3> QED
        BY <3>1, UnderNext
    <2> QED
      BY <1>3, <2>1, <2>2
  <1> QED
    BY <1>1, <1>2, <1>3 DEF Spanning

LEMMA TreeShrinks ==
  ASSUME NEW g, NEW s, NEW n \in Nat \ {0}, n = Len(s), NEW r, ShrunkFrom(r, s), NEW d, NEW T, Spanning(g, s, d, T)
  PROVE  Spanning(g, r, d, T)
  <1>1. \A k \in 1..((n - 1) - 1) : k \in 1..(n - 1) /\ k + 1 \in 1..(n - 1)
    OBVIOUS
  <1>2. StackInTree(r, T)
    BY <1>1 DEF ShrunkFrom, StackInTree, Spanning
  <1> QED
    BY <1>2 DEF Spanning

LEMMA OrderShrinks ==
  ASSUME NEW s, NEW n \in Nat \ {0}, n = Len(s), NEW v \in Vertices, v = s[n].vertex, NEW r, ShrunkFrom(r, s),
         NEW f \in Seq(Vertices), NEW h, h = Append(f, v), NEW X, OrderedBy(X, s, f)
  PROVE  OrderedBy(X, r, h)
  <1>1. PICK l \in Nat : l = Len(f)
    BY LenProperties
  <1>2. /\ Len(h) = l + 1 /\ (\A i \in 1..l : h[i] = f[i]) /\ h[l + 1] = v
        /\ \A w : Listed(h, w) <=> Listed(f, w) \/ w = v
    <2>1. HasAppended(h, f, v, Vertices)
      BY AppendListed
    <2> QED
      BY <1>1, <2>1 DEF HasAppended
  <1>3. /\ Len(r) = n - 1 /\ \A i \in 1..(n - 1) : r[i] = s[i]
    BY DEF ShrunkFrom
  <1> SUFFICES ASSUME NEW e \in X
               PROVE  \/ \E j \in 1..(l + 1) : h[j] = e[1] /\ \E i \in 1..(j - 1) : h[i] = e[2]
                      \/ \E k \in 1..(n - 1) : /\ r[k].vertex = e[1]
                                               /\ Listed(h, e[2]) \/ (k < n - 1 /\ r[k + 1].vertex = e[2])
    BY <1>2, <1>3 DEF OrderedBy
  <1>4. ASSUME NEW j \in 1..l, f[j] = e[1], NEW i \in 1..(j - 1), f[i] = e[2]
        PROVE  \E x \in 1..(l + 1) : h[x] = e[1] /\ \E y \in 1..(x - 1) : h[y] = e[2]
    <2>1. j \in 1..(l + 1) /\ i \in 1..l
      OBVIOUS
    <2> QED
      BY <1>2, <1>4, <2>1
  <1>5. ASSUME NEW k \in 1..n, s[k].vertex = e[1], Listed(f, e[2]) \/ (k < n /\ s[k + 1].vertex = e[2])
        PROVE  \/ \E j \in 1..(l + 1) : h[j] = e[1] /\ \E i \in 1..(j - 1) : h[i] = e[2]
               \/ \E x \in 1..(n - 1) : /\ r[x].vertex = e[1]
                                        /\ Listed(h, e[2]) \/ (x < n - 1 /\ r[x + 1].vertex = e[2])
    <2>1. CASE k = n
      <3>1. PICK i \in 1..l : f[i] = e[2]
        BY <1>1, <1>5, <2>1 DEF Listed
      <3>2. l + 1 \in 1..(l + 1) /\ i \in 1..((l + 1) - 1)
        BY <1>1
      <3> QED
        BY <1>2, <1>5, <2>1, <3>1, <3>2
    <2>2. CASE k # n
      <3>1. k \in 1..(n - 1) /\ r[k].vertex = e[1]
        BY <1>3, <1>5, <2>2
      <3>2. CASE Listed(f, e[2])
        BY <1>2, <3>1, <3>2
      <3>3. CASE k < n /\ s[k + 1].vertex = e[2] /\ k + 1 = n
        <4>1. e[2] = v
          BY <3>3
        <4> QED
          BY <1>2, <3>1, <4>1
      <3>4. CASE k < n /\ s[k + 1].vertex = e[2] /\ k + 1 # n
        <4>1. k + 1 \in 1..(n - 1) /\ k < n - 1
          BY <3>1, <3>4
        <4>2. r[k + 1].vertex = e[2]
          BY <1>3, <3>4, <4>1
        <4> QED
          BY <3>1, <4>1, <4>2
      <3> QED
        BY <1>5, <3>2, <3>3, <3>4
    <2> QED
      BY <2>1, <2>2
  <1> QED
    BY <1>1, <1>4, <1>5 DEF OrderedBy

\* When nothing is on the stack, there is no cycle.
LEMMA OrderedAcyclic ==
  ASSUME NEW f \in Seq(Vertices), Distinct(f), NEW s, Len(s) = 0, NEW X, OrderedBy(X, s, f)
  PROVE  ~CyclicWithin(Tree(X), Vertices)
  <1>1. LeadsBack(Tree(X), Vertices, f)
    <2> SUFFICES ASSUME NEW u \in Vertices, NEW v \in Tree(X)[u] \cap Vertices
                 PROVE  \E j \in 1..Len(f) : f[j] = u /\ \E i \in 1..(j - 1) : f[i] = v
      BY DEF LeadsBack
    <2>1. PICK e \in X : e = <<u, v>>
      BY DEF Tree
    <2>2. \A k \in 1..0 : FALSE
      OBVIOUS
    <2>3. \E j \in 1..Len(f) : f[j] = e[1] /\ \E i \in 1..(j - 1) : f[i] = e[2]
      BY <2>2 DEF OrderedBy
    <2> QED
      BY <2>1, <2>3
  <1> QED
    BY <1>1, BackwardsNoCycle

-----------------------------------------------------------------------------
(* What the visitor of depth_first_search has been told *)

SearchEvents == {"initialize_vertex", "start_vertex", "discover_vertex", "examine_edge", "tree_edge",
                 "back_edge", "forward_or_cross_edge", "finish_edge", "finish_vertex"}

VisitorCalls == [on : SearchEvents, vertex : Vertices, target : Vertices]

\* The calls s tell of the vertices d and f and of the edges T (n times), B and R.
Tells(s, d, f, T, B, R, n) ==
  /\ s \in Seq(VisitorCalls) /\ n = Len(OfKind(s, "tree_edge"))
  /\ d = VerticesIn(s, "discover_vertex") /\ f = VerticesIn(s, "finish_vertex")
  /\ T = EdgesIn(s, "tree_edge") /\ B = EdgesIn(s, "back_edge") /\ R = EdgesIn(s, "forward_or_cross_edge")

LEMMA TellsTypes ==
  ASSUME NEW s, NEW d, NEW f, NEW T, NEW B, NEW R, NEW n, Tells(s, d, f, T, B, R, n)
  PROVE  d \in Seq(Vertices) /\ f \in Seq(Vertices) /\ n \in Nat
  <1>1. s \in Seq(VisitorCalls) /\ \A c \in VisitorCalls : c.vertex \in Vertices
    BY DEF Tells, VisitorCalls
  <1>2. PICK c : c = [on |-> "start_vertex", vertex |-> 0, target |-> 0]
    OBVIOUS
  <1>3. c \in VisitorCalls
    BY <1>2, VerticesFinite DEF VisitorCalls, SearchEvents
  <1>4. \A event : VerticesIn(s, event) \in Seq(Vertices)
    BY <1>1, <1>3, VerticesAppended
  <1>5. OfKind(s, "tree_edge") \in Seq(VisitorCalls)
    BY <1>1, <1>3, OfKindAppend
  <1> QED
    BY <1>4, <1>5, LenProperties DEF Tells

\* One call more.
LEMMA OneMore ==
  ASSUME NEW s, NEW d, NEW f, NEW T, NEW B, NEW R, NEW n, Tells(s, d, f, T, B, R, n),
         NEW c \in VisitorCalls, NEW r, r = Append(s, c)
  PROVE  Tells(r, IF c.on = "discover_vertex" THEN Append(d, c.vertex) ELSE d,
                  IF c.on = "finish_vertex" THEN Append(f, c.vertex) ELSE f,
                  IF c.on = "tree_edge" THEN T \cup {<<c.vertex, c.target>>} ELSE T,
                  IF c.on = "back_edge" THEN B \cup {<<c.vertex, c.target>>} ELSE B,
                  IF c.on = "forward_or_cross_edge" THEN R \cup {<<c.vertex, c.target>>} ELSE R,
                  IF c.on = "tree_edge" THEN n + 1 ELSE n)
  <1>1. s \in Seq(VisitorCalls) /\ \A x \in VisitorCalls : x.vertex \in Vertices
    BY DEF Tells, VisitorCalls
  <1>2. r \in Seq(VisitorCalls)
    BY <1>1, AppendProperties
  <1>3. \A event : VerticesAfter(r, s, c, event) /\ CountAfter(r, s, c, event)
    BY <1>1, VerticesAppended
  <1>4. \A event : EdgesAfter(r, s, c, event)
    BY <1>1, EdgesAppended
  <1>5. /\ VerticesIn(r, "discover_vertex") = IF c.on = "discover_vertex" THEN Append(d, c.vertex) ELSE d
        /\ VerticesIn(r, "finish_vertex") = IF c.on = "finish_vertex" THEN Append(f, c.vertex) ELSE f
        /\ Len(OfKind(r, "tree_edge")) = IF c.on = "tree_edge" THEN n + 1 ELSE n
    BY <1>3 DEF VerticesAfter, CountAfter, Tells
  <1>6. /\ EdgesIn(r, "tree_edge") = IF c.on = "tree_edge" THEN T \cup {<<c.vertex, c.target>>} ELSE T
        /\ EdgesIn(r, "back_edge") = IF c.on = "back_edge" THEN B \cup {<<c.vertex, c.target>>} ELSE B
        /\ EdgesIn(r, "forward_or_cross_edge")
             = IF c.on = "forward_or_cross_edge" THEN R \cup {<<c.vertex, c.target>>} ELSE R
    BY <1>4 DEF EdgesAfter, Tells
  <1> QED
    BY <1>2, <1>5, <1>6 DEF Tells

\* A call that tells of none of these, ...
LEMMA OtherCall ==
  ASSUME NEW s, NEW d, NEW f, NEW T, NEW B, NEW R, NEW n, Tells(s, d, f, T, B, R, n),
         NEW c \in VisitorCalls, NEW r, r = Append(s, c),
         c.on \in {"initialize_vertex", "start_vertex", "examine_edge", "finish_edge"}
  PROVE  Tells(r, d, f, T, B, R, n)
  <1>1. Tells(r, IF c.on = "discover_vertex" THEN Append(d, c.vertex) ELSE d,
                  IF c.on = "finish_vertex" THEN Append(f, c.vertex) ELSE f,
                  IF c.on = "tree_edge" THEN T \cup {<<c.vertex, c.target>>} ELSE T,
                  IF c.on = "back_edge" THEN B \cup {<<c.vertex, c.target>>} ELSE B,
                  IF c.on = "forward_or_cross_edge" THEN R \cup {<<c.vertex, c.target>>} ELSE R,
                  IF c.on = "tree_edge" THEN n + 1 ELSE n)
    BY OneMore
  <1>2. /\ c.on # "discover_vertex" /\ c.on # "finish_vertex" /\ c.on # "tree_edge"
        /\ c.on # "back_edge" /\ c.on # "forward_or_cross_edge"
    OBVIOUS
  <1> QED
    BY <1>1, <1>2

\* ... and one that tells of a vertex.
LEMMA VertexCalls ==
  ASSUME NEW s, NEW d, NEW f, NEW T, NEW B, NEW R, NEW n, Tells(s, d, f, T, B, R, n),
         NEW c \in VisitorCalls, NEW r, r = Append(s, c), NEW v, c.vertex = v
  PROVE  /\ c.on = "discover_vertex" => Tells(r, Append(d, v), f, T, B, R, n)
         /\ c.on = "finish_vertex" => Tells(r, d, Append(f, v), T, B, R, n)
  <1>1. Tells(r, IF c.on = "discover_vertex" THEN Append(d, c.vertex) ELSE d,
                  IF c.on = "finish_vertex" THEN Append(f, c.vertex) ELSE f,
                  IF c.on = "tree_edge" THEN T \cup {<<c.vertex, c.target>>} ELSE T,
                  IF c.on = "back_edge" THEN B \cup {<<c.vertex, c.target>>} ELSE B,
                  IF c.on = "forward_or_cross_edge" THEN R \cup {<<c.vertex, c.target>>} ELSE R,
                  IF c.on = "tree_edge" THEN n + 1 ELSE n)
    BY OneMore
  <1>2. ASSUME c.on = "discover_vertex" PROVE Tells(r, Append(d, v), f, T, B, R, n)
    <2>1. c.on # "finish_vertex" /\ c.on # "tree_edge" /\ c.on # "back_edge" /\ c.on # "forward_or_cross_edge"
      BY <1>2
    <2> QED
      BY <1>1, <1>2, <2>1
  <1>3. ASSUME c.on = "finish_vertex" PROVE Tells(r, d, Append(f, v), T, B, R, n)
    <2>1. c.on # "discover_vertex" /\ c.on # "tree_edge" /\ c.on # "back_edge" /\ c.on # "forward_or_cross_edge"
      BY <1>3
    <2> QED
      BY <1>1, <1>3, <2>1
  <1> QED
    BY <1>2, <1>3

LEMMA NothingTold == Tells(<<>>, <<>>, <<>>, {}, {}, {}, 0)
  <1>1. \A event : OfKind(<<>>, event) = <<>>
    BY OfKindNone
  <1>2. Len(<<>>) = 0 /\ DOMAIN <<>> = {} /\ ToSet(<<>>) = {}
    BY EmptySeq DEF ToSet
  <1>3. \A event : EdgesIn(<<>>, event) = {}
    BY <1>1, <1>2 DEF EdgesIn
  <1>4. \A event : VerticesIn(<<>>, event) = <<>>
    BY <1>1, <1>2 DEF VerticesIn
  <1> QED
    BY <1>1, <1>2, <1>3, <1>4, EmptySeq DEF Tells

Call(event, u, v) == [on |-> event, vertex |-> u, target |-> v]

LEMMA CallIs ==
  ASSUME NEW event \in SearchEvents, NEW u \in Vertices, NEW v \in Vertices
  PROVE  /\ Call(event, u, v) \in VisitorCalls /\ Call(event, u, v).on = event
         /\ Call(event, u, v).vertex = u /\ Call(event, u, v).target = v
  BY DEF Call, VisitorCalls

\* What an iteration tells: the vertex u has finished, ...
ToldFinished(r, s, u) == r = Append(s, Call("finish_vertex", u, u))

\* ... an edge has been passed, ...
ToldEdge(r, s, kind, u, v) ==
  r = Append(Append(Append(s, Call("examine_edge", u, v)), Call(kind, u, v)), Call("finish_edge", u, v))

\* ... or has been followed.
ToldTree(r, s, u, v) == \E m : ToldEdge(m, s, "tree_edge", u, v) /\ r = Append(m, Call("discover_vertex", v, v))

LEMMA StartTells ==
  ASSUME NEW v \in Vertices, NEW r,
         r = <<Call("initialize_vertex", v, v), Call("start_vertex", v, v), Call("discover_vertex", v, v)>>
  PROVE  Tells(r, <<v>>, <<>>, {}, {}, {}, 0)
  <1>1. PICK a \in VisitorCalls : a = Call("initialize_vertex", v, v) /\ a.on = "initialize_vertex" /\ a.vertex = v
    BY CallIs DEF SearchEvents
  <1>2. PICK b \in VisitorCalls : b = Call("start_vertex", v, v) /\ b.on = "start_vertex" /\ b.vertex = v
    BY CallIs DEF SearchEvents
  <1>3. PICK c \in VisitorCalls : c = Call("discover_vertex", v, v) /\ c.on = "discover_vertex" /\ c.vertex = v
    BY CallIs DEF SearchEvents
  <1>4. PICK x : x = Append(<<>>, a)
    OBVIOUS
  <1>5. PICK y : y = Append(x, b)
    OBVIOUS
  <1>6. PICK z : z = Append(y, c)
    OBVIOUS
  <1>7. Tells(x, <<>>, <<>>, {}, {}, {}, 0)
    <2>1. Tells(<<>>, <<>>, <<>>, {}, {}, {}, 0)
      BY NothingTold
    <2> QED
      BY <1>1, <1>4, <2>1, OtherCall
  <1>8. Tells(y, <<>>, <<>>, {}, {}, {}, 0)
    BY <1>2, <1>5, <1>7, OtherCall
  <1>9. Tells(z, Append(<<>>, v), <<>>, {}, {}, {}, 0)
    BY <1>3, <1>6, <1>8, VertexCalls
  <1>10. Append(<<>>, v) = <<v>>
    OBVIOUS
  <1>11. r = z
    <2>1. <<>> \in Seq(VisitorCalls) /\ r = <<a, b, c>>
      BY <1>1, <1>2, <1>3, EmptySeq
    <2>2. <<>> \o <<a, b, c>> = z
      BY <1>4, <1>5, <1>6, <2>1, ThreeAppended
    <2>3. <<a, b, c>> \in Seq(VisitorCalls)
      OBVIOUS
    <2>4. <<>> \o <<a, b, c>> = <<a, b, c>>
      BY <2>3, ConcatEmptySeq
    <2> QED
      BY <2>1, <2>2, <2>4
  <1> QED
    BY <1>9, <1>10, <1>11

LEMMA FinishTells ==
  ASSUME NEW s, NEW d, NEW f, NEW T, NEW B, NEW R, NEW n, Tells(s, d, f, T, B, R, n),
         NEW u \in Vertices, NEW r, ToldFinished(r, s, u)
  PROVE  Tells(r, d, Append(f, u), T, B, R, n)
  <1>1. PICK c \in VisitorCalls : c = Call("finish_vertex", u, u) /\ c.on = "finish_vertex" /\ c.vertex = u
    BY CallIs DEF SearchEvents
  <1> QED
    BY <1>1, VertexCalls DEF ToldFinished

\* What is told then.
EdgeTold(r, d, f, T, B, R, n, kind, u, v) ==
  Tells(r, d, f, IF kind = "tree_edge" THEN T \cup {<<u, v>>} ELSE T,
        IF kind = "back_edge" THEN B \cup {<<u, v>>} ELSE B,
        IF kind = "forward_or_cross_edge" THEN R \cup {<<u, v>>} ELSE R,
        IF kind = "tree_edge" THEN n + 1 ELSE n)

LEMMA EdgeTells ==
  ASSUME NEW s, NEW d, NEW f, NEW T, NEW B, NEW R, NEW n, Tells(s, d, f, T, B, R, n),
         NEW u \in Vertices, NEW v \in Vertices,
         NEW kind \in {"tree_edge", "back_edge", "forward_or_cross_edge"}, NEW r, ToldEdge(r, s, kind, u, v)
  PROVE  EdgeTold(r, d, f, T, B, R, n, kind, u, v)
  <1>1. PICK a \in VisitorCalls : a = Call("examine_edge", u, v) /\ a.on = "examine_edge"
    BY CallIs DEF SearchEvents
  <1>2. PICK b \in VisitorCalls : b = Call(kind, u, v) /\ b.on = kind /\ b.vertex = u /\ b.target = v
    BY CallIs DEF SearchEvents
  <1>3. PICK c \in VisitorCalls : c = Call("finish_edge", u, v) /\ c.on = "finish_edge"
    BY CallIs DEF SearchEvents
  <1>4. PICK x : x = Append(s, a)
    OBVIOUS
  <1>5. PICK y : y = Append(x, b)
    OBVIOUS
  <1>6. r = Append(y, c)
    BY <1>1, <1>2, <1>3, <1>4, <1>5 DEF ToldEdge
  <1>7. Tells(x, d, f, T, B, R, n)
    BY <1>1, <1>4, OtherCall
  <1>8. Tells(y, d, f, IF kind = "tree_edge" THEN T \cup {<<u, v>>} ELSE T,
                  IF kind = "back_edge" THEN B \cup {<<u, v>>} ELSE B,
                  IF kind = "forward_or_cross_edge" THEN R \cup {<<u, v>>} ELSE R,
                  IF kind = "tree_edge" THEN n + 1 ELSE n)
    <2>1. /\ Tells(y, IF b.on = "discover_vertex" THEN Append(d, b.vertex) ELSE d,
                  IF b.on = "finish_vertex" THEN Append(f, b.vertex) ELSE f,
                  IF b.on = "tree_edge" THEN T \cup {<<b.vertex, b.target>>} ELSE T,
                  IF b.on = "back_edge" THEN B \cup {<<b.vertex, b.target>>} ELSE B,
                  IF b.on = "forward_or_cross_edge" THEN R \cup {<<b.vertex, b.target>>} ELSE R,
                  IF b.on = "tree_edge" THEN n + 1 ELSE n)
      BY <1>5, <1>7, OneMore
    <2>2. b.on # "discover_vertex" /\ b.on # "finish_vertex"
      BY <1>2
    <2> QED
      BY <1>2, <2>1, <2>2
  <1>9. Tells(r, d, f, IF kind = "tree_edge" THEN T \cup {<<u, v>>} ELSE T,
                  IF kind = "back_edge" THEN B \cup {<<u, v>>} ELSE B,
                  IF kind = "forward_or_cross_edge" THEN R \cup {<<u, v>>} ELSE R,
                  IF kind = "tree_edge" THEN n + 1 ELSE n)
    BY <1>3, <1>6, <1>8, OtherCall
  <1> QED
    BY <1>9 DEF EdgeTold

LEMMA TreeTells ==
  ASSUME NEW s, NEW d, NEW f, NEW T, NEW B, NEW R, NEW n, Tells(s, d, f, T, B, R, n),
         NEW u \in Vertices, NEW v \in Vertices, NEW r, ToldTree(r, s, u, v)
  PROVE  Tells(r, Append(d, v), f, T \cup {<<u, v>>}, B, R, n + 1)
  <1>1. PICK m : ToldEdge(m, s, "tree_edge", u, v) /\ r = Append(m, Call("discover_vertex", v, v))
    BY DEF ToldTree
  <1>2. PICK c \in VisitorCalls : c = Call("discover_vertex", v, v) /\ c.on = "discover_vertex" /\ c.vertex = v
    BY CallIs DEF SearchEvents
  <1>3. PICK kind \in {"tree_edge", "back_edge", "forward_or_cross_edge"} : kind = "tree_edge"
    OBVIOUS
  <1>4. Tells(m, d, f, T \cup {<<u, v>>}, B, R, n + 1)
    <2>1. ToldEdge(m, s, kind, u, v)
      BY <1>1, <1>3
    <2>2. EdgeTold(m, d, f, T, B, R, n, kind, u, v)
      BY <2>1, EdgeTells
    <2> QED
      BY <1>3, <2>2 DEF EdgeTold
  <1> QED
    BY <1>1, <1>2, <1>4, VertexCalls

-----------------------------------------------------------------------------
(* How depth_first_search classifies the edges *)

Shades(col, s, f) == /\ col \in [Vertices -> Colors]
                     /\ \A v \in Vertices : /\ col[v] = "Gray" <=> On(s, v)
                                            /\ col[v] = "Black" <=> Listed(f, v)

LEMMA FirstShade ==
  ASSUME NEW v \in Vertices, NEW col, col = [[w \in Vertices |-> "White"] EXCEPT ![v] = "Gray"],
         NEW s, \A w : On(s, w) <=> w = v, NEW f, \A w : ~Listed(f, w)
  PROVE  Shades(col, s, f)
  BY DEF Shades, Colors

LEMMA GrayShade ==
  ASSUME NEW col, NEW s, NEW f, Shades(col, s, f), NEW t \in Vertices, col[t] = "White",
         NEW c, c = [col EXCEPT ![t] = "Gray"], NEW r, \A w : On(r, w) <=> On(s, w) \/ w = t
  PROVE  Shades(c, r, f)
  BY DEF Shades, Colors

LEMMA BlackShade ==
  ASSUME NEW col, NEW s, NEW f, Shades(col, s, f), NEW v \in Vertices,
         NEW c, c = [col EXCEPT ![v] = "Black"], NEW r, \A w : On(s, w) <=> On(r, w) \/ w = v, ~On(r, v),
         NEW h, \A w : Listed(h, w) <=> Listed(f, w) \/ w = v
  PROVE  Shades(c, r, h)
  BY DEF Shades, Colors

LEMMA ShadeIs ==
  ASSUME NEW col, NEW s, NEW f, Shades(col, s, f), NEW g, NEW d, Discovering(g, s, f, d)
  PROVE  \A v \in Vertices : /\ col[v] \in Colors
                             /\ col[v] # "White" <=> Listed(d, v)
                             /\ col[v] = "Gray" <=> On(s, v)
                             /\ col[v] = "Black" <=> Listed(f, v)
  BY DEF Shades, Colors, Discovering

\* The tree T has n edges, B are the back edges and R those to finished vertices.
Classified(g, s, f, d, T, B, R, n) ==
  /\ Searching(g, s, f) /\ Discovering(g, s, f, d)
  /\ n + 1 = Len(d) /\ d[1] = seed
  /\ Spanning(g, s, d, T) /\ OrderedBy(T \cup R, s, f)
  /\ \A e \in B : e[1] \in Vertices /\ e[2] \in Vertices /\ Under(T, e[2], e[1])

LEMMA ClassifiedFirst ==
  ASSUME NEW g \in Adjacency, seed \in Vertices, NEW s, s = <<New(seed)>>, NEW f, f = <<>>, NEW d, d = <<seed>>
  PROVE  Classified(g, s, f, d, {}, {}, {}, 0)
  <1>1. f \in Seq(Vertices) /\ Distinct(f) /\ \A w : ~Listed(f, w)
    BY EmptySeq DEF Distinct, Listed
  <1>2. Searching(g, s, f)
    BY <1>1, FirstFrame
  <1>3. Discovering(g, s, f, d) /\ Len(d) = 1 /\ d[1] = seed
    BY FirstDiscovered
  <1>4. \A w : Listed(d, w) => w = seed
    BY <1>3 DEF Listed
  <1>5. Spanning(g, s, d, {})
    <2>1. Len(s) = 1
      OBVIOUS
    <2>2. Under({}, seed, seed)
      BY UnderIs
    <2> QED
      BY <1>4, <2>1, <2>2 DEF Spanning, StackInTree
  <1>6. OrderedBy({} \cup {}, s, f)
    BY DEF OrderedBy
  <1> QED
    BY <1>2, <1>3, <1>5, <1>6 DEF Classified

\* What an iteration leaves: it passes an edge from u to t, ...
AfterPassing(g, s, r, f, d, T, B, R, n, u, t) ==
  /\ On(s, t) => Classified(g, r, f, d, T, B \cup {<<u, t>>}, R, n)
  /\ Listed(f, t) => Classified(g, r, f, d, T, B, R \cup {<<u, t>>}, n)
  /\ \A w : On(r, w) <=> On(s, w)

\* ... follows it, ...
AfterTree(g, s, r, f, d, T, B, R, n, u, t) ==
  /\ Classified(g, r, f, Append(d, t), T \cup {<<u, t>>}, B, R, n + 1)
  /\ \A w : On(r, w) <=> On(s, w) \/ w = t

\* ... or finishes v.
AfterFinish(g, s, r, f, h, d, T, B, R, n, v) ==
  /\ Classified(g, r, h, d, T, B, R, n)
  /\ \A w : On(s, w) <=> On(r, w) \/ w = v
  /\ \A w : Listed(h, w) <=> Listed(f, w) \/ w = v
  /\ ~On(r, v)

LEMMA ClassifiedPassed ==
  ASSUME NEW g \in Adjacency, seed \in Vertices, NEW s, NEW f, NEW d, NEW T, NEW B, NEW R, NEW n,
         Classified(g, s, f, d, T, B, R, n),
         NEW l \in Nat \ {0}, l = Len(s), NEW e, e = s[l], e.next <= Len(g[e.vertex]),
         NEW u \in Vertices, u = e.vertex, NEW t \in Vertices, t = g[e.vertex][e.next],
         NEW r, Moved(r, s, l, e)
  PROVE  AfterPassing(g, s, r, f, d, T, B, R, n, u, t)
  <1>1. /\ Searching(g, s, f) /\ Discovering(g, s, f, d)
        /\ n + 1 = Len(d) /\ d[1] = seed
        /\ Spanning(g, s, d, T) /\ OrderedBy(T \cup R, s, f)
        /\ \A x \in B : x[1] \in Vertices /\ x[2] \in Vertices /\ Under(T, x[2], x[1])
        /\ s \in Seq(Frames) /\ l \in 1..Len(s)
    BY DEF Classified, Searching
  <1>2. Searching(g, r, f) /\ \A w : On(r, w) <=> On(s, w)
    <2>1. HasMovedOn(g, s, f, t, r)
      BY <1>1, MovesOn
    <2> QED
      BY <2>1 DEF HasMovedOn
  <1>3. SameVertices(r, s) /\ Len(s) \in Nat
    BY <1>1, MovedSame
  <1>4. Spanning(g, r, d, T)
    BY <1>1, <1>3, SameTree
  <1>5. \A X : OrderedBy(X, s, f) => OrderedBy(X, r, f)
    BY <1>3, SameOrder
  <1>6. On(s, t) \/ Listed(f, t) => Discovering(g, r, f, d)
    <2>1. On(s, t) \/ Listed(f, t) => Listed(d, t)
      BY <1>1 DEF Discovering
    <2> QED
      BY <1>1, <2>1, PassedDiscovered
  <1>7. ASSUME On(s, t) PROVE Classified(g, r, f, d, T, B \cup {<<u, t>>}, R, n)
    <2>1. PICK k \in 1..l : s[k].vertex = t
      BY <1>7 DEF On
    <2>2. Under(T, t, u)
      <3>1. StackInTree(s, T)
        BY <1>1 DEF Spanning
      <3> QED
        BY <1>1, <2>1, <3>1, StackUnder
    <2>3. \A x \in B \cup {<<u, t>>} : x[1] \in Vertices /\ x[2] \in Vertices /\ Under(T, x[2], x[1])
      BY <1>1, <2>2
    <2> QED
      BY <1>1, <1>2, <1>4, <1>5, <1>6, <1>7, <2>3 DEF Classified
  <1>8. ASSUME Listed(f, t) PROVE Classified(g, r, f, d, T, B, R \cup {<<u, t>>}, n)
    <2>1. OrderedBy((T \cup R) \cup {<<u, t>>}, s, f)
      BY <1>1, <1>8, OrderPassed
    <2>2. (T \cup R) \cup {<<u, t>>} = T \cup (R \cup {<<u, t>>})
      OBVIOUS
    <2>3. OrderedBy(T \cup (R \cup {<<u, t>>}), r, f)
      BY <1>5, <2>1, <2>2
    <2> QED
      BY <1>1, <1>2, <1>4, <1>6, <1>8, <2>3 DEF Classified
  <1> QED
    BY <1>2, <1>7, <1>8 DEF AfterPassing

LEMMA ClassifiedTree ==
  ASSUME NEW g \in Adjacency, seed \in Vertices, NEW s, NEW f, NEW d, NEW T, NEW B, NEW R, NEW n \in Nat,
         Classified(g, s, f, d, T, B, R, n),
         NEW l \in Nat \ {0}, l = Len(s), NEW e, e = s[l], e.next <= Len(g[e.vertex]), e.next \in Nat \ {0},
         NEW u \in Vertices, u = e.vertex, NEW t \in Vertices, t = g[e.vertex][e.next], ~Listed(d, t),
         NEW m, Moved(m, s, l, e), NEW r, Topped(r, m, t)
  PROVE  AfterTree(g, s, r, f, d, T, B, R, n, u, t)
  <1>1. /\ Searching(g, s, f) /\ Discovering(g, s, f, d)
        /\ n + 1 = Len(d) /\ d[1] = seed
        /\ Spanning(g, s, d, T) /\ OrderedBy(T \cup R, s, f)
        /\ \A x \in B : x[1] \in Vertices /\ x[2] \in Vertices /\ Under(T, x[2], x[1])
        /\ s \in Seq(Frames) /\ l \in 1..Len(s) /\ d \in Seq(Vertices)
    BY DEF Classified, Searching, Discovering
  <1>2. ~On(s, t) /\ ~Listed(f, t)
    BY <1>1 DEF Discovering
  <1>3. Searching(g, r, f) /\ \A w : On(r, w) <=> On(s, w) \/ w = t
    <2>1. HasGoneDown(g, s, f, t, r)
      BY <1>1, <1>2, GoesDown
    <2> QED
      BY <2>1 DEF HasGoneDown
  <1>4. PICK b : b = Append(d, t)
    OBVIOUS
  <1>5. Discovering(g, r, f, b)
    BY <1>1, <1>4, MoreDiscovered
  <1>6. /\ Len(b) = Len(d) + 1 /\ \A w : Listed(b, w) <=> Listed(d, w) \/ w = t
        /\ \A i \in 1..Len(d) : b[i] = d[i]
    <2>1. HasAppended(b, d, t, Vertices)
      BY <1>1, <1>4, AppendListed
    <2> QED
      BY <2>1 DEF HasAppended
  <1>7. (n + 1) + 1 = Len(b) /\ b[1] = seed
    <2>1. 1 \in 1..Len(d)
      BY <1>1
    <2> QED
      BY <1>1, <1>6, <2>1
  <1>8. GrownBy(r, s, t)
    BY <1>1, ToppedGrown
  <1>9. PICK M : M = T \cup {<<u, t>>}
    OBVIOUS
  <1>10. Spanning(g, r, b, M)
    <2>1. t \in Successors(g)[u]
      <3>1. e.next \in 1..Len(g[u])
        BY ListsOfGraph
      <3> QED
        BY <3>1, SuccessorEdge
    <2>2. Listed(d, u)
      <3>1. On(s, u)
        BY <1>1 DEF On
      <3> QED
        BY <1>1, <3>1 DEF Discovering
    <2> QED
      BY <1>1, <1>6, <1>8, <1>9, <2>1, <2>2, TreeGrows
  <1>11. OrderedBy(M \cup R, r, f)
    <2>1. OrderedBy((T \cup R) \cup {<<u, t>>}, r, f)
      BY <1>1, <1>8, OrderGrows
    <2>2. (T \cup R) \cup {<<u, t>>} = M \cup R
      BY <1>9
    <2> QED
      BY <2>1, <2>2
  <1>12. \A x \in B : x[1] \in Vertices /\ x[2] \in Vertices /\ Under(M, x[2], x[1])
    <2>1. T \subseteq M
      BY <1>9
    <2> QED
      BY <1>1, <2>1, UnderMore
  <1>13. Classified(g, r, f, Append(d, t), T \cup {<<u, t>>}, B, R, n + 1)
    BY <1>3, <1>4, <1>5, <1>7, <1>9, <1>10, <1>11, <1>12 DEF Classified
  <1> QED
    BY <1>3, <1>13 DEF AfterTree

LEMMA ClassifiedFinished ==
  ASSUME NEW g \in Adjacency, seed \in Vertices, NEW s, NEW f, NEW d, NEW T, NEW B, NEW R, NEW n,
         Classified(g, s, f, d, T, B, R, n),
         NEW l \in Nat \ {0}, l = Len(s), NEW e, e = s[l], NEW v \in Vertices, v = e.vertex, e.next > Len(g[v]),
         NEW r, NEW h, Leaves(r, h, s, f, v)
  PROVE  AfterFinish(g, s, r, f, h, d, T, B, R, n, v)
  <1>1. /\ Searching(g, s, f) /\ Discovering(g, s, f, d)
        /\ n + 1 = Len(d) /\ d[1] = seed
        /\ Spanning(g, s, d, T) /\ OrderedBy(T \cup R, s, f)
        /\ \A x \in B : x[1] \in Vertices /\ x[2] \in Vertices /\ Under(T, x[2], x[1])
        /\ s \in Seq(Frames) /\ f \in Seq(Vertices)
    BY DEF Classified, Searching
  <1>2. HasGoneUp(g, s, f, e, v, r, h)
    BY <1>1, GoesUp
  <1>3. /\ Searching(g, r, h)
        /\ \A w : On(s, w) <=> On(r, w) \/ w = v
        /\ \A w : Listed(h, w) <=> Listed(f, w) \/ w = v
    BY <1>2 DEF HasGoneUp
  <1>4. ~On(r, v)
    BY <1>3 DEF Searching
  <1>5. Discovering(g, r, h, d)
    BY <1>1, <1>2, FinishedDiscovered
  <1>6. ShrunkFrom(r, s)
    BY <1>1, LeftShrunk
  <1>7. Spanning(g, r, d, T)
    BY <1>1, <1>6, TreeShrinks
  <1>8. OrderedBy(T \cup R, r, h)
    <2>1. h = Append(f, v)
      BY DEF Leaves
    <2> QED
      BY <1>1, <1>6, <2>1, OrderShrinks
  <1>9. Classified(g, r, h, d, T, B, R, n)
    BY <1>1, <1>3, <1>5, <1>7, <1>8 DEF Classified
  <1> QED
    BY <1>3, <1>4, <1>9 DEF AfterFinish

-----------------------------------------------------------------------------
(* The inductive invariant of depth_first_search *)

DfsBefore == stack = <<>> /\ color = [v \in Vertices |-> "White"]

DfsAfter ==
  LET f == VerticesIn(calls, "finish_vertex")
  IN  /\ calls \in Seq(VisitorCalls)
      /\ Shades(color, stack, f)
      /\ Classified(graph, stack, f, VerticesIn(calls, "discover_vertex"),
                    EdgesIn(calls, "tree_edge"), EdgesIn(calls, "back_edge"),
                    EdgesIn(calls, "forward_or_cross_edge"), Len(OfKind(calls, "tree_edge")))

DfsInv == /\ graph \in Adjacency /\ seed \in Vertices
          /\ calls = <<>> => DfsBefore
          /\ calls # <<>> => DfsAfter

LEMMA DfsBegins ==
  ASSUME Init, search = "depth_first_search"
  PROVE  DfsInv
  <1>1. graph \in Adjacency /\ seed \in Vertices
    BY GraphIsGiven
  <1>2. color = [v \in Vertices |-> "White"] /\ stack = <<>> /\ calls = <<>>
    BY DEF Init, Dfs!Init, Dfs!Vertices, Vertices
  <1> QED
    BY <1>1, <1>2 DEF DfsInv, DfsBefore

LEMMA DfsAfterNext ==
  ASSUME NEW f, NEW d, NEW T, NEW B, NEW R, NEW n, Tells(calls', d, f, T, B, R, n),
         Classified(graph', stack', f, d, T, B, R, n), Shades(color', stack', f), UNCHANGED seed
  PROVE  DfsAfter'
  <1>1. /\ calls' \in Seq(VisitorCalls) /\ n = Len(OfKind(calls', "tree_edge"))
        /\ d = VerticesIn(calls', "discover_vertex") /\ f = VerticesIn(calls', "finish_vertex")
        /\ T = EdgesIn(calls', "tree_edge") /\ B = EdgesIn(calls', "back_edge")
        /\ R = EdgesIn(calls', "forward_or_cross_edge")
    BY DEF Tells
  <1>2. Classified(graph, stack, f, d, T, B, R, n)'
    BY DEF Classified, Spanning
  <1> QED
    BY <1>1, <1>2 DEF DfsAfter

LEMMA DfsKept ==
  ASSUME NEW f, NEW d, NEW T, NEW B, NEW R, NEW n, Tells(calls', d, f, T, B, R, n),
         Classified(graph, stack', f, d, T, B, R, n), Shades(color', stack', f),
         graph \in Adjacency, seed \in Vertices, UNCHANGED <<graph, seed>>
  PROVE  DfsInv'
  <1>1. graph' = graph /\ seed' = seed
    OBVIOUS
  <1>2. calls' # <<>>
    <2>1. calls' = <<>> => d = <<>> /\ n = 0
      BY NothingTold DEF Tells
    <2>2. n + 1 = Len(d)
      BY DEF Classified
    <2> QED
      BY <2>1, <2>2, EmptySeq
  <1>3. DfsAfter'
    BY <1>1, DfsAfterNext
  <1> QED
    BY <1>1, <1>2, <1>3 DEF DfsInv

LEMMA DfsStarts ==
  ASSUME DfsInv, Dfs!Start
  PROVE  DfsInv'
  <1>1. /\ graph \in Adjacency /\ seed \in Vertices /\ color = [v \in Vertices |-> "White"]
        /\ UNCHANGED <<graph, seed>>
    BY DEF DfsInv, DfsBefore, Dfs!Start
  <1>2. /\ color' = [color EXCEPT ![seed] = "Gray"] /\ stack' = <<New(seed)>>
        /\ calls' = <<Call("initialize_vertex", seed, seed), Call("start_vertex", seed, seed),
                      Call("discover_vertex", seed, seed)>>
    BY DEF Dfs!Start, Dfs!Frame, New, Dfs!VertexCall, Call
  <1>3. PICK v \in Vertices : v = seed
    BY <1>1
  <1>4. PICK f : f = <<>>
    OBVIOUS
  <1>5. PICK d : d = <<v>>
    OBVIOUS
  <1>6. Tells(calls', d, f, {}, {}, {}, 0)
    BY <1>2, <1>3, <1>4, <1>5, StartTells
  <1>7. Classified(graph, stack', f, d, {}, {}, {}, 0)
    BY <1>1, <1>2, <1>3, <1>4, <1>5, ClassifiedFirst
  <1>8. Shades(color', stack', f)
    <2>1. f \in Seq(Vertices) /\ Distinct(f) /\ \A w : ~Listed(f, w)
      BY <1>4, EmptySeq DEF Distinct, Listed
    <2>2. \A w : On(stack', w) <=> w = v
      BY <1>2, <1>3, <2>1, FirstFrame
    <2> QED
      BY <1>1, <1>2, <1>3, <2>1, <2>2, FirstShade
  <1> QED
    BY <1>1, <1>6, <1>7, <1>8, DfsKept

\* An iteration: e is the entry on top, of the vertex u.
Iterating(l, e, u, f, d, T, B, R, n) ==
  /\ l \in Nat \ {0} /\ l = Len(stack) /\ e = stack[l] /\ e = Dfs!top
  /\ u \in Vertices /\ u = e.vertex /\ e.next \in Nat \ {0}
  /\ Tells(calls, d, f, T, B, R, n) /\ d \in Seq(Vertices) /\ f \in Seq(Vertices) /\ n \in Nat
  /\ Classified(graph, stack, f, d, T, B, R, n) /\ Shades(color, stack, f)

LEMMA DfsIterates ==
  ASSUME DfsInv, stack # <<>>
  PROVE  \E l, e, u, f, d, T, B, R, n : Iterating(l, e, u, f, d, T, B, R, n)
  <1>1. DfsAfter
    BY DEF DfsInv, DfsBefore
  <1>2. PICK f : f = VerticesIn(calls, "finish_vertex")
    OBVIOUS
  <1>3. PICK d : d = VerticesIn(calls, "discover_vertex")
    OBVIOUS
  <1>4. PICK T : T = EdgesIn(calls, "tree_edge")
    OBVIOUS
  <1>5. PICK B : B = EdgesIn(calls, "back_edge")
    OBVIOUS
  <1>6. PICK R : R = EdgesIn(calls, "forward_or_cross_edge")
    OBVIOUS
  <1>7. PICK n : n = Len(OfKind(calls, "tree_edge"))
    OBVIOUS
  <1>8. /\ calls \in Seq(VisitorCalls) /\ Shades(color, stack, f)
        /\ Classified(graph, stack, f, d, T, B, R, n)
    BY <1>1, <1>2, <1>3, <1>4, <1>5, <1>6, <1>7 DEF DfsAfter
  <1>9. Tells(calls, d, f, T, B, R, n)
    BY <1>2, <1>3, <1>4, <1>5, <1>6, <1>7, <1>8 DEF Tells
  <1>10. stack \in Seq(Frames)
    BY <1>8 DEF Classified, Searching
  <1>11. PICK l \in Nat \ {0} : l = Len(stack)
    BY <1>10, LenProperties, EmptySeq
  <1>12. PICK e : e = stack[l] /\ e = Dfs!top
    BY <1>11 DEF Dfs!top, Dfs!Last
  <1>13. e.vertex \in Vertices /\ e.next \in Nat \ {0}
    <2>1. l \in 1..Len(stack)
      BY <1>11
    <2> QED
      BY <1>10, <1>12, <2>1, FrameOf
  <1>14. Iterating(l, e, e.vertex, f, d, T, B, R, n)
    BY <1>8, <1>9, <1>11, <1>12, <1>13, TellsTypes DEF Iterating
  <1> QED
    BY <1>14

LEMMA DfsFinishes ==
  ASSUME DfsInv, Dfs!Finish
  PROVE  DfsInv'
  <1>1. graph \in Adjacency /\ seed \in Vertices
    BY DEF DfsInv
  <1>2. /\ stack # <<>> /\ Dfs!top.next > Len(graph[Dfs!top.vertex])
        /\ color' = [color EXCEPT ![Dfs!top.vertex] = "Black"]
        /\ stack' = Front(stack)
        /\ calls' = Append(calls, Call("finish_vertex", Dfs!top.vertex, Dfs!top.vertex))
        /\ UNCHANGED <<graph, seed>>
    BY DEF Dfs!Finish, Dfs!Exhausted, Dfs!Front, Front, Dfs!VertexCall, Call
  <1>3. PICK l, e, u, f, d, T, B, R, n : Iterating(l, e, u, f, d, T, B, R, n)
    BY <1>2, DfsIterates
  <1>4. /\ l \in Nat \ {0} /\ l = Len(stack) /\ e = stack[l] /\ e = Dfs!top
        /\ u \in Vertices /\ u = e.vertex /\ e.next \in Nat \ {0}
        /\ Tells(calls, d, f, T, B, R, n) /\ d \in Seq(Vertices) /\ f \in Seq(Vertices) /\ n \in Nat
        /\ Classified(graph, stack, f, d, T, B, R, n) /\ Shades(color, stack, f)
    BY <1>3 DEF Iterating
  <1>5. PICK h : h = Append(f, u)
    OBVIOUS
  <1>6. ToldFinished(calls', calls, u) /\ Leaves(stack', h, stack, f, u) /\ e.next > Len(graph[u])
    BY <1>2, <1>4, <1>5 DEF ToldFinished, Leaves
  <1>7. Tells(calls', d, h, T, B, R, n)
    BY <1>4, <1>5, <1>6, FinishTells
  <1>8. /\ Classified(graph, stack', h, d, T, B, R, n)
        /\ \A w : On(stack, w) <=> On(stack', w) \/ w = u
        /\ \A w : Listed(h, w) <=> Listed(f, w) \/ w = u
        /\ ~On(stack', u)
    <2>1. AfterFinish(graph, stack, stack', f, h, d, T, B, R, n, u)
      BY <1>1, <1>4, <1>6, ClassifiedFinished
    <2> QED
      BY <2>1 DEF AfterFinish
  <1>9. Shades(color', stack', h)
    BY <1>2, <1>4, <1>8, BlackShade
  <1> QED
    BY <1>1, <1>2, <1>7, <1>8, <1>9, DfsKept

\* The next edge of e leads to t.
LEMMA DfsTarget ==
  ASSUME graph \in Adjacency, NEW e, e = Dfs!top, NEW u \in Vertices, u = e.vertex, e.next \in Nat \ {0},
         ~Dfs!Exhausted
  PROVE  e.next <= Len(graph[u]) /\ e.next \in 1..Len(graph[u])
         /\ \E t \in Vertices : t = graph[u][e.next] /\ t = Dfs!target
  <1>1. e.next <= Len(graph[u]) /\ e.next \in 1..Len(graph[u])
    BY ListsOfGraph DEF Dfs!Exhausted
  <1>2. graph[u][e.next] \in Vertices
    BY <1>1, ListsOfGraph
  <1> QED
    BY <1>1, <1>2 DEF Dfs!target

ThreeCalls(r, s, kind, u, t) ==
  r = s \o <<Call("examine_edge", u, t), Call(kind, u, t), Call("finish_edge", u, t)>>

LEMMA CallsTold ==
  ASSUME NEW s \in Seq(VisitorCalls), NEW kind \in SearchEvents, NEW u \in Vertices, NEW t \in Vertices,
         NEW r, ThreeCalls(r, s, kind, u, t)
  PROVE  ToldEdge(r, s, kind, u, t)
  <1>1. PICK a \in VisitorCalls : a = Call("examine_edge", u, t)
    BY CallIs DEF SearchEvents
  <1>2. PICK b \in VisitorCalls : b = Call(kind, u, t)
    BY CallIs
  <1>3. PICK c \in VisitorCalls : c = Call("finish_edge", u, t)
    BY CallIs DEF SearchEvents
  <1>4. s \o <<a, b, c>> = Append(Append(Append(s, a), b), c)
    BY ThreeAppended
  <1> QED
    BY <1>1, <1>2, <1>3, <1>4 DEF ToldEdge, ThreeCalls

LEMMA DfsPasses ==
  ASSUME DfsInv, Dfs!PassEdge
  PROVE  DfsInv'
  <1>1. graph \in Adjacency /\ seed \in Vertices
    BY DEF DfsInv
  <1>2. /\ stack # <<>> /\ ~Dfs!Exhausted
        /\ color[Dfs!target] # "White"
        /\ stack' = Dfs!Advanced
        /\ UNCHANGED <<graph, seed, color>>
    BY DEF Dfs!PassEdge
  <1>3. PICK l, e, u, f, d, T, B, R, n : Iterating(l, e, u, f, d, T, B, R, n)
    BY <1>2, DfsIterates
  <1>4. /\ l \in Nat \ {0} /\ l = Len(stack) /\ e = stack[l] /\ e = Dfs!top
        /\ u \in Vertices /\ u = e.vertex /\ e.next \in Nat \ {0}
        /\ Tells(calls, d, f, T, B, R, n) /\ d \in Seq(Vertices) /\ f \in Seq(Vertices) /\ n \in Nat
        /\ Classified(graph, stack, f, d, T, B, R, n) /\ Shades(color, stack, f)
    BY <1>3 DEF Iterating
  <1>5. e.next <= Len(graph[u])
    BY <1>1, <1>2, <1>4, DfsTarget
  <1>6. PICK t \in Vertices : t = graph[u][e.next] /\ t = Dfs!target
    BY <1>1, <1>2, <1>4, DfsTarget
  <1>7. PICK kind : kind = IF color[t] = "Gray" THEN "back_edge" ELSE "forward_or_cross_edge"
    OBVIOUS
  <1>8. ThreeCalls(calls', calls, kind, u, t)
    BY <1>4, <1>6, <1>7 DEF ThreeCalls, Dfs!PassEdge, Dfs!Told, Dfs!EdgeCall, Call
  <1>9. ToldEdge(calls', calls, kind, u, t) /\ kind \in {"tree_edge", "back_edge", "forward_or_cross_edge"}
    <2>1. kind \in SearchEvents /\ kind \in {"tree_edge", "back_edge", "forward_or_cross_edge"}
      BY <1>7 DEF SearchEvents
    <2>2. calls \in Seq(VisitorCalls)
      BY <1>4 DEF Tells
    <2>3. PICK s \in Seq(VisitorCalls) : s = calls
      BY <2>2
    <2>4. PICK r : r = calls'
      OBVIOUS
    <2>5. ThreeCalls(r, s, kind, u, t)
      BY <1>8, <2>3, <2>4
    <2>6. ToldEdge(r, s, kind, u, t)
      BY <1>4, <2>1, <2>5, CallsTold
    <2> QED
      BY <2>1, <2>3, <2>4, <2>6
  <1>10. PICK r : r = stack'
    OBVIOUS
  <1>11. Moved(r, stack, l, e)
    BY <1>2, <1>4, <1>10 DEF Moved, Dfs!Advanced
  <1>12. /\ On(stack, t) => Classified(graph, r, f, d, T, B \cup {<<u, t>>}, R, n)
         /\ Listed(f, t) => Classified(graph, r, f, d, T, B, R \cup {<<u, t>>}, n)
         /\ \A w : On(r, w) <=> On(stack, w)
    <2>1. AfterPassing(graph, stack, r, f, d, T, B, R, n, u, t)
      BY <1>1, <1>4, <1>5, <1>6, <1>11, ClassifiedPassed
    <2> QED
      BY <2>1 DEF AfterPassing
  <1>13. Shades(color', stack', f)
    BY <1>2, <1>4, <1>10, <1>12 DEF Shades
  <1>14. Tells(calls', d, f, IF kind = "tree_edge" THEN T \cup {<<u, t>>} ELSE T,
                  IF kind = "back_edge" THEN B \cup {<<u, t>>} ELSE B,
                  IF kind = "forward_or_cross_edge" THEN R \cup {<<u, t>>} ELSE R,
                  IF kind = "tree_edge" THEN n + 1 ELSE n)
    <2>1. EdgeTold(calls', d, f, T, B, R, n, kind, u, t)
      BY <1>4, <1>9, EdgeTells
    <2> QED
      BY <2>1 DEF EdgeTold
  <1>15. CASE color[t] = "Gray"
    <2>1. kind = "back_edge" /\ On(stack, t)
      BY <1>4, <1>7, <1>15 DEF Shades
    <2>2. Tells(calls', d, f, T, B \cup {<<u, t>>}, R, n)
      BY <1>14, <2>1
    <2>3. Classified(graph, stack', f, d, T, B \cup {<<u, t>>}, R, n)
      BY <1>10, <1>12, <2>1
    <2> QED
      BY <1>1, <1>2, <1>13, <2>2, <2>3, DfsKept
  <1>16. CASE color[t] # "Gray"
    <2>1. kind = "forward_or_cross_edge" /\ Listed(f, t)
      BY <1>2, <1>4, <1>6, <1>7, <1>16 DEF Shades, Colors
    <2>2. Tells(calls', d, f, T, B, R \cup {<<u, t>>}, n)
      BY <1>14, <2>1
    <2>3. Classified(graph, stack', f, d, T, B, R \cup {<<u, t>>}, n)
      BY <1>10, <1>12, <2>1
    <2> QED
      BY <1>1, <1>2, <1>13, <2>2, <2>3, DfsKept
  <1> QED
    BY <1>15, <1>16

LEMMA DfsFollows ==
  ASSUME DfsInv, Dfs!FollowTreeEdge
  PROVE  DfsInv'
  <1>1. graph \in Adjacency /\ seed \in Vertices
    BY DEF DfsInv
  <1>2. /\ stack # <<>> /\ ~Dfs!Exhausted
        /\ color[Dfs!target] = "White"
        /\ color' = [color EXCEPT ![Dfs!target] = "Gray"]
        /\ stack' = Append(Dfs!Advanced, New(Dfs!target))
        /\ UNCHANGED <<graph, seed>>
    BY DEF Dfs!FollowTreeEdge, Dfs!Frame, New
  <1>3. PICK l, e, u, f, d, T, B, R, n : Iterating(l, e, u, f, d, T, B, R, n)
    BY <1>2, DfsIterates
  <1>4. /\ l \in Nat \ {0} /\ l = Len(stack) /\ e = stack[l] /\ e = Dfs!top
        /\ u \in Vertices /\ u = e.vertex /\ e.next \in Nat \ {0}
        /\ Tells(calls, d, f, T, B, R, n) /\ d \in Seq(Vertices) /\ f \in Seq(Vertices) /\ n \in Nat
        /\ Classified(graph, stack, f, d, T, B, R, n) /\ Shades(color, stack, f)
    BY <1>3 DEF Iterating
  <1>5. e.next <= Len(graph[u])
    BY <1>1, <1>2, <1>4, DfsTarget
  <1>6. PICK t \in Vertices : t = graph[u][e.next] /\ t = Dfs!target
    BY <1>1, <1>2, <1>4, DfsTarget
  <1>7. PICK q : ThreeCalls(q, calls, "tree_edge", u, t)
    BY DEF ThreeCalls
  <1>8. calls' = Append(q, Call("discover_vertex", t, t))
    BY <1>4, <1>6, <1>7 DEF ThreeCalls, Dfs!FollowTreeEdge, Dfs!Told, Dfs!EdgeCall, Dfs!VertexCall, Call
  <1>9. ToldTree(calls', calls, u, t)
    <2>1. PICK kind \in SearchEvents : kind = "tree_edge"
      BY DEF SearchEvents
    <2>2. calls \in Seq(VisitorCalls)
      BY <1>4 DEF Tells
    <2>3. ThreeCalls(q, calls, kind, u, t)
      BY <1>7, <2>1
    <2>4. ToldEdge(q, calls, kind, u, t)
      BY <1>4, <2>2, <2>3, CallsTold
    <2> QED
      BY <1>8, <2>1, <2>4 DEF ToldTree
  <1>10. Tells(calls', Append(d, t), f, T \cup {<<u, t>>}, B, R, n + 1)
    BY <1>4, <1>9, TreeTells
  <1>11. PICK m : m = Dfs!Advanced
    OBVIOUS
  <1>12. Moved(m, stack, l, e)
    BY <1>4, <1>11 DEF Moved, Dfs!Advanced
  <1>13. PICK r : r = stack'
    OBVIOUS
  <1>14. Topped(r, m, t)
    BY <1>2, <1>6, <1>11, <1>13 DEF Topped
  <1>15. ~Listed(d, t)
    <2>1. Discovering(graph, stack, f, d)
      BY <1>4 DEF Classified
    <2> QED
      BY <1>2, <1>4, <1>6, <2>1, ShadeIs
  <1>16. /\ Classified(graph, r, f, Append(d, t), T \cup {<<u, t>>}, B, R, n + 1)
         /\ \A w : On(r, w) <=> On(stack, w) \/ w = t
    <2>1. AfterTree(graph, stack, r, f, d, T, B, R, n, u, t)
      BY <1>1, <1>4, <1>5, <1>6, <1>12, <1>14, <1>15, ClassifiedTree
    <2> QED
      BY <2>1 DEF AfterTree
  <1>17. Shades(color', stack', f)
    BY <1>2, <1>4, <1>6, <1>13, <1>16, GrayShade
  <1>18. Classified(graph, stack', f, Append(d, t), T \cup {<<u, t>>}, B, R, n + 1)
    BY <1>13, <1>16
  <1> QED
    BY <1>1, <1>2, <1>10, <1>17, <1>18, DfsKept

LEMMA DfsSteps ==
  ASSUME DfsInv, Dfs!SearchNext
  PROVE  DfsInv'
  BY DfsStarts, DfsFinishes, DfsFollows, DfsPasses DEF Dfs!SearchNext

-----------------------------------------------------------------------------
(* The edges are classified rightly *)

LEMMA DistinctSize ==
  ASSUME NEW d \in Seq(Vertices), Distinct(d), NEW D, D = {v \in Vertices : Listed(d, v)}
  PROVE  Cardinality(D) = Len(d)
  <1>1. PICK n \in Nat : n = Len(d) /\ DOMAIN d = 1..n
    BY LenProperties
  <1>2. \A i \in 1..n : d[i] \in Vertices
    BY <1>1, ElementOfSeq
  <1>3. PICK b : b = [i \in 1..n |-> d[i]]
    OBVIOUS
  <1>4. b \in [1..n -> D]
    BY <1>1, <1>2, <1>3 DEF Listed
  <1>5. \A w \in D : \E i \in 1..n : b[i] = w
    BY <1>1, <1>3 DEF Listed
  <1>6. \A i, j \in 1..n : b[i] = b[j] => i = j
    BY <1>1, <1>3 DEF Distinct
  <1>7. b \in Bijection(1..n, D)
    BY <1>4, <1>5, <1>6 DEF Bijection, Surjection, Injection, IsInjective
  <1> QED
    BY <1>1, <1>7, FS_CountingElements DEF ExistsBijection

\* What the search has discovered when it ends.
LEMMA DiscoveredIsReached ==
  ASSUME NEW g \in Adjacency, seed \in Vertices, NEW f, NEW d, NEW T, NEW B, NEW R, NEW n \in Nat,
         NEW s, s = <<>>, Classified(g, s, f, d, T, B, R, n),
         NEW D, D = {v \in Vertices : Listed(d, v)}
  PROVE  D = ReachedFrom(g, seed)
  <1>1. /\ Discovering(g, s, f, d) /\ Spanning(g, s, d, T) /\ d \in Seq(Vertices)
        /\ n + 1 = Len(d) /\ d[1] = seed
    BY DEF Classified, Discovering
  <1>2. ReachesOnwards(Vertices, g, seed)
    BY VerticesFinite, Reachability DEF Adjacency
  <1>3. \A w : Listed(d, w) <=> Listed(f, w)
    <2>1. Len(s) = 0 /\ \A i \in 1..0 : FALSE
      BY EmptySeq
    <2> QED
      BY <1>1, <2>1 DEF Discovering, On
  <1>4. ClosedIn(g, D)
    <2> SUFFICES ASSUME NEW x \in D, NEW i \in 1..Len(g[x]) PROVE g[x][i] \in D
      BY DEF ClosedIn
    <2>1. x \in Vertices /\ Listed(f, x)
      BY <1>3
    <2>2. Listed(d, g[x][i])
      BY <1>1, <2>1 DEF Discovering
    <2>3. g[x][i] \in Vertices
      BY <2>1, ListsOfGraph
    <2> QED
      BY <2>2, <2>3
  <1>5. seed \in D
    <2>1. 1 \in 1..Len(d)
      BY <1>1
    <2> QED
      BY <1>1, <2>1 DEF Listed
  <1>6. ReachedFrom(g, seed) \subseteq D
    BY <1>2, <1>4, <1>5 DEF ReachesOnwards
  <1>7. \A v : Under(T, seed, v) => v \in ReachedFrom(g, seed)
    <2>1. PICK S : S = ReachedFrom(g, seed)
      OBVIOUS
    <2>2. S \in SUBSET Vertices /\ seed \in S
      BY <1>2, <2>1 DEF ReachesOnwards
    <2>3. \A x \in S : \A y \in Vertices : <<x, y>> \in T => y \in S
      <3> SUFFICES ASSUME NEW x \in S, NEW y \in Vertices, <<x, y>> \in T PROVE y \in S
        OBVIOUS
      <3>1. y \in Successors(g)[x]
        BY <1>1 DEF Spanning
      <3>2. PICK i \in 1..Len(g[x]) : g[x][i] = y
        BY <2>2, <3>1, SuccessorEdge
      <3> QED
        BY <1>2, <2>1, <3>2 DEF ReachesOnwards
    <2> QED
      BY <2>1, <2>2, <2>3, UnderIs
  <1>8. D \subseteq ReachedFrom(g, seed)
    BY <1>1, <1>7 DEF Spanning
  <1> QED
    BY <1>6, <1>8

LEMMA DfsClassifies ==
  ASSUME DfsInv
  PROVE  Dfs!EdgesClassified
  <1> SUFFICES ASSUME calls # <<>>, stack = <<>> PROVE Dfs!EdgesClassified
    BY DEF Dfs!EdgesClassified, Dfs!SearchReturned
  <1>1. graph \in Adjacency /\ seed \in Vertices /\ DfsAfter
    BY DEF DfsInv
  <1>2. PICK f : f = VerticesIn(calls, "finish_vertex")
    OBVIOUS
  <1>3. PICK d : d = VerticesIn(calls, "discover_vertex")
    OBVIOUS
  <1>4. PICK T : T = EdgesIn(calls, "tree_edge")
    OBVIOUS
  <1>5. PICK B : B = EdgesIn(calls, "back_edge")
    OBVIOUS
  <1>6. PICK R : R = EdgesIn(calls, "forward_or_cross_edge")
    OBVIOUS
  <1>7. PICK n : n = Len(OfKind(calls, "tree_edge"))
    OBVIOUS
  <1>8. Classified(graph, stack, f, d, T, B, R, n) /\ Tells(calls, d, f, T, B, R, n)
    BY <1>1, <1>2, <1>3, <1>4, <1>5, <1>6, <1>7 DEF DfsAfter, Tells
  <1>9. n \in Nat /\ d \in Seq(Vertices) /\ f \in Seq(Vertices)
    BY <1>8, TellsTypes
  <1>10. /\ Discovering(graph, stack, f, d) /\ Distinct(d) /\ Distinct(f)
         /\ n + 1 = Len(d) /\ d[1] = seed
         /\ Spanning(graph, stack, d, T) /\ OrderedBy(T \cup R, stack, f)
         /\ \A e \in B : e[1] \in Vertices /\ e[2] \in Vertices /\ Under(T, e[2], e[1])
    BY <1>8 DEF Classified, Discovering, Searching
  <1>11. PICK D : D = {v \in Vertices : Listed(d, v)}
    OBVIOUS
  <1>12. D = ReachedFrom(graph, seed)
    BY <1>1, <1>8, <1>9, <1>11, DiscoveredIsReached
  <1>13. n = Cardinality(D) - 1
    BY <1>9, <1>10, <1>11, DistinctSize
  <1>14. ~CyclicWithin(Tree(T \cup R), Vertices)
    BY <1>9, <1>10, EmptySeq, OrderedAcyclic
  <1>15. \A v \in D : Under(T, seed, v)
    BY <1>10, <1>11 DEF Spanning
  \* The definitions of the algorithm's module.
  <1>16. Dfs!Vertices = Vertices
    BY DEF Dfs!Vertices, Vertices
  <1>17. \A event : Dfs!OfKind(calls, event) = OfKind(calls, event)
    BY DEF Dfs!OfKind, OfKind
  <1>18. \A event : Dfs!EdgesOf(event) = EdgesIn(calls, event)
    BY <1>17 DEF Dfs!EdgesOf, Dfs!CallsOf, EdgesIn, ToSet, Dfs!ToSet
  <1>19. \A succ, S, u : Dfs!ReachedWithin(succ, S, u) = ReachedWithin(succ, S, u)
    BY DEF ReachedWithin, Dfs!ReachedWithin, Cardinality, Dfs!Cardinality
  <1>20. \A succ, S : Dfs!CyclicWithin(succ, S) <=> CyclicWithin(succ, S)
    BY <1>19 DEF CyclicWithin, Dfs!CyclicWithin
  <1>21. Dfs!Reached(Dfs!Successors(graph), seed) = D
    <2>1. Dfs!Successors(graph) = Successors(graph)
      BY DEF Successors, Dfs!Successors
    <2> QED
      BY <1>12, <1>19, <2>1 DEF Reached, Dfs!Reached, ReachedFrom
  <1>22. \A u, v : Dfs!TreePath(u, v) <=> Under(T, u, v)
    <2>0. PICK t : t = Tree(T)
      OBVIOUS
    <2>1. t = Tree(T) /\ DOMAIN t = Vertices
      BY <2>0 DEF Tree
    <2>2. t = [w \in Dfs!Vertices |-> {x \in Dfs!Vertices : <<w, x>> \in Dfs!EdgesOf("tree_edge")}]
      BY <1>4, <1>16, <1>18, <2>1 DEF Tree
    <2>3. \A u, v : Dfs!TreePath(u, v) <=> v \in Dfs!Reached(t, u)
      BY <2>2 DEF Dfs!TreePath
    <2>4. \A u : Dfs!Reached(t, u) = ReachedWithin(t, Vertices, u)
      BY <1>19, <2>1 DEF Dfs!Reached
    <2> QED
      BY <2>1, <2>3, <2>4 DEF Under
  <1>23. Len(Dfs!CallsOf("tree_edge")) = Dfs!Cardinality(Dfs!Reached(Dfs!Successors(graph), seed)) - 1
    <2>1. Dfs!Cardinality(D) = Cardinality(D)
      BY DEF Cardinality, Dfs!Cardinality
    <2> QED
      BY <1>7, <1>13, <1>17, <1>21, <2>1 DEF Dfs!CallsOf
  <1>24. \A v \in Dfs!Reached(Dfs!Successors(graph), seed) : Dfs!TreePath(seed, v)
    BY <1>15, <1>21, <1>22
  <1>25. \A e \in Dfs!EdgesOf("back_edge") : Dfs!TreePath(e[2], e[1])
    BY <1>5, <1>10, <1>18, <1>22
  <1>26. PICK X : X = Tree(T \cup R)
    OBVIOUS
  <1>27. X = [u \in Dfs!Vertices |-> {v \in Dfs!Vertices :
                <<u, v>> \in Dfs!EdgesOf("tree_edge") \cup Dfs!EdgesOf("forward_or_cross_edge")}]
    BY <1>4, <1>6, <1>16, <1>18, <1>26 DEF Tree
  <1>28. ~Dfs!CyclicWithin(X, Dfs!Vertices)
    BY <1>14, <1>16, <1>20, <1>26
  <1> QED
    BY <1>23, <1>24, <1>25, <1>27, <1>28 DEF Dfs!EdgesClassified

\* depth_first_search (src/include/graph/algorithm/depth_first_search.hpp): when it
\* returns, the visitor has been told of one tree edge less than there are vertices
\* reached, and they lead from the seed to all of them; a back edge leads to an ancestor in
\* this tree; and the tree edges and the forward and cross edges have no cycle together.
THEOREM EdgesStayClassified == Spec => []EdgesClassified
  <1> DEFINE Inv == search = "depth_first_search" => DfsInv
  <1>1. Init => Inv
    BY DfsBegins
  <1>2. Inv /\ [Next]_vars => Inv'
    <2> SUFFICES ASSUME Inv, [Next]_vars PROVE Inv'
      OBVIOUS
    <2>1. CASE UNCHANGED vars
      <3>1. UNCHANGED <<search, graph, seed, calls, color, stack>>
        BY <2>1 DEF vars, arguments
      <3> QED
        BY <3>1 DEF DfsInv, DfsBefore, DfsAfter, Classified, Spanning
    <2>2. CASE Next
      <3>1. search' = search
        BY <2>2 DEF Next, arguments
      <3>2. search = "depth_first_search" => Dfs!SearchNext
        BY <2>2 DEF Next
      <3> QED
        BY <3>1, <3>2, DfsSteps
    <2> QED
      BY <2>1, <2>2
  <1>3. Inv => EdgesClassified
    BY DfsClassifies DEF EdgesClassified
  <1> QED
    BY <1>1, <1>2, <1>3, PTL DEF Spec

-----------------------------------------------------------------------------
(* Vertices in depth-first order *)

\* t is the next: the k-th vertex leads to it, and those after the k-th to nothing else new.
ComesNext(succ, d, k, t) ==
  /\ k \in 1..Len(d) /\ t \in succ[d[k]] /\ ~Listed(d, t)
  /\ \A a \in 1..Len(d) : a > k => \A w \in succ[d[a]] : Listed(d, w) \/ w = t

LEMMA DepthwiseGrows ==
  ASSUME NEW succ, NEW d \in Seq(Vertices), Depthwise(succ, d), NEW t \in Vertices, NEW k, ComesNext(succ, d, k, t)
  PROVE  Depthwise(succ, Append(d, t))
  <1>1. PICK r : r = Append(d, t)
    OBVIOUS
  <1>2. PICK n : n = Len(d)
    OBVIOUS
  <1>3. HasAppended(r, d, t, Vertices)
    BY <1>1, AppendListed
  <1>4. /\ n \in Nat /\ Len(r) = n + 1
        /\ \A i \in 1..n : r[i] = d[i] /\ i \in 1..(n + 1)
        /\ r[n + 1] = t
        /\ \A i \in 1..(n + 1) : i \in 1..n \/ i = n + 1
        /\ Distinct(r)
    BY <1>2, <1>3 DEF HasAppended, Depthwise, ComesNext
  <1>5. k \in 1..n /\ t \in succ[d[k]]
    BY <1>2 DEF ComesNext
  <1>6. r[k] = d[k] /\ r[n + 1] \in succ[r[k]] /\ k \in 1..((n + 1) - 1)
    BY <1>4, <1>5
  <1>7. ASSUME NEW b \in 2..(n + 1) PROVE \E c \in 1..(b - 1) : r[b] \in succ[r[c]]
    <2>1. CASE b = n + 1
      BY <1>6, <2>1
    <2>2. CASE b \in 2..n
      <3>1. PICK c \in 1..(b - 1) : d[b] \in succ[d[c]]
        BY <1>2, <2>2 DEF Depthwise
      <3>2. b \in 1..n /\ c \in 1..n
        BY <1>4, <2>2
      <3> QED
        BY <1>4, <3>1, <3>2
    <2>3. b \in 2..n \/ b = n + 1
      BY <1>4
    <2> QED
      BY <2>1, <2>2, <2>3
  <1>8. ASSUME NEW a \in 1..(n + 1), NEW b \in 1..(n + 1), NEW w \in succ[r[a]], a < b, \A i \in 1..b : r[i] # w
        PROVE  \E c \in a..(b - 1) : r[b] \in succ[r[c]]
    <2>1. a \in 1..n /\ r[a] = d[a]
      BY <1>4, <1>8
    <2>2. CASE b = n + 1
      <3>1. a <= k
        <4> SUFFICES ASSUME a > k PROVE FALSE
          BY <1>5, <2>1
        <4>1. Listed(d, w) \/ w = t
          BY <1>2, <2>1 DEF ComesNext
        <4>2. n + 1 \in 1..b /\ \A i \in 1..n : i \in 1..b
          BY <1>4, <2>2
        <4>3. ~Listed(d, w)
          <5>1. \A i \in 1..n : d[i] # w
            BY <1>4, <1>8, <4>2
          <5> QED
            BY <1>2, <5>1 DEF Listed
        <4> QED
          BY <1>4, <1>8, <4>1, <4>2, <4>3
      <3>2. k \in a..(b - 1)
        BY <1>4, <1>5, <2>1, <2>2, <3>1
      <3> QED
        BY <1>6, <2>2, <3>2
    <2>3. CASE b \in 1..n
      <3>1. \A i \in 1..b : d[i] # w
        <4> TAKE i \in 1..b
        <4>1. i \in 1..n
          BY <1>4, <2>3
        <4> QED
          BY <1>4, <1>8, <4>1
      <3>2. PICK c \in a..(b - 1) : d[b] \in succ[d[c]]
        BY <1>2, <1>8, <2>1, <2>3, <3>1 DEF Depthwise
      <3>3. c \in 1..n
        BY <1>4, <2>1, <2>3
      <3> QED
        BY <1>4, <2>3, <3>2, <3>3
    <2> QED
      BY <1>4, <2>2, <2>3
  <1>9. Depthwise(succ, r)
    BY <1>4, <1>7, <1>8 DEF Depthwise
  <1> QED
    BY <1>1, <1>9

LEMMA NestedGrows ==
  ASSUME NEW r \in Seq(Frames), NEW U, NEW c \in Seq(U), NEW v \in Vertices, v \in U, Nested(r, c), ~Listed(c, v),
         \A i \in 1..Len(r) : Listed(c, r[i].vertex), NEW q, q = Append(r, New(v))
  PROVE  Nested(q, Append(c, v))
  <1>1. PICK m : m = Len(r)
    OBVIOUS
  <1>2. PICK n : n = Len(c)
    OBVIOUS
  <1>3. PICK e : e = Append(c, v)
    OBVIOUS
  <1>4. /\ n \in Nat /\ Len(e) = n + 1
        /\ \A i \in 1..n : e[i] = c[i]
        /\ e[n + 1] = v
        /\ \A i \in 1..(n + 1) : i \in 1..n \/ i = n + 1
    <2>1. HasAppended(e, c, v, U)
      BY <1>3, AppendListed
    <2> QED
      BY <1>2, <2>1 DEF HasAppended
  <1>5. /\ m \in Nat /\ Len(q) = m + 1
        /\ \A k \in 1..m : q[k].vertex = r[k].vertex
        /\ q[m + 1].vertex = v
    <2>1. New(v) \in Frames /\ New(v).vertex = v
      BY DEF New, Frames
    <2> QED
      BY <1>1, <2>1, AppendProperties, LenProperties
  <1>6. \A k \in 1..(m + 1) : k \in 1..m \/ k = m + 1
    BY <1>5
  <1>7. \A i \in 1..n : c[i] # v
    BY <1>2 DEF Listed
  <1>8. \A k \in 1..m : r[k].vertex # v
    BY <1>1, <1>2, <1>7 DEF Listed
  <1>9. ASSUME NEW k \in 1..(m + 1), NEW l \in 1..(m + 1), NEW i \in 1..(n + 1), NEW j \in 1..(n + 1),
               k < l, e[i] = q[k].vertex, e[j] = q[l].vertex
        PROVE  i < j
    <2>1. k \in 1..m
      BY <1>5, <1>9
    <2>2. e[i] # v /\ i \in 1..n
      BY <1>4, <1>5, <1>8, <1>9, <2>1
    <2>3. CASE l = m + 1
      <3>1. e[j] = v /\ j \notin 1..n
        BY <1>4, <1>5, <1>7, <1>9, <2>3
      <3> QED
        BY <1>4, <2>2, <3>1
    <2>4. CASE l \in 1..m
      <3>1. e[j] # v /\ j \in 1..n
        BY <1>4, <1>5, <1>8, <1>9, <2>4
      <3>2. c[i] = r[k].vertex /\ c[j] = r[l].vertex
        BY <1>4, <1>5, <1>9, <2>1, <2>2, <2>4, <3>1
      <3> QED
        BY <1>1, <1>2, <1>9, <2>1, <2>2, <2>4, <3>1, <3>2 DEF Nested
    <2> QED
      BY <1>6, <2>3, <2>4
  <1>10. Nested(q, e)
    BY <1>4, <1>5, <1>9 DEF Nested
  <1> QED
    BY <1>3, <1>10

-----------------------------------------------------------------------------
(* White paths *)

\* c and z are what the visitor is told at any time of vertices discovered and of vertices
\* finished; N where it is told something else.

\* What has been discovered before the i-th call, and from the i-th to the j-th.
Before(c, i)     == {c[h] : h \in 1..(i - 1)}
Between(c, i, j) == {c[h] : h \in i..j} \ {N}

\* The vertices that white paths lead to from the one discovered by the i-th call.
Onwards(g, c, i) == ReachedWithin(Successors(g), Vertices \ Before(c, i), c[i])

Once(c) == \A i, j \in 1..Len(c) : c[i] = c[j] /\ c[i] # N => i = j

\* What has been discovered since a vertex of the stack was can be reached from it ...
WhiteSoFar(g, s, c) ==
  \A k \in 1..Len(s) : \A i \in 1..Len(c) :
    c[i] = s[k].vertex => \A j \in i..Len(c) : c[j] # N => c[j] \in Onwards(g, c, i)

\* ... and what was discovered until it finished is all that can be.
WhiteAtEnd(g, c, z) ==
  \A i \in 1..Len(c) : \A j \in 1..Len(z) : z[j] # N /\ c[i] = z[j] => Between(c, i, j) = Onwards(g, c, i)

White(g, s, c, z) == /\ c \in Seq(0..N) /\ z \in Seq(0..N) /\ Len(c) = Len(z) /\ Once(c) /\ Once(z)
                     /\ Nested(s, c) /\ WhiteSoFar(g, s, c) /\ WhiteAtEnd(g, c, z)

\* v comes at the end of e, in addition to c.
AtEnd(e, c, n, v) == /\ n \in Nat /\ Len(c) = n /\ Len(e) = n + 1 /\ e \in Seq(0..N)
                     /\ \A i \in 1..n : e[i] = c[i] /\ i \in 1..(n + 1)
                     /\ e[n + 1] = v
                     /\ \A i \in 1..(n + 1) : i \in 1..n \/ i = n + 1
                     /\ \A i \in 1..(n + 1) : Before(e, i) = Before(c, i)
                     /\ \A w : Listed(e, w) <=> Listed(c, w) \/ w = v

LEMMA AtEndIs ==
  ASSUME NEW c \in Seq(0..N), NEW v \in 0..N, NEW n, n = Len(c)
  PROVE  AtEnd(Append(c, v), c, n, v)
  <1>1. PICK e : e = Append(c, v)
    OBVIOUS
  <1>2. HasAppended(e, c, v, 0..N)
    BY <1>1, AppendListed
  <1>3. /\ n \in Nat /\ Len(e) = n + 1 /\ e \in Seq(0..N)
        /\ \A i \in 1..n : e[i] = c[i] /\ i \in 1..(n + 1)
        /\ e[n + 1] = v
        /\ \A i \in 1..(n + 1) : i \in 1..n \/ i = n + 1
        /\ \A w : Listed(e, w) <=> Listed(c, w) \/ w = v
    BY <1>2 DEF HasAppended
  <1>4. ASSUME NEW i \in 1..(n + 1) PROVE Before(e, i) = Before(c, i)
    <2>1. \A h \in 1..(i - 1) : h \in 1..n
      BY <1>3
    <2>2. \A h \in 1..(i - 1) : e[h] = c[h]
      BY <1>3, <2>1
    <2> QED
      BY <2>2 DEF Before
  <1> QED
    BY <1>1, <1>3, <1>4 DEF AtEnd

LEMMA NotAVertex == N \in Nat /\ N \notin Vertices /\ Vertices \subseteq 0..N /\ N \in 0..N
                    /\ \A x \in 0..N : x # N => x \in Vertices
  BY SearchesAssumption DEF Vertices

LEMMA OnceMore ==
  ASSUME NEW c, Once(c), NEW e, NEW n, NEW v, AtEnd(e, c, n, v), v = N \/ ~Listed(c, v)
  PROVE  Once(e)
  <1>1. /\ n \in Nat /\ Len(c) = n /\ Len(e) = n + 1
        /\ \A i \in 1..n : e[i] = c[i]
        /\ e[n + 1] = v
        /\ \A i \in 1..(n + 1) : i \in 1..n \/ i = n + 1
    BY DEF AtEnd
  <1>2. ASSUME NEW i \in 1..n, c[i] = v, v # N PROVE FALSE
    BY <1>1, <1>2 DEF Listed
  <1> SUFFICES ASSUME NEW i \in 1..(n + 1), NEW j \in 1..(n + 1), e[i] = e[j], e[i] # N PROVE i = j
    BY <1>1 DEF Once
  <1>3. CASE i \in 1..n /\ j \in 1..n
    BY <1>1, <1>3 DEF Once
  <1>4. CASE i = n + 1 /\ j \in 1..n
    BY <1>1, <1>2, <1>4
  <1>5. CASE i \in 1..n /\ j = n + 1
    BY <1>1, <1>2, <1>5
  <1> QED
    BY <1>1, <1>3, <1>4, <1>5

\* What was known stays so when another call follows.
LEMMA OnwardsKept ==
  ASSUME NEW g, NEW c, NEW e, NEW n, NEW v, AtEnd(e, c, n, v), NEW i \in 1..n
  PROVE  Onwards(g, e, i) = Onwards(g, c, i)
  <1>1. e[i] = c[i] /\ Before(e, i) = Before(c, i)
    BY DEF AtEnd
  <1> QED
    BY <1>1 DEF Onwards

LEMMA BetweenKept ==
  ASSUME NEW c, NEW e, NEW n, NEW v, AtEnd(e, c, n, v), NEW i \in 1..n, NEW j \in 1..n
  PROVE  Between(e, i, j) = Between(c, i, j)
  <1>1. \A h \in i..j : h \in 1..n
    BY DEF AtEnd
  <1>2. \A h \in i..j : e[h] = c[h]
    BY <1>1 DEF AtEnd
  <1> QED
    BY <1>2 DEF Between

LEMMA OnwardsIs ==
  ASSUME NEW g, NEW c, Len(c) \in Nat, Once(c), NEW i \in 1..Len(c), c[i] \in Vertices
  PROVE  LeastClosed(Vertices \ Before(c, i), Successors(g), c[i], Onwards(g, c, i))
  <1>1. PICK S : S = Vertices \ Before(c, i)
    OBVIOUS
  <1>2. IsFiniteSet(S)
    BY <1>1, VerticesFinite, FS_Subset
  <1>3. c[i] \in S
    <2> SUFFICES ASSUME c[i] \in Before(c, i) PROVE FALSE
      BY <1>1
    <2>1. PICK h \in 1..(i - 1) : c[h] = c[i]
      BY DEF Before
    <2>2. h \in 1..Len(c) /\ h # i /\ c[i] # N
      BY NotAVertex
    <2> QED
      BY <2>1, <2>2 DEF Once
  <1>4. PICK v \in S : v = c[i]
    BY <1>3
  <1>5. LeastClosed(S, Successors(g), v, ReachedWithin(Successors(g), S, v))
    BY <1>2, ReachedIsLeast
  <1> QED
    BY <1>1, <1>4, <1>5 DEF Onwards

LEMMA WhiteBelow ==
  ASSUME NEW g, NEW s, NEW r, LowerPart(r, s), NEW c, NEW z, White(g, s, c, z)
  PROVE  White(g, r, c, z)
  <1>1. Nested(r, c)
    BY NestedBelow DEF White
  <1>2. \A k \in 1..Len(r) : k \in 1..Len(s) /\ r[k].vertex = s[k].vertex
    BY DEF LowerPart
  <1>3. WhiteSoFar(g, r, c)
    BY <1>2 DEF WhiteSoFar, White
  <1> QED
    BY <1>1, <1>3 DEF White

\* The visitor is told of something else, ...
LEMMA WhiteQuiet ==
  ASSUME NEW g, NEW s \in Seq(Frames), NEW c, NEW z, White(g, s, c, z), NEW n, NEW m,
         NEW e, AtEnd(e, c, n, N), NEW y, AtEnd(y, z, m, N)
  PROVE  White(g, s, e, y)
  <1>1. /\ n \in Nat /\ Len(c) = n /\ Len(e) = n + 1
        /\ \A i \in 1..n : e[i] = c[i] /\ i \in 1..(n + 1)
        /\ e[n + 1] = N
        /\ \A i \in 1..(n + 1) : i \in 1..n \/ i = n + 1
        /\ e \in Seq(0..N)
    BY DEF AtEnd
  <1>2. /\ m \in Nat /\ Len(z) = m /\ Len(y) = m + 1
        /\ \A i \in 1..m : y[i] = z[i] /\ i \in 1..(m + 1)
        /\ y[m + 1] = N
        /\ \A i \in 1..(m + 1) : i \in 1..m \/ i = m + 1
        /\ y \in Seq(0..N)
    BY DEF AtEnd
  <1>3. m = n /\ Once(e) /\ Once(y)
    BY <1>1, <1>2, OnceMore DEF White
  <1>4. \A k \in 1..Len(s) : s[k].vertex # N
    BY FrameOf, NotAVertex
  <1>5. Nested(s, e)
    <2> SUFFICES ASSUME NEW k \in 1..Len(s), NEW l \in 1..Len(s), NEW i \in 1..(n + 1), NEW j \in 1..(n + 1),
                        k < l, e[i] = s[k].vertex, e[j] = s[l].vertex
                 PROVE  i < j
      BY <1>1 DEF Nested
    <2>1. i \in 1..n /\ j \in 1..n
      BY <1>1, <1>4
    <2>2. c[i] = s[k].vertex /\ c[j] = s[l].vertex
      BY <1>1, <2>1
    <2> QED
      BY <1>1, <2>1, <2>2 DEF White, Nested
  <1>6. WhiteSoFar(g, s, e)
    <2> SUFFICES ASSUME NEW k \in 1..Len(s), NEW i \in 1..(n + 1), e[i] = s[k].vertex,
                        NEW j \in i..(n + 1), e[j] # N
                 PROVE  e[j] \in Onwards(g, e, i)
      BY <1>1 DEF WhiteSoFar
    <2>1. i \in 1..n /\ j # n + 1
      BY <1>1, <1>4
    <2>2. j \in i..n /\ j \in 1..n
      BY <1>1, <2>1
    <2>3. c[i] = s[k].vertex /\ c[j] # N /\ c[j] = e[j]
      BY <1>1, <2>1, <2>2
    <2>4. c[j] \in Onwards(g, c, i)
      BY <1>1, <2>1, <2>2, <2>3 DEF White, WhiteSoFar
    <2> QED
      BY <2>1, <2>3, <2>4, OnwardsKept
  <1>7. WhiteAtEnd(g, e, y)
    <2> SUFFICES ASSUME NEW i \in 1..(n + 1), NEW j \in 1..(n + 1), y[j] # N, e[i] = y[j]
                 PROVE  Between(e, i, j) = Onwards(g, e, i)
      BY <1>1, <1>2, <1>3 DEF WhiteAtEnd
    <2>1. i \in 1..n /\ j \in 1..n
      BY <1>1, <1>2, <1>3
    <2>2. z[j] # N /\ c[i] = z[j]
      BY <1>1, <1>2, <1>3, <2>1
    <2>3. Between(c, i, j) = Onwards(g, c, i)
      BY <1>1, <1>2, <1>3, <2>1, <2>2 DEF White, WhiteAtEnd
    <2> QED
      BY <2>1, <2>3, OnwardsKept, BetweenKept
  <1> QED
    BY <1>1, <1>2, <1>3, <1>5, <1>6, <1>7 DEF White

\* The last vertex of s is where the others lead.
LEMMA TopIsOnwards ==
  ASSUME NEW g, NEW s, NEW c, NEW z, White(g, s, c, z), NEW l \in Nat \ {0}, l = Len(s), NEW u \in Vertices, u = s[l].vertex,
         Listed(c, u), NEW k \in 1..l, NEW i \in 1..Len(c), c[i] = s[k].vertex
  PROVE  u \in Onwards(g, c, i)
  <1>1. PICK h \in 1..Len(c) : c[h] = u
    BY DEF Listed
  <1>2. Len(c) \in Nat /\ u # N
    BY LenProperties, NotAVertex DEF White
  <1>3. i <= h
    <2>1. CASE k = l
      <3>1. i = h
        BY <1>1, <1>2, <2>1 DEF White, Once
      <3> QED
        BY <3>1
    <2>2. CASE k < l
      BY <1>1, <2>2 DEF White, Nested
    <2> QED
      BY <2>1, <2>2
  <1>4. h \in i..Len(c)
    BY <1>2, <1>3
  <1>5. k \in 1..Len(s)
    OBVIOUS
  <1> QED
    BY <1>1, <1>2, <1>4, <1>5 DEF White, WhiteSoFar

\* ... of a discovery below u, ...
LEMMA WhiteDiscovered ==
  ASSUME NEW g, NEW s \in Seq(Frames), NEW c, NEW z, White(g, s, c, z), NEW n, NEW m,
         NEW l \in Nat \ {0}, l = Len(s), NEW u \in Vertices, u = s[l].vertex,
         \A k \in 1..l : Listed(c, s[k].vertex),
         NEW t \in Vertices, t \in Successors(g)[u], ~Listed(c, t), ~Listed(z, t),
         NEW e, e = Append(c, t), AtEnd(e, c, n, t), NEW y, AtEnd(y, z, m, N), NEW r, r = Append(s, New(t))
  PROVE  White(g, r, e, y)
  <1>1. /\ n \in Nat /\ Len(c) = n /\ Len(e) = n + 1
        /\ \A i \in 1..n : e[i] = c[i] /\ i \in 1..(n + 1)
        /\ e[n + 1] = t
        /\ \A i \in 1..(n + 1) : i \in 1..n \/ i = n + 1
        /\ e \in Seq(0..N)
        /\ \A i \in 1..(n + 1) : Before(e, i) = Before(c, i)
    BY DEF AtEnd
  <1>2. /\ m \in Nat /\ Len(z) = m /\ Len(y) = m + 1
        /\ \A i \in 1..m : y[i] = z[i] /\ i \in 1..(m + 1)
        /\ y[m + 1] = N
        /\ \A i \in 1..(m + 1) : i \in 1..m \/ i = m + 1
        /\ y \in Seq(0..N)
    BY DEF AtEnd
  <1>3. m = n /\ Once(e) /\ Once(y)
    BY <1>1, <1>2, OnceMore DEF White
  <1>4. t # N /\ \A k \in 1..l : s[k].vertex \in Vertices /\ s[k].vertex # N
    BY FrameOf, NotAVertex
  <1>5. Nested(r, e)
    <2>1. c \in Seq(0..N) /\ t \in 0..N /\ Nested(s, c)
      BY NotAVertex DEF White
    <2> QED
      BY <2>1, NestedGrows
  <1>6. /\ Len(r) = l + 1
        /\ \A k \in 1..l : r[k].vertex = s[k].vertex
        /\ r[l + 1].vertex = t
        /\ \A k \in 1..(l + 1) : k \in 1..l \/ k = l + 1
    <2>1. New(t) \in Frames /\ New(t).vertex = t
      BY DEF New, Frames
    <2> QED
      BY <2>1, AppendProperties
  <1>7. \A i \in 1..n : c[i] # t
    BY <1>1 DEF Listed
  <1>8. \A i \in 1..(n + 1) : t \in Vertices \ Before(c, i)
    <2> SUFFICES ASSUME NEW i \in 1..(n + 1), t \in Before(c, i) PROVE FALSE
      OBVIOUS
    <2>1. PICK h \in 1..(i - 1) : c[h] = t
      BY DEF Before
    <2>2. h \in 1..n
      BY <1>1
    <2> QED
      BY <1>7, <2>1, <2>2
  <1>9. \A i \in 1..n : Onwards(g, e, i) = Onwards(g, c, i)
    BY OnwardsKept
  <1>10. \A k \in 1..l : \A i \in 1..n : c[i] = s[k].vertex => u \in Onwards(g, c, i)
    <2> TAKE k \in 1..l
    <2> SUFFICES ASSUME NEW i \in 1..Len(c), c[i] = s[k].vertex PROVE u \in Onwards(g, c, i)
      BY <1>1
    <2>1. Listed(c, u)
      OBVIOUS
    <2> QED
      BY <2>1, TopIsOnwards
  <1>11. WhiteSoFar(g, r, e)
    <2> SUFFICES ASSUME NEW k \in 1..(l + 1), NEW i \in 1..(n + 1), e[i] = r[k].vertex,
                        NEW j \in i..(n + 1), e[j] # N
                 PROVE  e[j] \in Onwards(g, e, i)
      BY <1>1, <1>6 DEF WhiteSoFar
    <2>1. CASE i = n + 1
      <3>1. j = i /\ Len(e) \in Nat /\ i \in 1..Len(e) /\ e[i] \in Vertices
        BY <1>1, <2>1
      <3>2. LeastClosed(Vertices \ Before(e, i), Successors(g), e[i], Onwards(g, e, i))
        BY <1>3, <3>1, OnwardsIs
      <3> QED
        BY <3>1, <3>2 DEF LeastClosed
    <2>2. CASE i \in 1..n
      <3>1. k \in 1..l /\ c[i] = s[k].vertex /\ c[i] \in Vertices
        BY <1>1, <1>4, <1>6, <1>7, <2>2
      <3>2. CASE j \in 1..n
        <4>1. j \in i..n /\ c[j] # N /\ c[j] = e[j]
          BY <1>1, <3>2
        <4>2. c[j] \in Onwards(g, c, i)
          BY <1>1, <2>2, <3>1, <4>1 DEF White, WhiteSoFar
        <4> QED
          BY <1>9, <2>2, <4>1, <4>2
      <3>3. CASE j = n + 1
        <4>2. u \in Onwards(g, c, i)
          BY <1>10, <2>2, <3>1
        <4>3. LeastClosed(Vertices \ Before(c, i), Successors(g), c[i], Onwards(g, c, i))
          BY <1>1, <2>2, <3>1, OnwardsIs DEF White
        <4>4. t \in Onwards(g, c, i)
          BY <1>8, <4>2, <4>3 DEF LeastClosed, ClosedWithin
        <4> QED
          BY <1>1, <1>9, <2>2, <3>3, <4>4
      <3> QED
        BY <1>1, <2>2, <3>2, <3>3
    <2> QED
      BY <1>1, <2>1, <2>2
  <1>12. WhiteAtEnd(g, e, y)
    <2> SUFFICES ASSUME NEW i \in 1..(n + 1), NEW j \in 1..(n + 1), y[j] # N, e[i] = y[j],
                        ~(i \in 1..n /\ Between(c, i, j) = Onwards(g, c, i) /\ j \in 1..n)
                 PROVE  FALSE
      BY <1>1, <1>2, <1>3, OnwardsKept, BetweenKept DEF WhiteAtEnd
    <2>1. j \in 1..n /\ y[j] = z[j] /\ z[j] # N
      BY <1>2, <1>3
    <2>2. CASE i \in 1..n
      <3>1. c[i] = z[j]
        BY <1>1, <2>1, <2>2
      <3> QED
        BY <1>1, <1>2, <1>3, <2>1, <2>2, <3>1 DEF White, WhiteAtEnd
    <2>3. CASE i = n + 1
      <3>1. z[j] = t
        BY <1>1, <2>1, <2>3
      <3> QED
        BY <1>2, <1>3, <2>1, <3>1 DEF Listed
    <2> QED
      BY <1>1, <2>2, <2>3
  <1> QED
    BY <1>1, <1>2, <1>3, <1>5, <1>11, <1>12 DEF White

\* All that the vertices discovered lead to is discovered, but for those on the stack below the top.
FollowedAbove(g, s, l, c) ==
  \A w \in Vertices : Listed(c, w) /\ (\A k \in 1..(l - 1) : s[k].vertex # w)
                        => \A x \in Successors(g)[w] : x \in Vertices /\ Listed(c, x)

\* What has been discovered since u was is all that can be reached.
LEMMA WhiteComplete ==
  ASSUME NEW g, NEW s, NEW c, NEW z, White(g, s, c, z),
         NEW l \in Nat \ {0}, l = Len(s), NEW u \in Vertices, u = s[l].vertex, FollowedAbove(g, s, l, c),
         NEW n \in Nat, n = Len(c), NEW i \in 1..n, c[i] = u
  PROVE  Between(c, i, n) = Onwards(g, c, i)
  <1>1. PICK S : S = Between(c, i, n)
    OBVIOUS
  <1>2. PICK W : W = Vertices \ Before(c, i)
    OBVIOUS
  <1>3. LeastClosed(W, Successors(g), u, Onwards(g, c, i))
    BY <1>2, OnwardsIs DEF White
  <1>4. \A h \in 1..n : c[h] \in 0..N
    BY ElementOfSeq DEF White
  <1>5. \A w : w \in S <=> w # N /\ \E h \in i..n : c[h] = w
    BY <1>1 DEF Between
  <1>6. \A h \in i..n : h \in 1..n
    OBVIOUS
  <1>7. S \subseteq Onwards(g, c, i)
    <2> SUFFICES ASSUME NEW w \in S PROVE w \in Onwards(g, c, i)
      OBVIOUS
    <2>1. PICK h \in i..n : c[h] = w /\ w # N
      BY <1>5
    <2>2. l \in 1..Len(s) /\ h \in i..Len(c)
      OBVIOUS
    <2> QED
      BY <2>1, <2>2 DEF White, WhiteSoFar
  <1>8. S \subseteq W
    <2> SUFFICES ASSUME NEW w \in S, w \in Before(c, i) PROVE FALSE
      BY <1>2, <1>4, <1>5, <1>6, NotAVertex
    <2>1. PICK h \in i..n : c[h] = w /\ w # N
      BY <1>5
    <2>2. PICK b \in 1..(i - 1) : c[b] = w
      BY DEF Before
    <2>3. h \in 1..n /\ b \in 1..n /\ h # b
      OBVIOUS
    <2> QED
      BY <2>1, <2>2, <2>3 DEF White, Once
  <1>9. u \in S
    <2>1. i \in i..n /\ u # N
      BY NotAVertex
    <2> QED
      BY <1>5, <2>1
  <1>10. ASSUME NEW w \in S, NEW x \in Successors(g)[w], x \in W PROVE x \in S
    <2>1. PICK h \in i..n : c[h] = w
      BY <1>5
    <2>2. w \in Vertices /\ Listed(c, w)
      BY <1>2, <1>6, <1>8, <2>1 DEF Listed
    <2>3. ASSUME NEW k \in 1..(l - 1), s[k].vertex = w PROVE FALSE
      <3>1. k \in 1..Len(s) /\ l \in 1..Len(s) /\ k < l /\ h \in 1..Len(c)
        BY <1>6
      <3>2. h < i
        BY <2>1, <2>3, <3>1 DEF White, Nested
      <3> QED
        BY <3>2
    <2>4. x \in Vertices /\ Listed(c, x)
      BY <2>2, <2>3 DEF FollowedAbove
    <2>5. PICK b \in 1..n : c[b] = x
      BY <2>4 DEF Listed
    <2>6. b \in i..n
      <3> SUFFICES ASSUME b < i PROVE FALSE
        OBVIOUS
      <3>1. b \in 1..(i - 1)
        OBVIOUS
      <3> QED
        BY <1>2, <1>10, <2>5, <3>1 DEF Before
    <2>7. x # N
      BY <2>4, NotAVertex
    <2> QED
      BY <1>5, <2>5, <2>6, <2>7
  <1>11. ClosedWithin(W, Successors(g), S)
    BY <1>10 DEF ClosedWithin
  <1>12. Onwards(g, c, i) \subseteq S
    BY <1>3, <1>8, <1>9, <1>11 DEF LeastClosed
  <1> QED
    BY <1>1, <1>7, <1>12

\* ... and of the end of the vertex on top.
LEMMA WhiteFinished ==
  ASSUME NEW g, NEW s \in Seq(Frames), NEW c, NEW z, White(g, s, c, z), NEW n, NEW m,
         NEW l \in Nat \ {0}, l = Len(s), NEW u \in Vertices, u = s[l].vertex, FollowedAbove(g, s, l, c),
         ~Listed(z, u), NEW e, AtEnd(e, c, n, N), NEW y, AtEnd(y, z, m, u), NEW r, LowerPart(r, s)
  PROVE  White(g, r, e, y)
  <1>1. /\ n \in Nat /\ Len(c) = n /\ Len(e) = n + 1
        /\ \A i \in 1..n : e[i] = c[i] /\ i \in 1..(n + 1)
        /\ e[n + 1] = N
        /\ \A i \in 1..(n + 1) : i \in 1..n \/ i = n + 1
    BY DEF AtEnd
  <1>2. /\ m \in Nat /\ Len(z) = m /\ Len(y) = m + 1
        /\ \A i \in 1..m : y[i] = z[i] /\ i \in 1..(m + 1)
        /\ y[m + 1] = u
        /\ \A i \in 1..(m + 1) : i \in 1..m \/ i = m + 1
        /\ y \in Seq(0..N)
    BY DEF AtEnd
  <1>3. m = n /\ Once(y)
    BY <1>1, <1>2, OnceMore DEF White
  \* As if it were told of something else.
  <1>4. PICK q : AtEnd(q, z, m, N)
    <2>1. z \in Seq(0..N) /\ N \in 0..N
      BY NotAVertex DEF White
    <2> QED
      BY <1>2, <2>1, AtEndIs
  <1>5. White(g, s, e, q)
    BY <1>4, WhiteQuiet
  <1>6. /\ Len(q) = n + 1 /\ \A i \in 1..n : q[i] = z[i]
    BY <1>2, <1>3, <1>4 DEF AtEnd
  <1>7. WhiteAtEnd(g, e, y)
    <2> SUFFICES ASSUME NEW i \in 1..(n + 1), NEW j \in 1..(n + 1), y[j] # N, e[i] = y[j]
                 PROVE  Between(e, i, j) = Onwards(g, e, i)
      BY <1>1, <1>2, <1>3 DEF WhiteAtEnd
    <2>1. i \in 1..n
      BY <1>1
    <2>2. CASE j \in 1..n
      <3>1. q[j] = y[j]
        BY <1>2, <1>3, <1>6, <2>2
      <3> QED
        BY <1>1, <1>5, <1>6, <3>1 DEF White, WhiteAtEnd
    <2>3. CASE j = n + 1
      <3>1. c[i] = u
        BY <1>1, <1>2, <1>3, <2>1, <2>3
      <3>2. Between(c, i, n) = Onwards(g, c, i)
        BY <1>1, <2>1, <3>1, WhiteComplete
      <3>3. Between(e, i, n + 1) = Between(c, i, n)
        <4>1. \A h \in i..(n + 1) : h \in i..n \/ h = n + 1
          BY <1>1
        <4>2. \A h \in i..n : h \in 1..n /\ h \in i..(n + 1)
          BY <1>1, <2>1
        <4>3. \A h \in i..n : e[h] = c[h]
          BY <1>1, <4>2
        <4> QED
          BY <1>1, <4>1, <4>2, <4>3 DEF Between
      <3> QED
        BY <2>1, <2>3, <3>2, <3>3, OnwardsKept
    <2> QED
      BY <1>2, <1>3, <2>2, <2>3
  <1>8. White(g, s, e, y)
    BY <1>1, <1>2, <1>3, <1>5, <1>7 DEF White
  <1> QED
    BY <1>8, WhiteBelow

\* The vertex each call tells of, if it is of one kind.
LogOf(r, event) == [i \in 1..Len(r) |-> IF r[i].on = event THEN r[i].vertex ELSE N]

LEMMA LogAppended ==
  ASSUME NEW r \in Seq(VisitorCalls), NEW c \in VisitorCalls, NEW q, q = Append(r, c), NEW event, NEW n, n = Len(r),
         NEW v, v = IF c.on = event THEN c.vertex ELSE N
  PROVE  /\ n \in Nat /\ v \in 0..N
         /\ LogOf(r, event) \in Seq(0..N) /\ Len(LogOf(r, event)) = n
         /\ LogOf(q, event) = Append(LogOf(r, event), v)
         /\ AtEnd(LogOf(q, event), LogOf(r, event), n, v)
  <1>1. n \in Nat /\ \A i \in 1..n : r[i] \in VisitorCalls
    BY LenProperties, ElementOfSeq
  <1>2. \A x \in VisitorCalls : (IF x.on = event THEN x.vertex ELSE N) \in 0..N
    BY NotAVertex DEF VisitorCalls
  <1>3. v \in 0..N
    BY <1>2
  <1>4. PICK a : a = LogOf(r, event)
    OBVIOUS
  <1>5. a = [i \in 1..n |-> IF r[i].on = event THEN r[i].vertex ELSE N]
    BY <1>4 DEF LogOf
  <1>6. a \in [1..n -> 0..N]
    BY <1>1, <1>2, <1>5
  <1>7. a \in Seq(0..N) /\ Len(a) = n
    <2>1. PICK U : U = 0..N
      OBVIOUS
    <2>2. a \in [1..n -> U]
      BY <1>6, <2>1
    <2>3. a \in Seq(U)
      BY <1>1, <2>2, IsASeq
    <2> QED
      BY <1>1, <2>1, <2>2, <2>3, LenProperties
  <1>8. q \in Seq(VisitorCalls) /\ Len(q) = n + 1 /\ (\A i \in 1..n : q[i] = r[i]) /\ q[n + 1] = c
    BY AppendProperties
  <1>9. PICK b : b = LogOf(q, event)
    OBVIOUS
  <1>10. b = [i \in 1..(n + 1) |-> IF q[i].on = event THEN q[i].vertex ELSE N]
    BY <1>8, <1>9 DEF LogOf
  <1>11. PICK d : d = Append(a, v)
    OBVIOUS
  <1>12. d \in Seq(0..N) /\ Len(d) = n + 1 /\ (\A i \in 1..n : d[i] = a[i]) /\ d[n + 1] = v
    BY <1>3, <1>7, <1>11, AppendProperties
  <1>13. \A i \in 1..(n + 1) : d[i] = IF q[i].on = event THEN q[i].vertex ELSE N
    <2> TAKE i \in 1..(n + 1)
    <2>1. CASE i \in 1..n
      BY <1>5, <1>8, <1>12, <2>1
    <2>2. CASE i = n + 1
      BY <1>8, <1>12, <2>2
    <2> QED
      BY <1>1, <2>1, <2>2
  <1>14. d = b
    <2>1. d = [i \in 1..(n + 1) |-> d[i]]
      BY <1>12, LenProperties
    <2> QED
      BY <1>10, <1>13, <2>1
  <1>15. AtEnd(d, a, n, v)
    BY <1>3, <1>7, <1>11, AtEndIs
  <1> QED
    BY <1>1, <1>3, <1>4, <1>7, <1>9, <1>11, <1>14, <1>15

\* What the calls r tell is white, with the stack s, when the vertices d have been discovered
\* and f have finished.
ToldWhite(g, s, r, d, f) ==
  /\ r \in Seq(VisitorCalls)
  /\ White(g, s, LogOf(r, "discover_vertex"), LogOf(r, "finish_vertex"))
  /\ \A v \in Vertices : /\ Listed(LogOf(r, "discover_vertex"), v) <=> Listed(d, v)
                         /\ Listed(LogOf(r, "finish_vertex"), v) <=> Listed(f, v)

LEMMA QuietCall ==
  ASSUME NEW g, NEW s \in Seq(Frames), NEW r, NEW d, NEW f, ToldWhite(g, s, r, d, f),
         NEW c \in VisitorCalls, c.on # "discover_vertex", c.on # "finish_vertex", NEW q, q = Append(r, c)
  PROVE  ToldWhite(g, s, q, d, f)
  <1>1. PICK n : n = Len(r)
    OBVIOUS
  <1>2. r \in Seq(VisitorCalls) /\ q \in Seq(VisitorCalls)
    BY AppendProperties DEF ToldWhite
  <1>3. AtEnd(LogOf(q, "discover_vertex"), LogOf(r, "discover_vertex"), n, N)
    BY <1>1, <1>2, LogAppended
  <1>4. AtEnd(LogOf(q, "finish_vertex"), LogOf(r, "finish_vertex"), n, N)
    BY <1>1, <1>2, LogAppended
  <1>5. White(g, s, LogOf(q, "discover_vertex"), LogOf(q, "finish_vertex"))
    BY <1>3, <1>4, WhiteQuiet DEF ToldWhite
  <1>6. \A v \in Vertices : /\ Listed(LogOf(q, "discover_vertex"), v) <=> Listed(LogOf(r, "discover_vertex"), v)
                            /\ Listed(LogOf(q, "finish_vertex"), v) <=> Listed(LogOf(r, "finish_vertex"), v)
    BY <1>3, <1>4, NotAVertex DEF AtEnd
  <1> QED
    BY <1>2, <1>5, <1>6 DEF ToldWhite

LEMMA QuietEdge ==
  ASSUME NEW g, NEW s \in Seq(Frames), NEW r, NEW d, NEW f, ToldWhite(g, s, r, d, f),
         NEW kind \in {"tree_edge", "back_edge", "forward_or_cross_edge"}, NEW u \in Vertices, NEW v \in Vertices,
         NEW q, ToldEdge(q, r, kind, u, v)
  PROVE  ToldWhite(g, s, q, d, f)
  <1>1. PICK a \in VisitorCalls : a = Call("examine_edge", u, v) /\ a.on = "examine_edge"
    BY CallIs DEF SearchEvents
  <1>2. PICK b \in VisitorCalls : b = Call(kind, u, v) /\ b.on = kind
    BY CallIs DEF SearchEvents
  <1>3. PICK c \in VisitorCalls : c = Call("finish_edge", u, v) /\ c.on = "finish_edge"
    BY CallIs DEF SearchEvents
  <1>4. PICK m : m = Append(r, a)
    OBVIOUS
  <1>5. PICK o : o = Append(m, b)
    OBVIOUS
  <1>6. q = Append(o, c)
    BY <1>1, <1>2, <1>3, <1>4, <1>5 DEF ToldEdge
  <1>7. ToldWhite(g, s, m, d, f)
    BY <1>1, <1>4, QuietCall
  <1>8. ToldWhite(g, s, o, d, f)
    <2>1. b.on # "discover_vertex" /\ b.on # "finish_vertex"
      BY <1>2
    <2> QED
      BY <1>5, <1>7, <2>1, QuietCall
  <1> QED
    BY <1>3, <1>6, <1>8, QuietCall

LEMMA ToldWhiteBelow ==
  ASSUME NEW g, NEW s, NEW r, NEW d, NEW f, ToldWhite(g, s, r, d, f), NEW m, LowerPart(m, s)
  PROVE  ToldWhite(g, m, r, d, f)
  BY WhiteBelow DEF ToldWhite

LEMMA FirstWhite ==
  ASSUME NEW g, NEW v \in Vertices, NEW s, s = <<New(v)>>, NEW d, d = <<v>>, NEW f, f = <<>>,
         NEW r, r = <<Call("initialize_vertex", v, v), Call("start_vertex", v, v), Call("discover_vertex", v, v)>>
  PROVE  ToldWhite(g, s, r, d, f)
  <1>1. PICK a \in VisitorCalls : a = Call("initialize_vertex", v, v) /\ a.on = "initialize_vertex"
    BY CallIs DEF SearchEvents
  <1>2. PICK b \in VisitorCalls : b = Call("start_vertex", v, v) /\ b.on = "start_vertex"
    BY CallIs DEF SearchEvents
  <1>3. PICK x \in VisitorCalls : x = Call("discover_vertex", v, v) /\ x.on = "discover_vertex" /\ x.vertex = v
    BY CallIs DEF SearchEvents
  <1>4. r \in Seq(VisitorCalls) /\ Len(r) = 3 /\ r[1] = a /\ r[2] = b /\ r[3] = x
    BY <1>1, <1>2, <1>3
  <1>5. v # N /\ v \in 0..N /\ N \in 0..N
    BY NotAVertex
  <1>6. PICK c : c = LogOf(r, "discover_vertex")
    OBVIOUS
  <1>7. PICK z : z = LogOf(r, "finish_vertex")
    OBVIOUS
  <1>8. \A i \in 1..3 : i = 1 \/ i = 2 \/ i = 3
    OBVIOUS
  <1>9. c = [i \in 1..3 |-> IF i = 3 THEN v ELSE N]
    <2>1. c = [i \in 1..3 |-> IF r[i].on = "discover_vertex" THEN r[i].vertex ELSE N]
      BY <1>4, <1>6 DEF LogOf
    <2>2. \A i \in 1..3 : (IF r[i].on = "discover_vertex" THEN r[i].vertex ELSE N) = IF i = 3 THEN v ELSE N
      BY <1>1, <1>2, <1>3, <1>4, <1>8
    <2> QED
      BY <2>1, <2>2
  <1>10. z = [i \in 1..3 |-> N]
    <2>1. z = [i \in 1..3 |-> IF r[i].on = "finish_vertex" THEN r[i].vertex ELSE N]
      BY <1>4, <1>7 DEF LogOf
    <2>2. \A i \in 1..3 : r[i].on # "finish_vertex"
      BY <1>1, <1>2, <1>3, <1>4, <1>8
    <2> QED
      BY <2>1, <2>2
  <1>11. c \in Seq(0..N) /\ z \in Seq(0..N) /\ Len(c) = 3 /\ Len(z) = 3
    <2>1. c \in [1..3 -> 0..N] /\ z \in [1..3 -> 0..N]
      BY <1>5, <1>9, <1>10
    <2>2. PICK U : U = 0..N
      OBVIOUS
    <2>3. c \in [1..3 -> U] /\ z \in [1..3 -> U] /\ 3 \in Nat
      BY <2>1, <2>2
    <2>4. \A n \in Nat : \A y \in [1..n -> U] : y \in Seq(U)
      OBVIOUS
    <2>5. c \in Seq(U) /\ z \in Seq(U)
      BY <2>3, <2>4
    <2> QED
      BY <2>2, <2>3, <2>5, LenProperties
  <1>12. Len(s) = 1 /\ s[1].vertex = v
    BY DEF New
  <1>13. /\ \A i \in 1..3 : c[i] # N => i = 3 /\ c[i] = v
         /\ \A i \in 1..3 : z[i] = N
         /\ c[3] = v
    BY <1>9, <1>10
  <1>14. Once(c) /\ Once(z)
    BY <1>11, <1>13 DEF Once
  <1>15. Nested(s, c)
    BY <1>12 DEF Nested
  <1>16. WhiteSoFar(g, s, c)
    <2> SUFFICES ASSUME NEW k \in 1..1, NEW i \in 1..3, c[i] = v, NEW j \in i..3, c[j] # N
                 PROVE  c[j] \in Onwards(g, c, i)
      BY <1>11, <1>12 DEF WhiteSoFar
    <2>1. i = 3 /\ j = 3
      BY <1>5, <1>13
    <2>2. LeastClosed(Vertices \ Before(c, 3), Successors(g), c[3], Onwards(g, c, 3))
      <3>1. PICK h \in 1..Len(c) : h = 3
        BY <1>11
      <3>2. Len(c) \in Nat /\ c[h] \in Vertices
        BY <1>11, <1>13, <3>1
      <3>3. LeastClosed(Vertices \ Before(c, h), Successors(g), c[h], Onwards(g, c, h))
        BY <1>14, <3>2, OnwardsIs
      <3> QED
        BY <3>1, <3>3
    <2> QED
      BY <2>1, <2>2 DEF LeastClosed
  <1>17. WhiteAtEnd(g, c, z)
    BY <1>11, <1>13 DEF WhiteAtEnd
  <1>18. \A w \in Vertices : (Listed(c, w) <=> w = v) /\ ~Listed(z, w)
    <2>1. 3 \in 1..3
      OBVIOUS
    <2> QED
      BY <1>11, <1>13, <2>1, NotAVertex DEF Listed
  <1>19. \A w : (Listed(d, w) <=> w = v) /\ ~Listed(f, w)
    <2>1. Len(d) = 1 /\ d[1] = v /\ Len(f) = 0
      BY EmptySeq
    <2> QED
      BY <2>1 DEF Listed
  <1> QED
    BY <1>4, <1>6, <1>7, <1>11, <1>14, <1>15, <1>16, <1>17, <1>18, <1>19 DEF ToldWhite, White

-----------------------------------------------------------------------------
(* The calls of depth_first_search in order *)

\* The calls r are in the order of a depth-first search.
ToldInOrder(g, s, r, d, f) == Depthwise(Successors(g), d) /\ Nested(s, d) /\ ToldWhite(g, s, r, d, f)

LEMMA InOrderBelow ==
  ASSUME NEW g, NEW s, NEW r, NEW d, NEW f, ToldInOrder(g, s, r, d, f), NEW m, LowerPart(m, s)
  PROVE  ToldInOrder(g, m, r, d, f)
  BY NestedBelow, ToldWhiteBelow DEF ToldInOrder

LEMMA InOrderEdge ==
  ASSUME NEW g, NEW s \in Seq(Frames), NEW r, NEW d, NEW f, ToldInOrder(g, s, r, d, f),
         NEW kind \in {"tree_edge", "back_edge", "forward_or_cross_edge"}, NEW u \in Vertices, NEW v \in Vertices,
         NEW q, ToldEdge(q, r, kind, u, v)
  PROVE  ToldInOrder(g, s, q, d, f)
  BY QuietEdge DEF ToldInOrder

\* What is discovered and not on the stack has been searched.
LEMMA AboveFollowed ==
  ASSUME NEW g \in Adjacency, NEW s, NEW f, NEW d, Discovering(g, s, f, d), NEW l, l = Len(s),
         NEW w \in Vertices, Listed(d, w), ~On(s, w)
  PROVE  \A x \in Successors(g)[w] : x \in Vertices /\ Listed(d, x)
  <1> SUFFICES ASSUME NEW x \in Successors(g)[w] PROVE x \in Vertices /\ Listed(d, x)
    OBVIOUS
  <1>1. PICK i \in 1..Len(g[w]) : g[w][i] = x
    BY SuccessorEdge
  <1>2. Listed(f, w)
    BY DEF Discovering
  <1> QED
    BY <1>1, <1>2, ListsOfGraph DEF Discovering

\* t is discovered from the vertex on top.
LEMMA NextDiscovered ==
  ASSUME NEW g \in Adjacency, NEW s \in Seq(Frames), NEW f, NEW d, Discovering(g, s, f, d), Nested(s, d), Apart(s),
         NEW l \in Nat \ {0}, l = Len(s), NEW u \in Vertices, u = s[l].vertex,
         NEW t \in Vertices, t \in Successors(g)[u], ~Listed(d, t)
  PROVE  \E k : ComesNext(Successors(g), d, k, t)
  <1>1. l \in 1..Len(s)
    OBVIOUS
  <1>2. Listed(d, u)
    BY <1>1 DEF Discovering, On
  <1>3. PICK k \in 1..Len(d) : d[k] = u
    BY <1>2 DEF Listed
  <1>4. Len(d) \in Nat /\ \A a \in 1..Len(d) : d[a] \in Vertices
    BY LenProperties, ElementOfSeq DEF Discovering
  <1>5. ASSUME NEW a \in 1..Len(d), a > k, NEW w \in Successors(g)[d[a]] PROVE Listed(d, w)
    <2>1. Listed(d, d[a]) /\ d[a] \in Vertices
      BY <1>4 DEF Listed
    <2>2. ~On(s, d[a])
      <3> SUFFICES ASSUME NEW j \in 1..Len(s), s[j].vertex = d[a] PROVE FALSE
        BY DEF On
      <3>1. CASE j < l
        BY <1>1, <1>3, <1>4, <1>5, <3>1 DEF Nested
      <3>2. CASE j = l
        BY <1>3, <1>4, <1>5, <3>2 DEF Discovering, Distinct
      <3> QED
        BY <3>1, <3>2
    <2> QED
      BY <2>1, <2>2, AboveFollowed
  <1> QED
    BY <1>3, <1>5 DEF ComesNext

LEMMA InOrderTree ==
  ASSUME NEW g \in Adjacency, NEW s \in Seq(Frames), NEW r, NEW d, NEW f, Searching(g, s, f), Discovering(g, s, f, d),
         ToldInOrder(g, s, r, d, f), NEW l \in Nat \ {0}, l = Len(s), NEW e, e = s[l], NEW u \in Vertices, u = e.vertex,
         NEW t \in Vertices, t \in Successors(g)[u], ~Listed(d, t),
         NEW m, Moved(m, s, l, e), NEW p, Topped(p, m, t), NEW q, ToldTree(q, r, u, t)
  PROVE  ToldInOrder(g, p, q, Append(d, t), f)
  <1>1. d \in Seq(Vertices) /\ Apart(s)
    BY DEF Searching, Discovering
  <1>2. m \in Seq(Frames) /\ Len(m) = l /\ \A i \in 1..l : m[i].vertex = s[i].vertex
    BY MovedIs DEF MovedOn
  <1>3. LowerPart(m, s)
    BY <1>2 DEF LowerPart
  <1>4. PICK b : b = Append(d, t)
    OBVIOUS
  <1>5. \A w : Listed(b, w) <=> Listed(d, w) \/ w = t
    <2>1. HasAppended(b, d, t, Vertices)
      BY <1>1, <1>4, AppendListed
    <2> QED
      BY <2>1 DEF HasAppended
  <1>6. Depthwise(Successors(g), b)
    <2>1. PICK k : ComesNext(Successors(g), d, k, t)
      BY <1>1, NextDiscovered DEF ToldInOrder
    <2> QED
      BY <1>1, <1>4, <2>1, DepthwiseGrows DEF ToldInOrder
  <1>7. \A i \in 1..l : Listed(d, m[i].vertex)
    <2>1. \A i \in 1..l : Listed(d, s[i].vertex)
      BY DEF Discovering, On
    <2> QED
      BY <1>2, <2>1
  <1>8. p = Append(m, New(t))
    BY DEF Topped
  <1>9. Nested(p, b)
    <2>1. Nested(m, d)
      BY <1>3, NestedBelow DEF ToldInOrder
    <2>2. \A i \in 1..Len(m) : Listed(d, m[i].vertex)
      BY <1>2, <1>7
    <2> QED
      BY <1>1, <1>2, <1>4, <1>8, <2>1, <2>2, NestedGrows
  <1>10. PICK o : ToldEdge(o, r, "tree_edge", u, t) /\ q = Append(o, Call("discover_vertex", t, t))
    BY DEF ToldTree
  <1>11. ToldWhite(g, m, o, d, f)
    <2>1. PICK kind \in {"tree_edge", "back_edge", "forward_or_cross_edge"} : kind = "tree_edge"
      OBVIOUS
    <2>2. ToldWhite(g, s, o, d, f)
      BY <1>10, <2>1, QuietEdge DEF ToldInOrder
    <2> QED
      BY <1>3, <2>2, ToldWhiteBelow
  <1>12. PICK x \in VisitorCalls : x = Call("discover_vertex", t, t) /\ x.on = "discover_vertex" /\ x.vertex = t
    BY CallIs DEF SearchEvents
  <1>13. PICK n : n = Len(o)
    OBVIOUS
  <1>14. o \in Seq(VisitorCalls) /\ q = Append(o, x) /\ q \in Seq(VisitorCalls)
    BY <1>10, <1>11, <1>12, AppendProperties DEF ToldWhite
  <1>15. PICK c : c = LogOf(o, "discover_vertex")
    OBVIOUS
  <1>16. PICK z : z = LogOf(o, "finish_vertex")
    OBVIOUS
  <1>17. PICK a : a = LogOf(q, "discover_vertex") /\ a = Append(c, t) /\ AtEnd(a, c, n, t)
    BY <1>12, <1>13, <1>14, <1>15, LogAppended
  <1>18. PICK y : y = LogOf(q, "finish_vertex") /\ AtEnd(y, z, n, N)
    BY <1>12, <1>13, <1>14, <1>16, LogAppended
  <1>19. /\ White(g, m, c, z)
         /\ \A v \in Vertices : (Listed(c, v) <=> Listed(d, v)) /\ (Listed(z, v) <=> Listed(f, v))
    BY <1>11, <1>15, <1>16 DEF ToldWhite
  <1>20. White(g, p, a, y)
    <2>1. \A k \in 1..l : Listed(c, m[k].vertex)
      BY <1>2, <1>7, <1>19, FrameOf
    <2>2. ~Listed(z, t) /\ ~Listed(c, t)
      BY <1>19 DEF Discovering
    <2>3. l \in 1..l /\ u = m[l].vertex
      BY <1>2
    <2> QED
      BY <1>2, <1>8, <1>17, <1>18, <1>19, <2>1, <2>2, <2>3, WhiteDiscovered
  <1>21. \A v \in Vertices : (Listed(a, v) <=> Listed(b, v)) /\ (Listed(y, v) <=> Listed(f, v))
    BY <1>5, <1>17, <1>18, <1>19, NotAVertex DEF AtEnd
  <1>22. ToldWhite(g, p, q, b, f)
    BY <1>14, <1>17, <1>18, <1>20, <1>21 DEF ToldWhite
  <1> QED
    BY <1>4, <1>6, <1>9, <1>22 DEF ToldInOrder

LEMMA InOrderFinish ==
  ASSUME NEW g \in Adjacency, NEW s \in Seq(Frames), NEW r, NEW d, NEW f \in Seq(Vertices),
         Searching(g, s, f), Discovering(g, s, f, d),
         ToldInOrder(g, s, r, d, f), NEW l \in Nat \ {0}, l = Len(s), NEW e, e = s[l], NEW u \in Vertices, u = e.vertex,
         e.next > Len(g[u]), NEW p, NEW h, Leaves(p, h, s, f, u), NEW q, ToldFinished(q, r, u)
  PROVE  ToldInOrder(g, p, q, d, h)
  <1>0. PICK j : j = Len(f)
    OBVIOUS
  <1>1. Left(p, h, s, l, f, j, u)
    BY <1>0, LeavesIs
  <1>2. LowerPart(p, s) /\ h = Append(f, u)
    <2>1. Len(p) = l - 1 /\ \A i \in 1..(l - 1) : p[i] = s[i]
      BY <1>1 DEF Left
    <2> QED
      BY <2>1 DEF LowerPart, Leaves
  <1>3. \A w : Listed(h, w) <=> Listed(f, w) \/ w = u
    <2>1. HasAppended(h, f, u, Vertices)
      BY <1>2, AppendListed
    <2> QED
      BY <2>1 DEF HasAppended
  <1>4. PICK x \in VisitorCalls : x = Call("finish_vertex", u, u) /\ x.on = "finish_vertex" /\ x.vertex = u
    BY CallIs DEF SearchEvents
  <1>5. PICK n : n = Len(r)
    OBVIOUS
  <1>6. r \in Seq(VisitorCalls) /\ q = Append(r, x) /\ q \in Seq(VisitorCalls)
    BY <1>4, AppendProperties DEF ToldWhite, ToldFinished, ToldInOrder
  <1>7. PICK c : c = LogOf(r, "discover_vertex")
    OBVIOUS
  <1>8. PICK z : z = LogOf(r, "finish_vertex")
    OBVIOUS
  <1>9. PICK a : a = LogOf(q, "discover_vertex") /\ AtEnd(a, c, n, N)
    BY <1>4, <1>5, <1>6, <1>7, LogAppended
  <1>10. PICK y : y = LogOf(q, "finish_vertex") /\ AtEnd(y, z, n, u)
    BY <1>4, <1>5, <1>6, <1>8, LogAppended
  <1>11. /\ White(g, s, c, z)
         /\ \A v \in Vertices : (Listed(c, v) <=> Listed(d, v)) /\ (Listed(z, v) <=> Listed(f, v))
    BY <1>7, <1>8 DEF ToldWhite, ToldInOrder
  <1>12. l \in 1..Len(s) /\ On(s, u)
    BY DEF On
  <1>13. FollowedAbove(g, s, l, c)
    <2> SUFFICES ASSUME NEW w \in Vertices, Listed(c, w), \A k \in 1..(l - 1) : s[k].vertex # w,
                        NEW b \in Successors(g)[w]
                 PROVE  b \in Vertices /\ Listed(c, b)
      BY DEF FollowedAbove
    <2>1. b \in Vertices /\ Listed(d, b)
      <3>1. CASE w = u
        <4>1. PICK i \in 1..Len(g[u]) : g[u][i] = b
          BY <3>1, SuccessorEdge
        <4>2. i < e.next
          BY <1>12, <4>1, ListsOfGraph, FrameOf
        <4> QED
          BY <1>12, <4>1, <4>2, ListsOfGraph DEF Discovering
      <3>2. CASE w # u
        <4>1. ~On(s, w)
          <5>1. \A k \in 1..Len(s) : k \in 1..(l - 1) \/ k = l
            OBVIOUS
          <5> QED
            BY <3>2, <5>1 DEF On
        <4> QED
          BY <1>11, <4>1, AboveFollowed
      <3> QED
        BY <3>1, <3>2
    <2> QED
      BY <1>11, <2>1
  <1>14. ~Listed(z, u)
    BY <1>11, <1>12 DEF Searching
  <1>15. White(g, p, a, y)
    BY <1>2, <1>9, <1>10, <1>11, <1>13, <1>14, WhiteFinished
  <1>16. \A v \in Vertices : (Listed(a, v) <=> Listed(d, v)) /\ (Listed(y, v) <=> Listed(h, v))
    BY <1>3, <1>9, <1>10, <1>11, NotAVertex DEF AtEnd
  <1>17. ToldWhite(g, p, q, d, h)
    BY <1>6, <1>9, <1>10, <1>15, <1>16 DEF ToldWhite
  <1>18. Depthwise(Successors(g), d) /\ Nested(p, d)
    BY <1>2, NestedBelow DEF ToldInOrder
  <1> QED
    BY <1>17, <1>18 DEF ToldInOrder

DfsOrdered ==
  calls # <<>> => ToldInOrder(graph, stack, calls, VerticesIn(calls, "discover_vertex"), VerticesIn(calls, "finish_vertex"))

LEMMA DfsOrderedNext ==
  ASSUME NEW f, NEW d, NEW T, NEW B, NEW R, NEW n, Tells(calls', d, f, T, B, R, n),
         ToldInOrder(graph, stack', calls', d, f), UNCHANGED graph
  PROVE  DfsOrdered'
  <1>1. d = VerticesIn(calls', "discover_vertex") /\ f = VerticesIn(calls', "finish_vertex")
    BY DEF Tells
  <1>2. ToldInOrder(graph, stack, calls, VerticesIn(calls, "discover_vertex"), VerticesIn(calls, "finish_vertex"))'
    BY <1>1
  <1> QED
    BY <1>2 DEF DfsOrdered

LEMMA DfsOrderedNow ==
  ASSUME DfsOrdered, NEW l, NEW e, NEW u, NEW f, NEW d, NEW T, NEW B, NEW R, NEW n,
         Iterating(l, e, u, f, d, T, B, R, n)
  PROVE  /\ stack \in Seq(Frames) /\ Searching(graph, stack, f) /\ Discovering(graph, stack, f, d)
         /\ ToldInOrder(graph, stack, calls, d, f)
  <1>1. Tells(calls, d, f, T, B, R, n) /\ Classified(graph, stack, f, d, T, B, R, n)
    BY DEF Iterating
  <1>2. Searching(graph, stack, f) /\ Discovering(graph, stack, f, d) /\ n + 1 = Len(d) /\ stack \in Seq(Frames)
    BY <1>1 DEF Classified, Searching
  <1>3. calls # <<>>
    <2>1. calls = <<>> => d = <<>> /\ n = 0
      BY <1>1, NothingTold DEF Tells
    <2> QED
      BY <1>2, <2>1, EmptySeq
  <1> QED
    BY <1>1, <1>2, <1>3 DEF DfsOrdered, Tells

LEMMA OrderStarts ==
  ASSUME DfsInv, Dfs!Start
  PROVE  DfsOrdered'
  <1>1. graph \in Adjacency /\ seed \in Vertices /\ UNCHANGED graph
    BY DEF DfsInv, Dfs!Start
  <1>2. PICK v \in Vertices : v = seed
    BY <1>1
  <1>3. /\ stack' = <<New(v)>>
        /\ calls' = <<Call("initialize_vertex", v, v), Call("start_vertex", v, v), Call("discover_vertex", v, v)>>
    BY <1>2 DEF Dfs!Start, Dfs!Frame, New, Dfs!VertexCall, Call
  <1>4. PICK f : f = <<>>
    OBVIOUS
  <1>5. PICK d : d = <<v>>
    OBVIOUS
  <1>6. Tells(calls', d, f, {}, {}, {}, 0)
    BY <1>3, <1>4, <1>5, StartTells
  <1>7. PICK s : s = stack' /\ s = <<New(v)>>
    BY <1>3
  <1>8. PICK r : r = calls'
    OBVIOUS
  <1>9. ToldWhite(graph, s, r, d, f)
    BY <1>3, <1>4, <1>5, <1>7, <1>8, FirstWhite
  <1>10. Depthwise(Successors(graph), d)
    <2>1. Len(d) = 1
      BY <1>5
    <2> QED
      BY <2>1 DEF Depthwise, Distinct
  <1>11. Nested(s, d)
    <2>1. Len(s) = 1
      BY <1>7
    <2> QED
      BY <2>1 DEF Nested
  <1>12. ToldInOrder(graph, stack', calls', d, f)
    BY <1>7, <1>8, <1>9, <1>10, <1>11 DEF ToldInOrder
  <1> QED
    BY <1>1, <1>6, <1>12, DfsOrderedNext

LEMMA OrderFinishes ==
  ASSUME DfsInv, DfsOrdered, Dfs!Finish
  PROVE  DfsOrdered'
  <1>1. graph \in Adjacency
    BY DEF DfsInv
  <1>2. /\ stack # <<>> /\ Dfs!top.next > Len(graph[Dfs!top.vertex])
        /\ stack' = Front(stack)
        /\ calls' = Append(calls, Call("finish_vertex", Dfs!top.vertex, Dfs!top.vertex))
        /\ UNCHANGED graph
    BY DEF Dfs!Finish, Dfs!Exhausted, Dfs!Front, Front, Dfs!VertexCall, Call
  <1>3. PICK l, e, u, f, d, T, B, R, n : Iterating(l, e, u, f, d, T, B, R, n)
    BY <1>2, DfsIterates
  <1>4. /\ l \in Nat \ {0} /\ l = Len(stack) /\ e = stack[l] /\ e = Dfs!top
        /\ u \in Vertices /\ u = e.vertex
        /\ Tells(calls, d, f, T, B, R, n) /\ f \in Seq(Vertices)
    BY <1>3 DEF Iterating
  <1>5. /\ stack \in Seq(Frames) /\ Searching(graph, stack, f) /\ Discovering(graph, stack, f, d)
        /\ ToldInOrder(graph, stack, calls, d, f)
    BY <1>3, DfsOrderedNow
  <1>6. PICK h : h = Append(f, u)
    OBVIOUS
  <1>7. PICK p : p = stack'
    OBVIOUS
  <1>8. PICK q : q = calls'
    OBVIOUS
  <1>9. ToldFinished(q, calls, u) /\ Leaves(p, h, stack, f, u) /\ e.next > Len(graph[u])
    BY <1>2, <1>4, <1>6, <1>7, <1>8 DEF ToldFinished, Leaves
  <1>10. Tells(calls', d, h, T, B, R, n)
    BY <1>4, <1>6, <1>8, <1>9, FinishTells
  <1>11. ToldInOrder(graph, p, q, d, h)
    BY <1>1, <1>4, <1>5, <1>9, InOrderFinish
  <1>12. ToldInOrder(graph, stack', calls', d, h)
    BY <1>7, <1>8, <1>11
  <1> QED
    BY <1>2, <1>10, <1>12, DfsOrderedNext

LEMMA OrderFollows ==
  ASSUME DfsInv, DfsOrdered, Dfs!FollowTreeEdge
  PROVE  DfsOrdered'
  <1>1. graph \in Adjacency
    BY DEF DfsInv
  <1>2. /\ stack # <<>> /\ ~Dfs!Exhausted
        /\ color[Dfs!target] = "White"
        /\ stack' = Append(Dfs!Advanced, New(Dfs!target))
        /\ UNCHANGED graph
    BY DEF Dfs!FollowTreeEdge, Dfs!Frame, New
  <1>3. PICK l, e, u, f, d, T, B, R, n : Iterating(l, e, u, f, d, T, B, R, n)
    BY <1>2, DfsIterates
  <1>4. /\ l \in Nat \ {0} /\ l = Len(stack) /\ e = stack[l] /\ e = Dfs!top
        /\ u \in Vertices /\ u = e.vertex /\ e.next \in Nat \ {0}
        /\ Tells(calls, d, f, T, B, R, n) /\ Shades(color, stack, f)
    BY <1>3 DEF Iterating
  <1>5. /\ stack \in Seq(Frames) /\ Searching(graph, stack, f) /\ Discovering(graph, stack, f, d)
        /\ ToldInOrder(graph, stack, calls, d, f)
    BY <1>3, DfsOrderedNow
  <1>6. e.next \in 1..Len(graph[u])
    BY <1>1, <1>2, <1>4, DfsTarget
  <1>7. PICK t \in Vertices : t = graph[u][e.next] /\ t = Dfs!target
    BY <1>1, <1>2, <1>4, DfsTarget
  <1>8. t \in Successors(graph)[u] /\ ~Listed(d, t)
    BY <1>1, <1>2, <1>4, <1>5, <1>6, <1>7, SuccessorEdge, ShadeIs
  <1>9. PICK q : ThreeCalls(q, calls, "tree_edge", u, t)
    BY DEF ThreeCalls
  <1>10. calls' = Append(q, Call("discover_vertex", t, t))
    BY <1>4, <1>7, <1>9 DEF ThreeCalls, Dfs!FollowTreeEdge, Dfs!Told, Dfs!EdgeCall, Dfs!VertexCall, Call
  <1>11. PICK o : o = calls'
    OBVIOUS
  <1>12. ToldTree(o, calls, u, t)
    <2>1. PICK kind \in SearchEvents : kind = "tree_edge"
      BY DEF SearchEvents
    <2>2. calls \in Seq(VisitorCalls)
      BY <1>4 DEF Tells
    <2>3. ThreeCalls(q, calls, kind, u, t)
      BY <1>9, <2>1
    <2>4. ToldEdge(q, calls, kind, u, t)
      BY <1>4, <2>2, <2>3, CallsTold
    <2> QED
      BY <1>10, <1>11, <2>1, <2>4 DEF ToldTree
  <1>13. Tells(calls', Append(d, t), f, T \cup {<<u, t>>}, B, R, n + 1)
    BY <1>4, <1>11, <1>12, TreeTells
  <1>14. PICK m : m = Dfs!Advanced
    OBVIOUS
  <1>15. Moved(m, stack, l, e)
    BY <1>4, <1>14 DEF Moved, Dfs!Advanced
  <1>16. PICK p : p = stack'
    OBVIOUS
  <1>17. Topped(p, m, t)
    BY <1>2, <1>7, <1>14, <1>16 DEF Topped
  <1>18. ToldInOrder(graph, p, o, Append(d, t), f)
    BY <1>1, <1>4, <1>5, <1>8, <1>12, <1>15, <1>17, InOrderTree
  <1>19. ToldInOrder(graph, stack', calls', Append(d, t), f)
    BY <1>11, <1>16, <1>18
  <1> QED
    BY <1>2, <1>13, <1>19, DfsOrderedNext

LEMMA OrderPasses ==
  ASSUME DfsInv, DfsOrdered, Dfs!PassEdge
  PROVE  DfsOrdered'
  <1>1. graph \in Adjacency
    BY DEF DfsInv
  <1>2. /\ stack # <<>> /\ ~Dfs!Exhausted
        /\ stack' = Dfs!Advanced
        /\ UNCHANGED graph
    BY DEF Dfs!PassEdge
  <1>3. PICK l, e, u, f, d, T, B, R, n : Iterating(l, e, u, f, d, T, B, R, n)
    BY <1>2, DfsIterates
  <1>4. /\ l \in Nat \ {0} /\ l = Len(stack) /\ e = stack[l] /\ e = Dfs!top
        /\ u \in Vertices /\ u = e.vertex /\ e.next \in Nat \ {0}
        /\ Tells(calls, d, f, T, B, R, n)
    BY <1>3 DEF Iterating
  <1>5. stack \in Seq(Frames) /\ ToldInOrder(graph, stack, calls, d, f)
    BY <1>3, DfsOrderedNow
  <1>6. PICK t \in Vertices : t = graph[u][e.next] /\ t = Dfs!target
    BY <1>1, <1>2, <1>4, DfsTarget
  <1>7. PICK kind : kind = IF color[t] = "Gray" THEN "back_edge" ELSE "forward_or_cross_edge"
    OBVIOUS
  <1>8. kind \in {"tree_edge", "back_edge", "forward_or_cross_edge"} /\ kind # "tree_edge" /\ kind \in SearchEvents
    BY <1>7 DEF SearchEvents
  <1>9. PICK q : q = calls'
    OBVIOUS
  <1>10. ToldEdge(q, calls, kind, u, t)
    <2>1. ThreeCalls(q, calls, kind, u, t)
      BY <1>4, <1>6, <1>7, <1>9 DEF ThreeCalls, Dfs!PassEdge, Dfs!Told, Dfs!EdgeCall, Call
    <2>2. calls \in Seq(VisitorCalls)
      BY <1>4 DEF Tells
    <2> QED
      BY <1>4, <1>8, <2>1, <2>2, CallsTold
  <1>11. \E X, Y, Z, k : Tells(calls', d, f, X, Y, Z, k)
    <2>1. EdgeTold(q, d, f, T, B, R, n, kind, u, t)
      BY <1>4, <1>8, <1>10, EdgeTells
    <2> QED
      BY <1>9, <2>1 DEF EdgeTold
  <1>12. PICK p : p = stack'
    OBVIOUS
  <1>13. LowerPart(p, stack)
    <2>1. Moved(p, stack, l, e)
      BY <1>2, <1>4, <1>12 DEF Moved, Dfs!Advanced
    <2>2. MovedOn(p, stack, l, e)
      BY <1>4, <1>5, <2>1, MovedIs
    <2> QED
      BY <1>4, <2>2 DEF MovedOn, LowerPart
  <1>14. ToldInOrder(graph, p, q, d, f)
    <2>1. ToldInOrder(graph, stack, q, d, f)
      BY <1>4, <1>5, <1>8, <1>10, InOrderEdge
    <2> QED
      BY <1>13, <2>1, InOrderBelow
  <1>15. ToldInOrder(graph, stack', calls', d, f)
    BY <1>9, <1>12, <1>14
  <1> QED
    BY <1>2, <1>11, <1>15, DfsOrderedNext

-----------------------------------------------------------------------------
(* The visitor is told in order *)

LEMMA DepthwiseIs ==
  ASSUME NEW succ, NEW d \in Seq(Vertices), Depthwise(succ, d)
  PROVE  DepthFirst(succ, d)
  <1>1. PICK n \in Nat : n = Len(d) /\ DOMAIN d = 1..n
    BY LenProperties
  <1>2. IsInjective(d)
    BY <1>1 DEF IsInjective, Depthwise, Distinct
  <1>3. ASSUME NEW b \in DOMAIN d \ {1} PROVE \E c \in PositionsTo(succ, d, d[b]) : c < b
    <2>1. b \in 2..n
      BY <1>1
    <2>2. PICK c \in 1..(b - 1) : d[b] \in succ[d[c]]
      BY <1>1, <2>1 DEF Depthwise
    <2>3. c \in 1..n /\ c < b
      BY <2>1
    <2> QED
      BY <1>1, <2>2, <2>3 DEF PositionsTo
  <1>4. ASSUME NEW p \in Overtaken(succ, d)
        PROVE  \E c \in PositionsTo(succ, d, d[p[2]]) : p[1] <= c /\ c < p[2]
    <2>1. PICK a \in 1..n, b \in 1..n : a = p[1] /\ b = p[2]
      BY <1>1 DEF Overtaken
    <2>2. a < b /\ \E w \in succ[d[a]] : \A i \in 1..b : d[i] # w
      BY <2>1 DEF Overtaken
    <2>3. PICK c \in a..(b - 1) : d[b] \in succ[d[c]]
      BY <1>1, <2>2 DEF Depthwise
    <2>4. c \in 1..n /\ a <= c /\ c < b
      OBVIOUS
    <2> QED
      BY <1>1, <2>1, <2>3, <2>4 DEF PositionsTo
  <1> QED
    BY <1>2, <1>3, <1>4 DEF DepthFirst, Connects

LEMMA DiscoversInOrder ==
  ASSUME graph \in Adjacency, DfsOrdered, calls # <<>> => calls \in Seq(VisitorCalls)
  PROVE  Dfs!DiscoveredInOrder
  <1> SUFFICES ASSUME calls # <<>> PROVE Dfs!DepthFirst(Dfs!Successors(graph), Dfs!Discovered)
    BY DEF Dfs!DiscoveredInOrder
  <1>1. PICK d : d = VerticesIn(calls, "discover_vertex")
    OBVIOUS
  <1>2. Depthwise(Successors(graph), d)
    BY <1>1 DEF DfsOrdered, ToldInOrder
  <1>3. d \in Seq(Vertices)
    <2>1. \A c \in VisitorCalls : c.vertex \in Vertices
      BY DEF VisitorCalls
    <2>2. PICK c : c = Call("start_vertex", 0, 0)
      OBVIOUS
    <2>3. c \in VisitorCalls
      BY <2>2, CallIs, VerticesFinite DEF SearchEvents
    <2> QED
      BY <1>1, <2>1, <2>3, VerticesAppended
  <1>4. DepthFirst(Successors(graph), d)
    BY <1>2, <1>3, DepthwiseIs
  <1>5. Dfs!Discovered = d
    <2>1. Dfs!OfKind(calls, "discover_vertex") = OfKind(calls, "discover_vertex")
      BY DEF Dfs!OfKind, OfKind
    <2> QED
      BY <1>1, <2>1 DEF Dfs!Discovered, Dfs!VerticesOf, Dfs!CallsOf, VerticesIn
  <1>6. \A succ, order : Dfs!DepthFirst(succ, order) <=> DepthFirst(succ, order)
    BY DEF Dfs!DepthFirst, DepthFirst, Dfs!Connects, Connects, Dfs!Overtaken, Overtaken,
           Dfs!PositionsTo, PositionsTo, Dfs!IsInjective, IsInjective
  <1>7. Dfs!Successors(graph) = Successors(graph)
    BY DEF Dfs!Successors, Successors
  <1> QED
    BY <1>4, <1>5, <1>6, <1>7

\* The call that tells of v.
LEMMA WhenIs ==
  ASSUME NEW r \in Seq(VisitorCalls), r = calls, NEW event, Once(LogOf(r, event)), NEW v \in Vertices,
         Listed(LogOf(r, event), v)
  PROVE  /\ Dfs!When(event, v) \in 1..Len(r)
         /\ LogOf(r, event)[Dfs!When(event, v)] = v
  <1>1. PICK n \in Nat : n = Len(r) /\ DOMAIN r = 1..n
    BY LenProperties
  <1>2. PICK c : c = LogOf(r, event)
    OBVIOUS
  <1>3. c = [i \in 1..n |-> IF r[i].on = event THEN r[i].vertex ELSE N]
    BY <1>1, <1>2 DEF LogOf
  <1>4. DOMAIN c = 1..n /\ v # N
    BY <1>3, NotAVertex
  <1>5. Len(c) = n
    BY <1>1, <1>3, LenProperties
  <1>6. PICK i \in 1..n : c[i] = v
    BY <1>2, <1>5 DEF Listed
  <1>7. \A j \in 1..n : c[j] = v <=> r[j].on = event /\ r[j].vertex = v
    BY <1>3, <1>4
  <1>8. Dfs!When(event, v) = CHOOSE j \in 1..n : r[j].on = event /\ r[j].vertex = v
    BY <1>1 DEF Dfs!When
  <1>9. PICK w : w = CHOOSE j \in 1..n : r[j].on = event /\ r[j].vertex = v
    OBVIOUS
  <1>10. w \in 1..n /\ r[w].on = event /\ r[w].vertex = v
    BY <1>6, <1>7, <1>9
  <1> QED
    BY <1>1, <1>2, <1>7, <1>8, <1>9, <1>10

\* The vertices that calls of the range I say are discovered.
ToldIn(r, I) == {r[k].vertex : k \in {h \in I : r[h].on = "discover_vertex"}}

\* The vertices in places I of c.
InPlaces(c, I) == {c[h] : h \in I} \ {N}

LEMMA LoggedWithin ==
  ASSUME NEW r \in Seq(VisitorCalls), NEW c, c = LogOf(r, "discover_vertex"), NEW I, I \subseteq 1..Len(r)
  PROVE  ToldIn(r, I) = InPlaces(c, I)
  <1>1. PICK event : event = "discover_vertex"
    OBVIOUS
  <1>2. PICK n : n = Len(r)
    OBVIOUS
  <1>3. c = [i \in 1..n |-> IF r[i].on = event THEN r[i].vertex ELSE N]
    BY <1>1, <1>2 DEF LogOf
  <1>4. \A i \in I : i \in 1..n /\ r[i].vertex # N
    <2>1. \A i \in 1..n : r[i] \in VisitorCalls
      BY <1>2, ElementOfSeq
    <2> QED
      BY <1>2, <2>1, NotAVertex DEF VisitorCalls
  <1>5. \A i \in I : /\ r[i].on = event => c[i] = r[i].vertex
                     /\ c[i] # N => r[i].on = event /\ c[i] = r[i].vertex
    BY <1>3, <1>4
  <1>6. \A i \in I : r[i].on = "discover_vertex" <=> c[i] # N
    BY <1>1, <1>4, <1>5
  <1>7. \A i \in I : c[i] # N => c[i] = r[i].vertex
    BY <1>5
  <1> QED
    BY <1>6, <1>7 DEF ToldIn, InPlaces

LEMMA PathsAreWhite ==
  ASSUME DfsInv, DfsOrdered
  PROVE  Dfs!WhitePaths
  <1>1. PICK f : f = VerticesIn(calls, "finish_vertex")
    OBVIOUS
  <1>2. PICK d : d = VerticesIn(calls, "discover_vertex")
    OBVIOUS
  <1>3. \A event : Dfs!VerticesOf(event) = VerticesIn(calls, event)
    <2>1. \A event : Dfs!OfKind(calls, event) = OfKind(calls, event)
      BY DEF Dfs!OfKind, OfKind
    <2> QED
      BY <2>1 DEF Dfs!VerticesOf, Dfs!CallsOf, VerticesIn
  <1> SUFFICES ASSUME NEW u \in Dfs!ToSet(f)
               PROVE  LET since   == Dfs!When("discover_vertex", u)
                          earlier == {calls[i].vertex : i \in {j \in 1..(since - 1) : calls[j].on = "discover_vertex"}}
                          below   == {calls[i].vertex : i \in {j \in since..Dfs!When("finish_vertex", u) :
                                                                 calls[j].on = "discover_vertex"}}
                      IN  below = Dfs!ReachedWithin(Dfs!Successors(graph), Dfs!Vertices \ earlier, u)
    BY <1>1, <1>3 DEF Dfs!WhitePaths
  <1>4. calls # <<>>
    <2> SUFFICES ASSUME calls = <<>> PROVE FALSE
      OBVIOUS
    <2>1. f = <<>>
      BY <1>1, NothingTold DEF Tells
    <2> QED
      BY <2>1 DEF Dfs!ToSet
  <1>5. /\ graph \in Adjacency /\ calls \in Seq(VisitorCalls)
        /\ Discovering(graph, stack, f, d) /\ f \in Seq(Vertices)
        /\ ToldWhite(graph, stack, calls, d, f)
    BY <1>1, <1>2, <1>4 DEF DfsInv, DfsAfter, Classified, Searching, DfsOrdered, ToldInOrder
  <1>6. u \in Vertices /\ Listed(f, u) /\ Listed(d, u)
    <2>1. PICK i \in DOMAIN f : f[i] = u
      BY DEF Dfs!ToSet
    <2>2. i \in 1..Len(f) /\ f[i] \in Vertices
      BY <1>5, <2>1, LenProperties, ElementOfSeq
    <2>3. Listed(f, u)
      BY <2>1, <2>2 DEF Listed
    <2> QED
      BY <1>5, <2>1, <2>2, <2>3 DEF Discovering
  <1>7. PICK r \in Seq(VisitorCalls) : r = calls
    BY <1>5
  <1>8. PICK n \in Nat : n = Len(r)
    BY LenProperties
  <1>9. PICK c : c = LogOf(r, "discover_vertex")
    OBVIOUS
  <1>10. PICK z : z = LogOf(r, "finish_vertex")
    OBVIOUS
  <1>11. White(graph, stack, c, z) /\ Listed(c, u) /\ Listed(z, u)
    BY <1>5, <1>6, <1>7, <1>9, <1>10 DEF ToldWhite
  <1>12. PICK i \in 1..n : i = Dfs!When("discover_vertex", u) /\ c[i] = u
    BY <1>6, <1>7, <1>8, <1>9, <1>11, WhenIs DEF White
  <1>13. PICK j \in 1..n : j = Dfs!When("finish_vertex", u) /\ z[j] = u
    BY <1>6, <1>7, <1>8, <1>10, <1>11, WhenIs DEF White
  <1>14. Len(c) = n /\ Len(z) = n
    <2>1. c = [k \in 1..n |-> IF r[k].on = "discover_vertex" THEN r[k].vertex ELSE N]
      BY <1>8, <1>9 DEF LogOf
    <2>2. Len(c) = n
      BY <1>8, <1>11, <2>1, LenProperties DEF White
    <2> QED
      BY <1>11, <2>2 DEF White
  <1>15. Between(c, i, j) = Onwards(graph, c, i)
    BY <1>6, <1>11, <1>12, <1>13, <1>14, NotAVertex DEF White, WhiteAtEnd
  <1>16. ToldIn(r, 1..(i - 1)) = Before(c, i) \ {N}
    <2>1. PICK I : I = 1..(i - 1)
      OBVIOUS
    <2>2. I \subseteq 1..Len(r)
      BY <1>8, <2>1
    <2>3. ToldIn(r, I) = InPlaces(c, I)
      BY <1>7, <1>9, <2>2, LoggedWithin
    <2> QED
      BY <2>1, <2>3 DEF Before, InPlaces
  <1>17. ToldIn(r, i..j) = Between(c, i, j)
    <2>1. PICK I : I = i..j
      OBVIOUS
    <2>2. I \subseteq 1..Len(r)
      BY <1>8, <2>1
    <2>3. ToldIn(r, I) = InPlaces(c, I)
      BY <1>7, <1>9, <2>2, LoggedWithin
    <2> QED
      BY <2>1, <2>3 DEF Between, InPlaces
  <1>18. Dfs!Vertices \ (Before(c, i) \ {N}) = Vertices \ Before(c, i)
    BY NotAVertex DEF Dfs!Vertices, Vertices
  <1>19. Dfs!ReachedWithin(Dfs!Successors(graph), Dfs!Vertices \ (Before(c, i) \ {N}), u) = Onwards(graph, c, i)
    <2>1. Dfs!Successors(graph) = Successors(graph)
      BY DEF Successors, Dfs!Successors
    <2>2. \A succ, S, v : Dfs!ReachedWithin(succ, S, v) = ReachedWithin(succ, S, v)
      BY DEF ReachedWithin, Dfs!ReachedWithin, Cardinality, Dfs!Cardinality
    <2> QED
      BY <1>12, <1>18, <2>1, <2>2 DEF Onwards
  <1>20. ToldIn(r, i..j) = Dfs!ReachedWithin(Dfs!Successors(graph), Dfs!Vertices \ ToldIn(r, 1..(i - 1)), u)
    BY <1>15, <1>16, <1>17, <1>19
  <1>21. ToldIn(calls, Dfs!When("discover_vertex", u)..Dfs!When("finish_vertex", u))
         = Dfs!ReachedWithin(Dfs!Successors(graph),
                             Dfs!Vertices \ ToldIn(calls, 1..(Dfs!When("discover_vertex", u) - 1)), u)
    BY <1>7, <1>12, <1>13, <1>20
  <1> QED
    BY <1>21 DEF ToldIn

\* depth_first_search (src/include/graph/algorithm/depth_first_search.hpp): at any time the
\* vertices the visitor was told are discovered are in depth-first order; and between the
\* discovery and the end of a vertex it is told of those vertices that paths lead to through
\* vertices undiscovered before, and of no others.
THEOREM DiscoveryStaysInOrder ==
  Spec => [](search = "depth_first_search" => Dfs!DiscoveredInOrder /\ Dfs!WhitePaths)
  <1> DEFINE Inv == search = "depth_first_search" => DfsInv /\ DfsOrdered
             Order == search = "depth_first_search" => Dfs!DiscoveredInOrder /\ Dfs!WhitePaths
  <1>1. Init => Inv
    <2>1. Init => calls = <<>>
      BY DEF Init, Dfs!Init
    <2> QED
      BY <2>1, DfsBegins DEF DfsOrdered
  <1>2. Inv /\ [Next]_vars => Inv'
    <2> SUFFICES ASSUME Inv, [Next]_vars PROVE Inv'
      OBVIOUS
    <2>1. CASE UNCHANGED vars
      <3>1. UNCHANGED <<search, graph, seed, calls, color, stack>>
        BY <2>1 DEF vars, arguments
      <3>2. search = "depth_first_search" => DfsInv'
        BY <3>1 DEF DfsInv, DfsBefore, DfsAfter, Classified, Spanning
      <3>3. search = "depth_first_search" => DfsOrdered'
        BY <3>1 DEF DfsOrdered
      <3> QED
        BY <3>1, <3>2, <3>3
    <2>2. CASE Next
      <3>1. search' = search
        BY <2>2 DEF Next, arguments
      <3>2. search = "depth_first_search" => Dfs!SearchNext
        BY <2>2 DEF Next
      <3>3. search = "depth_first_search" => DfsOrdered'
        BY <3>2, OrderStarts, OrderFinishes, OrderFollows, OrderPasses DEF Dfs!SearchNext
      <3> QED
        BY <3>1, <3>2, <3>3, DfsSteps
    <2> QED
      BY <2>1, <2>2
  <1>3. Inv => Order
    BY DiscoversInOrder, PathsAreWhite DEF DfsInv, DfsAfter
  <1> QED
    BY <1>1, <1>2, <1>3, PTL DEF Spec

-----------------------------------------------------------------------------
(* What the views have seen and are to visit *)

\* v is the target of an edge of u.
Leads(u, v) == \E j \in 1..Len(graph[u]) : graph[u][j] = v

Seen(v) == Listed(visits, v)

\* All edges of u lead to vertices of S.
LeadsInto(u, S) == \A j \in 1..Len(graph[u]) : graph[u][j] \in S

LEMMA SeenAfter ==
  ASSUME NEW s \in Seq(Vertices), NEW v \in Vertices
  PROVE  /\ Append(s, v) \in Seq(Vertices)
         /\ Append(s, v) # <<>>
         /\ Last(Append(s, v)) = v
         /\ \A w : Listed(Append(s, v), w) <=> Listed(s, w) \/ w = v
  <1>1. /\ Len(s) \in Nat
        /\ Append(s, v) \in Seq(Vertices) /\ Len(Append(s, v)) = Len(s) + 1
        /\ \A i \in 1..Len(s) : Append(s, v)[i] = s[i]
        /\ Append(s, v)[Len(s) + 1] = v
    BY LenProperties, AppendProperties
  <1>2. Append(s, v) # <<>>
    BY <1>1, EmptySeq
  <1>3. Last(Append(s, v)) = v
    BY <1>1 DEF Last
  <1>4. ASSUME NEW w PROVE Listed(Append(s, v), w) <=> Listed(s, w) \/ w = v
    <2>1. \A i \in 1..(Len(s) + 1) : i \in 1..Len(s) \/ i = Len(s) + 1
      BY <1>1
    <2>2. Len(s) + 1 \in 1..(Len(s) + 1) /\ \A i \in 1..Len(s) : i \in 1..(Len(s) + 1)
      BY <1>1
    <2> QED
      BY <1>1, <2>1, <2>2 DEF Listed
  <1> QED
    BY <1>1, <1>2, <1>3, <1>4

\* What the elements of a view give PrunedSearch: either nothing is ahead and the view
\* ends, or the next element is a vertex ahead.
Exhausts == /\ UNCHANGED visits /\ ViewEnded'
            /\ \A u : Seen(u) /\ u \notin pruned' => \A w : Leads(u, w) => Seen(w)

Finds(v) == /\ visits' = Append(visits, v) /\ ~ViewEnded'
            /\ v \in Vertices /\ ~Seen(v)
            /\ \E u : Seen(u) /\ u \notin pruned' /\ Leads(u, v)

LEMMA Continues ==
  ASSUME graph \in Adjacency, visits \in Seq(Vertices), visits # <<>>,
         IsView, IsView', ~ViewEnded, ViewEnded \in BOOLEAN, ViewEnded' \in BOOLEAN,
         cancel # "cancel_all", cancel' = "continue_search",
         pruned' = IF cancel = "cancel_branch" THEN pruned \cup {Last(visits)} ELSE pruned,
         UNCHANGED <<graph, seed>>,
         Exhausts \/ \E v : Finds(v)
  PROVE  Promised!Continue
  <1> DEFINE A == (UNION {Successors(graph)[u] : u \in ToSet(visits) \ pruned'}) \ ToSet(visits)
  <1>1. ToSet(visits) = {v \in Vertices : Seen(v)} /\ \A v : Seen(v) => v \in Vertices
    BY SeenIs DEF Seen
  <1>2. \A u \in Vertices : Successors(graph)[u] = {w \in Vertices : Leads(u, w)}
    BY ListsOf DEF Leads
  <1>3. Promised!Ahead = A
    BY DEF Promised!Ahead, Promised!ToSet, Promised!Successors, ToSet, Successors
  <1>4. \A v : v \in A <=> v \in Vertices /\ ~Seen(v) /\ \E u : Seen(u) /\ u \notin pruned' /\ Leads(u, v)
    BY <1>1, <1>2
  <1> HIDE DEF A
  <1>5. CASE Exhausts
    <2>1. A = {}
      BY <1>4, <1>5 DEF Exhausts
    <2> QED
      BY <1>3, <1>5, <2>1 DEF Promised!Continue, Exhausts, Promised!Last, Last
  <1>6. CASE \E v : Finds(v)
    <2>1. PICK v : Finds(v)
      BY <1>6
    <2>2. v \in A /\ visits' = Append(visits, v) /\ ViewEnded' = ViewEnded
      BY <1>4, <2>1 DEF Finds
    <2> QED
      BY <1>3, <2>2 DEF Promised!Continue, Promised!Last, Last
  <1> QED
    BY <1>5, <1>6

-----------------------------------------------------------------------------
(* The inductive invariants of the views *)

\* The edges of v before position n lead to vertices of S.
Passed(v, n, S) == \A j \in 1..Len(graph[v]) : j < n => graph[v][j] \in S

Entries == [vertex : Vertices, depth : Nat, next : Nat \ {0}]

CancelStates == {"continue_search", "cancel_branch", "cancel_all"}

\* vertices_bfs: the queue begins with the current vertex; the others on it are those ahead.
BfsVertices ==
  queue # <<>> =>
    /\ queue[1].vertex = Last(visits) /\ Last(visits) \notin pruned
    /\ Apart(queue)
    /\ \A i \in 2..Len(queue) :
         /\ ~Seen(queue[i].vertex)
         /\ \E u : Seen(u) /\ u \notin pruned /\ u # Last(visits) /\ Leads(u, queue[i].vertex)
    /\ \A v : v \in visited <=> Seen(v) \/ On(queue, v)
    /\ \A u : Seen(u) /\ u \notin pruned /\ u # Last(visits) => LeadsInto(u, visited)

\* edges_bfs: what was visited is pruned, or its edges are behind, or it is on the queue;
\* pruned vertices on the queue are to be skipped.
BfsEdges ==
  queue # <<>> =>
    /\ \A v : v \in visited <=> Seen(v)
    /\ Apart(queue) /\ \A i \in 1..Len(queue) : Seen(queue[i].vertex)
    /\ \A i \in 1..Len(queue) : queue[i].vertex \in pruned => queue[i].vertex = skip
    /\ skip # N => skip \in pruned
    /\ \A v : Seen(v) => \/ v \in pruned \/ LeadsInto(v, visited)
                         \/ \E k \in 1..Len(queue) : queue[k].vertex = v /\ Passed(v, queue[k].next, visited)

ViewsType == /\ graph \in Adjacency /\ seed \in Vertices
             /\ yields \in {"vertices", "edges"}
             /\ visits \in Seq(Vertices)
             /\ \A v \in pruned : Seen(v)
             /\ cancel \in CancelStates

BfsBefore == /\ queue = <<>> /\ cancel = "continue_search" /\ skip = N
             /\ edge = <<>> /\ begun = FALSE /\ pruned = {}

BfsAfter == /\ queue \in Seq(Entries)
            /\ begun \in BOOLEAN
            /\ begun => (edge = <<>> <=> queue = <<>>) \/ (yields = "vertices" /\ edge = <<>>)
            /\ ~begun => queue # <<>> /\ edge = <<>> /\ cancel = "continue_search"
            /\ yields = "vertices" => begun /\ edge = <<>> /\ BfsVertices
            /\ yields = "edges" => /\ BfsEdges
                                   /\ cancel = "cancel_branch" => skip = N
                                   /\ edge # <<>> => BfsView!Target(edge) = Last(visits)

BfsViewInv == /\ ViewsType
              /\ visits = <<>> => BfsBefore
              /\ visits # <<>> => BfsAfter

DfsStack ==
  stack # <<>> =>
    /\ \A v : v \in visited <=> Seen(v)
    /\ Apart(stack)
    /\ \A i \in 1..Len(stack) : Seen(stack[i].vertex) /\ stack[i].vertex \notin pruned
    /\ stack[Len(stack)].vertex = Last(visits)
    /\ \A v : Seen(v) => \/ v \in pruned \/ LeadsInto(v, visited)
                         \/ \E k \in 1..Len(stack) : stack[k].vertex = v /\ Passed(v, stack[k].next, visited)

DfsViewInv == /\ ViewsType
              /\ visits = <<>> => stack = <<>> /\ cancel = "continue_search" /\ pruned = {}
              /\ visits # <<>> => stack \in Seq(Frames) /\ DfsStack

LEMMA DfsEnded ==
  ASSUME search = "dfs_views"
  PROVE  /\ ViewEnded \in BOOLEAN
         /\ ViewEnded <=> visits # <<>> /\ stack = <<>>
         /\ IsView
  BY DEF ViewEnded, DfsView!AtEnd, DfsView!Made, IsView

LEMMA DfsEndedNext ==
  ASSUME search' = "dfs_views"
  PROVE  /\ ViewEnded' \in BOOLEAN
         /\ ViewEnded' <=> visits' # <<>> /\ stack' = <<>>
         /\ IsView'
  BY DEF ViewEnded, DfsView!AtEnd, DfsView!Made, IsView

\* The inductive invariant of the search views.
ViewInv == /\ search = "bfs_views" => BfsViewInv
           /\ search = "dfs_views" => DfsViewInv

-----------------------------------------------------------------------------
(* The steps of the depth-first views *)

\* An iteration that takes edge f of entry e, the k-th of the stack, to v; b entries were
\* left when the branch had been cut.
TakesDown(n, b, k, e, f, v) ==
  /\ n = Len(stack) /\ b \in 0..n /\ k \in 1..b /\ e = stack[k] /\ f \in 1..Len(graph[e.vertex])
  /\ \A i \in 1..b : stack[i].vertex \notin pruned'
  /\ \A i \in (b + 1)..n : stack[i].vertex \in pruned'
  /\ \A u \in pruned : u \in pruned'
  /\ \A u \in pruned' : Seen(u)
  /\ \A i \in (k + 1)..b : LeadsInto(stack[i].vertex, visited)
  /\ v = graph[e.vertex][f] /\ v \notin visited
  /\ Passed(e.vertex, f, visited)
  /\ TopsOff(stack', Frames, stack, k, [e EXCEPT !.next = f + 1], DfsView!Entry(v))
  /\ visited' = visited \cup {v}
  /\ visits' = Append(visits, v)

TakenDown(v) == /\ visits' \in Seq(Vertices) /\ visits' # <<>> /\ Last(visits') = v
                /\ \A u \in pruned' : Seen(u)'
                /\ stack' \in Seq(Frames) /\ stack' # <<>> /\ DfsStack'
                /\ v \in Vertices /\ ~Seen(v)

LEMMA DfsTakes ==
  ASSUME ViewsType, visits # <<>>, stack \in Seq(Frames), stack # <<>>, DfsStack, UNCHANGED graph,
         NEW n \in Nat, NEW b \in Nat, NEW k \in Nat, NEW e, NEW f \in Nat, NEW v,
         TakesDown(n, b, k, e, f, v)
  PROVE  TakenDown(v)
  <1>0. /\ n = Len(stack) /\ b \in 0..n /\ k \in 1..b /\ e = stack[k] /\ f \in 1..Len(graph[e.vertex])
        /\ \A i \in 1..b : stack[i].vertex \notin pruned'
        /\ \A i \in (b + 1)..n : stack[i].vertex \in pruned'
        /\ \A u \in pruned : u \in pruned'
        /\ \A u \in pruned' : Seen(u)
        /\ \A i \in (k + 1)..b : LeadsInto(stack[i].vertex, visited)
        /\ v = graph[e.vertex][f] /\ v \notin visited
        /\ Passed(e.vertex, f, visited)
        /\ visited' = visited \cup {v}
        /\ visits' = Append(visits, v)
    BY DEF TakesDown
  <1>1. /\ \A i \in 1..n : stack[i] \in Frames /\ stack[i].vertex \in Vertices /\ stack[i].next \in Nat \ {0}
        /\ visits \in Seq(Vertices) /\ graph \in Adjacency
    <2>1. \A i \in 1..n : stack[i] \in Frames
      BY <1>0, ElementOfSeq
    <2> QED
      BY <2>1 DEF Frames, ViewsType
  <1>2. /\ \A u : u \in visited <=> Seen(u)
        /\ Apart(stack) /\ \A i \in 1..n : Seen(stack[i].vertex)
        /\ \A u : Seen(u) => \/ u \in pruned \/ LeadsInto(u, visited)
                             \/ \E i \in 1..n : stack[i].vertex = u /\ Passed(u, stack[i].next, visited)
    BY <1>0 DEF DfsStack
  <1>3. v \in Vertices /\ ~Seen(v) /\ v \notin pruned' /\ f # 0
    <2>1. e.vertex \in Vertices
      BY <1>0, <1>1
    <2>2. graph[e.vertex][f] \in Vertices /\ Len(graph[e.vertex]) \in Nat
      BY <1>0, <1>1, <2>1, ListsOf
    <2> QED
      BY <1>0, <1>2, <2>2
  <1>4. /\ visits' \in Seq(Vertices) /\ visits' # <<>> /\ Last(visits') = v
        /\ \A u : Seen(u)' <=> Seen(u) \/ u = v
    <2>1. /\ Append(visits, v) \in Seq(Vertices) /\ Append(visits, v) # <<>> /\ Last(Append(visits, v)) = v
          /\ \A u : Listed(Append(visits, v), u) <=> Listed(visits, u) \/ u = v
      BY <1>1, <1>3, SeenAfter
    <2> QED
      BY <1>0, <2>1 DEF Seen
  <1>5. PICK x, y : /\ x \in Frames /\ x.vertex = e.vertex /\ x.next = f + 1
                    /\ y \in Frames /\ y.vertex = v /\ y.next = 1
                    /\ TopsOff(stack', Frames, stack, k, x, y)
    <2>1. e \in Frames /\ f + 1 \in Nat \ {0}
      BY <1>0, <1>1
    <2>2. /\ [e EXCEPT !.next = f + 1] \in Frames /\ [e EXCEPT !.next = f + 1].vertex = e.vertex
          /\ [e EXCEPT !.next = f + 1].next = f + 1
      BY <2>1 DEF Frames
    <2>3. DfsView!Entry(v) \in Frames /\ DfsView!Entry(v).vertex = v /\ DfsView!Entry(v).next = 1
      BY <1>3 DEF Frames, DfsView!Entry
    <2>4. TopsOff(stack', Frames, stack, k, [e EXCEPT !.next = f + 1], DfsView!Entry(v))
      BY DEF TakesDown
    <2> QED
      BY <2>2, <2>3, <2>4
  <1>6. /\ stack' \in Seq(Frames) /\ Len(stack') = k + 1
        /\ stack'[k] = x /\ stack'[k + 1] = y
        /\ \A j \in 1..(k - 1) : stack'[j] = stack[j]
        /\ \A j \in 1..k : j \in 1..n /\ stack'[j].vertex = stack[j].vertex
        /\ \A j \in 1..Len(stack') : j \in 1..k \/ j = k + 1
    <2>1. /\ stack' \in Seq(Frames) /\ Len(stack') = k + 1 /\ stack'[k] = x /\ stack'[k + 1] = y
          /\ \A j \in 1..(k - 1) : stack'[j] = stack[j]
      BY <1>5 DEF TopsOff
    <2>2. ASSUME NEW j \in 1..k PROVE j \in 1..n /\ stack'[j].vertex = stack[j].vertex
      <3>1. j = k \/ j \in 1..(k - 1)
        OBVIOUS
      <3>2. j \in 1..n
        BY <1>0
      <3> QED
        BY <1>0, <1>5, <2>1, <3>1, <3>2
    <2>3. \A j \in 1..(k + 1) : j \in 1..k \/ j = k + 1
      OBVIOUS
    <2> QED
      BY <2>1, <2>2, <2>3
  <1>7. Apart(stack')
    <2> SUFFICES ASSUME NEW i \in 1..Len(stack'), NEW j \in 1..Len(stack'), stack'[i].vertex = stack'[j].vertex
                 PROVE  i = j
      BY DEF Apart
    <2>1. ASSUME NEW z \in 1..k PROVE stack'[z].vertex # v
      BY <1>2, <1>3, <1>6
    <2>2. CASE i \in 1..k /\ j \in 1..k
      <3>1. i \in 1..n /\ j \in 1..n /\ stack[i].vertex = stack[j].vertex
        BY <1>6, <2>2
      <3> QED
        BY <1>0, <1>2, <3>1 DEF Apart
    <2> QED
      BY <1>5, <1>6, <2>1, <2>2
  <1>8. \A j \in 1..Len(stack') : Listed(visits', stack'[j].vertex) /\ stack'[j].vertex \notin pruned'
    <2> TAKE j \in 1..Len(stack')
    <2>1. Listed(visits', v) /\ \A u : Seen(u) => Listed(visits', u)
      BY <1>4 DEF Seen
    <2>2. CASE j = k + 1
      BY <1>3, <1>5, <1>6, <2>1, <2>2
    <2>3. CASE j \in 1..k
      <3>1. j \in 1..b /\ j \in 1..n
        BY <1>0, <2>3
      <3> QED
        BY <1>0, <1>2, <1>6, <2>1, <2>3, <3>1
    <2> QED
      BY <1>6, <2>2, <2>3
  <1>9. ASSUME NEW u, Seen(u) \/ u = v
        PROVE  \/ u \in pruned' \/ LeadsInto(u, visited')
               \/ \E j \in 1..Len(stack') : stack'[j].vertex = u /\ Passed(u, stack'[j].next, visited')
    <2>1. CASE u = v
      <3>1. k + 1 \in 1..Len(stack') /\ stack'[k + 1].vertex = v /\ stack'[k + 1].next = 1
        BY <1>5, <1>6
      <3>2. Passed(v, 1, visited')
        <4>1. Len(graph[v]) \in Nat
          BY <1>1, <1>3, ListsOf
        <4> QED
          BY <4>1 DEF Passed
      <3> QED
        BY <2>1, <3>1, <3>2
    <2>2. CASE Seen(u) /\ LeadsInto(u, visited)
      BY <1>0, <2>2 DEF LeadsInto
    <2>3. CASE Seen(u) /\ u \in pruned
      BY <1>0, <2>3
    <2>4. CASE \E i \in 1..n : stack[i].vertex = u /\ Passed(u, stack[i].next, visited)
      <3>1. PICK i \in 1..n : stack[i].vertex = u /\ Passed(u, stack[i].next, visited)
        BY <2>4
      <3>2. CASE i \in 1..(k - 1)
        <4>1. i \in 1..Len(stack') /\ stack'[i] = stack[i]
          <5>1. i \in 1..(k + 1)
            BY <3>2
          <5> QED
            BY <1>6, <3>2, <5>1
        <4>2. Passed(u, stack[i].next, visited')
          BY <1>0, <3>1 DEF Passed
        <4> QED
          BY <3>1, <4>1, <4>2
      <3>3. CASE i = k
        <4>1. k \in 1..Len(stack') /\ stack'[k].vertex = u /\ stack'[k].next = f + 1
          <5>1. k \in 1..(k + 1)
            BY <1>0
          <5> QED
            BY <1>0, <1>5, <1>6, <3>1, <3>3, <5>1
        <4>2. u \in Vertices /\ u = e.vertex
          BY <1>0, <1>1, <3>1, <3>3
        <4>3. Len(graph[u]) \in Nat
          BY <1>1, <4>2, ListsOf
        <4>4. ASSUME NEW j \in 1..Len(graph[u]), j < f + 1 PROVE graph[u][j] \in visited'
          <5>1. j < f \/ j = f
            BY <4>3, <4>4
          <5> QED
            BY <1>0, <4>2, <5>1 DEF Passed
        <4>5. Passed(u, f + 1, visited')
          BY <4>4 DEF Passed
        <4> QED
          BY <4>1, <4>5
      <3>4. CASE i \in (k + 1)..b
        BY <1>0, <3>1, <3>4 DEF LeadsInto
      <3>5. CASE i \in (b + 1)..n
        BY <1>0, <3>1, <3>5
      <3>6. i \in 1..(k - 1) \/ i = k \/ i \in (k + 1)..b \/ i \in (b + 1)..n
        BY <1>0
      <3> QED
        BY <3>2, <3>3, <3>4, <3>5, <3>6
    <2> QED
      BY <1>2, <1>9, <2>1, <2>2, <2>3, <2>4
  <1>10. DfsStack'
    <2>1. \A u : u \in visited' <=> Seen(u)'
      BY <1>0, <1>2, <1>4
    <2>2. Apart(stack)' /\ \A j \in 1..Len(stack') : Seen(stack[j].vertex)' /\ stack'[j].vertex \notin pruned'
      BY <1>7, <1>8 DEF Apart, Seen
    <2>3. \A u : Seen(u)' => \/ u \in pruned' \/ LeadsInto(u, visited)'
                    \/ \E j \in 1..Len(stack') : stack'[j].vertex = u /\ Passed(u, stack[j].next, visited)'
      <3>1. graph' = graph
        OBVIOUS
      <3> QED
        BY <1>4, <1>9, <3>1 DEF LeadsInto, Passed
    <2>4. stack'[Len(stack')].vertex = Last(visits')
      BY <1>4, <1>5, <1>6
    <2> QED
      BY <2>1, <2>2, <2>3, <2>4 DEF DfsStack
  <1>11. stack' # <<>>
    <2>1. Len(stack') # 0
      BY <1>6
    <2> QED
      BY <1>6, <2>1, EmptySeq
  <1>12. \A u \in pruned' : Seen(u)'
    BY <1>0, <1>4
  <1> QED
    BY <1>3, <1>4, <1>6, <1>10, <1>11, <1>12 DEF TakenDown

LEMMA NothingFreshBelow ==
  ASSUME NEW q, q.next \in Nat, Len(graph[q.vertex]) \in Nat,
         Passed(q.vertex, q.next, visited), DfsView!Fresh(q) = {}
  PROVE  LeadsInto(q.vertex, visited)
  <1> SUFFICES ASSUME NEW j \in 1..Len(graph[q.vertex]) PROVE graph[q.vertex][j] \in visited
    BY DEF LeadsInto
  <1>1. CASE j < q.next
    BY <1>1 DEF Passed
  <1>2. CASE ~(j < q.next)
    <2>1. j \in q.next..Len(graph[q.vertex])
      BY <1>2
    <2> QED
      BY <2>1 DEF DfsView!Fresh
  <1> QED
    BY <1>1, <1>2

\* What an iteration does: it empties the stack, or takes an edge.
DfsMoves ==
  \/ stack' = <<>> /\ edge' = <<>> /\ UNCHANGED <<visits, count>>
  \/ \E n, b, k, f \in Nat, e \in Frames : \E v :
       /\ TakesDown(n, b, k, e, f, v)
       /\ count' = count + 1
       /\ edge' = IF yields = "edges" THEN <<e.vertex, f>> ELSE <<>>

LEMMA DfsAdvance ==
  ASSUME DfsViewInv, search = "dfs_views", UNCHANGED arguments, DfsView!Advance
  PROVE  DfsViewInv' /\ Promised!Continue /\ DfsMoves
  <1>1. /\ stack # <<>> /\ cancel # "cancel_all" /\ cancel' = "continue_search"
        /\ UNCHANGED <<graph, seed, yields, search>>
        /\ pruned' = IF cancel = "cancel_branch" THEN pruned \cup {DfsView!Last(stack).vertex} ELSE pruned
    BY DEF arguments, DfsView!Advance
  <1>2. /\ ViewsType /\ visits # <<>> /\ visits \in Seq(Vertices) /\ graph \in Adjacency
        /\ stack \in Seq(Frames) /\ DfsStack
    BY <1>1 DEF DfsViewInv, ViewsType
  <1>3. ViewEnded \in BOOLEAN /\ ~ViewEnded /\ IsView
    BY <1>1, DfsEnded
  <1>4. PICK c : c = Last(visits)
    OBVIOUS
  <1>5. PICK n \in Nat : n = Len(stack) /\ n # 0
    BY <1>1, <1>2, LenProperties, EmptySeq
  <1>6. Seen(c) /\ c \in Vertices /\ \A u : Seen(u) => u \in Vertices
    BY <1>2, <1>4, SeenIs DEF Seen
  <1>7. /\ \A u : u \in visited <=> Seen(u)
        /\ Apart(stack) /\ \A i \in 1..n : Seen(stack[i].vertex) /\ stack[i].vertex \notin pruned
        /\ stack[n].vertex = c
        /\ \A u : Seen(u) => \/ u \in pruned \/ LeadsInto(u, visited)
                             \/ \E i \in 1..n : stack[i].vertex = u /\ Passed(u, stack[i].next, visited)
    BY <1>1, <1>2, <1>4, <1>5 DEF DfsStack
  <1>8. pruned' = IF cancel = "cancel_branch" THEN pruned \cup {c} ELSE pruned
    BY <1>1, <1>5, <1>7 DEF DfsView!Last
  <1>9. /\ \A i \in 1..n : stack[i] \in Frames /\ stack[i].vertex \in Vertices /\ stack[i].next \in Nat \ {0}
        /\ \A i \in 1..n : Len(graph[stack[i].vertex]) \in Nat
    <2>1. \A i \in 1..n : stack[i] \in Frames
      BY <1>2, <1>5, ElementOfSeq
    <2>2. \A i \in 1..n : stack[i] \in Frames /\ stack[i].vertex \in Vertices /\ stack[i].next \in Nat \ {0}
      BY <2>1 DEF Frames
    <2> QED
      BY <1>2, <2>2, ListsOf
  \* The stack below what was cut.
  <1>10. PICK q \in Seq(Frames), b \in Nat :
           /\ q = DfsView!Base /\ b = Len(q) /\ DOMAIN q = 1..b
           /\ b = (IF cancel = "cancel_branch" THEN n - 1 ELSE n)
           /\ b \in 0..n
           /\ \A i \in 1..b : q[i] = stack[i]
    <2>1. CASE cancel = "cancel_branch"
      <3>1. DfsView!Base = SubSeq(stack, 1, n - 1)
        BY <1>5, <2>1 DEF DfsView!Base, DfsView!Front
      <3>2. \A i \in 1..(n - 1) : stack[i] \in Frames
        BY <1>9
      <3>3. PICK q : q = SubSeq(stack, 1, n - 1)
        OBVIOUS
      <3>4. /\ q \in Seq(Frames) /\ Len(q) = IF 1 <= n - 1 THEN (n - 1) - 1 + 1 ELSE 0
            /\ \A i \in 1..((n - 1) - 1 + 1) : q[i] = stack[1 + i - 1]
        BY <3>2, <3>3, SubSeqProperties
      <3>5. Len(q) = n - 1 /\ n - 1 \in Nat
        BY <1>5, <3>4
      <3>6. \A i \in 1..(n - 1) : q[i] = stack[i]
        <4>1. \A i \in 1..(n - 1) : i \in 1..((n - 1) - 1 + 1) /\ 1 + i - 1 = i
          OBVIOUS
        <4> QED
          BY <3>4, <4>1
      <3>7. DOMAIN q = 1..(n - 1)
        BY <3>4, <3>5, LenProperties
      <3>8. n - 1 \in 0..n
        BY <1>5
      <3> QED
        BY <2>1, <3>1, <3>3, <3>4, <3>5, <3>6, <3>7, <3>8
    <2>2. CASE cancel # "cancel_branch"
      <3>1. DfsView!Base = stack
        BY <2>2 DEF DfsView!Base
      <3>2. DOMAIN stack = 1..n /\ n \in 0..n
        BY <1>2, <1>5, LenProperties
      <3> QED
        BY <1>2, <1>5, <2>2, <3>1, <3>2
    <2> QED
      BY <2>1, <2>2
  <1>11. /\ \A i \in 1..b : stack[i].vertex \notin pruned'
         /\ \A i \in (b + 1)..n : stack[i].vertex \in pruned'
         /\ \A u \in pruned : u \in pruned'
         /\ \A u \in pruned' : Seen(u)
    <2>1. \A u \in pruned : Seen(u)
      BY <1>2 DEF ViewsType
    <2>2. CASE cancel = "cancel_branch"
      <3>1. ASSUME NEW i \in 1..b PROVE i \in 1..n /\ stack[i].vertex # c
        <4>1. i \in 1..n /\ n \in 1..n /\ i # n
          BY <1>5, <1>10, <2>2
        <4> QED
          BY <1>5, <1>7, <4>1 DEF Apart
      <3>2. \A i \in (b + 1)..n : i = n
        BY <1>10, <2>2
      <3> QED
        BY <1>6, <1>7, <1>8, <2>1, <2>2, <3>1, <3>2
    <2>3. CASE cancel # "cancel_branch"
      <3>1. b = n /\ \A i \in (b + 1)..n : FALSE
        BY <1>10, <2>3
      <3> QED
        BY <1>7, <1>8, <2>1, <2>3, <3>1
    <2> QED
      BY <2>2, <2>3
  <1>12. PICK P : P = DfsView!Productive
    OBVIOUS
  <1>13. /\ P \in SUBSET (1..b) /\ P \in SUBSET (0..b)
         /\ \A i \in 1..b : i \in P <=> DfsView!Fresh(stack[i]) # {}
    BY <1>10, <1>12 DEF DfsView!Productive
  <1>14. ASSUME NEW u, NEW i \in 1..b, stack[i].vertex = u, Passed(u, stack[i].next, visited), i \notin P
         PROVE  LeadsInto(u, visited)
    <2>1. i \in 1..n
      BY <1>10
    <2>2. stack[i].next \in Nat /\ Len(graph[stack[i].vertex]) \in Nat /\ DfsView!Fresh(stack[i]) = {}
      BY <1>9, <1>13, <1>14, <2>1
    <2> QED
      BY <1>14, <2>2, NothingFreshBelow
  <1>15. CASE P = {}
    <2>1. stack' = <<>> /\ UNCHANGED <<visited, visits>>
      BY <1>12, <1>15 DEF DfsView!Advance
    <2>2. ASSUME NEW u, Seen(u), u \notin pruned' PROVE \A w : Leads(u, w) => Seen(w)
      <3>1. LeadsInto(u, visited)
        <4>1. CASE \E i \in 1..n : stack[i].vertex = u /\ Passed(u, stack[i].next, visited)
          <5>1. PICK i \in 1..n : stack[i].vertex = u /\ Passed(u, stack[i].next, visited)
            BY <4>1
          <5>2. i \in 1..b
            <6>1. i \in 1..b \/ i \in (b + 1)..n
              BY <1>10
            <6> QED
              BY <1>11, <2>2, <5>1, <6>1
          <5> QED
            BY <1>14, <1>15, <5>1, <5>2
        <4> QED
          BY <1>7, <1>11, <2>2, <4>1
      <3> QED
        BY <1>7, <3>1 DEF Leads, LeadsInto
    <2>3. DfsViewInv'
      <3>1. stack' \in Seq(Frames)
        BY <2>1, EmptySeq
      <3>2. ViewsType'
        BY <1>1, <1>2, <1>11, <2>1 DEF ViewsType, CancelStates, Seen
      <3> QED
        BY <1>2, <2>1, <3>1, <3>2 DEF DfsViewInv, DfsStack
    <2>4. ViewEnded' \in BOOLEAN /\ ViewEnded' /\ IsView'
      BY <1>1, <1>2, <2>1, DfsEndedNext
    <2>5. Exhausts
      BY <2>1, <2>2, <2>4 DEF Exhausts
    <2>6. Promised!Continue
      <3>1. pruned' = IF cancel = "cancel_branch" THEN pruned \cup {Last(visits)} ELSE pruned
        BY <1>4, <1>8
      <3> QED
        BY <1>1, <1>2, <1>3, <2>4, <2>5, <3>1, Continues
    <2>7. DfsMoves
      <3>1. edge' = <<>> /\ count' = count
        BY <1>12, <1>15 DEF DfsView!Advance, DfsView!NoEdge
      <3> QED
        BY <2>1, <3>1 DEF DfsMoves
    <2> QED
      BY <2>3, <2>6, <2>7
  <1>16. CASE P # {}
    <2>1. PICK k, e, f, v : /\ k = (CHOOSE i \in P : \A j \in P : j <= i) /\ e = stack[k]
                            /\ f = (CHOOSE i \in DfsView!Fresh(e) : \A j \in DfsView!Fresh(e) : i <= j)
                            /\ v = graph[e.vertex][f]
      OBVIOUS
    <2>2. k \in P /\ k \in 1..b /\ k \in 1..n /\ k \in Nat /\ \A j \in P : j <= k
      <3>1. k \in P /\ \A j \in P : j <= k
        BY <1>13, <1>16, <2>1, Extremes
      <3> QED
        BY <1>10, <1>13, <3>1
    <2>3. /\ DfsView!Fresh(e) # {} /\ e.vertex \in Vertices /\ e.next \in Nat \ {0}
          /\ Len(graph[e.vertex]) \in Nat /\ e \in Frames /\ q[k] = e
      BY <1>9, <1>10, <1>13, <2>1, <2>2
    <2>4. /\ f \in 1..Len(graph[e.vertex]) /\ f \in Nat /\ v \notin visited
          /\ f >= e.next /\ \A j \in 1..Len(graph[e.vertex]) : e.next <= j /\ j < f => graph[e.vertex][j] \in visited
      <3>1. DfsView!Fresh(e) \subseteq Nat
        BY <2>3 DEF DfsView!Fresh
      <3>2. f \in DfsView!Fresh(e) /\ \A j \in DfsView!Fresh(e) : f <= j
        BY <2>1, <2>3, <3>1, Extremes
      <3>3. f \in e.next..Len(graph[e.vertex]) /\ graph[e.vertex][f] \notin visited
        BY <3>2 DEF DfsView!Fresh
      <3>4. ASSUME NEW j \in 1..Len(graph[e.vertex]), e.next <= j, j < f PROVE graph[e.vertex][j] \in visited
        <4>1. j \notin DfsView!Fresh(e)
          BY <2>3, <3>2, <3>3, <3>4
        <4>2. j \in e.next..Len(graph[e.vertex])
          BY <2>3, <3>4
        <4> QED
          BY <4>1, <4>2 DEF DfsView!Fresh
      <3>5. f \in 1..Len(graph[e.vertex]) /\ f \in Nat /\ f >= e.next
        BY <2>3, <3>3
      <3>6. v \notin visited
        BY <2>1, <3>3
      <3> QED
        BY <3>4, <3>5, <3>6
    <2>5. \A i \in (k + 1)..b : LeadsInto(stack[i].vertex, visited)
      <3> SUFFICES ASSUME NEW i \in (k + 1)..b PROVE LeadsInto(stack[i].vertex, visited)
        OBVIOUS
      <3>1. i \in 1..b /\ i \in 1..n /\ i \notin P
        BY <1>10, <2>2
      <3>2. Seen(stack[i].vertex) /\ stack[i].vertex \notin pruned
        BY <1>7, <3>1
      <3>3. CASE \E j \in 1..n : stack[j].vertex = stack[i].vertex /\ Passed(stack[i].vertex, stack[j].next, visited)
        <4>1. Passed(stack[i].vertex, stack[i].next, visited)
          BY <1>5, <1>7, <3>1, <3>3 DEF Apart
        <4> QED
          BY <1>14, <3>1, <4>1
      <3> QED
        BY <1>7, <3>2, <3>3
    <2>6. Passed(e.vertex, f, visited)
      <3>1. Seen(e.vertex) /\ ~LeadsInto(e.vertex, visited) /\ e.vertex \notin pruned
        BY <1>7, <2>1, <2>2, <2>4 DEF LeadsInto
      <3>2. PICK i \in 1..n : stack[i].vertex = e.vertex /\ Passed(e.vertex, stack[i].next, visited)
        BY <1>7, <3>1
      <3>3. i = k
        BY <1>5, <1>7, <2>1, <2>2, <3>2 DEF Apart
      <3>4. Passed(e.vertex, e.next, visited)
        BY <2>1, <3>2, <3>3
      <3>5. ASSUME NEW j \in 1..Len(graph[e.vertex]), j < f PROVE graph[e.vertex][j] \in visited
        <4>1. j < e.next \/ e.next <= j
          BY <2>3
        <4> QED
          BY <2>4, <3>4, <3>5, <4>1 DEF Passed
      <3> QED
        BY <3>5 DEF Passed
    <2>7. /\ stack' = SubSeq(q, 1, k - 1) \o <<[e EXCEPT !.next = f + 1], DfsView!Entry(v)>>
          /\ visited' = visited \cup {v}
          /\ visits' = Append(visits, v)
      BY <1>10, <1>12, <1>16, <2>1, <2>3 DEF DfsView!Advance
    <2>8. v \in Vertices
      BY <1>2, <2>1, <2>3, <2>4, ListsOf
    <2>9. TopsOff(stack', Frames, stack, k, [e EXCEPT !.next = f + 1], DfsView!Entry(v))
      <3>1. [e EXCEPT !.next = f + 1] \in Frames /\ DfsView!Entry(v) \in Frames
        <4>1. f + 1 \in Nat \ {0}
          BY <2>4
        <4>2. [e EXCEPT !.next = f + 1] \in Frames
          BY <2>3, <4>1 DEF Frames
        <4> QED
          BY <2>8, <4>2 DEF Frames, DfsView!Entry
      <3>2. TopsOff(stack', Frames, q, k, [e EXCEPT !.next = f + 1], DfsView!Entry(v))
        BY <1>10, <2>2, <2>7, <3>1, TopOff
      <3>3. \A j \in 1..(k - 1) : q[j] = stack[j]
        BY <1>10, <2>2
      <3> QED
        BY <3>2, <3>3 DEF TopsOff
    <2>10. TakesDown(n, b, k, e, f, v)
      BY <1>5, <1>10, <1>11, <2>1, <2>2, <2>4, <2>5, <2>6, <2>7, <2>9 DEF TakesDown
    <2>11. TakenDown(v)
      BY <1>1, <1>2, <2>2, <2>4, <2>10, DfsTakes
    <2>12. DfsViewInv'
      <3>1. ViewsType'
        BY <1>1, <1>2, <2>11 DEF ViewsType, CancelStates, TakenDown
      <3> QED
        BY <2>11, <3>1 DEF DfsViewInv, TakenDown
    <2>13. ViewEnded' \in BOOLEAN /\ ~ViewEnded' /\ IsView'
      BY <1>1, <2>11, DfsEndedNext DEF TakenDown
    <2>14. Finds(v)
      <3>1. Seen(e.vertex) /\ e.vertex \notin pruned' /\ Leads(e.vertex, v)
        BY <1>7, <1>11, <2>1, <2>2, <2>4 DEF Leads
      <3> QED
        BY <2>7, <2>11, <2>13, <3>1 DEF Finds, TakenDown
    <2>15. Promised!Continue
      <3>1. pruned' = IF cancel = "cancel_branch" THEN pruned \cup {Last(visits)} ELSE pruned
        BY <1>4, <1>8
      <3> QED
        BY <1>1, <1>2, <1>3, <2>13, <2>14, <3>1, Continues
    <2>16. DfsMoves
      <3>1. count' = count + 1 /\ edge' = IF yields = "edges" THEN <<e.vertex, f>> ELSE <<>>
        BY <1>10, <1>12, <1>16, <2>1, <2>3 DEF DfsView!Advance, DfsView!NoEdge
      <3> QED
        BY <2>2, <2>3, <2>4, <2>10, <3>1 DEF DfsMoves
    <2> QED
      BY <2>12, <2>15, <2>16
  <1> QED
    BY <1>15, <1>16

LEMMA DfsStep ==
  ASSUME DfsViewInv, search = "dfs_views", UNCHANGED arguments, DfsView!Next
  PROVE  DfsViewInv' /\ Promised!Next
  <1>1. /\ UNCHANGED <<search, seed, yields>> /\ search' = "dfs_views"
        /\ ViewEnded \in BOOLEAN /\ (ViewEnded <=> visits # <<>> /\ stack = <<>>) /\ IsView
        /\ ViewEnded' \in BOOLEAN /\ (ViewEnded' <=> visits' # <<>> /\ stack' = <<>>) /\ IsView'
    BY DfsEnded, DfsEndedNext DEF arguments
  <1>2. ViewsType
    BY DEF DfsViewInv
  <1>3. CASE DfsView!Make
    <2>1. /\ visits = <<>> /\ stack' = <<DfsView!Entry(seed)>> /\ visited' = {seed} /\ visits' = <<seed>>
          /\ UNCHANGED <<graph, cancel, pruned>>
      BY <1>3 DEF DfsView!Make, DfsView!Made
    <2>2. cancel = "continue_search" /\ pruned = {} /\ seed \in Vertices /\ stack = <<>>
      BY <2>1 DEF DfsViewInv, ViewsType
    <2>3. /\ visits' \in Seq(Vertices) /\ visits' # <<>> /\ Last(visits') = seed
          /\ \A v : Seen(v)' <=> v = seed
      <3>1. Len(<<seed>>) = 1 /\ <<seed>>[1] = seed /\ <<seed>> \in Seq(Vertices) /\ <<seed>> # <<>>
        BY <2>2
      <3> QED
        BY <2>1, <3>1 DEF Seen, Listed, Last
    <2>4. PICK a : a = DfsView!Entry(seed)
      OBVIOUS
    <2>5. a \in Frames /\ a.vertex = seed /\ a.next = 1
      BY <2>2, <2>4 DEF DfsView!Entry, Frames
    <2>6. stack' \in Seq(Frames) /\ stack' # <<>> /\ Len(stack') = 1 /\ stack'[1] = a
      BY <2>1, <2>4, <2>5
    <2>7. \A i \in 1..Len(stack') : i = 1
      BY <2>6
    <2>8. DfsStack'
      <3>1. Apart(stack)' /\ \A i \in 1..Len(stack') : Seen(stack[i].vertex)' /\ stack'[i].vertex \notin pruned'
        <4>1. \A i \in 1..Len(stack') : Listed(visits', stack'[i].vertex)
          BY <2>3, <2>5, <2>6, <2>7 DEF Seen
        <4>2. pruned' = {}
          BY <2>1, <2>2
        <4> QED
          BY <2>7, <4>1, <4>2 DEF Apart, Seen
      <3>2. Passed(seed, 1, visited)'
        <4>1. graph' = graph /\ Len(graph[seed]) \in Nat
          BY <1>2, <2>1, <2>2, ListsOf DEF ViewsType
        <4> QED
          BY <4>1 DEF Passed
      <3>3. 1 \in 1..Len(stack') /\ stack'[1].vertex = seed /\ stack'[1].next = 1
        BY <2>5, <2>6
      <3>4. \A v : Seen(v)' => \E j \in 1..Len(stack') : stack'[j].vertex = v /\ Passed(v, stack[j].next, visited)'
        <4>1. Passed(seed, stack[1].next, visited)'
          BY <3>2, <3>3 DEF Passed
        <4> QED
          BY <2>3, <3>3, <4>1 DEF Passed
      <3> QED
        BY <2>1, <2>3, <2>5, <2>6, <3>1, <3>4 DEF DfsStack
    <2>9. DfsViewInv'
      <3>1. ViewsType'
        BY <1>1, <1>2, <2>1, <2>2, <2>3 DEF ViewsType
      <3> QED
        BY <2>3, <2>6, <2>8, <3>1 DEF DfsViewInv
    <2>10. ViewEnded' = ViewEnded
      BY <1>1, <2>1, <2>6
    <2> QED
      BY <1>1, <2>1, <2>9, <2>10 DEF Promised!Next, Promised!Make
  <1>4. CASE DfsView!Cancel
    <2>1. /\ stack # <<>> /\ cancel' \in CancelStates
          /\ UNCHANGED <<graph, stack, visited, visits, pruned>>
      BY <1>4 DEF DfsView!Cancel, CancelStates
    <2>2. ~ViewEnded /\ visits # <<>>
      BY <1>1, <2>1 DEF DfsViewInv
    <2>3. DfsViewInv'
      <3>1. ViewsType'
        BY <1>1, <1>2, <2>1 DEF ViewsType, Seen
      <3>2. DfsStack'
        <4>1. DfsStack
          BY <2>2 DEF DfsViewInv
        <4> QED
          BY <2>1, <4>1 DEF DfsStack, Seen, LeadsInto, Passed
      <3> QED
        BY <2>1, <2>2, <3>1, <3>2 DEF DfsViewInv
    <2>4. ViewEnded' = ViewEnded
      BY <1>1, <2>1
    <2> QED
      BY <1>1, <2>1, <2>2, <2>3, <2>4 DEF Promised!Next, Promised!Ask, CancelStates
  <1>5. CASE DfsView!AdvanceCancelled
    <2>1. /\ stack # <<>> /\ cancel = "cancel_all" /\ stack' = <<>>
          /\ UNCHANGED <<graph, visited, cancel, visits, pruned>>
      BY <1>5 DEF DfsView!AdvanceCancelled
    <2>2. ~ViewEnded /\ visits # <<>> /\ ViewEnded' = TRUE
      BY <1>1, <2>1 DEF DfsViewInv
    <2>3. DfsViewInv'
      <3>1. ViewsType'
        BY <1>1, <1>2, <2>1 DEF ViewsType, Seen
      <3>2. stack' \in Seq(Frames)
        BY <2>1, EmptySeq
      <3> QED
        BY <2>1, <2>2, <3>1, <3>2 DEF DfsViewInv, DfsStack
    <2> QED
      BY <1>1, <2>1, <2>2, <2>3 DEF Promised!Next, Promised!Stop
  <1>6. CASE DfsView!Advance
    BY <1>6, DfsAdvance DEF Promised!Next
  <1> QED
    BY <1>3, <1>4, <1>5, <1>6 DEF DfsView!Next

-----------------------------------------------------------------------------
(* The views begin *)

LEMMA ViewsBegin ==
  ASSUME Init
  PROVE  ViewInv /\ Promised!Init
  <1>1. graph \in Adjacency /\ seed \in Vertices
    BY GraphIsGiven
  <1>2. <<>> \in Seq(Vertices) /\ \A v : ~Listed(<<>>, v)
    <2>1. Len(<<>>) = 0 /\ <<>> \in Seq(Vertices)
      BY EmptySeq
    <2> QED
      BY <2>1 DEF Listed
  <1>3. ASSUME search \in {"bfs_views", "dfs_views"}
        PROVE  /\ visits = <<>> /\ pruned = {} /\ cancel = "continue_search" /\ begun = FALSE
               /\ yields \in {"vertices", "edges"}
    BY <1>3 DEF Init, BfsView!Init
  <1>4. ASSUME search \in {"bfs_views", "dfs_views"} PROVE ViewsType
    BY <1>1, <1>2, <1>3, <1>4 DEF ViewsType, CancelStates
  <1>5. search = "bfs_views" => BfsViewInv
    BY <1>3, <1>4 DEF BfsViewInv, BfsBefore, Init, BfsView!Init, BfsView!None, BfsView!NoEdge
  <1>6. search = "dfs_views" => DfsViewInv
    BY <1>3, <1>4 DEF DfsViewInv, Init, DfsView!Init
  <1>7. pruned = {} /\ visits = <<>> /\ begun = FALSE /\ cancel = "continue_search"
    BY DEF Init, BfsView!Init
  <1>8. ViewEnded = FALSE
    BY <1>7 DEF ViewEnded, BfsView!AtEnd, DfsView!AtEnd, DfsView!Made
  <1> QED
    BY <1>5, <1>6, <1>7, <1>8 DEF ViewInv, Promised!Init

-----------------------------------------------------------------------------
(* The depth-first views in order *)

\* The graph as the caller has pruned it.
Explored(P) == Pruned(Successors(graph), P)

LEMMA ExploredIs ==
  ASSUME graph \in Adjacency
  PROVE  \A P : \A u \in Vertices : \A w : w \in Explored(P)[u] <=> u \notin P /\ Leads(u, w)
  <1>1. DOMAIN Successors(graph) = Vertices
    BY ListsOf
  <1>2. \A u \in Vertices : \A w : w \in Successors(graph)[u] <=> Leads(u, w)
    BY ListsOf DEF Leads
  <1>3. \A P : \A u \in Vertices : Explored(P)[u] = IF u \in P THEN {} ELSE Successors(graph)[u]
    BY <1>1 DEF Explored, Pruned
  <1> QED
    BY <1>2, <1>3

\* e is the edge to the last vertex of d from the last one before it that has such an edge.
LastLeads(succ, d, e) ==
  /\ graph[e[1]][e[2]] = Last(d)
  /\ \E p \in 1..(Len(d) - 1) : /\ e[1] = d[p] /\ Last(d) \in succ[d[p]]
                                 /\ \A a \in 1..(Len(d) - 1) : Last(d) \in succ[d[a]] => a <= p

\* What was visited after the vertex whose edge is taken leads to nothing new.
LEMMA LaterIsBehind ==
  ASSUME ViewsType, visits # <<>>, stack \in Seq(Frames), DfsStack, Nested(stack, visits), Distinct(visits),
         NEW n \in Nat, NEW b \in Nat, NEW k \in Nat, NEW e, NEW f \in Nat, NEW v,
         TakesDown(n, b, k, e, f, v), stack # <<>>
  PROVE  \E p \in 1..Len(visits) :
           /\ visits[p] = e.vertex /\ v \in Explored(pruned')[visits[p]] /\ ~Seen(v) /\ v \in Vertices
           /\ \A a \in 1..Len(visits) : a > p => \A w \in Explored(pruned')[visits[a]] : Seen(w)
  <1>1. /\ n = Len(stack) /\ b \in 0..n /\ k \in 1..b /\ e = stack[k] /\ f \in 1..Len(graph[e.vertex])
        /\ \A i \in 1..b : stack[i].vertex \notin pruned'
        /\ \A i \in (b + 1)..n : stack[i].vertex \in pruned'
        /\ \A u \in pruned : u \in pruned'
        /\ \A i \in (k + 1)..b : LeadsInto(stack[i].vertex, visited)
        /\ v = graph[e.vertex][f] /\ v \notin visited
    BY DEF TakesDown
  <1>2. /\ \A i \in 1..n : stack[i] \in Frames /\ stack[i].vertex \in Vertices
        /\ visits \in Seq(Vertices) /\ graph \in Adjacency
    <2>1. \A i \in 1..n : stack[i] \in Frames
      BY <1>1, ElementOfSeq
    <2> QED
      BY <2>1 DEF Frames, ViewsType
  <1>3. /\ \A u : u \in visited <=> Seen(u)
        /\ Apart(stack) /\ \A i \in 1..n : Seen(stack[i].vertex)
        /\ \A u : Seen(u) => \/ u \in pruned \/ LeadsInto(u, visited)
                             \/ \E i \in 1..n : stack[i].vertex = u
    BY <1>1 DEF DfsStack
  <1>4. PICK m \in Nat : m = Len(visits) /\ \A a \in 1..m : visits[a] \in Vertices
    BY <1>2, LenProperties, ElementOfSeq
  <1>5. k \in 1..n
    BY <1>1
  <1>6. PICK p \in 1..m : visits[p] = e.vertex
    BY <1>1, <1>3, <1>4, <1>5 DEF Seen, Listed
  <1>7. e.vertex \in Vertices /\ e.vertex \notin pruned' /\ Leads(e.vertex, v)
    BY <1>1, <1>2, <1>5 DEF Leads
  <1>8. v \in Explored(pruned')[visits[p]] /\ ~Seen(v) /\ v \in Vertices
    <2>1. v \in Vertices
      BY <1>1, <1>2, <1>7, ListsOf
    <2> QED
      BY <1>1, <1>2, <1>3, <1>6, <1>7, <2>1, ExploredIs
  <1>9. ASSUME NEW a \in 1..m, a > p, NEW w \in Explored(pruned')[visits[a]] PROVE Seen(w)
    <2>1. PICK u \in Vertices : u = visits[a]
      BY <1>4
    <2>2. u \notin pruned' /\ Leads(u, w) /\ Seen(u)
      BY <1>2, <1>4, <1>9, <2>1, ExploredIs DEF Seen, Listed
    <2>3. CASE LeadsInto(u, visited)
      BY <1>3, <2>2, <2>3 DEF LeadsInto, Leads
    <2>4. CASE \E i \in 1..n : stack[i].vertex = u
      <3>1. PICK i \in 1..n : stack[i].vertex = u
        BY <2>4
      <3>2. i # k
        <4>1. visits[a] # visits[p]
          BY <1>4, <1>9 DEF Distinct
        <4> QED
          BY <1>1, <1>6, <2>1, <3>1, <4>1
      <3>3. ~(i < k)
        <4> SUFFICES ASSUME i < k PROVE FALSE
          OBVIOUS
        <4>1. visits[a] = stack[i].vertex /\ visits[p] = stack[k].vertex
          BY <1>1, <1>6, <2>1, <3>1
        <4>2. a < p
          BY <1>1, <1>4, <1>5, <4>1 DEF Nested
        <4> QED
          BY <1>9, <4>2
      <3>4. i \in (k + 1)..b \/ i \in (b + 1)..n
        BY <1>1, <3>2, <3>3
      <3>5. LeadsInto(u, visited)
        BY <1>1, <2>2, <3>1, <3>4
      <3> QED
        BY <2>3, <3>5
    <2> QED
      BY <1>1, <1>3, <2>2, <2>3, <2>4
  <1> QED
    BY <1>4, <1>6, <1>8, <1>9

LEMMA NestedNext ==
  ASSUME NEW s \in Seq(Frames), NEW d \in Seq(Vertices), Nested(s, d), NEW v \in Vertices, ~Listed(d, v),
         NEW k \in 1..Len(s), NEW x \in Frames, x.vertex = s[k].vertex, NEW y \in Frames, y.vertex = v,
         \A i \in 1..Len(s) : Listed(d, s[i].vertex),
         NEW r, TopsOff(r, Frames, s, k, x, y)
  PROVE  Nested(r, Append(d, v))
  <1>1. PICK e : e = Append(d, v)
    OBVIOUS
  <1>2. PICK n \in Nat : n = Len(d)
    BY LenProperties
  <1>3. /\ Len(e) = n + 1
        /\ \A i \in 1..n : e[i] = d[i]
        /\ e[n + 1] = v
        /\ \A i \in 1..(n + 1) : i \in 1..n \/ i = n + 1
    <2>1. HasAppended(e, d, v, Vertices)
      BY <1>1, AppendListed
    <2> QED
      BY <1>2, <2>1 DEF HasAppended
  <1>4. /\ Len(s) \in Nat /\ Len(r) = k + 1 /\ r[k + 1].vertex = v
        /\ \A i \in 1..k : i \in 1..Len(s) /\ r[i].vertex = s[i].vertex
        /\ \A i \in 1..(k + 1) : i \in 1..k \/ i = k + 1
    <2>1. Len(s) \in Nat /\ Len(r) = k + 1 /\ r[k] = x /\ r[k + 1] = y /\ \A j \in 1..(k - 1) : r[j] = s[j]
      BY LenProperties DEF TopsOff
    <2>2. \A i \in 1..k : i \in 1..Len(s) /\ (i = k \/ i \in 1..(k - 1))
      BY <2>1
    <2> QED
      BY <2>1, <2>2
  <1>5. \A i \in 1..n : d[i] # v
    BY <1>2 DEF Listed
  <1>6. \A i \in 1..k : r[i].vertex # v
    BY <1>4
  <1>7. ASSUME NEW g \in 1..(k + 1), NEW l \in 1..(k + 1), NEW i \in 1..(n + 1), NEW j \in 1..(n + 1),
               g < l, e[i] = r[g].vertex, e[j] = r[l].vertex
        PROVE  i < j
    <2>1. g \in 1..k
      BY <1>7
    <2>2. i \in 1..n /\ d[i] = s[g].vertex
      BY <1>3, <1>4, <1>6, <1>7, <2>1
    <2>3. CASE l = k + 1
      <3>1. j \notin 1..n
        BY <1>3, <1>4, <1>5, <1>7, <2>3
      <3> QED
        BY <1>3, <2>2, <3>1
    <2>4. CASE l \in 1..k
      <3>1. j \in 1..n /\ d[j] = s[l].vertex
        BY <1>3, <1>4, <1>6, <1>7, <2>4
      <3> QED
        BY <1>2, <1>4, <1>7, <2>1, <2>2, <2>4, <3>1 DEF Nested
    <2> QED
      BY <1>4, <2>3, <2>4
  <1>8. Nested(r, e)
    BY <1>3, <1>4, <1>7 DEF Nested
  <1> QED
    BY <1>1, <1>8

\* What is true of the visits at any time.
VisitsDeep ==
  /\ Depthwise(Explored(pruned), visits) /\ Nested(stack, visits)
  /\ edge # <<>> => LastLeads(Explored(pruned), visits, edge)

LEMMA VisitsDeeper ==
  ASSUME ViewsType, visits # <<>>, stack \in Seq(Frames), DfsStack, stack # <<>>, UNCHANGED graph,
         Depthwise(Explored(pruned'), visits), Nested(stack, visits),
         NEW n \in Nat, NEW b \in Nat, NEW k \in Nat, NEW e \in Frames, NEW f \in Nat, NEW v,
         TakesDown(n, b, k, e, f, v), edge' = <<>> \/ edge' = <<e.vertex, f>>
  PROVE  VisitsDeep'
  <1>1. PICK succ : succ = Explored(pruned')
    OBVIOUS
  <1>2. Distinct(visits) /\ Depthwise(succ, visits)
    BY <1>1 DEF Depthwise
  <1>3. PICK p \in 1..Len(visits) :
           /\ visits[p] = e.vertex /\ v \in succ[visits[p]] /\ ~Seen(v) /\ v \in Vertices
           /\ \A a \in 1..Len(visits) : a > p => \A w \in succ[visits[a]] : Seen(w)
    <2>1. PICK p \in 1..Len(visits) :
            /\ visits[p] = e.vertex /\ v \in Explored(pruned')[visits[p]] /\ ~Seen(v) /\ v \in Vertices
            /\ \A a \in 1..Len(visits) : a > p => \A w \in Explored(pruned')[visits[a]] : Seen(w)
      BY <1>2, LaterIsBehind
    <2> QED
      BY <1>1, <2>1
  <1>4. visits \in Seq(Vertices)
    BY DEF ViewsType
  <1>5. /\ n = Len(stack) /\ k \in 1..n /\ e = stack[k] /\ v = graph[e.vertex][f]
        /\ visits' = Append(visits, v)
        /\ TopsOff(stack', Frames, stack, k, [e EXCEPT !.next = f + 1], DfsView!Entry(v))
    BY DEF TakesDown
  <1>6. Depthwise(succ, Append(visits, v))
    <2>1. ComesNext(succ, visits, p, v)
      BY <1>3 DEF ComesNext, Seen
    <2> QED
      BY <1>2, <1>3, <1>4, <2>1, DepthwiseGrows
  <1>7. Nested(stack', Append(visits, v))
    <2>1. PICK x, y : /\ x \in Frames /\ x.vertex = e.vertex /\ y \in Frames /\ y.vertex = v
                      /\ TopsOff(stack', Frames, stack, k, x, y)
      <3>1. [e EXCEPT !.next = f + 1] \in Frames /\ [e EXCEPT !.next = f + 1].vertex = e.vertex
        <4>1. e \in [vertex : Vertices, next : Nat \ {0}] /\ f + 1 \in Nat \ {0}
          BY DEF Frames
        <4>2. [e EXCEPT !.next = f + 1] = [vertex |-> e.vertex, next |-> f + 1]
          BY <4>1
        <4> QED
          BY <4>1, <4>2 DEF Frames
      <3>2. DfsView!Entry(v) \in Frames /\ DfsView!Entry(v).vertex = v
        BY <1>3 DEF Frames, DfsView!Entry
      <3> QED
        BY <1>5, <3>1, <3>2
    <2>2. \A i \in 1..Len(stack) : Listed(visits, stack[i].vertex)
      BY DEF DfsStack, Seen
    <2>3. k \in 1..Len(stack) /\ x.vertex = stack[k].vertex /\ ~Listed(visits, v)
      BY <1>3, <1>5, <2>1 DEF Seen
    <2> QED
      BY <1>3, <1>4, <2>1, <2>2, <2>3, NestedNext
  <1>8. PICK m \in Nat : m = Len(visits)
    BY <1>4, LenProperties
  <1>9. PICK d : d = Append(visits, v)
    OBVIOUS
  <1>10. Len(d) = m + 1 /\ (\A i \in 1..m : d[i] = visits[i]) /\ Last(d) = v
    <2>1. HasAppended(d, visits, v, Vertices)
      BY <1>2, <1>3, <1>4, <1>9, AppendListed
    <2>2. Last(d) = v
      BY <1>3, <1>4, <1>9, SeenAfter
    <2> QED
      BY <1>8, <2>1, <2>2 DEF HasAppended
  <1>11. LastLeads(succ, d, <<e.vertex, f>>)
    <2>1. PICK z : z = <<e.vertex, f>>
      OBVIOUS
    <2>2. ASSUME NEW a \in 1..m, v \in succ[visits[a]] PROVE a <= p
      BY <1>3, <1>8, <2>2
    <2>3. p \in 1..m
      BY <1>3, <1>8
    <2>4. (m + 1) - 1 = m /\ z[1] = e.vertex /\ z[2] = f
      BY <2>1
    <2>5. LastLeads(succ, d, z)
      BY <1>3, <1>5, <1>10, <2>2, <2>3, <2>4 DEF LastLeads
    <2> QED
      BY <2>1, <2>5
  <1>12. visits' = d /\ Depthwise(succ, visits') /\ Nested(stack', visits')
         /\ (edge' # <<>> => LastLeads(succ, visits', edge'))
    BY <1>5, <1>6, <1>7, <1>9, <1>11
  <1>13. VisitsDeep' <=> /\ Depthwise(succ, visits') /\ Nested(stack', visits')
                                            /\ (edge' # <<>> => LastLeads(succ, visits', edge'))
    BY <1>1 DEF VisitsDeep, LastLeads, Explored
  <1> QED
    BY <1>12, <1>13

DfsOrder == IF visits = <<>> THEN edge = <<>> ELSE VisitsDeep

\* What the steps of vertices_dfs and edges_dfs leave of the order.
LEMMA DfsVisits ==
  ASSUME DfsViewInv, search = "dfs_views", UNCHANGED arguments, DfsOrder, DfsView!Next
  PROVE  visits' # <<>> /\ VisitsDeep'
  <1>1. ViewsType /\ graph \in Adjacency /\ seed \in Vertices /\ UNCHANGED <<search, seed, yields>>
    BY DEF DfsViewInv, ViewsType, arguments
  <1>2. CASE DfsView!Make
    <2>1. /\ visits = <<>> /\ stack' = <<DfsView!Entry(seed)>> /\ visits' = <<seed>>
          /\ UNCHANGED <<graph, edge, pruned>>
      BY <1>2 DEF DfsView!Make, DfsView!Made
    <2>2. edge' = <<>>
      BY <2>1 DEF DfsOrder
    <2>3. Len(visits') = 1 /\ visits'[1] = seed /\ visits' # <<>>
      BY <2>1
    <2>4. PICK a : a = DfsView!Entry(seed)
      OBVIOUS
    <2>5. stack' = <<a>> /\ Len(stack') = 1
      BY <2>1, <2>4
    <2>6. Nested(stack', visits')
      BY <2>5 DEF Nested
    <2>7. Depthwise(Explored(pruned'), visits')
      <3>1. PICK succ : succ = Explored(pruned')
        OBVIOUS
      <3>2. Distinct(visits') /\ (\A b \in 2..Len(visits') : FALSE)
            /\ \A x, y \in 1..Len(visits') : ~(x < y)
        BY <2>3 DEF Distinct
      <3>3. Depthwise(succ, visits')
        BY <3>2 DEF Depthwise
      <3> QED
        BY <3>1, <3>3
    <2>8. Explored(pruned)' = Explored(pruned')
      BY <2>1 DEF Explored
    <2> QED
      BY <2>2, <2>3, <2>6, <2>7, <2>8 DEF VisitsDeep
  <1>3. CASE DfsView!Cancel
    <2>1. visits # <<>> /\ UNCHANGED <<graph, stack, edge, visits, pruned>>
      BY <1>3 DEF DfsView!Cancel, DfsViewInv
    <2> QED
      BY <2>1 DEF DfsOrder, VisitsDeep, Explored, LastLeads
  <1>4. CASE DfsView!AdvanceCancelled
    <2>1. visits # <<>> /\ stack' = <<>> /\ edge' = <<>> /\ UNCHANGED <<graph, visits, pruned>>
      BY <1>4 DEF DfsView!AdvanceCancelled, DfsViewInv, DfsView!NoEdge
    <2>2. Len(stack') = 0
      BY <2>1, EmptySeq
    <2>3. Nested(stack', visits')
      BY <2>2 DEF Nested
    <2> QED
      BY <2>1, <2>3 DEF DfsOrder, VisitsDeep, Explored
  <1>5. CASE DfsView!Advance
    <2>1. /\ stack # <<>> /\ UNCHANGED graph
          /\ pruned' = IF cancel = "cancel_branch" THEN pruned \cup {DfsView!Last(stack).vertex} ELSE pruned
      BY <1>5 DEF DfsView!Advance
    <2>2. visits # <<>> /\ stack \in Seq(Frames) /\ DfsStack /\ VisitsDeep /\ visits \in Seq(Vertices)
      BY <2>1 DEF DfsViewInv, ViewsType, DfsOrder
    <2>3. DfsMoves
      BY <1>5, DfsAdvance
    <2>4. PICK m \in Nat : m = Len(visits) /\ \A a \in 1..m : visits[a] \in Vertices
      BY <2>2, LenProperties, ElementOfSeq
    <2>5. m # 0 /\ Last(visits) = visits[m]
      BY <2>2, <2>4, EmptySeq DEF Last
    <2>6. DfsView!Last(stack).vertex = visits[m]
      BY <2>1, <2>2, <2>5 DEF DfsView!Last, DfsStack
    <2>7. Depthwise(Explored(pruned), visits) /\ Nested(stack, visits) /\ Distinct(visits)
      BY <2>2 DEF VisitsDeep, Depthwise
    <2>8. PICK succ, less : succ = Explored(pruned) /\ less = Explored(pruned')
      OBVIOUS
    <2>9. \A a \in 1..(m - 1) : less[visits[a]] = succ[visits[a]]
      <3> TAKE a \in 1..(m - 1)
      <3>1. a \in 1..m /\ a # m /\ m \in 1..m
        BY <2>5
      <3>2. visits[a] # visits[m] /\ visits[a] \in Vertices
        BY <2>4, <2>7, <3>1 DEF Distinct
      <3>3. visits[a] \in pruned <=> visits[a] \in pruned'
        BY <2>1, <2>6, <3>2
      <3>4. DOMAIN Successors(graph) = Vertices
        BY <1>1, ListsOf
      <3> QED
        BY <2>8, <3>2, <3>3, <3>4 DEF Explored, Pruned
    <2>10. Depthwise(less, visits)
      BY <2>4, <2>7, <2>8, <2>9, DepthwiseCut
    <2>11. Depthwise(Explored(pruned'), visits)
      BY <2>8, <2>10
    <2>12. CASE stack' = <<>> /\ edge' = <<>> /\ UNCHANGED <<visits, count>>
      <3>1. Len(stack') = 0
        BY <2>12, EmptySeq
      <3>2. Nested(stack', visits')
        BY <3>1 DEF Nested
      <3>3. Explored(pruned)' = Explored(pruned')
        BY <2>1 DEF Explored
      <3> QED
        BY <2>2, <2>11, <2>12, <3>2, <3>3 DEF VisitsDeep
    <2>13. CASE \E n, b, k, f \in Nat, e \in Frames : \E v :
                  /\ TakesDown(n, b, k, e, f, v)
                  /\ edge' = IF yields = "edges" THEN <<e.vertex, f>> ELSE <<>>
      <3>0. PICK n \in Nat, b \in Nat, k \in Nat, f \in Nat, e \in Frames : \E v :
              /\ TakesDown(n, b, k, e, f, v)
              /\ edge' = IF yields = "edges" THEN <<e.vertex, f>> ELSE <<>>
        BY <2>13
      <3>1. PICK v : /\ TakesDown(n, b, k, e, f, v)
                     /\ edge' = IF yields = "edges" THEN <<e.vertex, f>> ELSE <<>>
        BY <3>0
      <3>2. VisitsDeep'
        BY <1>1, <2>1, <2>2, <2>7, <2>11, <3>1, VisitsDeeper
      <3>3. TakenDown(v)
        BY <1>1, <2>1, <2>2, <3>1, DfsTakes
      <3> QED
        BY <3>2, <3>3 DEF TakenDown
    <2> QED
      BY <2>3, <2>12, <2>13 DEF DfsMoves
  <1> QED
    BY <1>2, <1>3, <1>4, <1>5 DEF DfsView!Next

LEMMA AllButLast ==
  ASSUME NEW d \in Seq(Vertices), NEW m \in Nat, m = Len(d), m # 0
  PROVE  /\ SubSeq(d, 1, m - 1) \in Seq(Vertices) /\ DOMAIN SubSeq(d, 1, m - 1) = 1..(m - 1)
         /\ \A i \in 1..(m - 1) : SubSeq(d, 1, m - 1)[i] = d[i]
  <1>1. PICK r : r = SubSeq(d, 1, m - 1)
    OBVIOUS
  <1>2. \A i \in 1..(m - 1) : d[i] \in Vertices
    BY ElementOfSeq
  <1>3. /\ r \in Seq(Vertices) /\ Len(r) = IF 1 <= m - 1 THEN (m - 1) - 1 + 1 ELSE 0
        /\ \A i \in 1..((m - 1) - 1 + 1) : r[i] = d[1 + i - 1]
    BY <1>1, <1>2, SubSeqProperties
  <1>4. Len(r) = m - 1 /\ DOMAIN r = 1..(m - 1)
    BY <1>3, LenProperties
  <1>5. \A i \in 1..(m - 1) : i \in 1..((m - 1) - 1 + 1) /\ 1 + i - 1 = i
    OBVIOUS
  <1> QED
    BY <1>1, <1>3, <1>4, <1>5

LEMMA DfsVisitsInOrder ==
  ASSUME DfsViewInv, DfsOrder
  PROVE  DfsView!VisitsInOrder
  <1> SUFFICES ASSUME visits # <<>>
               PROVE  /\ DfsView!DepthFirst(DfsView!Explored, visits)
                      /\ edge # DfsView!NoEdge =>
                           LET from == DfsView!PositionsTo(DfsView!Explored, SubSeq(visits, 1, Len(visits) - 1),
                                                           DfsView!Last(visits))
                           IN  /\ graph[edge[1]][edge[2]] = DfsView!Last(visits)
                               /\ edge[1] = visits[CHOOSE d \in from : \A c \in from : c <= d]
    BY DEF DfsView!VisitsInOrder, DfsView!Made
  <1>1. VisitsDeep /\ visits \in Seq(Vertices)
    BY DEF DfsOrder, DfsViewInv, ViewsType
  <1>2. PICK succ : succ = Explored(pruned)
    OBVIOUS
  <1>3. DfsView!Explored = succ
    BY <1>2 DEF DfsView!Explored, Explored, DfsView!Pruned, Pruned, DfsView!Successors, Successors
  <1>4. Depthwise(succ, visits) /\ (edge # <<>> => LastLeads(succ, visits, edge))
    BY <1>1, <1>2 DEF VisitsDeep
  <1>5. DepthFirst(succ, visits)
    BY <1>1, <1>4, DepthwiseIs
  <1>6. DfsView!DepthFirst(succ, visits)
    BY <1>5 DEF DfsView!DepthFirst, DepthFirst, DfsView!Connects, Connects, DfsView!Overtaken, Overtaken,
           DfsView!PositionsTo, PositionsTo, DfsView!IsInjective, IsInjective
  <1>7. ASSUME edge # <<>>
        PROVE  LET from == DfsView!PositionsTo(succ, SubSeq(visits, 1, Len(visits) - 1), DfsView!Last(visits))
               IN  /\ graph[edge[1]][edge[2]] = DfsView!Last(visits)
                   /\ edge[1] = visits[CHOOSE d \in from : \A c \in from : c <= d]
    <2>1. PICK m \in Nat : m = Len(visits)
      BY <1>1, LenProperties
    <2>2. m # 0
      BY <1>1, <2>1, EmptySeq
    <2>3. PICK from : from = DfsView!PositionsTo(succ, SubSeq(visits, 1, Len(visits) - 1), DfsView!Last(visits))
      OBVIOUS
    <2>4. DfsView!Last(visits) = Last(visits)
      BY DEF DfsView!Last, Last
    <2>5. PICK r : r = SubSeq(visits, 1, m - 1)
      OBVIOUS
    <2>6. DOMAIN r = 1..(m - 1) /\ \A i \in 1..(m - 1) : r[i] = visits[i]
      BY <1>1, <2>1, <2>2, <2>5, AllButLast
    <2>7. from = {a \in DOMAIN r : Last(visits) \in succ[r[a]]}
      BY <2>1, <2>3, <2>4, <2>5 DEF DfsView!PositionsTo
    <2>8. from = {a \in 1..(m - 1) : Last(visits) \in succ[visits[a]]}
      BY <2>6, <2>7
    <2>9. graph[edge[1]][edge[2]] = Last(visits)
      BY <1>4, <1>7 DEF LastLeads
    <2>10. PICK p \in 1..(m - 1) : /\ edge[1] = visits[p] /\ Last(visits) \in succ[visits[p]]
                                   /\ \A a \in 1..(m - 1) : Last(visits) \in succ[visits[a]] => a <= p
      BY <1>4, <1>7, <2>1 DEF LastLeads
    <2>11. p \in from /\ \A a \in from : a <= p
      BY <2>8, <2>10
    <2>12. from \subseteq Int
      BY <2>8
    <2>13. \A d \in from : (\A c \in from : c <= d) => d = p
      <3> TAKE d \in from
      <3>1. d <= p /\ ((\A c \in from : c <= d) => p <= d) /\ d \in Int /\ p \in Int
        BY <2>11, <2>12
      <3> QED
        BY <3>1
    <2>14. (CHOOSE d \in from : \A c \in from : c <= d) = p
      BY <2>11, <2>13
    <2> QED
      BY <2>3, <2>4, <2>9, <2>10, <2>14
  <1> QED
    BY <1>3, <1>6, <1>7 DEF DfsView!NoEdge

-----------------------------------------------------------------------------
(* The depth of the depth-first views *)

\* The stack is the path to the current vertex, and each entry has passed edges to visited
\* vertices only.
DfsDepths ==
  /\ \A d \in 1..Len(stack) : d = 1 => stack[d].vertex = seed
  /\ \A d \in 2..Len(stack) : graph[stack[d - 1].vertex][stack[d - 1].next - 1] = stack[d].vertex
  /\ \A d \in 1..Len(stack) : \A i \in 1..(stack[d].next - 1) : Seen(graph[stack[d].vertex][i])
  /\ count = Len(visits) - (IF yields = "edges" THEN 1 ELSE 0)

LEMMA DepthsDeeper ==
  ASSUME ViewsType, visits # <<>>, stack \in Seq(Frames), DfsStack, stack # <<>>, UNCHANGED <<graph, seed, yields>>,
         DfsDepths, NEW n \in Nat, NEW b \in Nat, NEW k \in Nat, NEW e \in Frames, NEW f \in Nat, NEW v \in Vertices,
         TakesDown(n, b, k, e, f, v), count' = count + 1
  PROVE  DfsDepths'
  <1>1. /\ n = Len(stack) /\ k \in 1..n /\ e = stack[k] /\ v = graph[e.vertex][f] /\ f \in 1..Len(graph[e.vertex])
        /\ Passed(e.vertex, f, visited) /\ visits' = Append(visits, v)
        /\ TopsOff(stack', Frames, stack, k, [e EXCEPT !.next = f + 1], DfsView!Entry(v))
    BY DEF TakesDown
  <1>2. visits \in Seq(Vertices) /\ graph \in Adjacency
    BY DEF ViewsType
  <1>3. /\ Len(visits) \in Nat /\ Len(visits') = Len(visits) + 1
        /\ \A w : Listed(visits', w) <=> Seen(w) \/ w = v
    <2>1. \A w : Listed(Append(visits, v), w) <=> Listed(visits, w) \/ w = v
      BY <1>2, SeenAfter
    <2> QED
      BY <1>1, <1>2, <2>1, LenProperties, AppendProperties DEF Seen
  <1>4. PICK x, y : /\ x.vertex = e.vertex /\ x.next = f + 1 /\ y.vertex = v /\ y.next = 1
                    /\ TopsOff(stack', Frames, stack, k, x, y)
    <2>1. [e EXCEPT !.next = f + 1].vertex = e.vertex /\ [e EXCEPT !.next = f + 1].next = f + 1
      BY DEF Frames
    <2>2. DfsView!Entry(v).vertex = v /\ DfsView!Entry(v).next = 1
      BY DEF DfsView!Entry
    <2> QED
      BY <1>1, <2>1, <2>2
  <1>5. /\ Len(stack') = k + 1 /\ stack'[k] = x /\ stack'[k + 1] = y
        /\ \A j \in 1..(k - 1) : stack'[j] = stack[j] /\ j \in 1..n
        /\ \A j \in 1..k : j \in 1..n /\ stack'[j].vertex = stack[j].vertex
        /\ \A j \in 1..(k + 1) : j \in 1..(k - 1) \/ j = k \/ j = k + 1
        /\ n \in Nat
    <2>1. Len(stack') = k + 1 /\ stack'[k] = x /\ stack'[k + 1] = y /\ \A j \in 1..(k - 1) : stack'[j] = stack[j]
      BY <1>4 DEF TopsOff
    <2>2. \A j \in 1..k : j \in 1..n /\ (j = k \/ j \in 1..(k - 1))
      BY <1>1
    <2>3. \A j \in 1..(k - 1) : j \in 1..n
      BY <1>1
    <2>4. \A j \in 1..(k + 1) : j \in 1..(k - 1) \/ j = k \/ j = k + 1
      OBVIOUS
    <2> QED
      BY <1>1, <1>4, <2>1, <2>2, <2>3, <2>4
  <1>6. \A d \in 1..Len(stack') : d = 1 => stack'[d].vertex = seed'
    <2>1. 1 \in 1..k /\ 1 \in 1..n
      BY <1>1
    <2> QED
      BY <1>1, <1>5, <2>1 DEF DfsDepths
  <1>7. ASSUME NEW d \in 2..Len(stack')
        PROVE  graph'[stack'[d - 1].vertex][stack'[d - 1].next - 1] = stack'[d].vertex
    <2>1. CASE d = k + 1
      <3>1. d - 1 = k /\ (f + 1) - 1 = f
        BY <2>1
      <3> QED
        BY <1>1, <1>4, <1>5, <2>1, <3>1
    <2>2. CASE d \in 2..k
      <3>1. d \in 2..n /\ d \in 1..k /\ d - 1 \in 1..(k - 1)
        BY <1>5, <2>2
      <3> QED
        BY <1>1, <1>5, <3>1 DEF DfsDepths
    <2>3. d = k + 1 \/ d \in 2..k
      BY <1>5
    <2> QED
      BY <2>1, <2>2, <2>3
  <1>8. ASSUME NEW d \in 1..Len(stack'), NEW i \in 1..(stack'[d].next - 1)
        PROVE  Listed(visits', graph'[stack'[d].vertex][i])
    <2>1. CASE d \in 1..(k - 1)
      BY <1>1, <1>3, <1>5, <2>1 DEF DfsDepths
    <2>2. CASE d = k
      <3>1. i \in 1..f /\ stack'[d].vertex = e.vertex
        BY <1>4, <1>5, <2>2
      <3>2. Len(graph[e.vertex]) \in Nat
        <4>1. e.vertex \in Vertices
          BY DEF Frames
        <4> QED
          BY <1>2, <4>1, ListsOf
      <3>3. CASE i = f
        BY <1>1, <1>3, <3>1, <3>3
      <3>4. CASE i < f
        <4>1. i \in 1..Len(graph[e.vertex])
          BY <1>1, <3>1, <3>2, <3>4
        <4>2. graph[e.vertex][i] \in visited
          BY <1>1, <3>4, <4>1 DEF Passed
        <4>3. Seen(graph[e.vertex][i])
          BY <4>2 DEF DfsStack
        <4> QED
          BY <1>3, <3>1, <4>3
      <3> QED
        BY <3>1, <3>3, <3>4
    <2>3. CASE d = k + 1
      <3>1. stack'[d].next - 1 = 0
        BY <1>4, <1>5, <2>3
      <3> QED
        BY <3>1
    <2> QED
      BY <1>5, <2>1, <2>2, <2>3
  <1>9. count' = Len(visits') - (IF yields' = "edges" THEN 1 ELSE 0)
    BY <1>3 DEF DfsDepths
  <1> QED
    BY <1>6, <1>7, <1>8, <1>9 DEF DfsDepths, Seen

LEMMA DfsDeepens ==
  ASSUME DfsViewInv, search = "dfs_views", UNCHANGED arguments, visits # <<>> => DfsDepths, DfsView!Next
  PROVE  DfsDepths'
  <1>1. ViewsType /\ UNCHANGED <<search, seed, yields>> /\ yields \in {"vertices", "edges"}
    BY DEF DfsViewInv, ViewsType, arguments
  <1>2. CASE DfsView!Make
    <2>1. /\ stack' = <<DfsView!Entry(seed)>> /\ visits' = <<seed>>
          /\ count' = IF yields = "vertices" THEN 1 ELSE 0
      BY <1>2 DEF DfsView!Make
    <2>2. PICK a : a = DfsView!Entry(seed)
      OBVIOUS
    <2>3. a.vertex = seed /\ a.next = 1
      BY <2>2 DEF DfsView!Entry
    <2>4. Len(stack') = 1 /\ stack'[1] = a /\ Len(visits') = 1
      BY <2>1, <2>2
    <2>5. \A d \in 1..Len(stack') : d = 1 /\ stack'[d].next - 1 = 0
      BY <2>3, <2>4
    <2>6. \A d \in 2..Len(stack') : FALSE
      BY <2>4
    <2>7. count' = Len(visits') - (IF yields' = "edges" THEN 1 ELSE 0)
      BY <1>1, <2>1, <2>4
    <2>8. \A d \in 1..Len(stack') : \A i \in 1..(stack'[d].next - 1) : FALSE
      BY <2>5
    <2> QED
      BY <1>1, <2>3, <2>4, <2>5, <2>6, <2>7, <2>8 DEF DfsDepths
  <1>3. CASE DfsView!Cancel
    <2>1. visits # <<>> /\ UNCHANGED <<graph, stack, count, visits>>
      BY <1>3 DEF DfsView!Cancel, DfsViewInv
    <2> QED
      BY <1>1, <2>1 DEF DfsDepths, Seen
  <1>4. CASE DfsView!AdvanceCancelled
    <2>1. visits # <<>> /\ stack' = <<>> /\ UNCHANGED <<visits, count>>
      BY <1>4 DEF DfsView!AdvanceCancelled, DfsViewInv
    <2>2. Len(stack') = 0
      BY <2>1, EmptySeq
    <2> QED
      BY <1>1, <2>1, <2>2 DEF DfsDepths
  <1>5. CASE DfsView!Advance
    <2>1. stack # <<>> /\ UNCHANGED graph
      BY <1>5 DEF DfsView!Advance
    <2>2. visits # <<>> /\ stack \in Seq(Frames) /\ DfsStack /\ DfsDepths
      BY <2>1 DEF DfsViewInv
    <2>3. DfsMoves
      BY <1>5, DfsAdvance
    <2>4. CASE stack' = <<>> /\ UNCHANGED <<visits, count>>
      <3>1. Len(stack') = 0
        BY <2>4, EmptySeq
      <3> QED
        BY <1>1, <2>2, <2>4, <3>1 DEF DfsDepths
    <2>5. CASE \E n, b, k, f \in Nat, e \in Frames : \E v : TakesDown(n, b, k, e, f, v) /\ count' = count + 1
      <3>0. PICK n \in Nat, b \in Nat, k \in Nat, f \in Nat, e \in Frames : \E v :
              TakesDown(n, b, k, e, f, v) /\ count' = count + 1
        BY <2>5
      <3>1. PICK v : TakesDown(n, b, k, e, f, v) /\ count' = count + 1
        BY <3>0
      <3>2. v \in Vertices
        BY <1>1, <2>1, <2>2, <3>1, DfsTakes DEF TakenDown
      <3> QED
        BY <1>1, <2>1, <2>2, <3>1, <3>2, DepthsDeeper
    <2> QED
      BY <2>3, <2>4, <2>5 DEF DfsMoves
  <1> QED
    BY <1>2, <1>3, <1>4, <1>5 DEF DfsView!Next

LEMMA DfsDepthsExact ==
  ASSUME DfsViewInv, visits # <<>> => DfsDepths
  PROVE  DfsView!DepthsExact
  <1> SUFFICES ASSUME visits # <<>>
               PROVE  /\ stack # <<>> => stack[1].vertex = seed /\ DfsView!Last(stack).vertex = DfsView!Last(visits)
                      /\ \A d \in 2..Len(stack) : graph[stack[d - 1].vertex][stack[d - 1].next - 1] = stack[d].vertex
                      /\ \A d \in 1..Len(stack) : \A i \in 1..(stack[d].next - 1) :
                           graph[stack[d].vertex][i] \in DfsView!ToSet(visits)
                      /\ count = Len(visits) - (IF yields = "edges" THEN 1 ELSE 0)
    BY DEF DfsView!DepthsExact, DfsView!Made, DfsView!Depth
  <1>1. visits \in Seq(Vertices) /\ stack \in Seq(Frames) /\ DfsStack
    BY DEF DfsViewInv, ViewsType
  <1>2. \A w : Seen(w) => w \in DfsView!ToSet(visits)
    <2>1. ToSet(visits) = {v \in Vertices : Listed(visits, v)} /\ \A v : Listed(visits, v) => v \in Vertices
      BY <1>1, SeenIs
    <2>2. DfsView!ToSet(visits) = ToSet(visits)
      BY DEF DfsView!ToSet, ToSet
    <2> QED
      BY <2>1, <2>2 DEF Seen
  <1>3. ASSUME stack # <<>> PROVE stack[1].vertex = seed /\ DfsView!Last(stack).vertex = DfsView!Last(visits)
    <2>1. 1 \in 1..Len(stack)
      BY <1>1, <1>3, LenProperties, EmptySeq
    <2> QED
      BY <1>1, <1>3, <2>1 DEF DfsDepths, DfsStack, DfsView!Last, Last
  <1> QED
    BY <1>2, <1>3 DEF DfsDepths

\* The inductive invariant of the depth-first views: what they have visited is in order, and
\* the stack is the path to the current vertex.
DfsViewsInv == search = "dfs_views" => DfsViewInv /\ DfsOrder /\ (visits # <<>> => DfsDepths)

LEMMA DfsViewsBegin ==
  ASSUME Init
  PROVE  DfsViewsInv
  <1>1. ViewInv
    BY ViewsBegin
  <1>2. visits = <<>> /\ edge = <<>>
    BY DEF Init, BfsView!Init, BfsView!NoEdge
  <1> QED
    BY <1>1, <1>2 DEF DfsViewsInv, ViewInv, DfsOrder

LEMMA DfsViewsStep ==
  ASSUME DfsViewsInv, [Next]_vars
  PROVE  DfsViewsInv'
  <1> SUFFICES ASSUME search' = "dfs_views"
               PROVE  DfsViewInv' /\ DfsOrder' /\ (visits' # <<>> => DfsDepths')
    BY DEF DfsViewsInv
  <1>1. CASE UNCHANGED vars
    <2>1. UNCHANGED <<search, graph, seed, yields, visits, pruned, cancel, visited, stack, edge, count>>
      BY <1>1 DEF vars, arguments, views, bfsDepths, edges
    <2>2. ViewsType => ViewsType'
      BY <2>1 DEF ViewsType, Seen
    <2>3. DfsStack => DfsStack'
      BY <2>1 DEF DfsStack, Seen, LeadsInto, Passed
    <2>4. DfsViewInv => DfsViewInv'
      BY <2>1, <2>2, <2>3 DEF DfsViewInv
    <2>5. VisitsDeep => VisitsDeep'
      BY <2>1 DEF VisitsDeep, Explored, LastLeads
    <2>6. DfsOrder => DfsOrder'
      BY <2>1, <2>5 DEF DfsOrder
    <2>7. DfsDepths => DfsDepths'
      BY <2>1 DEF DfsDepths, Seen
    <2> QED
      BY <2>1, <2>4, <2>6, <2>7 DEF DfsViewsInv
  <1>2. CASE Next
    <2>1. UNCHANGED arguments /\ search = "dfs_views"
      BY <1>2 DEF Next, arguments
    <2>2. DfsView!Next
      BY <1>2, <2>1 DEF Next
    <2>3. DfsViewInv /\ DfsOrder /\ (visits # <<>> => DfsDepths)
      BY <2>1 DEF DfsViewsInv
    <2>4. DfsViewInv'
      BY <2>1, <2>2, <2>3, DfsStep
    <2>5. DfsOrder'
      BY <2>1, <2>2, <2>3, DfsVisits DEF DfsOrder
    <2>6. DfsDepths'
      BY <2>1, <2>2, <2>3, DfsDeepens
    <2> QED
      BY <2>4, <2>5, <2>6
  <1> QED
    BY <1>1, <1>2

\* The depth-first views visit in depth-first order what the caller has left to be searched,
\* each edge yielded leads from the last vertex that leads to its target, and the stack is
\* the path to the current vertex, whatever the caller cancels.
THEOREM DfsViewsStayInOrder ==
  Spec => [](search = "dfs_views" => DfsView!VisitsInOrder /\ DfsView!DepthsExact)
  <1>1. DfsViewsInv => (search = "dfs_views" => DfsView!VisitsInOrder /\ DfsView!DepthsExact)
    BY DfsVisitsInOrder, DfsDepthsExact DEF DfsViewsInv
  <1>2. Init => DfsViewsInv
    BY DfsViewsBegin
  <1>3. DfsViewsInv /\ [Next]_vars => DfsViewsInv'
    BY DfsViewsStep
  <1> QED
    BY <1>1, <1>2, <1>3, PTL DEF Spec

=============================================================================
