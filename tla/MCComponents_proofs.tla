------------------------ MODULE MCComponents_proofs ------------------------
(***************************************************************************)
(* Proofs about tarjan_scc and connected_components as MCComponents runs   *)
(* them, for any number of vertices and edges: what reachability is, the   *)
(* inductive invariants of the two searches, and that both number whole    *)
(* components in the order ComponentLabelling promises.  Then about        *)
(* maximal_independent_set, label_propagation, triangle_count,             *)
(* directed_triangle_count and jaccard_coefficient: that their results are *)
(* what the neighbourhoods define.                                         *)
(***************************************************************************)
EXTENDS MCComponents, GraphLemmas

-----------------------------------------------------------------------------
(* Vertices and graphs *)

Adjacency == [Vertices -> Seq(Vertices)]

LEMMA VerticesFinite == IsFiniteSet(Vertices) /\ Cardinality(Vertices) = N
  BY ComponentsAssumption, FS_Interval DEF Vertices

LEMMA GraphReachability ==
  ASSUME NEW g \in Adjacency
  PROVE  \A v \in Vertices : ReachesOnwards(Vertices, g, v)
  BY VerticesFinite, Reachability DEF Adjacency, Adjacencies

-----------------------------------------------------------------------------
(* The inductive invariant of tarjan_scc *)

Frame == [uid : Vertices, it : Nat]

SearchTypes ==
  /\ graph \in Adjacency
  /\ start \in 0..N
  /\ frames \in Seq(Frame)
  /\ disc \in [Vertices -> 0..N]
  /\ low \in [Vertices -> 0..N]
  /\ timer \in 0..N
  /\ sccStack \in Seq(Vertices)
  /\ onStack \in [Vertices -> BOOLEAN]
  /\ component \in [Vertices -> 0..N]
  /\ cid \in 0..N

\* timer counts the discovered vertices, and no two have the same time.
TimesDistinct ==
  /\ Cardinality({v \in Vertices : disc[v] # N}) = timer
  /\ \A v \in Vertices : disc[v] # N => disc[v] < timer
  /\ \A u, v \in Vertices : disc[u] # N /\ disc[u] = disc[v] => u = v

\* At least as many vertices are numbered as ids are given.
IdsGiven ==
  /\ cid <= Cardinality({v \in Vertices : component[v] # N})
  /\ \A v \in Vertices : component[v] # N => component[v] < cid /\ disc[v] # N

\* The stack holds the discovered vertices without number, in order of discovery.
StackExact ==
  /\ \A v \in Vertices : onStack[v] <=> disc[v] # N /\ component[v] = N
  /\ \A v \in Vertices : onStack[v] <=> \E i \in 1..Len(sccStack) : sccStack[i] = v
  /\ \A i, j \in 1..Len(sccStack) : i < j => disc[sccStack[i]] < disc[sccStack[j]]

\* The frames are on the stack, in order of discovery.
PathOnStack ==
  /\ \A i \in 1..Len(frames) : /\ onStack[frames[i].uid]
                               /\ frames[i].it \in 1..(Len(graph[frames[i].uid]) + 1)
  /\ \A i, j \in 1..Len(frames) : i < j => disc[frames[i].uid] < disc[frames[j].uid]
  /\ frames # <<>> => start < N

\* A frame's vertex reaches all vertices above it on the stack.
PathReaches ==
  \A i \in 1..Len(frames) : \A v \in Vertices :
    onStack[v] /\ disc[frames[i].uid] <= disc[v] => v \in ReachedFrom(graph, frames[i].uid)

\* A low-link is the time of a vertex on the stack that is reached and not younger.
LowIsTime ==
  \A v \in Vertices : onStack[v] =>
    low[v] <= disc[v] /\ \E w \in ReachedFrom(graph, v) : onStack[w] /\ disc[w] = low[v]

OnPath(v) == \E i \in 1..Len(frames) : frames[i].uid = v

\* A vertex that was left on the stack has an older one to go back to.
LeftReachesOlder == \A v \in Vertices : onStack[v] /\ ~OnPath(v) => low[v] < disc[v]

\* The position j of v's edges lies behind the search.
Seen(v, j) == \A i \in 1..Len(frames) : frames[i].uid = v => j < frames[i].it

EdgesCounted ==
  \A v \in Vertices : onStack[v] =>
    \A j \in 1..Len(graph[v]) : Seen(v, j) =>
      /\ disc[graph[v][j]] # N
      /\ onStack[graph[v][j]] => low[v] <= disc[graph[v][j]]

NumberedClosed == ClosedIn(graph, {v \in Vertices : component[v] # N})

\* x was discovered from frame i and not from the next one.
Between(i, x) == /\ disc[frames[i].uid] < disc[x]
                 /\ i < Len(frames) => disc[x] < disc[frames[i + 1].uid]

\* The low-links of the vertices left behind were handed to the frame below them.
LowHandedUp ==
  \A i \in 1..Len(frames) : \A x \in Vertices :
    onStack[x] /\ ~OnPath(x) /\ Between(i, x) => low[frames[i].uid] <= low[x]

TarjanInv == /\ SearchTypes /\ TimesDistinct /\ IdsGiven /\ StackExact /\ PathOnStack
             /\ PathReaches /\ LowIsTime /\ LeftReachesOlder /\ EdgesCounted
             /\ NumberedClosed /\ LowHandedUp

\* The invariants say where edges and positions lead.
LEMMA TypesOfLists ==
  ASSUME graph \in Adjacency
  PROVE  \A v \in Vertices : /\ graph[v] \in Seq(Vertices)
                             /\ Len(graph[v]) \in Nat
                             /\ \A i \in 1..Len(graph[v]) : graph[v][i] \in Vertices
  <1> TAKE v \in Vertices
  <1>1. graph[v] \in Seq(Vertices)
    BY DEF Adjacency
  <1> QED
    BY <1>1, LenProperties, ElementOfSeq

LEMMA TypesOfFrames ==
  ASSUME frames \in Seq(Frame)
  PROVE  /\ Len(frames) \in Nat
         /\ \A i \in 1..Len(frames) : /\ frames[i] \in Frame
                                      /\ frames[i].uid \in Vertices
                                      /\ frames[i].it \in Nat
         /\ frames # <<>> <=> Len(frames) # 0
  <1>1. /\ Len(frames) \in Nat
        /\ frames # <<>> => Len(frames) # 0
        /\ Len(<<>>) = 0
    BY EmptySeq, LenProperties
  <1>2. \A i \in 1..Len(frames) : frames[i] \in Frame
    BY ElementOfSeq
  <1> QED
    BY <1>1, <1>2 DEF Frame

\* Every vertex on the stack reaches one of the path that is not younger.
LEMMA StackReachesPath ==
  ASSUME SearchTypes, LowIsTime, LeftReachesOlder, NEW v \in Vertices, onStack[v]
  PROVE  \E i \in 1..Len(frames) : /\ frames[i].uid \in ReachedFrom(graph, v)
                                   /\ disc[frames[i].uid] <= disc[v]
  <1> DEFINE R(w) == ReachedFrom(graph, w)
             Older == {w \in R(v) : onStack[w] /\ disc[w] <= disc[v]}
             Ages == {disc[w] : w \in Older}
  <1>1. \A w \in Vertices : ReachesOnwards(Vertices, graph, w)
    BY GraphReachability DEF SearchTypes
  <1>2. \A w \in R(v) : w \in Vertices /\ R(w) \subseteq R(v)
    BY <1>1 DEF ReachesOnwards
  <1>3. \A w \in Vertices : disc[w] \in Nat /\ low[w] \in Nat
    BY ComponentsAssumption DEF SearchTypes
  <1>4. v \in Older
    BY <1>1, <1>3 DEF ReachesOnwards
  <1>5. Ages \subseteq Nat /\ Ages # {}
    BY <1>2, <1>3, <1>4
  <1>6. PICK m \in Ages : \A x \in Ages : m <= x
    <2> HIDE DEF Ages
    <2> QED
      BY <1>5, LeastNatural
  <1>7. PICK w \in Older : disc[w] = m
    BY <1>6
  <1>8. SUFFICES ASSUME ~OnPath(w) PROVE FALSE
    BY <1>7 DEF OnPath
  <1>9. w \in Vertices /\ onStack[w] /\ disc[w] <= disc[v] /\ w \in R(v)
    BY <1>2, <1>7
  <1>10. low[w] < disc[w]
    BY <1>8, <1>9 DEF LeftReachesOlder
  <1>11. PICK x \in R(w) : onStack[x] /\ disc[x] = low[w]
    BY <1>9 DEF LowIsTime
  <1>12. x \in R(v) /\ x \in Vertices
    BY <1>2, <1>9, <1>11
  <1>13. disc[x] < disc[w] /\ disc[x] <= disc[v]
    BY <1>3, <1>9, <1>10, <1>11, <1>12
  <1>14. disc[x] \in Ages
    BY <1>11, <1>12, <1>13
  <1> QED
    BY <1>3, <1>6, <1>7, <1>9, <1>12, <1>13, <1>14

\* The invariant says what the low-links presume of the stack.
LEMMA LowLinksFollow ==
  ASSUME TarjanInv
  PROVE  Tarjan!LowLinksOnStack
  <1> DEFINE reach == [v \in Vertices |-> ReachedFrom(graph, v)]
  <1>1. \A w \in Vertices : ReachesOnwards(Vertices, graph, w)
    BY GraphReachability DEF TarjanInv, SearchTypes
  <1>2. DOMAIN frames = 1..Len(frames) /\ DOMAIN sccStack = 1..Len(sccStack)
    BY LenProperties DEF TarjanInv, SearchTypes
  <1>3. \A v \in Vertices : onStack[v] <=> disc[v] # N /\ component[v] = N
    BY DEF TarjanInv, StackExact
  <1>4. {v \in Vertices : onStack[v]} = {sccStack[i] : i \in 1..Len(sccStack)}
    <2>1. \A i \in 1..Len(sccStack) : sccStack[i] \in Vertices
      BY ElementOfSeq DEF TarjanInv, SearchTypes
    <2> QED
      BY <2>1 DEF TarjanInv, StackExact
  <1>5. \A i, j \in 1..Len(sccStack) : i < j => disc[sccStack[i]] < disc[sccStack[j]]
    BY DEF TarjanInv, StackExact
  <1>6. ASSUME NEW v \in Vertices, onStack[v]
        PROVE  /\ \E w \in reach[v] : onStack[w] /\ low[v] = disc[w] /\ disc[w] <= disc[v]
               /\ \E w \in {frames[i].uid : i \in 1..Len(frames)} \cap reach[v] : disc[w] <= disc[v]
    <2>1. reach[v] = ReachedFrom(graph, v)
      OBVIOUS
    <2>2. low[v] <= disc[v] /\ \E w \in ReachedFrom(graph, v) : onStack[w] /\ disc[w] = low[v]
      BY <1>6 DEF TarjanInv, LowIsTime
    <2>3. PICK i \in 1..Len(frames) : /\ frames[i].uid \in ReachedFrom(graph, v)
                                      /\ disc[frames[i].uid] <= disc[v]
      BY <1>6, StackReachesPath DEF TarjanInv
    <2> QED
      BY <2>1, <2>2, <2>3
  <1>7. ASSUME NEW v \in Vertices, component[v] # N, NEW w \in reach[v]
        PROVE  component[w] # N
    <2>1. ClosedIn(graph, {u \in Vertices : component[u] # N})
      BY DEF TarjanInv, NumberedClosed
    <2> DEFINE S == {u \in Vertices : component[u] # N}
    <2>2. S \in SUBSET Vertices /\ v \in S
      BY <1>7
    <2>3. ReachedFrom(graph, v) \subseteq S
      <3> HIDE DEF S
      <3> QED
        BY <1>1, <2>1, <2>2 DEF ReachesOnwards, S
    <2> QED
      BY <1>7, <2>3
  <1>8. [v \in Vertices |-> Tarjan!Reached(Tarjan!Successors(graph), v)] = reach
    <2>1. Tarjan!Successors(graph) = Successors(graph)
      BY DEF Tarjan!Successors, Successors
    <2>2. \A S : Tarjan!Cardinality(S) = Cardinality(S)
      BY DEF Tarjan!Cardinality, Cardinality
    <2>3. \A v \in Vertices : Tarjan!Reached(Successors(graph), v) = ReachedFrom(graph, v)
      BY <2>2 DEF Tarjan!Reached, Tarjan!ReachedWithin, ReachedFrom, Reached, ReachedWithin
    <2> QED
      BY <2>1, <2>3
  <1> HIDE DEF reach
  <1>9. Tarjan!Vertices = Vertices
    BY DEF Tarjan!Vertices, Vertices
  <1> QED
    BY <1>2, <1>3, <1>4, <1>5, <1>6, <1>7, <1>8, <1>9
    DEF Tarjan!LowLinksOnStack, Tarjan!Unvisited, Tarjan!None

-----------------------------------------------------------------------------
(* A vertex is discovered: StartTree and TreeEdge *)

\* A frame for v is put on the path; the positions the frames below it pass lead to v.
PathGrows(v) ==
  /\ start < N
  /\ frames' \in Seq(Frame)
  /\ Len(frames') = Len(frames) + 1
  /\ frames'[Len(frames) + 1] = [uid |-> v, it |-> 1]
  /\ \A i \in 1..Len(frames) :
       /\ frames'[i].uid = frames[i].uid
       /\ frames'[i].it \in 1..(Len(graph[frames[i].uid]) + 1)
       /\ \A j \in 1..Len(graph[frames[i].uid]) :
            j < frames'[i].it => j < frames[i].it \/ graph[frames[i].uid][j] = v
       /\ v \in ReachedFrom(graph, frames[i].uid)

LEMMA EnterKeeps ==
  ASSUME TarjanInv, NEW v \in Vertices, disc[v] = N, Tarjan!Enter(v), PathGrows(v)
  PROVE  TarjanInv'
  <1> DEFINE n == Len(frames)
             s == Len(sccStack)
             R(w) == ReachedFrom(graph, w)
             F == frames'
  <1>1. /\ disc' = [disc EXCEPT ![v] = timer]
        /\ low' = [low EXCEPT ![v] = timer]
        /\ timer' = timer + 1
        /\ sccStack' = Append(sccStack, v)
        /\ onStack' = [onStack EXCEPT ![v] = TRUE]
        /\ UNCHANGED <<graph, start, component, cid>>
    BY DEF Tarjan!Enter, Tarjan!Discover
  <1>2. /\ graph \in Adjacency
        /\ start \in 0..N
        /\ frames \in Seq(Frame)
        /\ disc \in [Vertices -> 0..N]
        /\ low \in [Vertices -> 0..N]
        /\ timer \in 0..N
        /\ sccStack \in Seq(Vertices)
        /\ onStack \in [Vertices -> BOOLEAN]
        /\ component \in [Vertices -> 0..N]
        /\ cid \in 0..N
        /\ N \in Nat
    BY ComponentsAssumption DEF TarjanInv, SearchTypes
  <1>3. /\ n \in Nat
        /\ \A i \in 1..n : frames[i].uid \in Vertices
    BY <1>2, TypesOfFrames
  <1>4. /\ F \in Seq(Frame)
        /\ Len(F) = n + 1
        /\ F[n + 1].uid = v /\ F[n + 1].it = 1
        /\ \A i \in 1..n : F[i].uid = frames[i].uid
    BY DEF PathGrows
  <1>5. \A w \in Vertices : ReachesOnwards(Vertices, graph, w)
    BY <1>2, GraphReachability
  <1>6. \A w \in Vertices : /\ disc'[w] = IF w = v THEN timer ELSE disc[w]
                            /\ low'[w] = IF w = v THEN timer ELSE low[w]
                            /\ onStack'[w] <=> (w = v \/ onStack[w])
    BY <1>1, <1>2
  <1>7. ~onStack[v] /\ component[v] = N
    BY <1>2 DEF TarjanInv, StackExact, IdsGiven
  <1>8. \A w \in Vertices : onStack[w] => disc[w] # N /\ disc[w] < timer /\ w # v
    BY <1>7 DEF TarjanInv, StackExact, TimesDistinct
  <1>9. \A i \in 1..n : onStack[frames[i].uid] /\ frames[i].uid # v
    BY <1>7 DEF TarjanInv, PathOnStack
  <1>10. \A w \in Vertices : disc[w] \in Nat /\ low[w] \in Nat /\ timer \in Nat
    BY <1>2
  <1>11. timer < N /\ Cardinality({w \in Vertices : disc'[w] # N}) = timer + 1
    <2> DEFINE Old == {w \in Vertices : disc[w] # N}
               New == {w \in Vertices : disc'[w] # N}
    <2>1. Cardinality(Old) = timer /\ Old \in SUBSET Vertices /\ v \notin Old
      BY DEF TarjanInv, TimesDistinct
    <2>2. IsFiniteSet(Old) /\ IsFiniteSet(Old \cup {v}) /\ Cardinality(Old \cup {v}) = timer + 1
      BY <2>1, VerticesFinite, FS_Subset, FS_AddElement
    <2>3. Cardinality(Old \cup {v}) <= N
      <3>1. Old \cup {v} \in SUBSET Vertices
        OBVIOUS
      <3> HIDE DEF Old
      <3> QED
        BY <3>1, VerticesFinite, FS_Subset
    <2>4. timer < N
      BY <1>10, <1>2, <2>2, <2>3
    <2>5. New = Old \cup {v}
      BY <1>6, <1>10, <1>2, <2>4
    <2> QED
      BY <2>2, <2>4, <2>5
  <1>12. SearchTypes'
    <2>1. sccStack' \in Seq(Vertices)
      BY <1>1, <1>2, AppendProperties
    <2> QED
      BY <1>1, <1>2, <1>4, <1>11, <2>1 DEF SearchTypes, Adjacency
  <1>13. TimesDistinct'
    <2>1. \A w \in Vertices : disc[w] # N => disc[w] < timer
      BY DEF TarjanInv, TimesDistinct
    <2>2. \A w, u \in Vertices : disc[w] # N /\ disc[w] = disc[u] => w = u
      BY DEF TarjanInv, TimesDistinct
    <2>3. \A w \in Vertices : disc'[w] # N => disc'[w] < timer'
      BY <1>1, <1>6, <1>10, <2>1
    <2>4. \A w, u \in Vertices : disc'[w] # N /\ disc'[w] = disc'[u] => w = u
      BY <1>6, <1>10, <2>1, <2>2, <1>2
    <2> QED
      BY <1>1, <1>11, <2>3, <2>4 DEF TimesDistinct
  <1>14. IdsGiven'
    <2>1. \A w \in Vertices : component[w] # N => component[w] < cid /\ disc[w] # N
      BY DEF TarjanInv, IdsGiven
    <2>2. \A w \in Vertices : component[w] # N => disc'[w] # N
      BY <1>6, <1>7, <2>1
    <2> QED
      BY <1>1, <2>1, <2>2 DEF TarjanInv, IdsGiven
  <1>15. /\ s \in Nat /\ Len(sccStack') = s + 1
         /\ sccStack'[s + 1] = v
         /\ \A i \in 1..s : sccStack'[i] = sccStack[i] /\ sccStack[i] \in Vertices
    BY <1>1, <1>2, AppendProperties, LenProperties, ElementOfSeq
  <1>16. StackExact'
    <2>1. /\ \A w \in Vertices : onStack[w] <=> disc[w] # N /\ component[w] = N
          /\ \A w \in Vertices : onStack[w] <=> \E i \in 1..s : sccStack[i] = w
          /\ \A i, j \in 1..s : i < j => disc[sccStack[i]] < disc[sccStack[j]]
      BY DEF TarjanInv, StackExact
    <2>2. \A w \in Vertices : onStack'[w] <=> disc'[w] # N /\ component'[w] = N
      BY <1>1, <1>2, <1>6, <1>7, <1>11, <2>1
    <2>3. \A w \in Vertices : onStack'[w] <=> \E i \in 1..Len(sccStack') : sccStack'[i] = w
      BY <1>6, <1>15, <2>1
    <2>4. \A i \in 1..s : onStack[sccStack[i]]
      BY <1>15, <2>1
    <2>5. ASSUME NEW i \in 1..Len(sccStack'), NEW j \in 1..Len(sccStack'), i < j
          PROVE  disc'[sccStack'[i]] < disc'[sccStack'[j]]
      <3>1. i \in 1..s /\ sccStack'[i] = sccStack[i] /\ disc'[sccStack'[i]] = disc[sccStack[i]]
        BY <1>6, <1>8, <1>15, <2>4, <2>5
      <3>2. CASE j = s + 1
        BY <1>6, <1>8, <1>15, <2>4, <3>1, <3>2
      <3>3. CASE j # s + 1
        <4>1. j \in 1..s /\ disc'[sccStack'[j]] = disc[sccStack[j]]
          BY <1>6, <1>8, <1>15, <2>4, <3>3
        <4> QED
          BY <2>1, <2>5, <3>1, <4>1
      <3> QED
        BY <3>2, <3>3
    <2> QED
      BY <2>2, <2>3, <2>5 DEF StackExact
  <1>17. PathOnStack'
    <2>1. \A i \in 1..n : /\ onStack[frames[i].uid]
                          /\ \A j \in 1..n : i < j => disc[frames[i].uid] < disc[frames[j].uid]
      BY DEF TarjanInv, PathOnStack
    <2>2. \A i \in 1..n : F[i].it \in 1..(Len(graph[frames[i].uid]) + 1)
      BY DEF PathGrows
    <2>3. Len(graph[v]) \in Nat
      BY <1>2, TypesOfLists
    <2>4. \A i \in 1..Len(F) : onStack'[F[i].uid] /\ F[i].it \in 1..(Len(graph[F[i].uid]) + 1)
      BY <1>3, <1>4, <1>6, <2>1, <2>2, <2>3
    <2>5. ASSUME NEW i \in 1..Len(F), NEW j \in 1..Len(F), i < j
          PROVE  disc'[F[i].uid] < disc'[F[j].uid]
      <3>1. i \in 1..n /\ disc'[F[i].uid] = disc[frames[i].uid] /\ disc[frames[i].uid] < timer
        BY <1>3, <1>4, <1>6, <1>8, <1>9, <2>5
      <3>2. CASE j = n + 1
        BY <1>4, <1>6, <3>1, <3>2
      <3>3. CASE j # n + 1
        <4>1. j \in 1..n /\ disc'[F[j].uid] = disc[frames[j].uid]
          BY <1>3, <1>4, <1>6, <1>9, <3>3
        <4> QED
          BY <2>1, <2>5, <3>1, <4>1
      <3> QED
        BY <3>2, <3>3
    <2> QED
      BY <1>1, <2>4, <2>5 DEF PathOnStack, PathGrows
  <1>18. PathReaches'
    <2>1. \A i \in 1..n : \A w \in Vertices :
            onStack[w] /\ disc[frames[i].uid] <= disc[w] => w \in R(frames[i].uid)
      BY DEF TarjanInv, PathReaches
    <2>2. \A i \in 1..n : v \in R(frames[i].uid)
      BY DEF PathGrows
    <2>3. ASSUME NEW i \in 1..Len(F), NEW w \in Vertices, onStack'[w], disc'[F[i].uid] <= disc'[w]
          PROVE  w \in R(F[i].uid)
      <3>1. CASE i = n + 1
        <4>1. w = v
          BY <1>4, <1>6, <1>8, <1>10, <2>3, <3>1
        <4> QED
          BY <1>4, <1>5, <3>1, <4>1 DEF ReachesOnwards
      <3>2. CASE i # n + 1
        <4>1. i \in 1..n /\ F[i].uid = frames[i].uid /\ disc'[F[i].uid] = disc[frames[i].uid]
          BY <1>3, <1>4, <1>6, <1>9, <3>2
        <4> QED
          BY <1>6, <2>1, <2>2, <2>3, <4>1
      <3> QED
        BY <3>1, <3>2
    <2> QED
      BY <1>1, <2>3 DEF PathReaches
  <1>19. LowIsTime'
    <2>1. ASSUME NEW w \in Vertices, onStack'[w]
          PROVE  low'[w] <= disc'[w] /\ \E x \in R(w) : onStack'[x] /\ disc'[x] = low'[w]
      <3>1. CASE w = v
        BY <1>5, <1>6, <1>10, <3>1 DEF ReachesOnwards
      <3>2. CASE w # v
        <4>1. onStack[w] /\ low'[w] = low[w] /\ disc'[w] = disc[w]
          BY <1>6, <2>1, <3>2
        <4>2. low[w] <= disc[w]
          BY <4>1 DEF TarjanInv, LowIsTime
        <4>3. PICK x \in R(w) : onStack[x] /\ disc[x] = low[w]
          BY <4>1 DEF TarjanInv, LowIsTime
        <4>4. x \in Vertices /\ x # v
          BY <1>5, <1>7, <4>3 DEF ReachesOnwards
        <4> QED
          BY <1>6, <4>1, <4>2, <4>3, <4>4
      <3> QED
        BY <3>1, <3>2
    <2> QED
      BY <1>1, <2>1 DEF LowIsTime
  <1>20. \A w \in Vertices : OnPath(w)' <=> (OnPath(w) \/ w = v)
    BY <1>3, <1>4 DEF OnPath
  <1>21. LeftReachesOlder'
    <2>1. \A w \in Vertices : onStack[w] /\ ~OnPath(w) => low[w] < disc[w]
      BY DEF TarjanInv, LeftReachesOlder
    <2> QED
      BY <1>6, <1>20, <2>1 DEF LeftReachesOlder
  <1>22. EdgesCounted'
    <2> SUFFICES ASSUME NEW w \in Vertices, onStack'[w], NEW j \in 1..Len(graph[w]), Seen(w, j)'
                 PROVE  /\ disc'[graph[w][j]] # N
                        /\ onStack'[graph[w][j]] => low'[w] <= disc'[graph[w][j]]
      BY <1>1 DEF EdgesCounted
    <2> DEFINE t == graph[w][j]
    <2>1. t \in Vertices
      BY <1>2, TypesOfLists
    <2>2. CASE w = v
      <3>1. j < F[n + 1].it
        BY <1>3, <1>4, <2>2 DEF Seen
      <3>2. Len(graph[w]) \in Nat
        BY <1>2, TypesOfLists
      <3> QED
        BY <1>4, <3>1, <3>2
    <2>3. CASE w # v
      <3>1. onStack[w] /\ low'[w] = low[w]
        BY <1>6, <2>3
      <3>2. low[w] <= disc[w] /\ disc[w] < timer
        BY <1>8, <3>1 DEF TarjanInv, LowIsTime
      <3>3. CASE t = v
        BY <1>2, <1>6, <1>10, <1>11, <2>1, <3>1, <3>2, <3>3
      <3>4. CASE t # v
        <4>1. Seen(w, j)
          <5>1. ASSUME NEW i \in 1..n, frames[i].uid = w PROVE j < frames[i].it
            <6>1. i \in 1..Len(F) /\ F[i].uid = w
              BY <1>3, <1>4, <5>1
            <6>2. j < F[i].it
              BY <6>1 DEF Seen
            <6> QED
              BY <3>4, <5>1, <6>2 DEF PathGrows
          <5> QED
            BY <5>1 DEF Seen
        <4>2. /\ disc[t] # N
              /\ onStack[t] => low[w] <= disc[t]
          BY <3>1, <4>1 DEF TarjanInv, EdgesCounted
        <4> QED
          BY <1>6, <2>1, <3>1, <3>4, <4>2
      <3> QED
        BY <3>3, <3>4
    <2> QED
      BY <2>2, <2>3
  <1>23. NumberedClosed'
    BY <1>1 DEF TarjanInv, NumberedClosed
  <1>24. LowHandedUp'
    <2> SUFFICES ASSUME NEW i \in 1..Len(F), NEW x \in Vertices,
                        onStack'[x], ~OnPath(x)', Between(i, x)'
                 PROVE  low'[F[i].uid] <= low'[x]
      BY DEF LowHandedUp
    <2>1. onStack[x] /\ ~OnPath(x) /\ x # v /\ disc'[x] = disc[x] /\ low'[x] = low[x] /\ disc[x] < timer
      BY <1>6, <1>8, <1>20
    <2>2. disc'[F[i].uid] < disc[x]
      BY <2>1 DEF Between
    <2>3. i # n + 1
      BY <1>4, <1>6, <1>10, <2>1, <2>2
    <2>4. i \in 1..n /\ F[i].uid = frames[i].uid /\ frames[i].uid # v
      BY <1>3, <1>4, <1>9, <2>3
    <2>5. disc[frames[i].uid] < disc[x] /\ low'[F[i].uid] = low[frames[i].uid]
      BY <1>3, <1>6, <2>2, <2>4
    <2>6. ASSUME i < n PROVE disc[x] < disc[frames[i + 1].uid]
      <3>1. i + 1 \in 1..n /\ F[i + 1].uid = frames[i + 1].uid /\ frames[i + 1].uid # v
        BY <1>3, <1>4, <1>9, <2>4, <2>6
      <3>2. disc'[x] < disc'[F[i + 1].uid]
        BY <1>4, <2>4, <2>6, <1>3 DEF Between
      <3> QED
        BY <1>3, <1>6, <2>1, <3>1, <3>2
    <2>7. Between(i, x)
      BY <2>5, <2>6 DEF Between
    <2> QED
      BY <2>1, <2>4, <2>5, <2>7 DEF TarjanInv, LowHandedUp
  <1> QED
    BY <1>12, <1>13, <1>14, <1>16, <1>17, <1>18, <1>19, <1>21, <1>22, <1>23, <1>24 DEF TarjanInv

\* The top frame.
LEMMA TopIs ==
  ASSUME frames \in Seq(Frame), frames # <<>>
  PROVE  /\ Len(frames) \in Nat /\ Len(frames) >= 1
         /\ Len(frames) \in 1..Len(frames)
         /\ Tarjan!Top = frames[Len(frames)]
         /\ Tarjan!Top.uid \in Vertices
  <1>1. Len(frames) \in Nat /\ Len(frames) >= 1
    BY TypesOfFrames
  <1>2. Tarjan!Top = frames[Len(frames)]
    BY DEF Tarjan!Top, Tarjan!Last
  <1> QED
    BY <1>1, <1>2, TypesOfFrames

LEMMA ResumedIs ==
  ASSUME frames \in Seq(Frame), frames # <<>>
  PROVE  /\ Tarjan!Resumed \in Seq(Frame)
         /\ Len(Tarjan!Resumed) = Len(frames)
         /\ \A i \in 1..Len(frames) :
              /\ Tarjan!Resumed[i].uid = frames[i].uid
              /\ Tarjan!Resumed[i].it = IF i = Len(frames) THEN frames[i].it + 1 ELSE frames[i].it
  <1> DEFINE n == Len(frames)
             e == [uid |-> frames[n].uid, it |-> frames[n].it + 1]
  <1>1. n \in 1..n /\ \A i \in 1..n : frames[i] \in Frame /\ frames[i].it \in Nat /\ frames[i].uid \in Vertices
    BY TopIs, TypesOfFrames
  <1>2. e \in Frame
    BY <1>1 DEF Frame
  <1>3. [frames[n] EXCEPT !.it = frames[n].it + 1] = e
    BY <1>1 DEF Frame
  <1>4. e.uid = frames[n].uid /\ e.it = frames[n].it + 1
    OBVIOUS
  <1> HIDE DEF e
  <1>5. Tarjan!Resumed = [frames EXCEPT ![n] = e]
    <2>1. Tarjan!Resumed = [frames EXCEPT ![n] = [frames[n] EXCEPT !.it = frames[n].it + 1]]
      BY DEF Tarjan!Resumed
    <2> QED
      BY <1>3, <2>1
  <1>6. /\ [frames EXCEPT ![n] = e] \in Seq(Frame)
        /\ Len([frames EXCEPT ![n] = e]) = n
        /\ \A j \in 1..n : [frames EXCEPT ![n] = e][j] = IF j = n THEN e ELSE frames[j]
    BY <1>1, <1>2, ExceptSeq
  <1> DEFINE r == Tarjan!Resumed
  <1>7. r \in Seq(Frame) /\ Len(r) = n /\ \A j \in 1..n : r[j] = IF j = n THEN e ELSE frames[j]
    BY <1>5, <1>6
  <1> HIDE DEF r
  <1>8. \A j \in 1..n : /\ r[j].uid = frames[j].uid
                        /\ r[j].it = IF j = n THEN frames[j].it + 1 ELSE frames[j].it
    BY <1>4, <1>7
  <1> QED
    BY <1>7, <1>8 DEF r

\* Without frames the stack is empty.
LEMMA NothingLeftOver ==
  ASSUME TarjanInv, frames = <<>>
  PROVE  \A v \in Vertices : ~onStack[v]
  <1>1. Len(frames) = 0
    BY EmptySeq
  <1> QED
    BY <1>1, StackReachesPath DEF TarjanInv

LEMMA StartTreeKeeps ==
  ASSUME TarjanInv, Tarjan!StartTree
  PROVE  TarjanInv'
  <1>1. /\ frames = <<>> /\ start < N
        /\ disc[start] = N
        /\ frames' = <<[uid |-> start, it |-> 1]>>
        /\ Tarjan!Enter(start)
    BY DEF Tarjan!StartTree, Tarjan!AtRoot, Tarjan!Unvisited
  <1>2. PICK v \in Vertices : v = start
    BY <1>1, ComponentsAssumption DEF TarjanInv, SearchTypes, Vertices
  <1> DEFINE e == [uid |-> v, it |-> 1]
  <1>3. e \in Frame
    BY DEF Frame
  <1>4. frames' = <<e>>
    BY <1>1, <1>2
  <1> HIDE DEF e
  <1>5. frames' \in Seq(Frame) /\ Len(frames') = 1 /\ frames'[1] = e
    BY <1>3, <1>4
  <1>6. Len(frames) = 0
    BY <1>1, EmptySeq
  <1>7. PathGrows(v)
    BY <1>1, <1>5, <1>6 DEF PathGrows, e
  <1>8. disc[v] = N /\ Tarjan!Enter(v)
    BY <1>1, <1>2
  <1> QED
    BY <1>7, <1>8, EnterKeeps

LEMMA TreeEdgeKeeps ==
  ASSUME TarjanInv, Tarjan!TreeEdge
  PROVE  TarjanInv'
  <1> DEFINE n == Len(frames)
  <1>1. /\ frames # <<>>
        /\ disc[Tarjan!Target] = N
        /\ frames' = Append(Tarjan!Resumed, [uid |-> Tarjan!Target, it |-> 1])
        /\ Tarjan!Enter(Tarjan!Target)
        /\ ~(Tarjan!Top.it > Len(graph[Tarjan!Top.uid]))
    BY DEF Tarjan!TreeEdge, Tarjan!AtEdge, Tarjan!Unvisited, Tarjan!Exhausted
  <1>2. frames \in Seq(Frame) /\ graph \in Adjacency
    BY DEF TarjanInv, SearchTypes
  <1>3. PICK u \in Vertices : u = frames[n].uid
    BY <1>1, <1>2, TopIs
  <1>4. PICK k \in Nat : k = frames[n].it
    BY <1>1, <1>2, TopIs, TypesOfFrames
  <1>5. n \in Nat /\ n >= 1
    BY <1>1, <1>2, TopIs
  <1>6. /\ Len(graph[u]) \in Nat
        /\ \A i \in 1..Len(graph[u]) : graph[u][i] \in Vertices
    BY <1>2, TypesOfLists
  <1>7. k \in 1..Len(graph[u]) /\ Tarjan!Target = graph[u][k]
    <2>1. Tarjan!Top.uid = u /\ Tarjan!Top.it = k
      BY <1>1, <1>2, <1>3, <1>4, TopIs
    <2>2. k \in 1..(Len(graph[u]) + 1)
      BY <1>3, <1>4, <1>5 DEF TarjanInv, PathOnStack
    <2> QED
      BY <1>1, <1>6, <2>1, <2>2 DEF Tarjan!Target
  <1>8. PICK v \in Vertices : v = Tarjan!Target
    BY <1>6, <1>7
  <1> DEFINE e == [uid |-> v, it |-> 1]
             r == Tarjan!Resumed
  <1>9. e \in Frame
    BY DEF Frame
  <1>10. frames' = Append(r, e)
    BY <1>1, <1>8
  <1>11. /\ r \in Seq(Frame) /\ Len(r) = n
         /\ \A i \in 1..n : r[i].uid = frames[i].uid
         /\ \A i \in 1..n : r[i].it = IF i = n THEN frames[i].it + 1 ELSE frames[i].it
    BY <1>1, <1>2, ResumedIs
  <1> HIDE DEF e, r
  <1>12. /\ frames' \in Seq(Frame) /\ Len(frames') = n + 1
         /\ frames'[n + 1] = e
         /\ \A i \in 1..n : frames'[i] = r[i]
    BY <1>5, <1>9, <1>10, <1>11, AppendProperties
  <1>13. \A i \in 1..n : /\ frames[i].uid \in Vertices
                         /\ frames[i].it \in 1..(Len(graph[frames[i].uid]) + 1)
                         /\ onStack[frames[i].uid]
                         /\ Len(graph[frames[i].uid]) \in Nat
    BY <1>2, TypesOfFrames, TypesOfLists DEF TarjanInv, PathOnStack
  <1>14. ASSUME NEW i \in 1..n PROVE v \in ReachedFrom(graph, frames[i].uid)
    <2>1. disc[frames[i].uid] <= disc[u]
      <3>1. CASE i = n
        BY <1>3, <3>1, ComponentsAssumption DEF TarjanInv, SearchTypes
      <3>2. CASE i # n
        <4>1. i < n /\ n \in 1..n
          BY <1>5, <3>2
        <4>2. disc[frames[i].uid] < disc[frames[n].uid]
          BY <4>1 DEF TarjanInv, PathOnStack
        <4> QED
          BY <1>3, <1>13, <4>2, ComponentsAssumption DEF TarjanInv, SearchTypes
      <3> QED
        BY <3>1, <3>2
    <2>2. onStack[u]
      BY <1>3, <1>5, <1>13
    <2>3. u \in ReachedFrom(graph, frames[i].uid)
      BY <2>1, <2>2 DEF TarjanInv, PathReaches
    <2>4. ReachesOnwards(Vertices, graph, frames[i].uid)
      BY <1>2, <1>13, GraphReachability
    <2> QED
      BY <1>7, <1>8, <2>3, <2>4 DEF ReachesOnwards
  <1>15. ASSUME NEW i \in 1..n
         PROVE  /\ frames'[i].uid = frames[i].uid
                /\ frames'[i].it \in 1..(Len(graph[frames[i].uid]) + 1)
                /\ \A j \in 1..Len(graph[frames[i].uid]) :
                     j < frames'[i].it => j < frames[i].it \/ graph[frames[i].uid][j] = v
    <2>1. CASE i = n
      <3>1. frames'[i].uid = u /\ frames'[i].it = k + 1
        BY <1>3, <1>4, <1>11, <1>12, <2>1
      <3>2. \A j \in 1..Len(graph[u]) : j < k + 1 => j < k \/ j = k
        BY <1>6
      <3> QED
        BY <1>3, <1>4, <1>6, <1>7, <1>8, <2>1, <3>1, <3>2
    <2>2. CASE i # n
      BY <1>11, <1>12, <1>13, <2>2
    <2> QED
      BY <2>1, <2>2
  <1>16. start < N
    BY <1>1 DEF TarjanInv, PathOnStack
  <1>17. PathGrows(v)
    BY <1>12, <1>14, <1>15, <1>16 DEF PathGrows, e
  <1>18. disc[v] = N /\ Tarjan!Enter(v)
    BY <1>1, <1>8
  <1> QED
    BY <1>17, <1>18, EnterKeeps

LEMMA SkipVisitedKeeps ==
  ASSUME TarjanInv, Tarjan!SkipVisited, UNCHANGED Tarjan!tarjan
  PROVE  TarjanInv'
  <1>1. /\ frames = <<>> /\ start < N
        /\ start' = start + 1
        /\ UNCHANGED <<graph, frames, disc, low, timer, sccStack, onStack, component, cid>>
    BY DEF Tarjan!SkipVisited, Tarjan!AtRoot, Tarjan!tarjan
  <1>2. SearchTypes'
    BY <1>1, ComponentsAssumption DEF TarjanInv, SearchTypes
  <1>3. \A v : OnPath(v)' <=> OnPath(v)
    BY <1>1 DEF OnPath
  <1>4. \A v, j : Seen(v, j)' <=> Seen(v, j)
    BY <1>1 DEF Seen
  <1>5. \A i, x : Between(i, x)' <=> Between(i, x)
    BY <1>1 DEF Between
  <1>6. TimesDistinct' /\ IdsGiven' /\ StackExact'
    BY <1>1 DEF TarjanInv, TimesDistinct, IdsGiven, StackExact
  <1>7. PathOnStack' /\ PathReaches' /\ LowIsTime'
    BY <1>1 DEF TarjanInv, PathOnStack, PathReaches, LowIsTime
  <1>8. LeftReachesOlder'
    BY <1>1, <1>3 DEF TarjanInv, LeftReachesOlder
  <1>9. EdgesCounted'
    BY <1>1, <1>4 DEF TarjanInv, EdgesCounted
  <1>10. NumberedClosed' /\ LowHandedUp'
    BY <1>1, <1>3, <1>5 DEF TarjanInv, NumberedClosed, LowHandedUp
  <1> QED
    BY <1>2, <1>6, <1>7, <1>8, <1>9, <1>10 DEF TarjanInv

\* What the next iteration looks at.
LEMMA EdgeIs ==
  ASSUME TarjanInv, Tarjan!AtEdge
  PROVE  \E u \in Vertices : \E k \in 1..Len(graph[u]) :
           /\ Tarjan!Top.uid = u /\ frames[Len(frames)].uid = u
           /\ frames[Len(frames)].it = k
           /\ Tarjan!Target = graph[u][k] /\ graph[u][k] \in Vertices
           /\ onStack[u]
  <1> DEFINE n == Len(frames)
  <1>1. frames # <<>> /\ ~(Tarjan!Top.it > Len(graph[Tarjan!Top.uid]))
    BY DEF Tarjan!AtEdge, Tarjan!Exhausted
  <1>2. frames \in Seq(Frame) /\ graph \in Adjacency
    BY DEF TarjanInv, SearchTypes
  <1>3. n \in 1..n /\ Tarjan!Top = frames[n]
    BY <1>1, <1>2, TopIs
  <1>4. PICK u \in Vertices : u = frames[n].uid
    BY <1>1, <1>2, TopIs
  <1>5. PICK k \in Nat : k = frames[n].it
    BY <1>2, <1>3, TypesOfFrames
  <1>6. /\ Len(graph[u]) \in Nat
        /\ \A i \in 1..Len(graph[u]) : graph[u][i] \in Vertices
    BY <1>2, TypesOfLists
  <1>7. k \in 1..(Len(graph[u]) + 1) /\ onStack[u]
    BY <1>3, <1>4, <1>5 DEF TarjanInv, PathOnStack
  <1>8. k \in 1..Len(graph[u])
    BY <1>1, <1>3, <1>4, <1>5, <1>6, <1>7
  <1>9. Tarjan!Target = graph[u][k]
    BY <1>3, <1>4, <1>5 DEF Tarjan!Target
  <1> QED
    BY <1>3, <1>4, <1>5, <1>6, <1>7, <1>8, <1>9

LEMMA VisitedEdgeKeeps ==
  ASSUME TarjanInv, Tarjan!VisitedEdge
  PROVE  TarjanInv'
  <1> DEFINE n == Len(frames)
             R(w) == ReachedFrom(graph, w)
             F == frames'
  <1>1. /\ Tarjan!AtEdge
        /\ frames # <<>>
        /\ disc[Tarjan!Target] # N
        /\ frames' = Tarjan!Resumed
        /\ low' = IF onStack[Tarjan!Target] THEN Tarjan!Lowered(Tarjan!Top.uid, disc[Tarjan!Target]) ELSE low
        /\ UNCHANGED <<graph, start, disc, timer, sccStack, onStack, component, cid>>
    BY DEF Tarjan!VisitedEdge, Tarjan!AtEdge, Tarjan!Unvisited, Tarjan!Lowers, Tarjan!tarjan
  <1>2. /\ graph \in Adjacency
        /\ frames \in Seq(Frame)
        /\ disc \in [Vertices -> 0..N]
        /\ low \in [Vertices -> 0..N]
        /\ N \in Nat
    BY ComponentsAssumption DEF TarjanInv, SearchTypes
  <1>3. PICK u \in Vertices : \E k \in 1..Len(graph[u]) :
          /\ Tarjan!Top.uid = u /\ frames[n].uid = u
          /\ frames[n].it = k
          /\ Tarjan!Target = graph[u][k] /\ graph[u][k] \in Vertices
          /\ onStack[u]
    BY <1>1, EdgeIs
  <1>4. PICK k \in 1..Len(graph[u]) :
          /\ Tarjan!Top.uid = u /\ frames[n].uid = u
          /\ frames[n].it = k
          /\ Tarjan!Target = graph[u][k] /\ graph[u][k] \in Vertices
          /\ onStack[u]
    BY <1>3
  <1>5. PICK t \in Vertices : t = graph[u][k]
    BY <1>4
  <1>6. /\ n \in Nat /\ n >= 1 /\ n \in 1..n
        /\ \A i \in 1..n : frames[i].uid \in Vertices
        /\ Len(graph[u]) \in Nat
    BY <1>1, <1>2, TopIs, TypesOfFrames, TypesOfLists
  <1>7. /\ F \in Seq(Frame) /\ Len(F) = n
        /\ \A i \in 1..n : F[i].uid = frames[i].uid
        /\ \A i \in 1..n : F[i].it = IF i = n THEN k + 1 ELSE frames[i].it
    BY <1>1, <1>2, <1>4, ResumedIs
  <1>8. low' = IF onStack[t] THEN [low EXCEPT ![u] = IF disc[t] < low[u] THEN disc[t] ELSE low[u]] ELSE low
    BY <1>1, <1>4, <1>5 DEF Tarjan!Lowered
  <1>9. /\ low' \in [Vertices -> 0..N]
        /\ \A w \in Vertices : w # u => low'[w] = low[w]
        /\ low'[u] = IF onStack[t] /\ disc[t] < low[u] THEN disc[t] ELSE low[u]
    BY <1>2, <1>8
  <1>10. \A w \in Vertices : disc[w] \in Nat /\ low[w] \in Nat /\ low'[w] \in Nat /\ low'[w] <= low[w]
    <2>1. \A w \in Vertices : disc[w] \in Nat /\ low[w] \in Nat /\ low'[w] \in Nat
      BY <1>2, <1>9
    <2>2. low'[u] <= low[u]
      BY <1>9, <2>1
    <2> QED
      BY <1>9, <2>1, <2>2
  <1>11. SearchTypes'
    BY <1>1, <1>2, <1>7, <1>9 DEF TarjanInv, SearchTypes
  <1>12. \A v : OnPath(v)' <=> OnPath(v)
    BY <1>7 DEF OnPath
  <1>13. \A i \in 1..n, x \in Vertices : Between(i, x)' <=> Between(i, x)
    <2> TAKE i \in 1..n, x \in Vertices
    <2>1. i < n => i + 1 \in 1..n
      BY <1>6
    <2> QED
      BY <1>1, <1>7, <2>1 DEF Between
  <1>14. TimesDistinct' /\ IdsGiven' /\ StackExact'
    BY <1>1 DEF TarjanInv, TimesDistinct, IdsGiven, StackExact
  <1>15. PathOnStack'
    <2>1. /\ \A i \in 1..n : /\ onStack[frames[i].uid]
                             /\ frames[i].it \in 1..(Len(graph[frames[i].uid]) + 1)
          /\ \A i, j \in 1..n : i < j => disc[frames[i].uid] < disc[frames[j].uid]
          /\ start < N
      BY <1>1 DEF TarjanInv, PathOnStack
    <2>2. \A i \in 1..n : F[i].it \in 1..(Len(graph[F[i].uid]) + 1)
      BY <1>4, <1>6, <1>7, <2>1
    <2> QED
      BY <1>1, <1>7, <2>1, <2>2 DEF PathOnStack
  <1>16. PathReaches'
    BY <1>1, <1>7 DEF TarjanInv, PathReaches
  <1>17. LowIsTime'
    <2> SUFFICES ASSUME NEW w \in Vertices, onStack[w]
                 PROVE  low'[w] <= disc[w] /\ \E x \in R(w) : onStack[x] /\ disc[x] = low'[w]
      BY <1>1 DEF LowIsTime
    <2>1. low[w] <= disc[w]
      BY DEF TarjanInv, LowIsTime
    <2>2. PICK x \in R(w) : onStack[x] /\ disc[x] = low[w]
      BY DEF TarjanInv, LowIsTime
    <2>3. CASE low'[w] = low[w]
      BY <2>1, <2>2, <2>3
    <2>4. CASE low'[w] # low[w]
      <3>1. w = u /\ onStack[t] /\ low'[w] = disc[t]
        BY <1>9, <2>4
      <3>2. ReachesOnwards(Vertices, graph, u)
        BY <1>2, GraphReachability
      <3>3. t \in R(u)
        BY <1>5, <3>2 DEF ReachesOnwards
      <3>4. low'[w] <= disc[w]
        BY <1>10, <2>1
      <3> QED
        BY <3>1, <3>3, <3>4
    <2> QED
      BY <2>3, <2>4
  <1>18. LeftReachesOlder'
    <2> SUFFICES ASSUME NEW v \in Vertices, onStack[v], ~OnPath(v) PROVE low'[v] < disc[v]
      BY <1>1, <1>12 DEF LeftReachesOlder
    <2>1. low[v] < disc[v]
      BY DEF TarjanInv, LeftReachesOlder
    <2> QED
      BY <1>10, <2>1
  <1>19. EdgesCounted'
    <2> SUFFICES ASSUME NEW v \in Vertices, onStack[v], NEW j \in 1..Len(graph[v]), Seen(v, j)'
                 PROVE  /\ disc[graph[v][j]] # N
                        /\ onStack[graph[v][j]] => low'[v] <= disc[graph[v][j]]
      BY <1>1 DEF EdgesCounted
    <2>1. graph[v][j] \in Vertices /\ Len(graph[v]) \in Nat
      BY <1>2, TypesOfLists
    <2>2. CASE v = u /\ j = k
      BY <1>1, <1>4, <1>5, <1>9, <1>10, <2>2
    <2>3. CASE ~(v = u /\ j = k)
      <3>1. Seen(v, j)
        <4> SUFFICES ASSUME NEW i \in 1..n, frames[i].uid = v PROVE j < frames[i].it
          BY DEF Seen
        <4>1. j < F[i].it
          BY <1>7 DEF Seen
        <4>2. CASE i = n
          BY <1>4, <1>7, <2>1, <2>3, <4>1, <4>2
        <4>3. CASE i # n
          BY <1>7, <4>1, <4>3
        <4> QED
          BY <4>2, <4>3
      <3>2. /\ disc[graph[v][j]] # N
            /\ onStack[graph[v][j]] => low[v] <= disc[graph[v][j]]
        BY <3>1 DEF TarjanInv, EdgesCounted
      <3> QED
        BY <1>10, <2>1, <3>2
    <2> QED
      BY <2>2, <2>3
  <1>20. NumberedClosed'
    BY <1>1 DEF TarjanInv, NumberedClosed
  <1>21. LowHandedUp'
    <2> SUFFICES ASSUME NEW i \in 1..n, NEW x \in Vertices, onStack[x], ~OnPath(x), Between(i, x)
                 PROVE  low'[frames[i].uid] <= low'[x]
      BY <1>1, <1>7, <1>12, <1>13 DEF LowHandedUp
    <2>1. low[frames[i].uid] <= low[x]
      BY DEF TarjanInv, LowHandedUp
    <2>2. x # u
      BY <1>4, <1>6 DEF OnPath
    <2> QED
      BY <1>6, <1>9, <1>10, <2>1, <2>2
  <1> QED
    BY <1>11, <1>14, <1>15, <1>16, <1>17, <1>18, <1>19, <1>20, <1>21 DEF TarjanInv

-----------------------------------------------------------------------------
(* The top frame is exhausted: Backtrack *)

LEMMA PrefixIs ==
  ASSUME NEW T, NEW seq \in Seq(T), NEW m \in 0..Len(seq)
  PROVE  /\ SubSeq(seq, 1, m) \in Seq(T)
         /\ Len(SubSeq(seq, 1, m)) = m
         /\ \A i \in 1..m : SubSeq(seq, 1, m)[i] = seq[i]
  <1>1. Len(seq) \in Nat /\ m \in Int /\ 1 \in Int
    BY LenProperties
  <1>2. \A i \in 1..m : seq[i] \in T
    BY <1>1, ElementOfSeq
  <1>3. /\ SubSeq(seq, 1, m) \in Seq(T)
        /\ Len(SubSeq(seq, 1, m)) = IF 1 <= m THEN m - 1 + 1 ELSE 0
        /\ \A i \in 1..(m - 1 + 1) : SubSeq(seq, 1, m)[i] = seq[1 + i - 1]
    BY <1>1, <1>2, SubSeqProperties
  <1>4. m - 1 + 1 = m /\ \A i \in 1..m : 1 + i - 1 = i
    BY <1>1
  <1>5. Len(SubSeq(seq, 1, m)) = m
    BY <1>1, <1>3
  <1>6. \A i \in 1..m : SubSeq(seq, 1, m)[i] = seq[i]
    BY <1>3, <1>4
  <1> QED
    BY <1>3, <1>5, <1>6

\* The frames without the top one, u, whose edges have all been looked at.
PathShrinks(u) ==
  LET n == Len(frames)
  IN  /\ n \in Nat /\ n >= 1
      /\ frames[n].uid = u /\ onStack[u]
      /\ frames[n].it > Len(graph[u])
      /\ \A i \in 1..n : frames[i].uid \in Vertices
      /\ frames' \in Seq(Frame)
      /\ Len(frames') = n - 1
      /\ \A i \in 1..(n - 1) : frames'[i] = frames[i] /\ frames[i].uid # u /\ disc[frames[i].uid] < disc[u]
      /\ start' \in 0..N
      /\ n > 1 => start' = start

LEMMA PopIs ==
  ASSUME TarjanInv, Tarjan!AtEnd, Tarjan!Pop
  PROVE  \E u \in Vertices :
           /\ Tarjan!Top.uid = u
           /\ PathShrinks(u)
           /\ low' = IF Len(frames) = 1 THEN low
                     ELSE LET p == frames[Len(frames) - 1].uid
                          IN  [low EXCEPT ![p] = IF low[u] < low[p] THEN low[u] ELSE low[p]]
  <1> DEFINE n == Len(frames)
  <1>1. /\ frames # <<>> /\ Tarjan!Top.it > Len(graph[Tarjan!Top.uid])
        /\ frames' = SubSeq(frames, 1, n - 1)
        /\ start' = IF n = 1 THEN start + 1 ELSE start
    BY DEF Tarjan!AtEnd, Tarjan!Exhausted, Tarjan!Pop, Tarjan!Front
  <1>2. /\ frames \in Seq(Frame) /\ graph \in Adjacency
        /\ start \in 0..N /\ start < N /\ N \in Nat
    BY <1>1, ComponentsAssumption DEF TarjanInv, SearchTypes, PathOnStack
  <1>3. n \in Nat /\ n >= 1 /\ n \in 1..n /\ Tarjan!Top = frames[n]
    BY <1>1, <1>2, TopIs
  <1>4. PICK u \in Vertices : u = frames[n].uid
    BY <1>1, <1>2, TopIs
  <1>5. onStack[u] /\ frames[n].it > Len(graph[u])
    BY <1>1, <1>3, <1>4 DEF TarjanInv, PathOnStack
  <1>6. \A i \in 1..n : frames[i] \in Frame /\ frames[i].uid \in Vertices
    BY <1>2, TypesOfFrames
  <1>7. /\ frames' \in Seq(Frame)
        /\ Len(frames') = n - 1
        /\ \A i \in 1..(n - 1) : frames'[i] = frames[i]
    <2>1. n - 1 \in 0..n
      BY <1>3
    <2> QED
      BY <1>1, <1>2, <2>1, PrefixIs
  <1>8. \A i \in 1..(n - 1) : disc[frames[i].uid] < disc[u]
    BY <1>3, <1>4 DEF TarjanInv, PathOnStack
  <1>9. \A i \in 1..(n - 1) : frames[i].uid # u
    BY <1>3, <1>4, <1>6, <1>8, ComponentsAssumption DEF TarjanInv, SearchTypes
  <1>10. PathShrinks(u)
    BY <1>1, <1>2, <1>3, <1>4, <1>5, <1>6, <1>7, <1>8, <1>9 DEF PathShrinks
  <1>11. n # 1 => Tarjan!Last(Tarjan!Front(frames)) = frames[n - 1]
    BY <1>1, <1>3, <1>7 DEF Tarjan!Last, Tarjan!Front
  <1>12. low' = IF n = 1 THEN low
                ELSE LET p == frames[n - 1].uid
                     IN  [low EXCEPT ![p] = IF low[u] < low[p] THEN low[u] ELSE low[p]]
    <2>1. CASE n = 1
      BY <2>1 DEF Tarjan!Pop
    <2>2. CASE n # 1
      <3>1. low' = Tarjan!Lowered(Tarjan!Last(Tarjan!Front(frames)).uid, low[Tarjan!Top.uid])
        BY <2>2 DEF Tarjan!Pop
      <3> QED
        BY <1>3, <1>4, <1>11, <2>2, <3>1 DEF Tarjan!Lowered
    <2> QED
      BY <2>1, <2>2
  <1> QED
    BY <1>3, <1>4, <1>10, <1>12

\* The stack from u upwards holds the vertices on it that are not older than u.
LEMMA AboveIs ==
  ASSUME TarjanInv, NEW u \in Vertices, onStack[u]
  PROVE  \E k \in 1..Len(sccStack) :
           /\ sccStack[k] = u
           /\ Tarjan!Above(u) = {v \in Vertices : onStack[v] /\ disc[u] <= disc[v]}
           /\ Tarjan!Above(u) = {sccStack[i] : i \in k..Len(sccStack)}
           /\ Cardinality(Tarjan!Above(u)) = Len(sccStack) - k + 1
  <1> DEFINE s == Len(sccStack)
             At == {i \in 1..s : sccStack[i] = u}
  <1>1. /\ \A v \in Vertices : onStack[v] <=> \E i \in 1..s : sccStack[i] = v
        /\ \A i, j \in 1..s : i < j => disc[sccStack[i]] < disc[sccStack[j]]
    BY DEF TarjanInv, StackExact
  <1>2. /\ s \in Nat
        /\ \A i \in 1..s : sccStack[i] \in Vertices
        /\ \A v \in Vertices : disc[v] \in Nat
    BY LenProperties, ElementOfSeq, ComponentsAssumption DEF TarjanInv, SearchTypes
  <1>3. PICK k \in 1..s : sccStack[k] = u
    BY <1>1
  <1>4. \A i, j \in 1..s : i < j \/ i = j \/ j < i
    BY <1>2
  <1>5. \A i, j \in 1..s : sccStack[i] = sccStack[j] => i = j
    BY <1>1, <1>2, <1>4
  <1>6. At = {k}
    BY <1>3, <1>5
  <1>7. Tarjan!SelectInSeq(sccStack, LAMBDA v : v = u) = k
    <2>1. Tarjan!Min(At) = k
      BY <1>6 DEF Tarjan!Min
    <2>2. Tarjan!SelectInSeq(sccStack, LAMBDA v : v = u) = IF At # {} THEN Tarjan!Min(At) ELSE 0
      BY DEF Tarjan!SelectInSeq
    <2> QED
      BY <1>6, <2>1, <2>2
  <1>8. Tarjan!Above(u) = {sccStack[i] : i \in k..s}
    BY <1>7 DEF Tarjan!Above
  <1>9. {sccStack[i] : i \in k..s} = {v \in Vertices : onStack[v] /\ disc[u] <= disc[v]}
    <2>1. ASSUME NEW i \in k..s PROVE onStack[sccStack[i]] /\ disc[u] <= disc[sccStack[i]]
      <3>1. i \in 1..s /\ (i = k \/ k < i)
        BY <1>2
      <3> QED
        BY <1>1, <1>2, <1>3, <3>1
    <2>2. ASSUME NEW v \in Vertices, onStack[v], disc[u] <= disc[v]
          PROVE  \E i \in k..s : sccStack[i] = v
      <3>1. PICK i \in 1..s : sccStack[i] = v
        BY <1>1, <2>2
      <3>2. ~(i < k)
        BY <1>1, <1>2, <1>3, <2>2, <3>1
      <3> QED
        BY <1>2, <3>1, <3>2
    <2> QED
      BY <1>2, <2>1, <2>2
  <1>10. Cardinality({sccStack[i] : i \in k..s}) = s - k + 1
    <2> DEFINE D == k..s
               C == {sccStack[i] : i \in k..s}
               f == [i \in D |-> sccStack[i]]
    <2>1. f \in Bijection(D, C)
      <3>1. \A i, j \in D : f[i] = f[j] => i = j
        BY <1>2, <1>5
      <3> QED
        BY <3>1 DEF Bijection, Injection, Surjection, IsInjective
    <2>2. IsFiniteSet(D) /\ Cardinality(D) = s - k + 1
      BY <1>2, FS_Interval
    <2> HIDE DEF C, D, f
    <2>3. ExistsBijection(D, C)
      BY <2>1 DEF ExistsBijection
    <2> QED
      BY <2>2, <2>3, FS_Bijection DEF C
  <1> QED
    BY <1>3, <1>8, <1>9, <1>10

\* The low-links after the top frame, u, was popped.
LowPopped(u) ==
  low' = IF Len(frames) = 1 THEN low
         ELSE LET p == frames[Len(frames) - 1].uid
              IN  [low EXCEPT ![p] = IF low[u] < low[p] THEN low[u] ELSE low[p]]

LEMMA PoppedIs ==
  ASSUME SearchTypes, NEW u \in Vertices, PathShrinks(u), LowPopped(u)
  PROVE  /\ low' \in [Vertices -> 0..N]
         /\ \A w \in Vertices : /\ low'[w] <= low[w]
                                /\ low'[w] \in Nat /\ low[w] \in Nat /\ disc[w] \in Nat
                                /\ \/ low'[w] = low[w]
                                   \/ /\ Len(frames) - 1 \in 1..(Len(frames) - 1)
                                      /\ w = frames[Len(frames) - 1].uid
                                      /\ low'[w] = low[u]
         /\ Len(frames) > 1 => low'[frames[Len(frames) - 1].uid] <= low[u]
         /\ \A v \in Vertices : OnPath(v)' <=> OnPath(v) /\ v # u
  <1> DEFINE n == Len(frames)
             p == frames[n - 1].uid
  <1>1. /\ n \in Nat /\ n >= 1 /\ n \in 1..n
        /\ frames[n].uid = u
        /\ \A i \in 1..n : frames[i].uid \in Vertices
        /\ Len(frames') = n - 1
        /\ \A i \in 1..(n - 1) : frames'[i] = frames[i] /\ frames[i].uid # u
    BY DEF PathShrinks
  <1>2. low \in [Vertices -> 0..N] /\ disc \in [Vertices -> 0..N] /\ N \in Nat
    BY ComponentsAssumption DEF SearchTypes
  <1>3. \A v \in Vertices : OnPath(v)' <=> OnPath(v) /\ v # u
    <2> SUFFICES ASSUME NEW v \in Vertices PROVE OnPath(v)' <=> OnPath(v) /\ v # u
      OBVIOUS
    <2>1. \A i \in 1..n : i \in 1..(n - 1) \/ i = n
      BY <1>1
    <2>2. \A i \in 1..(n - 1) : i \in 1..n
      BY <1>1
    <2> QED
      BY <1>1, <2>1, <2>2 DEF OnPath
  <1>4. \A w \in Vertices : low[w] \in Nat /\ disc[w] \in Nat
    BY <1>2
  <1>5. CASE n = 1
    <2>1. low' = low
      BY <1>5 DEF LowPopped
    <2> QED
      BY <1>2, <1>3, <1>4, <1>5, <2>1
  <1>6. CASE n # 1
    <2>1. n > 1 /\ n - 1 \in 1..n /\ n - 1 \in 1..(n - 1)
      BY <1>1, <1>6
    <2>2. p \in Vertices
      BY <1>1, <2>1
    <2>3. low' = [low EXCEPT ![p] = IF low[u] < low[p] THEN low[u] ELSE low[p]]
      BY <1>6 DEF LowPopped
    <2> HIDE DEF p
    <2>4. /\ low' \in [Vertices -> 0..N]
          /\ \A w \in Vertices : w # p => low'[w] = low[w]
          /\ low'[p] = IF low[u] < low[p] THEN low[u] ELSE low[p]
      BY <1>2, <2>2, <2>3
    <2>5. low'[p] <= low[u] /\ low'[p] <= low[p] /\ (low'[p] = low[p] \/ low'[p] = low[u])
      BY <1>4, <2>2, <2>4
    <2>6. \A w \in Vertices : low'[w] \in Nat
      BY <1>2, <2>4
    <2> QED
      BY <1>3, <1>4, <2>1, <2>2, <2>4, <2>5, <2>6 DEF p
  <1> QED
    BY <1>5, <1>6

\* With another low-link than its time u stays on the stack.
LEMMA LeavesOnStack ==
  ASSUME TarjanInv, NEW u \in Vertices, PathShrinks(u), LowPopped(u), low[u] # disc[u],
         UNCHANGED <<graph, disc, timer, sccStack, onStack, component, cid>>
  PROVE  TarjanInv'
  <1> DEFINE n == Len(frames)
             R(w) == ReachedFrom(graph, w)
             F == frames'
             p == frames[n - 1].uid
  <1>1. /\ n \in Nat /\ n >= 1 /\ n \in 1..n
        /\ frames[n].uid = u /\ onStack[u]
        /\ frames[n].it > Len(graph[u])
        /\ \A i \in 1..n : frames[i].uid \in Vertices
        /\ F \in Seq(Frame)
        /\ Len(F) = n - 1
        /\ \A i \in 1..(n - 1) : i \in 1..n /\ F[i] = frames[i]
        /\ \A i \in 1..(n - 1) : frames[i].uid # u /\ disc[frames[i].uid] < disc[u]
        /\ start' \in 0..N
        /\ n > 1 => start' = start
    BY DEF PathShrinks
  <1>2. /\ low' \in [Vertices -> 0..N]
        /\ \A w \in Vertices : /\ low'[w] <= low[w]
                               /\ low'[w] \in Nat /\ low[w] \in Nat /\ disc[w] \in Nat
        /\ \A w \in Vertices : \/ low'[w] = low[w]
                               \/ n - 1 \in 1..(n - 1) /\ w = p /\ low'[w] = low[u]
        /\ n > 1 => low'[p] <= low[u]
        /\ \A v \in Vertices : OnPath(v)' <=> OnPath(v) /\ v # u
    BY PoppedIs DEF TarjanInv
  <1>3. graph \in Adjacency
    BY DEF TarjanInv, SearchTypes
  <1>4. SearchTypes'
    BY <1>1, <1>2 DEF TarjanInv, SearchTypes
  <1>5. TimesDistinct' /\ IdsGiven' /\ StackExact' /\ NumberedClosed'
    BY DEF TarjanInv, TimesDistinct, IdsGiven, StackExact, NumberedClosed
  <1>6. PathOnStack'
    <2>1. F # <<>> => n > 1
      BY <1>1, <1>4, EmptySeq DEF SearchTypes
    <2>2. frames # <<>>
      BY <1>1, EmptySeq
    <2>3. start < N
      BY <2>2 DEF TarjanInv, PathOnStack
    <2>4. \A i \in 1..(n - 1) : onStack[frames[i].uid] /\ frames[i].it \in 1..(Len(graph[frames[i].uid]) + 1)
      BY <1>1 DEF TarjanInv, PathOnStack
    <2>5. \A i, j \in 1..(n - 1) : i < j => disc[frames[i].uid] < disc[frames[j].uid]
      BY <1>1 DEF TarjanInv, PathOnStack
    <2> QED
      BY <1>1, <2>1, <2>3, <2>4, <2>5 DEF PathOnStack
  <1>7. PathReaches'
    <2>1. \A i \in 1..(n - 1) : \A v \in Vertices :
            onStack[v] /\ disc[frames[i].uid] <= disc[v] => v \in R(frames[i].uid)
      BY <1>1 DEF TarjanInv, PathReaches
    <2> QED
      BY <1>1, <2>1 DEF PathReaches
  <1>8. LowIsTime'
    <2> SUFFICES ASSUME NEW w \in Vertices, onStack[w]
                 PROVE  low'[w] <= disc[w] /\ \E x \in R(w) : onStack[x] /\ disc[x] = low'[w]
      BY DEF LowIsTime
    <2>1. low[w] <= disc[w] /\ \E x \in R(w) : onStack[x] /\ disc[x] = low[w]
      BY DEF TarjanInv, LowIsTime
    <2>2. low'[w] <= disc[w]
      BY <1>2, <2>1
    <2>3. CASE low'[w] = low[w]
      BY <2>1, <2>2, <2>3
    <2>4. CASE low'[w] # low[w]
      <3>1. n - 1 \in 1..(n - 1) /\ w = p /\ low'[w] = low[u]
        BY <1>2, <2>4
      <3>2. PICK x \in R(u) : onStack[x] /\ disc[x] = low[u]
        BY <1>1 DEF TarjanInv, LowIsTime
      <3>3. disc[w] <= disc[u]
        BY <1>1, <1>2, <3>1
      <3>4. n - 1 \in 1..n
        BY <1>1, <3>1
      <3>5. u \in R(w)
        BY <1>1, <3>1, <3>3, <3>4 DEF TarjanInv, PathReaches
      <3>6. R(u) \subseteq R(w)
        BY <1>3, <3>5, GraphReachability DEF ReachesOnwards
      <3> QED
        BY <2>2, <3>1, <3>2, <3>6
    <2> QED
      BY <2>3, <2>4
  <1>9. LeftReachesOlder'
    <2> SUFFICES ASSUME NEW v \in Vertices, onStack[v], ~OnPath(v) \/ v = u PROVE low'[v] < disc[v]
      BY <1>2 DEF LeftReachesOlder
    <2>1. low[v] < disc[v]
      <3>1. CASE v = u
        <4>1. low[u] <= disc[u]
          BY <1>1 DEF TarjanInv, LowIsTime
        <4> QED
          BY <1>2, <3>1, <4>1
      <3>2. CASE ~OnPath(v)
        BY <3>2 DEF TarjanInv, LeftReachesOlder
      <3> QED
        BY <3>1, <3>2
    <2> QED
      BY <1>2, <2>1
  <1>10. EdgesCounted'
    <2> SUFFICES ASSUME NEW v \in Vertices, onStack[v], NEW j \in 1..Len(graph[v]), Seen(v, j)'
                 PROVE  /\ disc[graph[v][j]] # N
                        /\ onStack[graph[v][j]] => low'[v] <= disc[graph[v][j]]
      BY DEF EdgesCounted
    <2>1. graph[v][j] \in Vertices /\ Len(graph[v]) \in Nat
      BY <1>3, TypesOfLists
    <2>2. Seen(v, j)
      <3> SUFFICES ASSUME NEW i \in 1..n, frames[i].uid = v PROVE j < frames[i].it
        BY DEF Seen
      <3>1. CASE i = n
        <4>1. frames[n].it \in Nat
          BY <1>1, TypesOfFrames DEF TarjanInv, SearchTypes
        <4> QED
          BY <1>1, <2>1, <3>1, <4>1
      <3>2. CASE i # n
        <4>1. i \in 1..(n - 1)
          BY <1>1, <3>2
        <4> QED
          BY <1>1, <4>1 DEF Seen
      <3> QED
        BY <3>1, <3>2
    <2>3. /\ disc[graph[v][j]] # N
          /\ onStack[graph[v][j]] => low[v] <= disc[graph[v][j]]
      BY <2>2 DEF TarjanInv, EdgesCounted
    <2> QED
      BY <1>2, <2>1, <2>3
  <1>11. LowHandedUp'
    <2> SUFFICES ASSUME NEW i \in 1..(n - 1), NEW x \in Vertices, onStack[x],
                        ~OnPath(x)', Between(i, x)'
                 PROVE  low'[frames[i].uid] <= low'[x]
      BY <1>1 DEF LowHandedUp
    <2>1. /\ i \in 1..n /\ n - 1 \in 1..(n - 1)
          /\ i = n - 1 \/ (i < n - 1 /\ i + 1 \in 1..(n - 1))
          /\ frames[i].uid \in Vertices
      BY <1>1
    <2>2. disc[frames[i].uid] < disc[x]
      BY <1>1 DEF Between
    <2>3. low'[x] = low[x]
      <3>1. \A w \in Vertices : w = p => OnPath(w)'
        BY <1>1, <2>1 DEF OnPath
      <3> QED
        BY <1>2, <3>1
    <2>4. ASSUME ~OnPath(x), Between(i, x) PROVE low'[frames[i].uid] <= low'[x]
      <3>1. low[frames[i].uid] <= low[x]
        BY <2>1, <2>4 DEF TarjanInv, LowHandedUp
      <3> QED
        BY <1>2, <2>1, <2>3, <3>1
    <2>5. CASE i < n - 1 /\ i + 1 \in 1..(n - 1)
      <3>1. disc[x] < disc[frames[i + 1].uid]
        BY <1>1, <2>5 DEF Between
      <3>2. disc[frames[i + 1].uid] < disc[u] /\ frames[i + 1].uid \in Vertices
        BY <1>1, <2>5
      <3>3. x # u
        BY <1>2, <3>1, <3>2
      <3> QED
        BY <1>2, <2>2, <2>4, <3>1, <3>3 DEF Between
    <2>6. CASE i = n - 1
      <3>1. n > 1 /\ p \in Vertices
        BY <1>1, <2>1
      <3>2. low'[p] <= low[u]
        BY <1>2, <3>1
      <3>3. CASE x = u
        BY <2>3, <2>6, <3>2, <3>3
      <3>4. CASE x # u /\ disc[x] < disc[u]
        <4>1. Between(i, x)
          <5>1. i + 1 = n
            BY <1>1, <2>6
          <5> QED
            BY <1>1, <2>2, <3>4, <5>1 DEF Between
        <4> QED
          BY <1>2, <2>4, <3>4, <4>1
      <3>5. CASE x # u /\ disc[u] < disc[x]
        <4>1. Between(n, x)
          BY <1>1, <3>5 DEF Between
        <4>2. low[u] <= low[x]
          BY <1>1, <1>2, <3>5, <4>1 DEF TarjanInv, LowHandedUp
        <4> QED
          BY <1>2, <2>3, <2>6, <3>1, <3>2, <4>2
      <3>6. disc[x] = disc[u] => x = u
        BY <1>1 DEF TarjanInv, TimesDistinct, StackExact
      <3> QED
        BY <1>2, <3>3, <3>4, <3>5, <3>6
    <2> QED
      BY <2>1, <2>5, <2>6
  <1> QED
    BY <1>4, <1>5, <1>6, <1>7, <1>8, <1>9, <1>10, <1>11 DEF TarjanInv

\* The vertices on the stack that are not older than u.
Segment(u) == {v \in Vertices : onStack[v] /\ disc[u] <= disc[v]}

\* The vertices that have an id, and those that get one.
Numbered == {v \in Vertices : component[v] # N}

\* If the low-link of the exhausted top frame is its own time, then its segment of the
\* stack is a strongly connected component, and its edges stay in it or lead to vertices
\* that are numbered.
LEMMA SegmentIsComponent ==
  ASSUME TarjanInv, NEW u \in Vertices, PathShrinks(u), low[u] = disc[u]
  PROVE  /\ ClosedIn(graph, Numbered \cup Segment(u))
         /\ Segment(u) = {v \in ReachedFrom(graph, u) : u \in ReachedFrom(graph, v)}
  <1> DEFINE n == Len(frames)
             R(w) == ReachedFrom(graph, w)
             C == Segment(u)
  <1>1. /\ n \in Nat /\ n >= 1 /\ n \in 1..n
        /\ frames[n].uid = u /\ onStack[u]
        /\ frames[n].it > Len(graph[u])
        /\ \A i \in 1..n : frames[i].uid \in Vertices
        /\ \A i \in 1..(n - 1) : disc[frames[i].uid] < disc[u]
    BY DEF PathShrinks
  <1>2. /\ graph \in Adjacency
        /\ \A w \in Vertices : disc[w] \in Nat /\ low[w] \in Nat
    BY ComponentsAssumption DEF TarjanInv, SearchTypes
  <1>3. \A w \in Vertices : ReachesOnwards(Vertices, graph, w)
    BY <1>2, GraphReachability
  <1>4. ASSUME NEW x \in C PROVE x \in Vertices /\ onStack[x] /\ disc[u] <= disc[x] /\ (x = u \/ ~OnPath(x))
    <2>1. x \in Vertices /\ onStack[x] /\ disc[u] <= disc[x]
      BY DEF Segment
    <2>2. \A i \in 1..n : i = n \/ i \in 1..(n - 1)
      BY <1>1
    <2> QED
      BY <1>1, <1>2, <2>1, <2>2 DEF OnPath
  <1>5. ASSUME NEW x \in C PROVE disc[u] <= low[x]
    <2>1. CASE x = u
      BY <1>2, <2>1
    <2>2. CASE x # u
      <3>1. disc[x] # disc[u]
        BY <1>1, <1>4, <2>2 DEF TarjanInv, TimesDistinct, StackExact
      <3>2. disc[u] < disc[x]
        BY <1>2, <1>4, <3>1
      <3>3. Between(n, x)
        BY <1>1, <3>2 DEF Between
      <3>4. low[u] <= low[x]
        BY <1>1, <1>4, <2>2, <3>3 DEF TarjanInv, LowHandedUp
      <3> QED
        BY <3>4
    <2> QED
      BY <2>1, <2>2
  <1>6. ASSUME NEW x \in C, NEW j \in 1..Len(graph[x]) PROVE graph[x][j] \in Numbered \cup C
    <2>1. graph[x][j] \in Vertices /\ Len(graph[x]) \in Nat
      BY <1>2, <1>4, TypesOfLists
    <2>2. Seen(x, j)
      <3> SUFFICES ASSUME NEW i \in 1..n, frames[i].uid = x PROVE j < frames[i].it
        BY DEF Seen
      <3>1. x = u
        BY <1>4 DEF OnPath
      <3>2. i = n
        <4>1. i = n \/ i \in 1..(n - 1)
          BY <1>1
        <4> QED
          BY <1>1, <1>2, <3>1, <4>1
      <3>3. frames[n].it \in Nat
        BY <1>1, TypesOfFrames DEF TarjanInv, SearchTypes
      <3> QED
        BY <1>1, <2>1, <3>1, <3>2, <3>3
    <2>3. /\ disc[graph[x][j]] # N
          /\ onStack[graph[x][j]] => low[x] <= disc[graph[x][j]]
      BY <1>4, <2>2 DEF TarjanInv, EdgesCounted
    <2>4. CASE component[graph[x][j]] # N
      BY <2>1, <2>4 DEF Numbered
    <2>5. CASE component[graph[x][j]] = N
      <3>1. onStack[graph[x][j]]
        BY <2>1, <2>3, <2>5 DEF TarjanInv, StackExact
      <3>2. disc[u] <= disc[graph[x][j]]
        BY <1>2, <1>4, <1>5, <2>1, <2>3, <3>1
      <3> QED
        BY <2>1, <3>1, <3>2 DEF Segment
    <2> QED
      BY <2>4, <2>5
  <1>7. ClosedIn(graph, Numbered)
    BY DEF TarjanInv, NumberedClosed, Numbered
  <1>8. ClosedIn(graph, Numbered \cup C)
    <2> HIDE DEF C
    <2> QED
      BY <1>6, <1>7 DEF ClosedIn
  <1>9. ASSUME NEW x \in C PROVE x \in R(u) /\ u \in R(x)
    <2>1. x \in R(u)
      BY <1>1, <1>4 DEF TarjanInv, PathReaches
    <2>2. PICK i \in 1..n : /\ frames[i].uid \in ReachedFrom(graph, x)
                            /\ disc[frames[i].uid] <= disc[x]
      BY <1>4, StackReachesPath DEF TarjanInv
    <2>3. disc[frames[i].uid] <= disc[u]
      <3>1. i = n \/ i \in 1..(n - 1)
        BY <1>1
      <3> QED
        BY <1>1, <1>2, <3>1
    <2>4. u \in R(frames[i].uid)
      BY <1>1, <2>3 DEF TarjanInv, PathReaches
    <2> QED
      BY <1>3, <1>4, <2>1, <2>2, <2>4 DEF ReachesOnwards
  <1>10. R(u) \subseteq Vertices
    BY <1>3 DEF ReachesOnwards
  <1>11. ASSUME NEW x \in R(u), u \in R(x) PROVE x \in C
    <2>1. u \in C
      BY <1>1, <1>2 DEF Segment
    <2>2. Numbered \cup C \in SUBSET Vertices
      BY DEF Numbered, Segment
    <2>3. R(u) \subseteq Numbered \cup C
      <3> HIDE DEF C
      <3> QED
        BY <1>3, <1>8, <2>1, <2>2 DEF ReachesOnwards
    <2>4. SUFFICES ASSUME x \in Numbered PROVE FALSE
      BY <2>3
    <2>5. x \in Vertices /\ Numbered \in SUBSET Vertices
      BY <1>10 DEF Numbered
    <2>6. R(x) \subseteq Numbered
      BY <1>3, <1>7, <2>4, <2>5 DEF ReachesOnwards
    <2>7. component[u] = N
      BY <1>1 DEF TarjanInv, StackExact
    <2> QED
      BY <1>11, <2>6, <2>7 DEF Numbered
  <1>12. C = {v \in R(u) : u \in R(v)}
    BY <1>9, <1>11
  <1> QED
    BY <1>8, <1>12

\* One more vertex is numbered than before, at least.
LEMMA MoreNumbered ==
  ASSUME NEW A \in SUBSET Vertices, NEW B \in SUBSET Vertices, NEW u \in B,
         u \notin A, A \subseteq B, NEW c \in Nat, c <= Cardinality(A)
  PROVE  c + 1 <= Cardinality(B) /\ c + 1 <= N
  <1>1. /\ IsFiniteSet(A) /\ IsFiniteSet(B)
        /\ Cardinality(B) <= N
    BY VerticesFinite, FS_Subset
  <1>2. /\ Cardinality(A \cup {u}) = Cardinality(A) + 1
        /\ A \cup {u} \in SUBSET B
    BY <1>1, FS_AddElement
  <1>3. Cardinality(A \cup {u}) <= Cardinality(B)
    BY <1>1, <1>2, FS_Subset
  <1>4. Cardinality(A) \in Nat /\ Cardinality(B) \in Nat
    BY <1>1, FS_CardinalityType
  <1> QED
    BY <1>1, <1>2, <1>3, <1>4, ComponentsAssumption

\* The segment of u is taken off the stack and gets the next id.
LEMMA ComponentEnds ==
  ASSUME TarjanInv, NEW u \in Vertices, PathShrinks(u), LowPopped(u), low[u] = disc[u],
         NEW k \in 1..Len(sccStack), sccStack[k] = u,
         sccStack' = SubSeq(sccStack, 1, k - 1),
         onStack' = [v \in Vertices |-> onStack[v] /\ v \notin Segment(u)],
         component' = [v \in Vertices |-> IF v \in Segment(u) THEN cid ELSE component[v]],
         cid' = cid + 1,
         UNCHANGED <<graph, disc, timer>>
  PROVE  TarjanInv'
  <1> DEFINE n == Len(frames)
             s == Len(sccStack)
             R(w) == ReachedFrom(graph, w)
             F == frames'
             p == frames[n - 1].uid
             C == Segment(u)
  <1>1. /\ n \in Nat /\ n >= 1 /\ n \in 1..n
        /\ frames[n].uid = u /\ onStack[u]
        /\ \A i \in 1..n : frames[i].uid \in Vertices
        /\ F \in Seq(Frame)
        /\ Len(F) = n - 1
        /\ \A i \in 1..(n - 1) : i \in 1..n /\ F[i] = frames[i]
        /\ \A i \in 1..(n - 1) : frames[i].uid # u /\ disc[frames[i].uid] < disc[u]
        /\ start' \in 0..N
        /\ n > 1 => start' = start
    BY DEF PathShrinks
  <1>2. /\ low' \in [Vertices -> 0..N]
        /\ \A w \in Vertices : low[w] \in Nat /\ disc[w] \in Nat
        /\ \A w \in Vertices : \/ low'[w] = low[w]
                               \/ n - 1 \in 1..(n - 1) /\ w = p /\ low'[w] = low[u]
        /\ \A w \in Vertices : low'[w] <= low[w] /\ low'[w] \in Nat
        /\ \A v \in Vertices : OnPath(v)' <=> OnPath(v) /\ v # u
    BY PoppedIs DEF TarjanInv
  <1>3. /\ graph \in Adjacency
        /\ component \in [Vertices -> 0..N]
        /\ onStack \in [Vertices -> BOOLEAN]
        /\ cid \in Nat /\ N \in Nat
        /\ sccStack \in Seq(Vertices)
    BY ComponentsAssumption DEF TarjanInv, SearchTypes
  <1>4. \A w \in Vertices : low'[w] = low[w]
    <2> SUFFICES ASSUME NEW w \in Vertices, low'[w] # low[w] PROVE FALSE
      OBVIOUS
    <2>1. n - 1 \in 1..(n - 1) /\ w = p /\ low'[w] = low[u]
      BY <1>2
    <2>2. disc[w] < disc[u] /\ onStack[w]
      BY <1>1, <2>1 DEF TarjanInv, PathOnStack
    <2>3. low[w] <= disc[w]
      BY <2>2 DEF TarjanInv, LowIsTime
    <2> QED
      BY <1>2, <2>1, <2>2, <2>3
  <1>5. \A w \in Vertices : w \in C <=> onStack[w] /\ disc[u] <= disc[w]
    BY DEF Segment
  <1> HIDE DEF C
  <1>6. \A w \in Vertices : /\ onStack'[w] <=> onStack[w] /\ disc[w] < disc[u]
                            /\ component'[w] = IF w \in C THEN cid ELSE component[w]
    <2> SUFFICES ASSUME NEW w \in Vertices
                 PROVE  /\ onStack'[w] <=> onStack[w] /\ disc[w] < disc[u]
                        /\ component'[w] = IF w \in C THEN cid ELSE component[w]
      OBVIOUS
    <2>1. component'[w] = IF w \in C THEN cid ELSE component[w]
      BY DEF C
    <2>2. onStack'[w] <=> onStack[w] /\ w \notin C
      BY DEF C
    <2>3. disc[w] < disc[u] <=> ~(disc[u] <= disc[w])
      BY <1>2
    <2> QED
      BY <1>5, <2>1, <2>2, <2>3
  <1>7. \A v \in Vertices : onStack[v] <=> disc[v] # N /\ component[v] = N
    BY DEF TarjanInv, StackExact
  <1>8. /\ cid + 1 <= Cardinality(Numbered \cup C)
        /\ cid + 1 <= N
    <2>1. /\ Numbered \in SUBSET Vertices /\ Numbered \cup C \in SUBSET Vertices
          /\ Numbered \subseteq Numbered \cup C
      BY DEF Numbered, C, Segment
    <2>2. u \in Numbered \cup C /\ u \notin Numbered
      BY <1>1, <1>2, <1>5, <1>7 DEF Numbered
    <2>3. cid <= Cardinality(Numbered)
      BY DEF TarjanInv, IdsGiven, Numbered
    <2> QED
      BY <1>3, <2>1, <2>2, <2>3, MoreNumbered
  <1>9. {v \in Vertices : component'[v] # N} = Numbered \cup C
    <2>1. C \subseteq Vertices
      BY DEF C, Segment
    <2> QED
      BY <1>3, <1>6, <1>8, <2>1 DEF Numbered
  <1>10. /\ SubSeq(sccStack, 1, k - 1) \in Seq(Vertices)
         /\ Len(SubSeq(sccStack, 1, k - 1)) = k - 1
         /\ \A i \in 1..(k - 1) : SubSeq(sccStack, 1, k - 1)[i] = sccStack[i]
    <2>1. k - 1 \in 0..s
      BY <1>3, LenProperties
    <2> QED
      BY <1>3, <2>1, PrefixIs
  <1>11. SearchTypes'
    <2>1. component' \in [Vertices -> 0..N]
      BY <1>3, <1>8
    <2>2. onStack' \in [Vertices -> BOOLEAN]
      BY <1>3
    <2>3. cid' \in 0..N
      BY <1>3, <1>8
    <2> QED
      BY <1>1, <1>2, <1>10, <2>1, <2>2, <2>3 DEF TarjanInv, SearchTypes
  <1>12. TimesDistinct'
    BY DEF TarjanInv, TimesDistinct
  <1>13. IdsGiven'
    <2>1. \A v \in Vertices : component[v] # N => component[v] < cid /\ disc[v] # N
      BY DEF TarjanInv, IdsGiven
    <2>2. ASSUME NEW v \in Vertices, component'[v] # N
          PROVE  component'[v] < cid' /\ disc'[v] # N
      <3>1. component[v] \in Nat
        BY <1>3
      <3>2. v \in C => disc[v] # N
        BY <1>5, <1>7
      <3> QED
        BY <1>3, <1>6, <2>1, <2>2, <3>1, <3>2
    <2> QED
      BY <1>8, <1>9, <2>2 DEF IdsGiven
  <1>14. StackExact'
    <2>1. /\ \A w \in Vertices : onStack[w] <=> \E i \in 1..s : sccStack[i] = w
          /\ \A i, j \in 1..s : i < j => disc[sccStack[i]] < disc[sccStack[j]]
      BY DEF TarjanInv, StackExact
    <2>2. s \in Nat /\ \A i \in 1..s : sccStack[i] \in Vertices
      BY <1>3, LenProperties, ElementOfSeq
    <2>3. \A w \in Vertices : onStack'[w] <=> disc[w] # N /\ component'[w] = N
      BY <1>2, <1>3, <1>5, <1>6, <1>7, <1>8
    <2>4. ASSUME NEW w \in Vertices
          PROVE  onStack'[w] <=> \E i \in 1..(k - 1) : sccStack[i] = w
      <3>1. ASSUME onStack'[w] PROVE \E i \in 1..(k - 1) : sccStack[i] = w
        <4>1. PICK i \in 1..s : sccStack[i] = w
          BY <1>6, <2>1, <3>1
        <4>2. disc[w] < disc[u]
          BY <1>6, <3>1
        <4>3. i # k /\ ~(k < i)
          BY <1>2, <2>1, <4>1, <4>2
        <4> QED
          BY <2>2, <4>1, <4>3
      <3>2. ASSUME NEW i \in 1..(k - 1), sccStack[i] = w PROVE onStack'[w]
        <4>1. i \in 1..s /\ i < k
          BY <2>2
        <4> QED
          BY <1>6, <2>1, <3>2, <4>1
      <3> QED
        BY <3>1, <3>2
    <2>5. \A i \in 1..(k - 1) : i \in 1..s
      BY <2>2
    <2> QED
      BY <1>10, <2>1, <2>3, <2>4, <2>5 DEF StackExact
  <1>15. \A i \in 1..(n - 1) : onStack'[F[i].uid] /\ onStack[frames[i].uid]
    <2>1. \A i \in 1..(n - 1) : onStack[frames[i].uid]
      BY <1>1 DEF TarjanInv, PathOnStack
    <2> QED
      BY <1>1, <1>6, <2>1
  <1>16. PathOnStack'
    <2>1. F # <<>> => n > 1
      BY <1>1, <1>11, EmptySeq DEF SearchTypes
    <2>2. frames # <<>>
      BY <1>1, EmptySeq
    <2>3. start < N
      BY <2>2 DEF TarjanInv, PathOnStack
    <2>4. \A i \in 1..(n - 1) : frames[i].it \in 1..(Len(graph[frames[i].uid]) + 1)
      BY <1>1 DEF TarjanInv, PathOnStack
    <2>5. \A i, j \in 1..(n - 1) : i < j => disc[frames[i].uid] < disc[frames[j].uid]
      BY <1>1 DEF TarjanInv, PathOnStack
    <2> QED
      BY <1>1, <1>15, <2>1, <2>3, <2>4, <2>5 DEF PathOnStack
  <1>17. PathReaches'
    <2>1. \A i \in 1..(n - 1) : \A v \in Vertices :
            onStack[v] /\ disc[frames[i].uid] <= disc[v] => v \in R(frames[i].uid)
      BY <1>1 DEF TarjanInv, PathReaches
    <2> QED
      BY <1>1, <1>6, <2>1 DEF PathReaches
  <1>18. LowIsTime'
    <2> SUFFICES ASSUME NEW w \in Vertices, onStack'[w]
                 PROVE  low'[w] <= disc[w] /\ \E x \in R(w) : onStack'[x] /\ disc[x] = low'[w]
      BY DEF LowIsTime
    <2>1. low[w] <= disc[w] /\ disc[w] < disc[u]
      BY <1>6 DEF TarjanInv, LowIsTime
    <2>2. PICK x \in R(w) : onStack[x] /\ disc[x] = low[w]
      BY <1>6 DEF TarjanInv, LowIsTime
    <2>3. x \in Vertices
      BY <1>3, GraphReachability DEF ReachesOnwards
    <2>4. onStack'[x]
      BY <1>2, <1>6, <2>1, <2>2, <2>3
    <2> QED
      BY <1>4, <2>1, <2>2, <2>4
  <1>19. LeftReachesOlder'
    <2> SUFFICES ASSUME NEW v \in Vertices, onStack'[v], ~OnPath(v) \/ v = u PROVE low'[v] < disc[v]
      BY <1>2 DEF LeftReachesOlder
    <2>1. onStack[v] /\ disc[v] < disc[u]
      BY <1>6
    <2>2. ~OnPath(v)
      BY <1>2, <2>1
    <2> QED
      BY <1>4, <2>1, <2>2 DEF TarjanInv, LeftReachesOlder
  <1>20. EdgesCounted'
    <2> SUFFICES ASSUME NEW v \in Vertices, onStack'[v], NEW j \in 1..Len(graph[v]), Seen(v, j)'
                 PROVE  /\ disc[graph[v][j]] # N
                        /\ onStack'[graph[v][j]] => low'[v] <= disc[graph[v][j]]
      BY DEF EdgesCounted
    <2>1. graph[v][j] \in Vertices
      BY <1>3, TypesOfLists
    <2>2. onStack[v] /\ v # u
      BY <1>2, <1>6
    <2>3. Seen(v, j)
      <3> SUFFICES ASSUME NEW i \in 1..n, frames[i].uid = v PROVE j < frames[i].it
        BY DEF Seen
      <3>1. i \in 1..(n - 1)
        BY <1>1, <2>2
      <3> QED
        BY <1>1, <3>1 DEF Seen
    <2>4. /\ disc[graph[v][j]] # N
          /\ onStack[graph[v][j]] => low[v] <= disc[graph[v][j]]
      BY <2>2, <2>3 DEF TarjanInv, EdgesCounted
    <2> QED
      BY <1>4, <1>6, <2>1, <2>4
  <1>21. NumberedClosed'
    <2>1. ClosedIn(graph, Numbered \cup C)
      BY SegmentIsComponent DEF C
    <2> QED
      BY <1>9, <2>1 DEF NumberedClosed
  <1>22. LowHandedUp'
    <2> SUFFICES ASSUME NEW i \in 1..(n - 1), NEW x \in Vertices, onStack'[x],
                        ~OnPath(x)', Between(i, x)'
                 PROVE  low'[frames[i].uid] <= low'[x]
      BY <1>1 DEF LowHandedUp
    <2>1. onStack[x] /\ disc[x] < disc[u] /\ x # u /\ ~OnPath(x)
      BY <1>2, <1>6
    <2>2. /\ i \in 1..n
          /\ i = n - 1 \/ (i < n - 1 /\ i + 1 \in 1..(n - 1))
          /\ disc[frames[i].uid] < disc[x]
      BY <1>1 DEF Between
    <2>3. Between(i, x)
      <3>1. CASE i = n - 1
        <4>1. i + 1 = n
          BY <1>1, <3>1
        <4> QED
          BY <1>1, <2>1, <2>2, <4>1 DEF Between
      <3>2. CASE i < n - 1 /\ i + 1 \in 1..(n - 1)
        <4>1. disc[x] < disc[frames[i + 1].uid]
          BY <1>1, <3>2 DEF Between
        <4> QED
          BY <2>2, <4>1 DEF Between
      <3> QED
        BY <2>2, <3>1, <3>2
    <2>4. low[frames[i].uid] <= low[x]
      BY <2>1, <2>2, <2>3 DEF TarjanInv, LowHandedUp
    <2> QED
      BY <1>1, <1>4, <2>2, <2>4
  <1> QED
    BY <1>11, <1>12, <1>13, <1>14, <1>16, <1>17, <1>18, <1>19, <1>20, <1>21, <1>22 DEF TarjanInv

\* What Backtrack does, with the popped vertex named.
TakesComponent(u) ==
  \E k \in 1..Len(sccStack) :
    /\ sccStack[k] = u
    /\ sccStack' = SubSeq(sccStack, 1, k - 1)
    /\ onStack' = [v \in Vertices |-> onStack[v] /\ v \notin Segment(u)]
    /\ component' = [v \in Vertices |-> IF v \in Segment(u) THEN cid ELSE component[v]]
    /\ cid' = cid + 1

LEMMA BacktrackIs ==
  ASSUME TarjanInv, Tarjan!Backtrack
  PROVE  /\ UNCHANGED <<graph, disc, timer>>
         /\ \E u \in Vertices :
              /\ PathShrinks(u) /\ LowPopped(u)
              /\ \/ low[u] # disc[u] /\ UNCHANGED <<sccStack, onStack, component, cid>>
                 \/ low[u] = disc[u] /\ TakesComponent(u)
  <1>1. /\ Tarjan!AtEnd /\ Tarjan!Pop
        /\ UNCHANGED <<graph, disc, timer>>
    BY DEF Tarjan!Backtrack
  <1>2. PICK u \in Vertices : Tarjan!Top.uid = u /\ PathShrinks(u) /\ LowPopped(u)
    BY <1>1, PopIs DEF LowPopped
  <1>3. CASE low[u] # disc[u]
    <2>1. UNCHANGED Tarjan!tarjan
      BY <1>2, <1>3 DEF Tarjan!Backtrack
    <2> QED
      BY <1>1, <1>2, <1>3, <2>1 DEF Tarjan!tarjan
  <1>4. CASE low[u] = disc[u]
    <2> DEFINE scc == Tarjan!Above(u)
    <2>1. /\ sccStack' = SubSeq(sccStack, 1, Len(sccStack) - Tarjan!Cardinality(scc))
          /\ onStack' = [v \in Tarjan!Vertices |-> onStack[v] /\ v \notin scc]
          /\ component' = [v \in Tarjan!Vertices |-> IF v \in scc THEN cid ELSE component[v]]
          /\ cid' = cid + 1
      BY <1>2, <1>4 DEF Tarjan!Backtrack
    <2>2. onStack[u]
      BY <1>2 DEF PathShrinks
    <2>3. PICK k \in 1..Len(sccStack) :
           /\ sccStack[k] = u
           /\ scc = Segment(u)
           /\ Cardinality(scc) = Len(sccStack) - k + 1
      BY <2>2, AboveIs DEF Segment
    <2>4. Tarjan!Cardinality(scc) = Cardinality(scc) /\ Tarjan!Vertices = Vertices
      BY DEF Tarjan!Cardinality, Cardinality, Tarjan!Vertices, Vertices
    <2> HIDE DEF scc
    <2>5. Len(sccStack) - Tarjan!Cardinality(scc) = k - 1
      <3>1. Len(sccStack) \in Nat
        BY LenProperties DEF TarjanInv, SearchTypes
      <3> QED
        BY <2>3, <2>4, <3>1
    <2>6. TakesComponent(u)
      BY <2>1, <2>3, <2>4, <2>5 DEF TakesComponent
    <2> QED
      BY <1>1, <1>2, <1>4, <2>6
  <1> QED
    BY <1>3, <1>4

LEMMA BacktrackKeeps ==
  ASSUME TarjanInv, Tarjan!Backtrack
  PROVE  TarjanInv'
  <1>1. UNCHANGED <<graph, disc, timer>>
    BY BacktrackIs
  <1>2. PICK u \in Vertices :
          /\ PathShrinks(u) /\ LowPopped(u)
          /\ \/ low[u] # disc[u] /\ UNCHANGED <<sccStack, onStack, component, cid>>
             \/ low[u] = disc[u] /\ TakesComponent(u)
    BY BacktrackIs
  <1>3. CASE low[u] # disc[u]
    BY <1>1, <1>2, <1>3, LeavesOnStack
  <1>4. CASE low[u] = disc[u]
    <2>1. PICK k \in 1..Len(sccStack) :
            /\ sccStack[k] = u
            /\ sccStack' = SubSeq(sccStack, 1, k - 1)
            /\ onStack' = [v \in Vertices |-> onStack[v] /\ v \notin Segment(u)]
            /\ component' = [v \in Vertices |-> IF v \in Segment(u) THEN cid ELSE component[v]]
            /\ cid' = cid + 1
      BY <1>2, <1>4 DEF TakesComponent
    <2> QED
      BY <1>1, <1>2, <1>4, <2>1, ComponentEnds
  <1> QED
    BY <1>3, <1>4

LEMMA TarjanStep ==
  ASSUME TarjanInv, Tarjan!Next
  PROVE  TarjanInv'
  BY StartTreeKeeps, SkipVisitedKeeps, TreeEdgeKeeps, VisitedEdgeKeeps, BacktrackKeeps DEF Tarjan!Next

LEMMA TarjanStart ==
  ASSUME graph \in Adjacency, Tarjan!Init
  PROVE  TarjanInv
  <1>1. /\ start = 0 /\ frames = <<>>
        /\ disc = [v \in Vertices |-> N]
        /\ low = [v \in Vertices |-> N]
        /\ timer = 0
        /\ sccStack = <<>>
        /\ onStack = [v \in Vertices |-> FALSE]
        /\ component = [v \in Vertices |-> N]
        /\ cid = 0
    BY DEF Tarjan!Init, Tarjan!SearchInit, Tarjan!Vertices, Tarjan!Unvisited, Tarjan!None, Vertices
  <1>2. Len(frames) = 0 /\ Len(sccStack) = 0 /\ N \in Nat
    BY <1>1, EmptySeq, ComponentsAssumption
  <1>3. SearchTypes
    <2>1. frames \in Seq(Frame) /\ sccStack \in Seq(Vertices)
      BY <1>1, EmptySeq
    <2> QED
      BY <1>1, <1>2, <2>1 DEF SearchTypes
  <1>4. TimesDistinct /\ IdsGiven
    <2>1. {v \in Vertices : disc[v] # N} = {} /\ {v \in Vertices : component[v] # N} = {}
      BY <1>1
    <2> QED
      BY <1>1, <2>1, FS_EmptySet DEF TimesDistinct, IdsGiven
  <1>5. StackExact /\ PathOnStack /\ PathReaches /\ LowIsTime
    BY <1>1, <1>2 DEF StackExact, PathOnStack, PathReaches, LowIsTime
  <1>6. LeftReachesOlder /\ EdgesCounted /\ LowHandedUp
    BY <1>1, <1>2 DEF LeftReachesOlder, EdgesCounted, LowHandedUp
  <1>7. NumberedClosed
    BY <1>1 DEF NumberedClosed, ClosedIn
  <1> QED
    BY <1>3, <1>4, <1>5, <1>6, <1>7 DEF TarjanInv

-----------------------------------------------------------------------------
(* The ids that ComponentLabelling sees *)

Shown == [v \in DOMAIN graph |-> IF Numbering /\ component[v] < cid THEN component[v] ELSE N]
Given == IF Numbering THEN cid ELSE 0

\* A step that numbers the whole strongly connected component of u.
Completes(u, C) ==
  /\ C = {v \in ReachedFrom(graph, u) : u \in ReachedFrom(graph, v)}
  /\ \A v \in C : v \in Vertices /\ ~(component[v] < cid)
  /\ \A v \in C : \A j \in 1..Len(graph[v]) : graph[v][j] \in C \/ component[graph[v][j]] < cid
  /\ \A v \in Vertices : Shown'[v] = IF v \in C THEN cid ELSE Shown[v]
  /\ cid' = cid + 1

LEMMA CompletesLabels ==
  ASSUME Numbering, UNCHANGED <<algorithm, graph>>, graph \in Adjacency, cid \in 0..N,
         NEW u \in Vertices, NEW C, Completes(u, C)
  PROVE  Labelling!Next
  <1>1. DOMAIN graph = Vertices
    BY DEF Adjacency
  <1>2. Given' = Given + 1 /\ Given = cid
    BY DEF Given, Numbering, Completes
  <1>3. Labelling!Successors(graph) = Successors(graph)
    BY DEF Labelling!Successors, Successors
  <1> DEFINE succ == Successors(graph)
             RF(v) == ReachedFrom(graph, v)
             reach == [v \in DOMAIN succ |-> Labelling!Reached(succ, v)]
  <1>4. DOMAIN succ = Vertices
    BY <1>1 DEF Successors
  <1>5. \A v \in Vertices : succ[v] = {graph[v][i] : i \in 1..Len(graph[v])}
    <2> TAKE v \in Vertices
    <2>1. DOMAIN graph[v] = 1..Len(graph[v])
      BY TypesOfLists, LenProperties
    <2> QED
      BY <1>1, <2>1 DEF Successors
  <1>6. \A v : Labelling!Reached(succ, v) = RF(v)
    <2>1. \A S : Labelling!Cardinality(S) = Cardinality(S)
      BY DEF Labelling!Cardinality, Cardinality
    <2> HIDE DEF succ
    <2>2. \A v : Labelling!Reached(succ, v) = Reached(succ, v)
      BY <2>1 DEF Labelling!Reached, Labelling!ReachedWithin, Reached, ReachedWithin
    <2> QED
      BY <2>2 DEF ReachedFrom, succ
  <1>7. C = {v \in RF(u) : u \in RF(v)} /\ \A v \in RF(u) : v \in Vertices
    <2>1. ReachesOnwards(Vertices, graph, u)
      BY GraphReachability
    <2> QED
      BY <2>1 DEF Completes, ReachesOnwards
  <1> HIDE DEF RF
  <1>8. C \in Labelling!StrongComponents(succ)
    <2> HIDE DEF succ
    <2>1. \A v \in Vertices : reach[v] = RF(v)
      BY <1>4, <1>6
    <2>2. Labelling!StrongComponents(succ) = {{v \in reach[w] : w \in reach[v]} : w \in DOMAIN succ}
      BY DEF Labelling!StrongComponents
    <2> HIDE DEF reach
    <2>3. C = {v \in reach[u] : u \in reach[v]}
      BY <1>7, <2>1
    <2> QED
      BY <1>4, <2>2, <2>3
  <1>9. \A v \in Vertices : Shown[v] = IF component[v] < cid THEN component[v] ELSE N
    BY <1>1 DEF Shown
  <1>10. \A v \in C : Shown[v] = N
    BY <1>9 DEF Completes
  <1>11. \A v \in C : \A w \in succ[v] \ C : Shown[w] # N
    <2> SUFFICES ASSUME NEW v \in C, NEW w \in succ[v], w \notin C PROVE Shown[w] # N
      OBVIOUS
    <2>1. v \in Vertices
      BY DEF Completes
    <2>2. PICK j \in 1..Len(graph[v]) : w = graph[v][j]
      BY <1>5, <2>1
    <2>3. w \in Vertices
      BY <2>1, <2>2, TypesOfLists
    <2>4. component[w] < cid
      BY <2>2 DEF Completes
    <2> QED
      BY <1>9, <2>3, <2>4, ComponentsAssumption
  <1>12. Shown' = [v \in DOMAIN graph |-> IF v \in C THEN Given ELSE Shown[v]]
    <2>1. Shown' = [v \in Vertices |-> Shown'[v]]
      BY <1>1 DEF Shown
    <2> QED
      BY <1>1, <1>2, <2>1 DEF Completes
  <1> QED
    BY <1>2, <1>3, <1>8, <1>10, <1>11, <1>12 DEF Labelling!Next, Labelling!Label, Shown, Given

Stutters == UNCHANGED <<graph, Shown, Given>>

LEMMA SameShown ==
  ASSUME UNCHANGED <<algorithm, graph, component, cid>>
  PROVE  Stutters
  BY DEF Stutters, Shown, Given, Numbering

LEMMA TarjanLabels ==
  ASSUME TarjanInv, algorithm = "tarjan_scc", algorithm' = algorithm, Tarjan!Next
  PROVE  Labelling!Next \/ Stutters
  <1>1. graph \in Adjacency /\ cid \in 0..N
    BY DEF TarjanInv, SearchTypes
  <1>2. Numbering
    BY DEF Numbering
  <1>3. CASE Tarjan!StartTree \/ Tarjan!TreeEdge \/ Tarjan!VisitedEdge
             \/ (Tarjan!SkipVisited /\ UNCHANGED Tarjan!tarjan)
    <2>1. UNCHANGED <<algorithm, graph, component, cid>>
      BY <1>3 DEF Tarjan!StartTree, Tarjan!TreeEdge, Tarjan!VisitedEdge, Tarjan!Enter, Tarjan!SkipVisited, Tarjan!tarjan
    <2> QED
      BY <2>1, SameShown
  <1>4. CASE Tarjan!Backtrack
    <2>1. UNCHANGED <<graph, disc, timer>>
      BY <1>4, BacktrackIs
    <2>2. PICK u \in Vertices :
            /\ PathShrinks(u) /\ LowPopped(u)
            /\ \/ low[u] # disc[u] /\ UNCHANGED <<sccStack, onStack, component, cid>>
               \/ low[u] = disc[u] /\ TakesComponent(u)
      BY <1>4, BacktrackIs
    <2>3. CASE low[u] # disc[u]
      BY <2>1, <2>2, <2>3, SameShown
    <2>4. CASE low[u] = disc[u]
      <3> DEFINE C == Segment(u)
      <3>1. /\ component' = [v \in Vertices |-> IF v \in C THEN cid ELSE component[v]]
            /\ cid' = cid + 1
        BY <2>2, <2>4 DEF TakesComponent
      <3>2. /\ ClosedIn(graph, Numbered \cup C)
            /\ C = {v \in ReachedFrom(graph, u) : u \in ReachedFrom(graph, v)}
        BY <2>2, <2>4, SegmentIsComponent
      <3>3. /\ \A v \in C : v \in Vertices /\ component[v] = N
            /\ \A v \in Vertices : /\ component[v] # N <=> component[v] < cid
                                   /\ component[v] \in 0..N
            /\ cid \in Nat /\ N \in Nat
        <4>1. cid \in Nat /\ N \in Nat /\ cid <= N /\ \A v \in Vertices : component[v] \in 0..N
          BY ComponentsAssumption DEF TarjanInv, SearchTypes
        <4>2. \A v \in Vertices : component[v] # N => component[v] < cid
          BY DEF TarjanInv, IdsGiven
        <4> QED
          BY <4>1, <4>2 DEF Segment, TarjanInv, StackExact
      <3>4. \A v \in C : \A j \in 1..Len(graph[v]) : graph[v][j] \in C \/ component[graph[v][j]] < cid
        <4> SUFFICES ASSUME NEW v \in C, NEW j \in 1..Len(graph[v]), graph[v][j] \notin C
                     PROVE  component[graph[v][j]] < cid
          OBVIOUS
        <4>1. graph[v][j] \in Numbered
          BY <3>2 DEF ClosedIn
        <4> QED
          BY <3>3, <4>1 DEF Numbered
      <3>5. \A v \in Vertices : Shown'[v] = IF v \in C THEN cid ELSE Shown[v]
        <4>1. DOMAIN graph = Vertices /\ graph' = graph
          BY <1>1, <2>1 DEF Adjacency
        <4>2. Numbering'
          BY <1>2 DEF Numbering
        <4> SUFFICES ASSUME NEW v \in Vertices
                     PROVE  Shown'[v] = IF v \in C THEN cid ELSE Shown[v]
          OBVIOUS
        <4> HIDE DEF C
        <4>3. Shown'[v] = IF component'[v] < cid' THEN component'[v] ELSE N
          BY <4>1, <4>2 DEF Shown
        <4>4. Shown[v] = IF component[v] < cid THEN component[v] ELSE N
          BY <1>2, <4>1 DEF Shown
        <4>5. component'[v] = IF v \in C THEN cid ELSE component[v]
          BY <3>1
        <4>6. CASE v \in C
          BY <3>1, <3>3, <4>3, <4>5, <4>6
        <4>7. CASE v \notin C
          BY <1>1, <3>1, <3>3, <4>3, <4>4, <4>5, <4>7
        <4> QED
          BY <4>6, <4>7
      <3>6. Completes(u, C)
        <4>1. \A v \in C : v \in Vertices /\ ~(component[v] < cid)
          BY <3>3
        <4> HIDE DEF C
        <4> QED
          BY <3>1, <3>2, <3>4, <3>5, <4>1 DEF Completes
      <3> HIDE DEF C
      <3> QED
        BY <1>1, <1>2, <2>1, <3>6, CompletesLabels
    <2> QED
      BY <2>3, <2>4
  <1> QED
    BY <1>3, <1>4 DEF Tarjan!Next
-----------------------------------------------------------------------------
(* The inductive invariant of connected_components *)

\* Every edge is in the lists of both its ends.
BothWays(g) == \A u \in Vertices : \A i \in 1..Len(g[u]) :
                 \E j \in 1..Len(g[g[u][i]]) : g[g[u][i]][j] = u

LabelTypes ==
  /\ graph \in Adjacency
  /\ BothWays(graph)
  /\ start \in 0..N
  /\ component \in [Vertices -> 0..N]
  /\ cid \in 0..N
  /\ pending \in Seq(Vertices)

\* Each id below cid is that of a vertex; what they number is closed.
LabelsGiven ==
  /\ cid <= Cardinality({v \in Vertices : component[v] < cid})
  /\ \A v \in Vertices : component[v] <= cid \/ component[v] = N
  /\ ClosedIn(graph, {v \in Vertices : component[v] < cid})

\* The current search has labelled vertices that start reaches, and all those that
\* edges of the vertices no longer pending lead to.
SearchLabels ==
  IF pending = <<>>
  THEN \A v \in Vertices : component[v] < cid \/ component[v] = N
  ELSE /\ start < N /\ cid < N
       /\ component[start] = cid
       /\ \A v \in Vertices : component[v] = cid => v \in ReachedFrom(graph, start)
       /\ \A v \in Vertices : Listed(pending, v) => component[v] = cid
       /\ \A v \in Vertices : component[v] = cid /\ ~Listed(pending, v)
                              => \A j \in 1..Len(graph[v]) : component[graph[v][j]] # N

LabelInv == LabelTypes /\ LabelsGiven /\ SearchLabels

Inv == /\ algorithm = "tarjan_scc" => TarjanInv
       /\ algorithm = "connected_components" => LabelInv

\* When every edge goes both ways, what is reached leads back.
LEMMA LeadsBack ==
  ASSUME graph \in Adjacency, BothWays(graph), NEW u \in Vertices
  PROVE  \A v \in ReachedFrom(graph, u) : u \in ReachedFrom(graph, v)
  <1> DEFINE B == {v \in Vertices : u \in ReachedFrom(graph, v)}
  <1>1. \A v \in Vertices : ReachesOnwards(Vertices, graph, v)
    BY GraphReachability
  <1>2. u \in B
    BY <1>1 DEF ReachesOnwards
  <1>3. ASSUME NEW v \in B, NEW i \in 1..Len(graph[v]) PROVE graph[v][i] \in B
    <2>1. PICK w \in Vertices : w = graph[v][i]
      BY TypesOfLists
    <2>2. PICK j \in 1..Len(graph[w]) : graph[w][j] = v
      BY <2>1 DEF BothWays
    <2>3. ReachesOnwards(Vertices, graph, w) /\ v \in ReachedFrom(graph, w)
      BY <1>1, <2>2 DEF ReachesOnwards
    <2>4. u \in ReachedFrom(graph, w)
      BY <2>3 DEF ReachesOnwards
    <2> QED
      BY <2>1, <2>4
  <1>4. ClosedIn(graph, B) /\ B \in SUBSET Vertices
    BY <1>3 DEF ClosedIn
  <1> HIDE DEF B
  <1>5. ReachesOnwards(Vertices, graph, u)
    BY <1>1
  <1>6. ReachedFrom(graph, u) \subseteq B
    BY <1>2, <1>4, <1>5 DEF ReachesOnwards
  <1> QED
    BY <1>6 DEF B

\* A search that ends: C holds what it labelled, to its last vertex.
TreeEnds(C) ==
  /\ C \subseteq Vertices /\ start \in C
  /\ C \subseteq ReachedFrom(graph, start)
  /\ ClosedIn(graph, C)
  /\ \A v \in C : component[v] = cid \/ component[v] = N
  /\ \A v \in Vertices : v \notin C => component[v] < cid \/ component[v] = N
  /\ component' = [v \in Vertices |-> IF v \in C THEN cid ELSE component[v]]
  /\ cid' = cid + 1 /\ start' = start + 1 /\ pending' = <<>>
  /\ UNCHANGED <<algorithm, graph>>

LEMMA TreeEndsLabels ==
  ASSUME LabelTypes, LabelsGiven, algorithm = "connected_components", cid < N,
         NEW C, TreeEnds(C)
  PROVE  LabelInv' /\ Labelling!Next
  <1> DEFINE A == {v \in Vertices : component[v] < cid}
             B == {v \in Vertices : component'[v] < cid'}
  <1>1. /\ graph \in Adjacency /\ BothWays(graph)
        /\ cid \in Nat /\ N \in Nat /\ cid \in 0..N
        /\ start \in Vertices /\ start \in C /\ C \subseteq Vertices
        /\ \A v \in Vertices : component[v] \in 0..N
    BY ComponentsAssumption DEF LabelTypes, TreeEnds
  <1>2. /\ \A v \in Vertices : component'[v] = IF v \in C THEN cid ELSE component[v]
        /\ cid' = cid + 1 /\ UNCHANGED <<algorithm, graph>>
        /\ start' = start + 1 /\ pending' = <<>>
    BY DEF TreeEnds
  <1>3. /\ \A v \in C : component[v] = cid \/ component[v] = N
        /\ \A v \in Vertices : v \notin C => component[v] < cid \/ component[v] = N
    BY DEF TreeEnds
  <1>4. C = {v \in ReachedFrom(graph, start) : start \in ReachedFrom(graph, v)}
    <2>1. ReachesOnwards(Vertices, graph, start)
      BY <1>1, GraphReachability
    <2>2. ReachedFrom(graph, start) \subseteq C
      BY <1>1, <2>1 DEF ReachesOnwards, TreeEnds
    <2>3. \A v \in ReachedFrom(graph, start) : start \in ReachedFrom(graph, v)
      BY <1>1, LeadsBack
    <2> QED
      BY <2>2, <2>3 DEF TreeEnds
  <1>5. \A v \in C : \A j \in 1..Len(graph[v]) : graph[v][j] \in C
    BY DEF TreeEnds, ClosedIn
  <1>6. \A v \in Vertices : Shown'[v] = IF v \in C THEN cid ELSE Shown[v]
    <2>1. DOMAIN graph = Vertices /\ graph' = graph /\ Numbering /\ Numbering'
      BY <1>1, <1>2 DEF Adjacency, Numbering
    <2> SUFFICES ASSUME NEW v \in Vertices
                 PROVE  Shown'[v] = IF v \in C THEN cid ELSE Shown[v]
      OBVIOUS
    <2>2. /\ Shown'[v] = IF component'[v] < cid' THEN component'[v] ELSE N
          /\ Shown[v] = IF component[v] < cid THEN component[v] ELSE N
      BY <2>1 DEF Shown
    <2>3. CASE v \in C
      BY <1>1, <1>2, <2>2, <2>3
    <2>4. CASE v \notin C
      BY <1>1, <1>2, <1>3, <2>2, <2>4
    <2> QED
      BY <2>3, <2>4
  <1>7. Completes(start, C)
    <2>1. \A v \in C : v \in Vertices /\ ~(component[v] < cid)
      BY <1>1, <1>3
    <2> QED
      BY <1>2, <1>4, <1>5, <1>6, <2>1 DEF Completes
  <1>8. Labelling!Next
    <2>1. Numbering
      BY DEF Numbering
    <2> QED
      BY <1>1, <1>2, <1>7, <2>1, CompletesLabels
  <1>9. B = A \cup C
    <2>1. \A v \in Vertices : component'[v] < cid' <=> component[v] < cid \/ v \in C
      BY <1>1, <1>2, <1>3
    <2> QED
      BY <1>1, <2>1
  <1>10. cid + 1 <= Cardinality(B) /\ cid + 1 <= N
    <2>1. A \in SUBSET Vertices /\ B \in SUBSET Vertices /\ start \in B /\ A \subseteq B
      BY <1>1, <1>9
    <2>2. start \notin A
      BY <1>1, <1>3
    <2>3. cid <= Cardinality(A)
      BY DEF LabelsGiven
    <2> HIDE DEF A, B
    <2> QED
      BY <1>1, <2>1, <2>2, <2>3, MoreNumbered
  <1>11. ClosedIn(graph, B)
    <2>1. ClosedIn(graph, A)
      BY DEF LabelsGiven
    <2> HIDE DEF A, B
    <2> QED
      BY <1>5, <1>9, <2>1 DEF ClosedIn
  <1>12. \A v \in Vertices : component'[v] < cid' \/ component'[v] = N
    BY <1>1, <1>2, <1>3
  <1>13. LabelTypes'
    <2>1. component' \in [Vertices -> 0..N]
      BY <1>1 DEF TreeEnds
    <2>2. start' \in 0..N
      BY <1>1, <1>2, ComponentsAssumption DEF Vertices
    <2>3. pending' \in Seq(Vertices)
      BY <1>2, EmptySeq
    <2>4. cid' \in 0..N
      BY <1>1, <1>2, <1>10
    <2> QED
      BY <1>1, <1>2, <2>1, <2>2, <2>3, <2>4 DEF LabelTypes, BothWays
  <1>14. LabelsGiven'
    <2>1. cid' <= Cardinality(B)
      BY <1>2, <1>10
    <2>2. \A v \in Vertices : component'[v] <= cid' \/ component'[v] = N
      BY <1>1, <1>2, <1>12
    <2> QED
      BY <1>2, <1>11, <2>1, <2>2 DEF LabelsGiven
  <1>15. SearchLabels'
    BY <1>2, <1>12 DEF SearchLabels
  <1> QED
    BY <1>8, <1>13, <1>14, <1>15 DEF LabelInv

\* What an iteration of the search does: W are the targets of u without id.
Looks(u, W) ==
  LET n == Len(pending)
  IN  /\ n \in Nat /\ n >= 1 /\ pending[n] = u
      /\ W = {w \in Vertices : component[w] = N /\ Listed(graph[u], w)}
      /\ component' = [w \in Vertices |-> IF w \in W THEN cid ELSE component[w]]
      /\ pending' \in Seq(Vertices)
      /\ \A w : Listed(pending', w) <=> (\E i \in 1..(n - 1) : pending[i] = w) \/ w \in W

LEMMA FollowIs ==
  ASSUME LabelTypes, Connected!Follow
  PROVE  \E u \in Vertices, W \in SUBSET Vertices : Looks(u, W)
  <1> DEFINE n     == Len(pending)
             found == Connected!Unlabelled(Connected!Last(pending))
             seen  == {w \in Vertices : component[w] # N}
             front == SubSeq(pending, 1, n - 1)
  <1>1. /\ pending # <<>>
        /\ component' = [w \in Vertices |-> IF w \in Connected!ToSet(found) THEN cid ELSE component[w]]
        /\ pending' = front \o found
    BY DEF Connected!Follow, Connected!Front, Connected!Vertices, Vertices
  <1>2. pending \in Seq(Vertices) /\ graph \in Adjacency
    BY DEF LabelTypes
  <1>3. /\ n \in Nat /\ n >= 1 /\ n \in 1..n
        /\ \A i \in 1..n : pending[i] \in Vertices
    BY <1>1, <1>2, EmptySeq, LenProperties, ElementOfSeq
  <1>4. PICK u \in Vertices : u = pending[n]
    BY <1>3
  <1> DEFINE W == {w \in Vertices : component[w] = N /\ Listed(graph[u], w)}
  <1>5. found = Discoveries(graph[u], seen)
    <2>1. Connected!Last(pending) = u
      BY <1>4 DEF Connected!Last
    <2>2. {w \in Connected!Vertices : component[w] # Connected!None} = seen
      BY DEF Connected!Vertices, Vertices, Connected!None
    <2>3. \A s, t : Connected!Discoveries(s, t) = Discoveries(s, t)
      BY DEF Connected!Discoveries, Discoveries, Connected!ToSet, ToSet
    <2> HIDE DEF seen
    <2> QED
      BY <2>1, <2>2, <2>3 DEF Connected!Unlabelled
  <1>6. graph[u] \in Seq(Vertices) /\ \A w : Listed(graph[u], w) => w \in Vertices
    BY <1>2, TypesOfLists DEF Listed
  <1>7. found \in Seq(Vertices) /\ \A w : Listed(found, w) <=> w \notin seen /\ Listed(graph[u], w)
    <2> HIDE DEF found, seen
    <2> QED
      BY <1>5, <1>6, DiscoveriesIs
  <1>8. \A w : Listed(found, w) <=> w \in W
    <2> HIDE DEF found
    <2> QED
      BY <1>6, <1>7
  <1> HIDE DEF found, W
  <1>9. /\ front \in Seq(Vertices) /\ Len(front) = n - 1
        /\ \A i \in 1..(n - 1) : front[i] = pending[i]
    <2>1. n - 1 \in 0..n
      BY <1>3
    <2> QED
      BY <1>2, <2>1, PrefixIs
  <1> HIDE DEF front
  <1>10. /\ front \o found \in Seq(Vertices)
         /\ Len(front \o found) = Len(front) + Len(found)
         /\ \A i \in 1..(Len(front) + Len(found)) :
              (front \o found)[i] = IF i <= Len(front) THEN front[i] ELSE found[i - Len(front)]
    BY <1>7, <1>9, ConcatProperties
  <1>11. ASSUME NEW w
         PROVE  Listed(pending', w) <=> (\E i \in 1..(n - 1) : pending[i] = w) \/ w \in W
    <2> DEFINE m == Len(found)
               all == front \o found
    <2>1. m \in Nat /\ n - 1 \in Nat /\ Len(all) = (n - 1) + m
      BY <1>3, <1>7, <1>9, <1>10, LenProperties
    <2>2. /\ \A i \in 1..(n - 1) : all[i] = pending[i]
          /\ \A i \in 1..m : all[(n - 1) + i] = found[i]
      <3>1. ASSUME NEW i \in 1..(n - 1) PROVE all[i] = pending[i]
        <4>1. i \in 1..((n - 1) + m) /\ i <= n - 1
          BY <2>1
        <4> QED
          BY <1>9, <1>10, <4>1
      <3>2. ASSUME NEW i \in 1..m PROVE all[(n - 1) + i] = found[i]
        <4>1. (n - 1) + i \in 1..((n - 1) + m) /\ ~((n - 1) + i <= n - 1) /\ ((n - 1) + i) - (n - 1) = i
          BY <2>1
        <4> QED
          BY <1>9, <1>10, <4>1
      <3> QED
        BY <3>1, <3>2
    <2>3. ASSUME NEW i \in 1..((n - 1) + m)
          PROVE  i \in 1..(n - 1) \/ (i - (n - 1) \in 1..m /\ (n - 1) + (i - (n - 1)) = i)
      BY <2>1
    <2>4. /\ \A i \in 1..(n - 1) : i \in 1..((n - 1) + m)
          /\ \A i \in 1..m : (n - 1) + i \in 1..((n - 1) + m)
      BY <2>1
    <2>5. pending' = all
      BY <1>1
    <2> HIDE DEF all, m
    <2>6. Listed(all, w) <=> (\E i \in 1..(n - 1) : pending[i] = w) \/ (\E i \in 1..m : found[i] = w)
      <3>1. ASSUME NEW i \in 1..((n - 1) + m), all[i] = w
            PROVE  (\E j \in 1..(n - 1) : pending[j] = w) \/ (\E j \in 1..m : found[j] = w)
        <4>1. CASE i \in 1..(n - 1)
          BY <2>2, <3>1, <4>1
        <4>2. CASE i \notin 1..(n - 1)
          <5>1. PICK j \in 1..m : (n - 1) + j = i
            BY <2>3, <4>2
          <5> QED
            BY <2>2, <3>1, <5>1
        <4> QED
          BY <4>1, <4>2
      <3>2. ASSUME NEW j \in 1..(n - 1), pending[j] = w PROVE \E i \in 1..((n - 1) + m) : all[i] = w
        BY <2>2, <2>4, <3>2
      <3>3. ASSUME NEW j \in 1..m, found[j] = w PROVE \E i \in 1..((n - 1) + m) : all[i] = w
        BY <2>2, <2>4, <3>3
      <3> QED
        BY <2>1, <3>1, <3>2, <3>3 DEF Listed
    <2> QED
      BY <1>8, <2>5, <2>6 DEF m, Listed
  <1>12. component' = [w \in Vertices |-> IF w \in W THEN cid ELSE component[w]]
    <2>1. DOMAIN found = 1..Len(found)
      BY <1>7, LenProperties
    <2>2. Connected!ToSet(found) = {found[i] : i \in 1..Len(found)}
      BY <2>1 DEF Connected!ToSet
    <2>3. \A w : w \in Connected!ToSet(found) <=> w \in W
      BY <1>8, <2>2 DEF Listed
    <2> QED
      BY <1>1, <2>3
  <1>13. W \in SUBSET Vertices
    BY DEF W
  <1>14. pending' \in Seq(Vertices)
    BY <1>1, <1>10
  <1>15. Looks(u, W)
    <2>1. W = {w \in Vertices : component[w] = N /\ Listed(graph[u], w)}
      BY DEF W
    <2> QED
      BY <1>3, <1>4, <1>11, <1>12, <1>14, <2>1 DEF Looks
  <1> QED
    BY <1>13, <1>15

LEMMA FollowKeeps ==
  ASSUME LabelInv, algorithm = "connected_components", algorithm' = algorithm, Connected!Follow
  PROVE  LabelInv' /\ (Labelling!Next \/ Stutters)
  <1> DEFINE n == Len(pending)
             A == {v \in Vertices : component[v] < cid}
             R == ReachedFrom(graph, start)
  <1>1. /\ pending # <<>> /\ graph' = graph
        /\ pending' = <<>> => cid' = cid + 1 /\ start' = start + 1
        /\ pending' # <<>> => cid' = cid /\ start' = start
    BY DEF Connected!Follow
  <1>2. LabelTypes /\ LabelsGiven
    BY DEF LabelInv
  <1>3. /\ graph \in Adjacency /\ BothWays(graph)
        /\ cid \in Nat /\ N \in Nat /\ cid \in 0..N
        /\ \A v \in Vertices : component[v] \in 0..N
        /\ component \in [Vertices -> 0..N]
    BY <1>2, ComponentsAssumption DEF LabelTypes
  <1>4. /\ start < N /\ cid < N
        /\ component[start] = cid
        /\ \A v \in Vertices : component[v] = cid => v \in R
        /\ \A v \in Vertices : Listed(pending, v) => component[v] = cid
        /\ \A v \in Vertices : component[v] = cid /\ ~Listed(pending, v)
                               => \A j \in 1..Len(graph[v]) : component[graph[v][j]] # N
    BY <1>1 DEF LabelInv, SearchLabels
  <1>5. start \in Vertices
    BY <1>2, <1>4, ComponentsAssumption DEF LabelTypes, Vertices
  <1>6. PICK u \in Vertices, W \in SUBSET Vertices : Looks(u, W)
    BY <1>2, FollowIs
  <1>7. /\ n \in Nat /\ n >= 1 /\ pending[n] = u
        /\ component' = [w \in Vertices |-> IF w \in W THEN cid ELSE component[w]]
        /\ pending' \in Seq(Vertices)
        /\ \A w : Listed(pending', w) <=> (\E i \in 1..(n - 1) : pending[i] = w) \/ w \in W
    BY <1>6 DEF Looks
  <1>8. \A w \in Vertices : w \in W <=> component[w] = N /\ Listed(graph[u], w)
    BY <1>6 DEF Looks
  <1>9. \A w \in Vertices : component'[w] = IF w \in W THEN cid ELSE component[w]
    BY <1>7
  <1>10. Listed(pending, u) /\ \A w : Listed(pending, w) <=> (\E i \in 1..(n - 1) : pending[i] = w) \/ w = u
    <2>1. \A i \in 1..n : i \in 1..(n - 1) \/ i = n
      BY <1>7
    <2>2. n \in 1..n /\ \A i \in 1..(n - 1) : i \in 1..n
      BY <1>7
    <2> QED
      BY <1>7, <2>1, <2>2 DEF Listed
  <1>11. component[u] = cid /\ u \in R
    BY <1>4, <1>10
  <1>12. \A v \in Vertices : component[v] < cid <=> component'[v] < cid
    BY <1>3, <1>8, <1>9
  <1>13. \A v \in Vertices : component'[v] <= cid \/ component'[v] = N
    <2>1. \A v \in Vertices : component[v] <= cid \/ component[v] = N
      BY <1>2 DEF LabelsGiven
    <2> QED
      BY <1>3, <1>9, <2>1
  <1>14. component' \in [Vertices -> 0..N]
    BY <1>3, <1>7
  \* What is labelled is reached.
  <1>15. \A v \in Vertices : component'[v] = cid => v \in R
    <2> SUFFICES ASSUME NEW v \in Vertices, v \in W PROVE v \in R
      BY <1>4, <1>9
    <2>1. PICK j \in 1..Len(graph[u]) : graph[u][j] = v
      BY <1>8 DEF Listed
    <2>2. ReachesOnwards(Vertices, graph, start)
      BY <1>3, <1>5, GraphReachability
    <2> QED
      BY <1>11, <2>1, <2>2 DEF ReachesOnwards
  \* What is labelled and not pending has no target without a label.
  <1>16. ASSUME NEW v \in Vertices, component'[v] = cid, ~Listed(pending', v), NEW j \in 1..Len(graph[v])
         PROVE  component'[graph[v][j]] # N
    <2>1. PICK w \in Vertices : w = graph[v][j]
      BY <1>3, TypesOfLists
    <2>2. v \notin W /\ component[v] = cid /\ ~ \E i \in 1..(n - 1) : pending[i] = v
      BY <1>7, <1>9, <1>16
    <2>3. CASE v = u
      <3>1. Listed(graph[u], w)
        BY <2>1, <2>3 DEF Listed
      <3>2. component[w] = N => w \in W
        BY <1>8, <3>1
      <3> QED
        BY <1>3, <1>4, <1>9, <2>1, <3>2
    <2>4. CASE v # u
      <3>1. ~Listed(pending, v)
        BY <1>10, <2>2, <2>4
      <3>2. component[w] # N
        BY <1>4, <2>1, <2>2, <3>1
      <3> QED
        BY <1>3, <1>4, <1>9, <2>1, <3>2
    <2> QED
      BY <2>3, <2>4
  <1>17. CASE pending' # <<>>
    <2>1. cid' = cid /\ start' = start
      BY <1>1, <1>17
    <2>2. LabelTypes'
      BY <1>1, <1>2, <1>7, <1>14, <2>1 DEF LabelTypes, BothWays
    <2>3. LabelsGiven'
      <3>1. {v \in Vertices : component'[v] < cid} = {v \in Vertices : component[v] < cid}
        BY <1>12
      <3>2. /\ cid <= Cardinality({v \in Vertices : component'[v] < cid})
            /\ ClosedIn(graph, {v \in Vertices : component'[v] < cid})
        BY <1>2, <3>1 DEF LabelsGiven
      <3> QED
        BY <1>1, <1>13, <2>1, <3>2 DEF LabelsGiven
    <2>4. SearchLabels'
      <3>1. component'[start] = cid
        BY <1>4, <1>5, <1>9
      <3>2. ASSUME NEW v \in Vertices, Listed(pending', v) PROVE component'[v] = cid
        <4>1. v \in W \/ Listed(pending, v)
          BY <1>7, <1>10, <3>2
        <4> QED
          BY <1>4, <1>9, <4>1
      <3> QED
        BY <1>1, <1>4, <1>15, <1>16, <1>17, <2>1, <3>1, <3>2 DEF SearchLabels
    <2>5. Stutters
      <3>1. Shown' = Shown
        <4>1. DOMAIN graph = Vertices /\ graph' = graph /\ Numbering /\ Numbering'
          BY <1>1, <1>3 DEF Adjacency, Numbering
        <4>2. \A v \in Vertices : (IF component'[v] < cid THEN component'[v] ELSE N)
                                  = IF component[v] < cid THEN component[v] ELSE N
          BY <1>3, <1>8, <1>9, <1>12
        <4>3. /\ Shown' = [v \in Vertices |-> IF component'[v] < cid THEN component'[v] ELSE N]
              /\ Shown = [v \in Vertices |-> IF component[v] < cid THEN component[v] ELSE N]
          BY <2>1, <4>1 DEF Shown
        <4> QED
          BY <4>2, <4>3
      <3>2. Given' = Given
        BY <2>1 DEF Given, Numbering
      <3> QED
        BY <1>1, <3>1, <3>2 DEF Stutters
    <2> QED
      BY <2>2, <2>3, <2>4, <2>5 DEF LabelInv
  <1>18. CASE pending' = <<>>
    <2> DEFINE C == {v \in Vertices : component'[v] = cid}
    <2>1. \A w : ~Listed(pending', w)
      <3>1. Len(<<>>) = 0
        BY EmptySeq
      <3> QED
        BY <1>18, <3>1 DEF Listed
    <2>2. ClosedIn(graph, C)
      <3> SUFFICES ASSUME NEW v \in C, NEW j \in 1..Len(graph[v]) PROVE graph[v][j] \in C
        BY DEF ClosedIn
      <3>1. PICK w \in Vertices : w = graph[v][j]
        BY <1>3, TypesOfLists
      <3>2. component'[w] # N
        BY <1>16, <2>1, <3>1
      <3>3. component'[w] < cid => FALSE
        <4>1. SUFFICES ASSUME component'[w] < cid PROVE FALSE
          OBVIOUS
        <4>2. w \in A
          BY <1>12, <4>1
        <4>3. PICK k \in 1..Len(graph[w]) : graph[w][k] = v
          BY <1>3, <3>1 DEF BothWays
        <4>4. ClosedIn(graph, A)
          BY <1>2 DEF LabelsGiven
        <4>5. v \in A
          <5> HIDE DEF A, C
          <5> QED
            BY <4>2, <4>3, <4>4 DEF ClosedIn
        <4>6. component'[v] < cid
          BY <1>12, <4>5
        <4> QED
          BY <1>3, <4>6
      <3> QED
        BY <1>3, <1>13, <1>14, <3>1, <3>2, <3>3
    <2>3. \A v \in Vertices : v \in C <=> component[v] = cid \/ v \in W
      BY <1>9
    <2>4. C \subseteq R /\ start \in C /\ C \subseteq Vertices
      BY <1>4, <1>5, <1>15, <2>3
    <2>5. /\ \A v \in C : component[v] = cid \/ component[v] = N
          /\ \A v \in Vertices : v \notin C => component[v] < cid \/ component[v] = N
      <3>1. \A v \in Vertices : component[v] <= cid \/ component[v] = N
        BY <1>2 DEF LabelsGiven
      <3> QED
        BY <1>3, <1>8, <2>3, <3>1
    <2>6. component' = [v \in Vertices |-> IF v \in C THEN cid ELSE component[v]]
      <3>1. \A v \in Vertices : component'[v] = IF v \in C THEN cid ELSE component[v]
        BY <1>9, <2>3
      <3> HIDE DEF C
      <3> QED
        BY <1>7, <3>1
    <2> HIDE DEF C
    <2>7. TreeEnds(C)
      BY <1>1, <1>18, <2>2, <2>4, <2>5, <2>6 DEF TreeEnds
    <2> QED
      BY <1>2, <1>4, <2>7, TreeEndsLabels
  <1> QED
    BY <1>17, <1>18

\* The steps of the outer loop.
LEMMA PassLabelledKeeps ==
  ASSUME LabelInv, algorithm' = algorithm, Connected!PassLabelled
  PROVE  LabelInv' /\ Stutters
  <1>1. /\ UNCHANGED <<algorithm, graph, component, cid, pending>>
        /\ pending = <<>> /\ start < N /\ start' = start + 1
    BY DEF Connected!PassLabelled, Connected!AtVertex
  <1>2. start' \in 0..N
    BY <1>1, ComponentsAssumption DEF LabelInv, LabelTypes
  <1>3. LabelTypes' /\ LabelsGiven'
    BY <1>1, <1>2 DEF LabelInv, LabelTypes, LabelsGiven, BothWays
  <1>4. SearchLabels'
    BY <1>1 DEF LabelInv, SearchLabels
  <1> QED
    BY <1>1, <1>3, <1>4, SameShown DEF LabelInv

LEMMA LabelIsolatedKeeps ==
  ASSUME LabelInv, algorithm = "connected_components", algorithm' = algorithm, Connected!LabelIsolated
  PROVE  LabelInv' /\ Labelling!Next
  <1> DEFINE C == {start}
             A == {v \in Vertices : component[v] < cid}
  <1>1. /\ pending = <<>> /\ start < N /\ component[start] = N
        /\ graph[start] = <<>>
        /\ component' = [component EXCEPT ![start] = cid]
        /\ cid' = cid + 1 /\ start' = start + 1
        /\ UNCHANGED <<algorithm, graph, pending>>
    BY DEF Connected!LabelIsolated, Connected!AtVertex, Connected!None
  <1>2. /\ LabelTypes /\ LabelsGiven
        /\ \A v \in Vertices : component[v] < cid \/ component[v] = N
    BY <1>1 DEF LabelInv, SearchLabels
  <1>3. /\ graph \in Adjacency /\ start \in Vertices
        /\ cid \in Nat /\ cid <= N /\ component \in [Vertices -> 0..N] /\ N \in Nat
    BY <1>1, <1>2, ComponentsAssumption DEF LabelTypes, Vertices
  <1>4. cid < N
    <2>1. A \in SUBSET Vertices /\ start \notin A
      BY <1>1, <1>3
    <2>2. cid <= Cardinality(A)
      BY <1>2 DEF LabelsGiven
    <2> HIDE DEF A
    <2>3. cid + 1 <= N
      BY <1>3, <2>1, <2>2, MoreNumbered
    <2> QED
      BY <1>3, <2>3
  <1>5. ClosedIn(graph, C)
    <2>1. Len(graph[start]) = 0
      BY <1>1, EmptySeq
    <2> QED
      BY <2>1 DEF ClosedIn
  <1>6. C \subseteq ReachedFrom(graph, start)
    <2>1. ReachesOnwards(Vertices, graph, start)
      BY <1>3, GraphReachability
    <2> QED
      BY <2>1 DEF ReachesOnwards
  <1>7. /\ \A v \in C : component[v] = cid \/ component[v] = N
        /\ C \subseteq Vertices /\ start \in C
    BY <1>1, <1>3
  <1>8. component' = [v \in Vertices |-> IF v \in C THEN cid ELSE component[v]]
    BY <1>1, <1>3
  <1> HIDE DEF C
  <1>9. TreeEnds(C)
    BY <1>1, <1>2, <1>5, <1>6, <1>7, <1>8 DEF TreeEnds
  <1> QED
    BY <1>2, <1>4, <1>9, TreeEndsLabels

LEMMA StartSearchKeeps ==
  ASSUME LabelInv, algorithm = "connected_components", algorithm' = algorithm, Connected!StartSearch
  PROVE  LabelInv' /\ Stutters
  <1> DEFINE A == {v \in Vertices : component[v] < cid}
  <1>1. /\ pending = <<>> /\ start < N /\ component[start] = N
        /\ component' = [component EXCEPT ![start] = cid]
        /\ pending' = <<start>>
        /\ UNCHANGED <<algorithm, graph, start, cid>>
    BY DEF Connected!StartSearch, Connected!AtVertex, Connected!None
  <1>2. /\ LabelTypes /\ LabelsGiven
        /\ \A v \in Vertices : component[v] < cid \/ component[v] = N
    BY <1>1 DEF LabelInv, SearchLabels
  <1>3. /\ graph \in Adjacency /\ start \in Vertices
        /\ cid \in Nat /\ cid <= N /\ component \in [Vertices -> 0..N] /\ N \in Nat
        /\ \A v \in Vertices : component[v] \in 0..N
    BY <1>1, <1>2, ComponentsAssumption DEF LabelTypes, Vertices
  <1>4. cid < N
    <2>1. A \in SUBSET Vertices /\ start \notin A
      BY <1>1, <1>3
    <2>2. cid <= Cardinality(A)
      BY <1>2 DEF LabelsGiven
    <2> HIDE DEF A
    <2>3. cid + 1 <= N
      BY <1>3, <2>1, <2>2, MoreNumbered
    <2> QED
      BY <1>3, <2>3
  <1>5. \A v \in Vertices : component'[v] = IF v = start THEN cid ELSE component[v]
    BY <1>1, <1>3
  <1>6. LabelTypes'
    <2>1. component' \in [Vertices -> 0..N]
      BY <1>1, <1>3
    <2>2. pending' \in Seq(Vertices)
      BY <1>1, <1>3
    <2> QED
      BY <1>1, <1>2, <2>1, <2>2 DEF LabelTypes, BothWays
  <1>7. \A v \in Vertices : component'[v] < cid <=> component[v] < cid
    BY <1>1, <1>3, <1>4, <1>5
  <1>8. LabelsGiven'
    <2>1. {v \in Vertices : component'[v] < cid} = A
      BY <1>7
    <2>2. /\ cid <= Cardinality({v \in Vertices : component'[v] < cid})
          /\ ClosedIn(graph, {v \in Vertices : component'[v] < cid})
      BY <1>2, <2>1 DEF LabelsGiven
    <2>3. \A v \in Vertices : component'[v] <= cid \/ component'[v] = N
      BY <1>2, <1>3, <1>5
    <2> QED
      BY <1>1, <2>2, <2>3 DEF LabelsGiven
  <1>9. \A w : Listed(pending', w) <=> w = start
    <2>1. /\ Len(<<start>>) = 1 /\ <<start>>[1] = start
      OBVIOUS
    <2> QED
      BY <1>1, <2>1 DEF Listed
  <1>10. SearchLabels'
    <2>1. pending' # <<>>
      BY <1>1
    <2>2. \A v \in Vertices : component'[v] = cid <=> v = start
      BY <1>2, <1>3, <1>4, <1>5
    <2>3. start \in ReachedFrom(graph, start)
      BY <1>3, GraphReachability DEF ReachesOnwards
    <2> QED
      BY <1>1, <1>3, <1>4, <1>9, <2>1, <2>2, <2>3 DEF SearchLabels
  <1>11. Stutters
    <2>1. DOMAIN graph = Vertices /\ graph' = graph /\ Numbering /\ Numbering'
      BY <1>1, <1>3 DEF Adjacency, Numbering
    <2>2. \A v \in Vertices : (IF component'[v] < cid THEN component'[v] ELSE N)
                              = IF component[v] < cid THEN component[v] ELSE N
      BY <1>1, <1>3, <1>5, <1>7
    <2>3. /\ Shown' = [v \in Vertices |-> IF component'[v] < cid THEN component'[v] ELSE N]
          /\ Shown = [v \in Vertices |-> IF component[v] < cid THEN component[v] ELSE N]
      BY <1>1, <2>1 DEF Shown
    <2>4. Shown' = Shown
      BY <2>2, <2>3
    <2>5. Given' = Given
      BY <1>1 DEF Given, Numbering
    <2> QED
      BY <1>1, <2>4, <2>5 DEF Stutters
  <1> QED
    BY <1>6, <1>8, <1>10, <1>11 DEF LabelInv

LEMMA LabelStep ==
  ASSUME LabelInv, algorithm = "connected_components", algorithm' = algorithm, Connected!ComponentsNext
  PROVE  LabelInv' /\ (Labelling!Next \/ Stutters)
  BY FollowKeeps, PassLabelledKeeps, LabelIsolatedKeeps, StartSearchKeeps DEF Connected!ComponentsNext

LEMMA LabelStart ==
  ASSUME graph \in Adjacency, BothWays(graph), Connected!Init
  PROVE  LabelInv
  <1>1. /\ start = 0 /\ component = [v \in Vertices |-> N] /\ cid = 0 /\ pending = <<>>
    BY DEF Connected!Init, Connected!Vertices, Vertices, Connected!None
  <1>2. LabelTypes
    BY <1>1, ComponentsAssumption, EmptySeq DEF LabelTypes
  <1>3. {v \in Vertices : component[v] < cid} = {}
    BY <1>1, ComponentsAssumption
  <1>4. LabelsGiven
    <2>1. Cardinality({}) = 0
      BY FS_EmptySet
    <2>2. ClosedIn(graph, {})
      BY DEF ClosedIn
    <2>3. cid <= Cardinality({v \in Vertices : component[v] < cid})
      <3>1. Cardinality({v \in Vertices : component[v] < cid}) = 0
        BY <1>3, <2>1
      <3> QED
        BY <1>1, <3>1
    <2>4. ClosedIn(graph, {v \in Vertices : component[v] < cid})
      BY <1>3, <2>2
    <2> QED
      BY <1>1, <2>3, <2>4 DEF LabelsGiven
  <1>5. SearchLabels
    BY <1>1 DEF SearchLabels
  <1> QED
    BY <1>2, <1>4, <1>5 DEF LabelInv

-----------------------------------------------------------------------------
(* The graphs of the initial states *)

LEMMA EdgeBothWays ==
  ASSUME NEW a \in Adjacency, BothWays(a), NEW u \in Vertices, NEW v \in Vertices
  PROVE  LET b == [a EXCEPT ![u] = Append(@, v)]
             c == [b EXCEPT ![v] = Append(@, u)]
         IN  c \in Adjacency /\ BothWays(c)
  <1> DEFINE b == [a EXCEPT ![u] = Append(@, v)]
             c == [b EXCEPT ![v] = Append(@, u)]
  <1>0. Adjacency = Adjacencies(Vertices)
    BY DEF Adjacency, Adjacencies
  <1>1. /\ b \in Adjacency
        /\ \A x \in Vertices : \A y : Listed(b[x], y) <=> Listed(a[x], y) \/ (x = u /\ y = v)
    BY <1>0, AppendEdge
  <1> HIDE DEF b
  <1>2. /\ c \in Adjacency
        /\ \A x \in Vertices : \A y : Listed(c[x], y) <=> Listed(b[x], y) \/ (x = v /\ y = u)
    BY <1>0, <1>1, AppendEdge
  <1> HIDE DEF c
  <1>3. \A x, y \in Vertices : Listed(a[x], y) => Listed(a[y], x)
    BY DEF BothWays, Listed
  <1>4. \A x, y \in Vertices : Listed(c[x], y) => Listed(c[y], x)
    BY <1>1, <1>2, <1>3
  <1>5. \A x \in Vertices : \A i \in 1..Len(c[x]) : c[x][i] \in Vertices
    <2> TAKE x \in Vertices
    <2>1. c[x] \in Seq(Vertices)
      BY <1>2 DEF Adjacency
    <2> QED
      BY <2>1, ElementOfSeq
  <1>6. BothWays(c)
    <2> SUFFICES ASSUME NEW x \in Vertices, NEW i \in 1..Len(c[x]) PROVE Listed(c[c[x][i]], x)
      BY DEF BothWays, Listed
    <2>1. Listed(c[x], c[x][i])
      BY DEF Listed
    <2> QED
      BY <1>4, <1>5, <2>1
  <1> QED
    BY <1>2, <1>6 DEF c, b

LEMMA UndirectedGraphs ==
  ASSUME NEW k \in Nat
  PROVE  \A g \in UndirectedLists(k) : g \in Adjacency /\ BothWays(g)
  <1> DEFINE S == {g \in Adjacency : BothWays(g)}
             T == SUBSET S
             b == {NoEdges(Vertices)}
             Grow(L) == L \cup {[[g[1] EXCEPT ![g[2]] = Append(@, g[3])] EXCEPT ![g[3]] = Append(@, g[2])] :
                                  g \in L \X Vertices \X Vertices}
             F == [L \in T |-> Grow(L)]
             Eq(f) == f = [i \in 0..k |-> IF i = 0 THEN b ELSE Grow(f[i - 1])]
             D == CHOOSE f : Eq(f)
  <1>1. ASSUME NEW L \in T PROVE Grow(L) \in T
    <2> SUFFICES ASSUME NEW g \in L \X Vertices \X Vertices
                 PROVE  [[g[1] EXCEPT ![g[2]] = Append(@, g[3])] EXCEPT ![g[3]] = Append(@, g[2])] \in S
      OBVIOUS
    <2>1. g[1] \in Adjacency /\ BothWays(g[1]) /\ g[2] \in Vertices /\ g[3] \in Vertices
      OBVIOUS
    <2> QED
      BY <2>1, EdgeBothWays
  <1>0. NoEdges(Vertices) \in S
    BY NoEdgesAre DEF Adjacency, Adjacencies, BothWays
  <1>2. b \in T /\ F \in [T -> T]
    BY <1>0, <1>1
  <1> HIDE DEF Grow
  <1>3. PICK f : f \in [0..k -> T] /\ f[0] = b /\ \A i \in 1..k : f[i] = F[f[i - 1]]
    <2> HIDE DEF T, b, F
    <2>1. \E f \in [0..k -> T] : IteratesTo(f, b, F, k)
      BY <1>2, BoundedIteration
    <2> QED
      BY <2>1 DEF IteratesTo
  <1>4. Eq(f)
    <2>1. ASSUME NEW i \in 0..k, i # 0 PROVE f[i] = Grow(f[i - 1])
      <3>1. i \in 1..k /\ i - 1 \in 0..k
        BY <2>1
      <3>2. f[i - 1] \in T
        BY <1>3, <3>1
      <3>3. f[i] = F[f[i - 1]]
        BY <1>3, <3>1
      <3> QED
        BY <3>2, <3>3
    <2> HIDE DEF T, b
    <2>2. \A i \in 0..k : f[i] = IF i = 0 THEN b ELSE Grow(f[i - 1])
      BY <1>3, <2>1
    <2> QED
      BY <1>3, <2>2
  <1>5. Eq(D)
    <2> HIDE DEF Eq
    <2> QED
      BY <1>4
  <1> HIDE DEF D
  <1>6. \A i \in 0..k : D[i] = IF i = 0 THEN b ELSE Grow(D[i - 1])
    BY <1>5
  <1> DEFINE Good == {i \in Nat : i <= k => D[i] \in T}
  <1>7. 0 \in Good
    BY <1>2, <1>6
  <1>8. ASSUME NEW i \in Nat, i \in Good PROVE i + 1 \in Good
    <2> HIDE DEF T
    <2> SUFFICES ASSUME i + 1 <= k PROVE D[i + 1] \in T
      OBVIOUS
    <2>1. i + 1 \in 0..k /\ i + 1 # 0 /\ (i + 1) - 1 = i /\ i <= k
      OBVIOUS
    <2>2. D[i] \in T
      BY <1>8, <2>1
    <2>3. D[i + 1] = Grow(D[i])
      BY <1>6, <2>1
    <2> QED
      BY <1>1, <2>2, <2>3
  <1>9. Nat \subseteq Good
    <2> HIDE DEF Good
    <2> QED
      BY <1>7, <1>8, InductiveSet
  <1>10. D[k] \in T
    BY <1>9
  <1>11. UndirectedLists(k) = D[k]
    BY DEF UndirectedLists, D, Grow, NoEdges
  <1> QED
    BY <1>10, <1>11

-----------------------------------------------------------------------------
(* The theorems *)

LEMMA AtStart ==
  ASSUME Init
  PROVE  Inv
  <1>1. CASE algorithm = "tarjan_scc"
    <2>1. graph \in AdjacencyLists(Vertices, MaxEdges) /\ Tarjan!Init
      BY <1>1 DEF Init
    <2>2. graph \in Adjacency
      BY <2>1, ListsAreAdjacencies, ComponentsAssumption DEF Adjacency, Adjacencies
    <2> QED
      BY <1>1, <2>1, <2>2, TarjanStart DEF Inv
  <1>2. CASE algorithm = "connected_components"
    <2>1. graph \in UndirectedLists(MaxEdges) /\ Connected!Init
      BY <1>2 DEF Init
    <2>2. graph \in Adjacency /\ BothWays(graph)
      BY <2>1, UndirectedGraphs, ComponentsAssumption
    <2> QED
      BY <1>2, <2>1, <2>2, LabelStart DEF Inv
  <1> QED
    BY <1>1, <1>2 DEF Inv

\* Nothing happens to the variables of the two searches.
LEMMA NothingHappens ==
  ASSUME Inv, UNCHANGED vars
  PROVE  Inv'
  <1>1. UNCHANGED <<algorithm, graph, start, frames, disc, low, timer, sccStack, onStack, component, cid, pending>>
    BY DEF vars, global, lowpoint, labels
  <1>2. CASE algorithm = "tarjan_scc"
    <2>1. TarjanInv
      BY <1>2 DEF Inv
    <2>2. SearchTypes' /\ TimesDistinct' /\ IdsGiven'
      BY <1>1, <2>1 DEF TarjanInv, SearchTypes, TimesDistinct, IdsGiven
    <2>3. StackExact' /\ PathOnStack' /\ PathReaches'
      BY <1>1, <2>1 DEF TarjanInv, StackExact, PathOnStack, PathReaches
    <2>4. LowIsTime' /\ LeftReachesOlder' /\ EdgesCounted'
      BY <1>1, <2>1 DEF TarjanInv, LowIsTime, LeftReachesOlder, EdgesCounted, OnPath, Seen
    <2>5. NumberedClosed' /\ LowHandedUp'
      BY <1>1, <2>1 DEF TarjanInv, NumberedClosed, LowHandedUp, Between, ClosedIn, OnPath
    <2>6. TarjanInv'
      BY <2>2, <2>3, <2>4, <2>5 DEF TarjanInv
    <2> QED
      BY <1>1, <1>2, <2>6 DEF Inv
  <1>3. CASE algorithm = "connected_components"
    <2>1. LabelInv
      BY <1>3 DEF Inv
    <2>2. LabelInv'
      BY <1>1, <2>1 DEF LabelInv, LabelTypes, LabelsGiven, SearchLabels, BothWays
    <2> QED
      BY <1>1, <1>3, <2>2 DEF Inv
  <1> QED
    BY <1>1, <1>2, <1>3 DEF Inv

LEMMA StepKeeps ==
  ASSUME Inv, [Next]_vars
  PROVE  Inv'
  <1>1. CASE UNCHANGED vars
    BY <1>1, NothingHappens
  <1>2. CASE Next
    <2>1. algorithm' = algorithm
      BY <1>2 DEF Next
    <2>2. CASE algorithm = "tarjan_scc"
      <3>1. Tarjan!Next
        BY <1>2, <2>2 DEF Next, Counting
      <3>2. TarjanInv'
        BY <2>2, <3>1, TarjanStep DEF Inv
      <3> QED
        BY <2>1, <2>2, <3>2 DEF Inv
    <2>3. CASE algorithm = "connected_components"
      <3>1. Connected!ComponentsNext
        BY <1>2, <2>3 DEF Next, Counting
      <3>2. LabelInv'
        BY <2>1, <2>3, <3>1, LabelStep DEF Inv
      <3> QED
        BY <2>1, <2>3, <3>2 DEF Inv
    <2> QED
      BY <2>1, <2>2, <2>3 DEF Inv
  <1> QED
    BY <1>1, <1>2

\* Every reachable state of tarjan_scc and connected_components satisfies the inductive
\* invariant of its search.
THEOREM InductiveInvariant == Spec => []Inv
  <1> QED
    BY AtStart, StepKeeps, PTL DEF Spec

\* After every iteration of tarjan_scc the stack holds the vertices discovered and not
\* numbered, in order of discovery; each low-link is the time of a vertex on it that is
\* reached; each vertex on it reaches one in progress that is not younger; and no edge
\* leads from a component that is complete to a vertex without one.
THEOREM LowLinks == Spec => []LowLinksOnStack
  <1>1. Inv => LowLinksOnStack
    BY LowLinksFollow DEF Inv, LowLinksOnStack
  <1> QED
    BY <1>1, InductiveInvariant, PTL

\* The other algorithms number nothing that ComponentLabelling sees.
LEMMA OthersStutter ==
  ASSUME ~Numbering, algorithm' = algorithm, graph' = graph
  PROVE  Stutters
  BY DEF Stutters, Shown, Given, Numbering

LEMMA GraphIsGiven ==
  ASSUME Next
  PROVE  algorithm' = algorithm /\ (~Numbering => graph' = graph)
  <1> SUFFICES graph' = graph \/ Numbering
    BY DEF Next
  <1>1. CASE Connected!KosarajuNext
    BY <1>1 DEF Connected!KosarajuNext, Connected!SkipVisited, Connected!StartFinishOrder,
                Connected!PushChildren, Connected!RecordFinish, Connected!SkipLabelled,
                Connected!StartTree, Connected!FollowBack, Connected!firstPass
  <1>2. CASE Biconnected!CutNext
    BY <1>2 DEF Biconnected!CutNext, Biconnected!StartTree, Biconnected!SkipVisited, Biconnected!SelfLoop,
                Biconnected!CountChild, Biconnected!TreeEdge, Biconnected!SkipReverse, Biconnected!BackEdge,
                Biconnected!FindCut, Biconnected!Backtrack
  <1>3. CASE Biconnected!BlockNext
    BY <1>3 DEF Biconnected!BlockNext, Biconnected!LabelIsolated, Biconnected!StartBlocks, Biconnected!StartTree,
                Biconnected!SkipVisited, Biconnected!SelfLoop, Biconnected!SkipReverse, Biconnected!PushTreeEdge,
                Biconnected!TreeEdge, Biconnected!PushBackEdge, Biconnected!BackEdge, Biconnected!FindBlock,
                Biconnected!Backtrack
  <1>4. CASE Forest!Next
    BY <1>4 DEF Forest!Next, Forest!BeginLink, Forest!LinkStep, Forest!CompressStep, Forest!SampleNeighbor,
                Forest!EndRound, Forest!ChooseSkipped, Forest!LinkRest, Forest!CompressAtEnd, Forest!input
  <1>5. CASE Independent!Next
    BY <1>5 DEF Independent!Next, Independent!ChooseSeed, Independent!Visit, Independent!Return
  <1>6. CASE Propagation!Next
    BY <1>6 DEF Propagation!Next, Propagation!StartRound, Propagation!KeepLabel, Propagation!TakeLabel,
                Propagation!Return
  <1>7. CASE Triangles!Next
    BY <1>7 DEF Triangles!Next, Triangles!CountTriangles, Triangles!CountDirected, Triangles!Report,
                Triangles!NextVertex
  <1> QED
    BY <1>1, <1>2, <1>3, <1>4, <1>5, <1>6, <1>7 DEF Next, Numbering

LEMMA StepLabels ==
  ASSUME Inv, [Next]_vars
  PROVE  Labelling!Next \/ Stutters
  <1>1. CASE UNCHANGED vars
    <2>1. UNCHANGED <<algorithm, graph, component, cid>>
      BY <1>1 DEF vars, global, labels
    <2> QED
      BY <2>1, SameShown
  <1>2. CASE Next
    <2>1. algorithm' = algorithm
      BY <1>2, GraphIsGiven
    <2>2. CASE algorithm = "tarjan_scc"
      <3>1. Tarjan!Next
        BY <1>2, <2>2 DEF Next, Counting
      <3> QED
        BY <2>1, <2>2, <3>1, TarjanLabels DEF Inv
    <2>3. CASE algorithm = "connected_components"
      <3>1. Connected!ComponentsNext
        BY <1>2, <2>3 DEF Next, Counting
      <3> QED
        BY <2>1, <2>3, <3>1, LabelStep DEF Inv
    <2>4. CASE ~Numbering
      BY <1>2, <2>4, GraphIsGiven, OthersStutter
    <2> QED
      BY <2>2, <2>3, <2>4 DEF Numbering
  <1> QED
    BY <1>1, <1>2

LEMMA StartLabels ==
  ASSUME Init
  PROVE  Labelling!Init
  <1>1. CASE ~Numbering
    BY <1>1 DEF Labelling!Init
  <1>2. CASE Numbering
    <2>1. cid = 0
      BY <1>2 DEF Init, Numbering, Tarjan!Init, Connected!Init
    <2>2. graph \in Adjacency /\ component \in [Vertices -> 0..N]
      BY <1>2, AtStart DEF Inv, TarjanInv, SearchTypes, LabelInv, LabelTypes, Numbering
    <2>3. \A v \in DOMAIN graph : ~(component[v] < cid)
      BY <2>1, <2>2, ComponentsAssumption DEF Adjacency
    <2> QED
      BY <1>2, <2>1, <2>3 DEF Labelling!Init
  <1> QED
    BY <1>1, <1>2

\* tarjan_scc and connected_components implement ComponentLabelling: each search that ends
\* numbers one whole component, which had no ids, and all the components its edges lead to
\* have theirs; no id ever changes.
THEOREM NumbersComponents == Spec => ImplementsComponentLabelling
  <1>1. Init => Labelling!Init
    BY StartLabels
  <1>2. Inv /\ [Next]_vars => [Labelling!Next]_<<graph, Shown, Given>>
    BY StepLabels DEF Stutters
  <1> QED
    BY <1>1, <1>2, InductiveInvariant, PTL DEF Spec, ImplementsComponentLabelling, Labelling!Spec, Shown, Given

-----------------------------------------------------------------------------
(* maximal_independent_set *)

\* b pairs the elements of S and T.
LEMMA SameSize ==
  ASSUME NEW S, IsFiniteSet(S), NEW T, NEW b \in [S -> T],
         \A x, y \in S : b[x] = b[y] => x = y, \A z \in T : \E x \in S : b[x] = z
  PROVE  IsFiniteSet(T) /\ Cardinality(T) = Cardinality(S)
  <1>1. b \in Bijection(S, T)
    BY DEF Bijection, Surjection, Injection, IsInjective
  <1> QED
    BY <1>1, FS_Bijection DEF ExistsBijection

\* The chosen vertices c are different, not adjacent and, as their targets, in r; and what is in
\* r is one of those or the vertex s with a self-loop.
IndependentSoFar(g, s, c, r) ==
  /\ c \in Seq(Vertices) /\ Distinct(c)
  /\ \A u \in Vertices : Listed(c, u) =>
       u \in r /\ ~Listed(g[u], u) /\ \A v \in Vertices : Listed(g[u], v) => v \in r /\ ~Listed(c, v)
  /\ \A v \in r : \/ Listed(c, v)
                  \/ v = s /\ Listed(g[v], v)
                  \/ \E u \in Vertices : Listed(c, u) /\ Listed(g[u], v)

\* Edges go both ways, and there is no self-loop but at s.
LoopFree(g, s) ==
  /\ \A u, v \in Vertices : Listed(g[u], v) => Listed(g[v], u)
  /\ \A v \in Vertices : Listed(g[v], v) => v = s

IndependentInv ==
  /\ graph \in Adjacency /\ LoopFree(graph, seed) /\ seed \in Vertices
  /\ start \in 0..N
  /\ IndependentSoFar(graph, seed, chosen, removed)
  /\ stage = "seed" => chosen = <<>> /\ removed = {} /\ start = 0
  /\ stage # "seed" => seed \in removed /\ \A v \in Vertices : v < start => v \in removed
  /\ stage = "returned" => start = N

LEMMA TargetsAre ==
  ASSUME graph \in Adjacency
  PROVE  \A u \in Vertices : \A v : v \in Independent!Targets(u) <=> v \in Vertices /\ Listed(graph[u], v)
  <1> SUFFICES ASSUME NEW u \in Vertices
               PROVE  \A v : v \in Independent!Targets(u) <=> v \in Vertices /\ Listed(graph[u], v)
    OBVIOUS
  <1>1. graph[u] \in Seq(Vertices)
    BY DEF Adjacency
  <1>2. DOMAIN graph[u] = 1..Len(graph[u]) /\ \A i \in 1..Len(graph[u]) : graph[u][i] \in Vertices
    BY <1>1, LenProperties, ElementOfSeq
  <1> QED
    BY <1>2 DEF Independent!Targets, Listed

\* s and v after it.
LEMMA ListedAfter ==
  ASSUME NEW s \in Seq(Vertices), NEW v \in Vertices
  PROVE  /\ Append(s, v) \in Seq(Vertices)
         /\ \A u : Listed(Append(s, v), u) <=> Listed(s, u) \/ u = v
         /\ Distinct(s) /\ ~Listed(s, v) => Distinct(Append(s, v))
  <1>1. PICK n \in Nat : n = Len(s)
    BY LenProperties
  <1>2. PICK r \in Seq(Vertices) : /\ r = Append(s, v) /\ Len(r) = n + 1 /\ r[n + 1] = v
                                   /\ \A i \in 1..n : r[i] = s[i]
    <2>1. Append(s, v) \in Seq(Vertices) /\ Len(Append(s, v)) = Len(s) + 1 /\ Append(s, v)[Len(s) + 1] = v
          /\ \A i \in 1..Len(s) : Append(s, v)[i] = s[i]
      BY AppendProperties
    <2> QED
      BY <1>1, <2>1
  <1>3. \A i \in 1..(n + 1) : i \in 1..n \/ i = n + 1
    BY <1>1
  <1>4. n + 1 \in 1..(n + 1) /\ \A i \in 1..n : i \in 1..(n + 1)
    BY <1>1
  <1>5. \A u : Listed(r, u) <=> Listed(s, u) \/ u = v
    BY <1>1, <1>2, <1>3, <1>4 DEF Listed
  <1>6. ASSUME Distinct(s), ~Listed(s, v) PROVE Distinct(r)
    <2> SUFFICES ASSUME NEW i \in 1..(n + 1), NEW j \in 1..(n + 1), r[i] = r[j] PROVE i = j
      BY <1>2 DEF Distinct
    <2>1. \A k \in 1..n : s[k] # v
      BY <1>1, <1>6 DEF Listed
    <2>2. \A k, l \in 1..n : s[k] = s[l] => k = l
      BY <1>1, <1>6 DEF Distinct
    <2> QED
      BY <1>2, <1>3, <2>1, <2>2
  <1> QED
    BY <1>2, <1>5, <1>6

\* A vertex is chosen that no chosen one has removed.
LEMMA IndependentGrows ==
  ASSUME NEW g, NEW s, NEW c, NEW r, IndependentSoFar(g, s, c, r), LoopFree(g, s),
         NEW u \in Vertices, u \notin r, ~Listed(g[u], u),
         NEW R, \A v : v \in R <=> v \in r \/ v = u \/ (v \in Vertices /\ Listed(g[u], v))
  PROVE  IndependentSoFar(g, s, Append(c, u), R)
  <1>1. c \in Seq(Vertices) /\ Distinct(c)
    BY DEF IndependentSoFar
  <1>2. ~Listed(c, u)
    BY DEF IndependentSoFar
  <1>3. PICK d \in Seq(Vertices) : d = Append(c, u) /\ Distinct(d) /\ \A v : Listed(d, v) <=> Listed(c, v) \/ v = u
    BY <1>1, <1>2, ListedAfter
  <1>4. \A w \in Vertices : Listed(c, w) => ~Listed(g[w], u) /\ ~Listed(g[u], w)
    BY DEF IndependentSoFar, LoopFree
  <1>5. ASSUME NEW w \in Vertices, Listed(d, w)
        PROVE  w \in R /\ ~Listed(g[w], w) /\ \A v \in Vertices : Listed(g[w], v) => v \in R /\ ~Listed(d, v)
    <2>1. CASE w = u
      BY <1>3, <1>4, <2>1
    <2>2. CASE w # u
      <3>1. Listed(c, w)
        BY <1>3, <1>5, <2>2
      <3>2. w \in r /\ ~Listed(g[w], w) /\ \A v \in Vertices : Listed(g[w], v) => v \in r /\ ~Listed(c, v)
        BY <3>1 DEF IndependentSoFar
      <3>3. ~Listed(g[w], u)
        BY <1>4, <3>1
      <3> QED
        BY <1>3, <3>2, <3>3
    <2> QED
      BY <2>1, <2>2
  <1>6. ASSUME NEW v \in R
        PROVE  Listed(d, v) \/ (v = s /\ Listed(g[v], v)) \/ \E w \in Vertices : Listed(d, w) /\ Listed(g[w], v)
    <2>1. CASE v \in r
      <3>1. Listed(c, v) \/ (v = s /\ Listed(g[v], v)) \/ \E w \in Vertices : Listed(c, w) /\ Listed(g[w], v)
        BY <2>1 DEF IndependentSoFar
      <3> QED
        BY <1>3, <3>1
    <2>2. CASE v \notin r
      BY <1>3, <2>2
    <2> QED
      BY <2>1, <2>2
  <1> QED
    BY <1>3, <1>5, <1>6 DEF IndependentSoFar

LEMMA IndependentStep ==
  ASSUME IndependentInv, Independent!Next, seed' = seed
  PROVE  IndependentInv'
  <1>1. /\ graph \in Adjacency /\ LoopFree(graph, seed) /\ seed \in Vertices /\ start \in 0..N
        /\ IndependentSoFar(graph, seed, chosen, removed)
        /\ graph' = graph
    BY DEF IndependentInv, Independent!Next, Independent!ChooseSeed, Independent!Visit, Independent!Return
  <1>2. ASSUME NEW u \in Vertices, Independent!Choose(u), u \notin removed, ~Listed(graph[u], u)
        PROVE  IndependentSoFar(graph, seed, chosen', removed') /\ u \in removed' /\ removed \subseteq removed'
    <2>1. chosen' = Append(chosen, u) /\ removed' = removed \cup {u} \cup Independent!Targets(u)
      BY <1>2 DEF Independent!Choose
    <2>2. \A v : v \in removed' <=> v \in removed \/ v = u \/ (v \in Vertices /\ Listed(graph[u], v))
      BY <1>1, <2>1, TargetsAre
    <2>3. IndependentSoFar(graph, seed, Append(chosen, u), removed')
      BY <1>1, <1>2, <2>2, IndependentGrows
    <2> QED
      BY <2>1, <2>3
  <1>3. CASE Independent!ChooseSeed
    <2>1. /\ stage = "seed" /\ stage' = "rest" /\ UNCHANGED <<seed, start>>
          /\ chosen = <<>> /\ removed = {} /\ start = 0
      BY <1>3 DEF Independent!ChooseSeed, IndependentInv
    <2>2. IndependentSoFar(graph, seed, chosen', removed') /\ seed \in removed'
      <3>1. CASE Listed(graph[seed], seed)
        <4>1. removed' = {seed} /\ chosen' = <<>>
          BY <1>1, <1>3, <2>1, <3>1, TargetsAre DEF Independent!ChooseSeed
        <4>2. <<>> \in Seq(Vertices) /\ Len(<<>>) = 0
          BY EmptySeq
        <4>3. IndependentSoFar(graph, seed, <<>>, {seed})
          BY <3>1, <4>2 DEF IndependentSoFar, Listed, Distinct
        <4> QED
          BY <4>1, <4>3
      <3>2. CASE ~Listed(graph[seed], seed)
        <4>1. Independent!Choose(seed)
          BY <1>1, <1>3, <3>2, TargetsAre DEF Independent!ChooseSeed
        <4> QED
          BY <1>1, <1>2, <2>1, <3>2, <4>1
      <3> QED
        BY <3>1, <3>2
    <2>3. \A v \in Vertices : ~(v < 0)
      BY DEF Vertices
    <2> QED
      BY <1>1, <2>1, <2>2, <2>3 DEF IndependentInv
  <1>4. CASE Independent!Visit
    <2>1. /\ stage = "rest" /\ start < N /\ start' = start + 1 /\ UNCHANGED <<seed, stage>>
          /\ IF start \in removed THEN UNCHANGED <<chosen, removed>> ELSE Independent!Choose(start)
      BY <1>4 DEF Independent!Visit
    <2>2. seed \in removed /\ \A v \in Vertices : v < start => v \in removed
      BY <2>1 DEF IndependentInv
    <2>3. start \in Vertices /\ start' \in 0..N /\ \A v \in Vertices : v < start' => v < start \/ v = start
      BY <1>1, <2>1, ComponentsAssumption DEF Vertices
    <2>4. IndependentSoFar(graph, seed, chosen', removed') /\ start \in removed' /\ removed \subseteq removed'
      <3>1. CASE start \in removed
        BY <1>1, <2>1, <3>1
      <3>2. CASE start \notin removed
        <4>1. ~Listed(graph[start], start)
          BY <1>1, <2>2, <2>3, <3>2 DEF LoopFree
        <4> QED
          BY <1>2, <2>1, <2>3, <3>2, <4>1
      <3> QED
        BY <3>1, <3>2
    <2> QED
      BY <1>1, <2>1, <2>2, <2>3, <2>4 DEF IndependentInv
  <1>5. CASE Independent!Return
    <2>1. stage = "rest" /\ start = N /\ stage' = "returned" /\ UNCHANGED <<seed, start, chosen, removed>>
      BY <1>5 DEF Independent!Return
    <2> QED
      BY <1>1, <2>1 DEF IndependentInv
  <1> QED
    BY <1>3, <1>4, <1>5 DEF Independent!Next

LEMMA IndependentExact ==
  ASSUME IndependentInv
  PROVE  Independent!IndependentAndMaximal
  <1> SUFFICES ASSUME stage = "returned"
               PROVE  /\ Len(chosen) = Independent!Cardinality(Independent!Chosen)
                      /\ \A u, v \in Independent!Chosen : v \notin Independent!Targets(u)
                      /\ \A v \in Vertices \ Independent!Chosen :
                           v \in Independent!Targets(v) \/ \E u \in Independent!Chosen : v \in Independent!Targets(u)
    BY DEF Independent!IndependentAndMaximal, Independent!Returned, Independent!Vertices, Vertices
  <1>1. /\ graph \in Adjacency /\ LoopFree(graph, seed)
        /\ IndependentSoFar(graph, seed, chosen, removed)
        /\ \A v \in Vertices : v \in removed
    BY DEF IndependentInv, Vertices
  <1>2. PICK n \in Nat : n = Len(chosen) /\ DOMAIN chosen = 1..n /\ \A i \in 1..n : chosen[i] \in Vertices
    BY <1>1, LenProperties, ElementOfSeq DEF IndependentSoFar
  <1>3. PICK C : C = Independent!Chosen
    OBVIOUS
  <1>4. C = {chosen[i] : i \in 1..n}
    BY <1>2, <1>3 DEF Independent!Chosen
  <1>5. \A v : v \in C <=> Listed(chosen, v) /\ v \in Vertices
    BY <1>2, <1>4 DEF Listed
  <1>6. Cardinality(C) = n
    <2>1. \A i, j \in 1..n : chosen[i] = chosen[j] => i = j
      BY <1>1, <1>2 DEF IndependentSoFar, Distinct
    <2>2. PICK f : f = [i \in 1..n |-> chosen[i]]
      OBVIOUS
    <2>3. f \in [1..n -> C] /\ \A c \in C : \E i \in 1..n : f[i] = c
      BY <1>4, <2>2
    <2>4. \A i, j \in 1..n : f[i] = f[j] => i = j
      BY <2>1, <2>2
    <2>5. IsFiniteSet(1..n) /\ Cardinality(1..n) = n
      BY FS_Interval
    <2> QED
      BY <2>3, <2>4, <2>5, SameSize
  <1>7. Independent!Cardinality(C) = Cardinality(C)
    BY DEF Independent!Cardinality, Cardinality
  <1>8. ASSUME NEW u \in C, NEW v \in C PROVE v \notin Independent!Targets(u)
    BY <1>1, <1>5, TargetsAre DEF IndependentSoFar
  <1>9. ASSUME NEW v \in Vertices, v \notin C
        PROVE  v \in Independent!Targets(v) \/ \E u \in C : v \in Independent!Targets(u)
    <2>1. Listed(chosen, v) \/ (v = seed /\ Listed(graph[v], v)) \/ \E u \in Vertices : Listed(chosen, u) /\ Listed(graph[u], v)
      BY <1>1 DEF IndependentSoFar
    <2> QED
      BY <1>1, <1>5, <1>9, <2>1, TargetsAre
  <1> QED
    BY <1>2, <1>3, <1>6, <1>7, <1>8, <1>9

\* The graphs without parallel edges.
LEMMA SimpleListsAre ==
  ASSUME NEW g \in SimpleLists
  PROVE  g \in Adjacency /\ \A u \in Vertices : \A i, j \in 1..Len(g[u]) : i < j => g[u][i] < g[u][j]
  <1>1. ASSUME NEW s \in Ascending
        PROVE  s \in Seq(Vertices) /\ \A i, j \in 1..Len(s) : i < j => s[i] < s[j]
    <2>1. PICK k \in 0..N : s \in [1..k -> Vertices]
      BY DEF Ascending
    <2>2. k \in Nat
      BY ComponentsAssumption
    <2>3. s \in Seq(Vertices)
      BY <2>1, <2>2, IsASeq
    <2> QED
      BY <2>3 DEF Ascending
  <1> QED
    BY <1>1 DEF SimpleLists, Adjacency

LEMMA GoBothWaysIs ==
  ASSUME NEW g \in Adjacency, GoBothWays(g)
  PROVE  \A u, v \in Vertices : Listed(g[u], v) => Listed(g[v], u)
  <1>1. \A u \in Vertices : DOMAIN g[u] = 1..Len(g[u])
    <2> TAKE u \in Vertices
    <2>1. g[u] \in Seq(Vertices)
      BY DEF Adjacency
    <2> QED
      BY <2>1, LenProperties
  <1> QED
    BY <1>1 DEF GoBothWays, Listed

LEMMA IndependentBegins ==
  ASSUME Init, algorithm = "maximal_independent_set"
  PROVE  IndependentInv
  <1>1. /\ graph \in Undirected /\ stage = "seed" /\ seed \in Vertices /\ LoopsAt(graph) \subseteq {seed}
        /\ chosen = <<>> /\ removed = {}
    BY DEF Init
  <1>2. start = 0
    BY DEF Init, Connected!Init
  <1>3. graph \in Adjacency /\ GoBothWays(graph)
    BY <1>1, SimpleListsAre DEF Undirected
  <1>4. LoopFree(graph, seed)
    <2>1. \A u, v \in Vertices : Listed(graph[u], v) => Listed(graph[v], u)
      BY <1>3, GoBothWaysIs
    <2>2. ASSUME NEW v \in Vertices, Listed(graph[v], v) PROVE v = seed
      <3>1. graph[v] \in Seq(Vertices)
        BY <1>3 DEF Adjacency
      <3>2. DOMAIN graph[v] = 1..Len(graph[v])
        BY <3>1, LenProperties
      <3>3. v \in LoopsAt(graph)
        BY <2>2, <3>2 DEF LoopsAt, Listed
      <3> QED
        BY <1>1, <3>3
    <2> QED
      BY <2>1, <2>2 DEF LoopFree
  <1>5. IndependentSoFar(graph, seed, chosen, removed)
    <2>1. <<>> \in Seq(Vertices) /\ Len(<<>>) = 0
      BY EmptySeq
    <2> QED
      BY <1>1, <2>1 DEF IndependentSoFar, Listed, Distinct
  <1> QED
    BY <1>1, <1>2, <1>3, <1>4, <1>5, ComponentsAssumption DEF IndependentInv

-----------------------------------------------------------------------------
(* label_propagation *)

Voters    == 0..(N - 2)
AllLabels == 0..3

VotersFor(u, l) == {i \in DOMAIN graph[u] : label[graph[u][i]] = l}
VotesFor(u, l)  == IF sentinel /\ l = 0 THEN 0 ELSE Cardinality(VotersFor(u, l))
Leading(u)      == {l \in AllLabels : VotesFor(u, l) > 0 /\ \A m \in AllLabels : VotesFor(u, m) <= VotesFor(u, l)}
HasLabel(f, v)  == ~sentinel \/ f[v] # 0
Settled(u)      == Leading(u) # {} => label[u] \in Leading(u)

VoteTypes ==
  /\ graph \in Adjacencies(Voters)
  /\ initial \in [Voters -> AllLabels] /\ label \in [Voters -> AllLabels]
  /\ sentinel \in BOOLEAN /\ changed \in BOOLEAN
  /\ waiting \subseteq Voters

LabelsKept ==
  \A v \in Voters : /\ \E w \in ReachedFrom(graph, v) : label[v] = initial[w]
                    /\ HasLabel(initial, v) => HasLabel(label, v)

VoteInv ==
  /\ VoteTypes /\ LabelsKept
  /\ stage = "rounds" /\ ~changed => \A u \in Voters : u \in waiting \/ Settled(u)
  /\ stage = "converged" => \A u \in Voters : Settled(u)

LEMMA VotersReach ==
  ASSUME graph \in Adjacencies(Voters)
  PROVE  \A v \in Voters : ReachesOnwards(Voters, graph, v)
  <1>1. IsFiniteSet(Voters)
    BY ComponentsAssumption, FS_Interval DEF Voters
  <1> QED
    BY <1>1, Reachability

LEMMA ListsOfVoters ==
  ASSUME graph \in Adjacencies(Voters), NEW u \in Voters
  PROVE  /\ Len(graph[u]) \in Nat /\ DOMAIN graph[u] = 1..Len(graph[u])
         /\ \A i \in 1..Len(graph[u]) : graph[u][i] \in Voters
  <1>1. graph[u] \in Seq(Voters)
    BY DEF Adjacencies
  <1> QED
    BY <1>1, LenProperties, ElementOfSeq

LEMMA VotesAre ==
  ASSUME graph \in Adjacencies(Voters), NEW u \in Voters, NEW l
  PROVE  /\ VotesFor(u, l) \in 0..Len(graph[u])
         /\ VotesFor(u, l) > 0 <=> /\ ~(sentinel /\ l = 0)
                                   /\ \E i \in 1..Len(graph[u]) : label[graph[u][i]] = l
  <1>1. PICK n \in Nat : n = Len(graph[u]) /\ DOMAIN graph[u] = 1..n
    BY ListsOfVoters
  <1>2. PICK S : S = VotersFor(u, l)
    OBVIOUS
  <1>3. S \subseteq 1..n /\ \A i : i \in S <=> i \in 1..n /\ label[graph[u][i]] = l
    BY <1>1, <1>2 DEF VotersFor
  <1>4. IsFiniteSet(1..n) /\ Cardinality(1..n) = n
    BY FS_Interval
  <1>5. IsFiniteSet(S) /\ Cardinality(S) \in Nat /\ Cardinality(S) <= n
    BY <1>1, <1>3, <1>4, FS_Subset, FS_CardinalityType
  <1>6. Cardinality(S) = 0 <=> S = {}
    BY <1>5, FS_EmptySet
  <1>7. Cardinality(S) > 0 <=> \E i \in 1..n : label[graph[u][i]] = l
    BY <1>3, <1>5, <1>6
  <1>8. CASE sentinel /\ l = 0
    BY <1>1, <1>8 DEF VotesFor
  <1>9. CASE ~(sentinel /\ l = 0)
    <2>1. VotesFor(u, l) = Cardinality(S)
      BY <1>2, <1>9 DEF VotesFor
    <2> QED
      BY <1>1, <1>5, <1>7, <1>9, <2>1
  <1> QED
    BY <1>8, <1>9

LEMMA SomeLeads ==
  ASSUME graph \in Adjacencies(Voters), NEW u \in Voters, NEW l \in AllLabels, VotesFor(u, l) > 0
  PROVE  Leading(u) # {}
  <1>1. PICK n \in Nat : n = Len(graph[u])
    BY ListsOfVoters
  <1>2. PICK S : S = {VotesFor(u, m) : m \in AllLabels}
    OBVIOUS
  <1>3. S \in SUBSET (0..n) /\ VotesFor(u, l) \in S
    BY <1>1, <1>2, VotesAre
  <1>4. Max(S) \in S /\ \A x \in S : Max(S) >= x
    BY <1>3, MaxOf
  <1>5. PICK m \in AllLabels : Max(S) = VotesFor(u, m)
    BY <1>2, <1>4
  <1>6. \A k \in AllLabels : VotesFor(u, k) \in S
    BY <1>2
  <1>7. VotesFor(u, l) \in Int /\ VotesFor(u, m) \in Int
    BY VotesAre
  <1>8. VotesFor(u, m) > 0 /\ \A k \in AllLabels : VotesFor(u, k) \in Int /\ VotesFor(u, k) <= VotesFor(u, m)
    BY <1>3, <1>4, <1>5, <1>6, <1>7, VotesAre
  <1>9. m \in Leading(u)
    BY <1>8 DEF Leading
  <1> QED
    BY <1>9

\* The operators of LabelPropagation.
LEMMA PropagationIs ==
  /\ Propagation!Vertices = Voters
  /\ \A u : Propagation!Candidates(u) = Leading(u)
  /\ \A v : Propagation!Reached(Propagation!Successors(graph), v) = ReachedFrom(graph, v)
  /\ \A f : Propagation!Labelled(f) = {v \in Voters : HasLabel(f, v)}
  <1>1. Propagation!Vertices = Voters
    BY ComponentsAssumption DEF Propagation!Vertices, Voters
  <1>2. {1, 2, 3} \cup {0} = AllLabels
    BY DEF AllLabels
  <1>3. ASSUME NEW u, NEW l PROVE Propagation!Votes(u, l) = VotesFor(u, l)
    BY DEF Propagation!Votes, VotesFor, VotersFor, Propagation!Cardinality, Cardinality
  <1>4. ASSUME NEW u PROVE Propagation!Candidates(u) = Leading(u)
    BY <1>2, <1>3 DEF Propagation!Candidates, Leading
  <1>5. ASSUME NEW v PROVE Propagation!Reached(Propagation!Successors(graph), v) = ReachedFrom(graph, v)
    BY DEF Propagation!Reached, Propagation!ReachedWithin, Propagation!Successors, Propagation!Cardinality,
           ReachedFrom, Reached, ReachedWithin, Successors, Cardinality
  <1>6. ASSUME NEW f PROVE Propagation!Labelled(f) = {v \in Voters : HasLabel(f, v)}
    BY <1>1 DEF Propagation!Labelled, HasLabel
  <1> QED
    BY <1>1, <1>4, <1>5, <1>6

\* A label on the targets of u is the initial one of a vertex that u reaches.
LEMMA TakesReached ==
  ASSUME VoteTypes, LabelsKept, NEW u \in Voters, NEW l \in Leading(u)
  PROVE  /\ ~(sentinel /\ l = 0) /\ l \in AllLabels
         /\ \E w \in ReachedFrom(graph, u) : l = initial[w]
  <1>1. l \in AllLabels /\ VotesFor(u, l) > 0
    BY DEF Leading
  <1>2. graph \in Adjacencies(Voters)
    BY DEF VoteTypes
  <1>3. ~(sentinel /\ l = 0)
    BY <1>1, <1>2, VotesAre
  <1>4. PICK i \in 1..Len(graph[u]) : label[graph[u][i]] = l
    BY <1>1, <1>2, VotesAre
  <1>5. PICK x \in Voters : x = graph[u][i]
    BY <1>2, <1>4, ListsOfVoters
  <1>6. PICK w \in ReachedFrom(graph, x) : label[x] = initial[w]
    BY <1>5 DEF LabelsKept
  <1>7. x \in ReachedFrom(graph, u)
    BY <1>2, <1>4, <1>5, VotersReach DEF ReachesOnwards
  <1>8. ReachedFrom(graph, x) \subseteq ReachedFrom(graph, u)
    BY <1>2, <1>7, VotersReach DEF ReachesOnwards
  <1> QED
    BY <1>1, <1>3, <1>4, <1>5, <1>6, <1>8

LEMMA SameVotes ==
  ASSUME UNCHANGED <<graph, sentinel, label>>
  PROVE  \A u : Settled(u)' <=> Settled(u)
  BY DEF Settled, Leading, VotesFor, VotersFor, Cardinality

LEMMA KeepLabelKeeps ==
  ASSUME VoteInv, NEW u \in Voters, Propagation!KeepLabel(u)
  PROVE  VoteInv'
  <1>1. /\ stage = "rounds" /\ Leading(u) = {} /\ waiting' = waiting \ {u}
        /\ UNCHANGED <<graph, sentinel, initial, label, iter, changed, stage>>
    BY PropagationIs DEF Propagation!KeepLabel
  <1>2. VoteTypes' /\ LabelsKept'
    BY <1>1 DEF VoteInv, VoteTypes, LabelsKept, HasLabel
  <1>3. Settled(u)
    BY <1>1 DEF Settled
  <1>4. ~changed => \A v \in Voters : v \in waiting' \/ Settled(v)
    BY <1>1, <1>3 DEF VoteInv
  <1>5. \A v : Settled(v)' <=> Settled(v)
    BY <1>1, SameVotes
  <1>6. stage' = "rounds" /\ (~changed' => \A v \in Voters : v \in waiting' \/ Settled(v)')
    BY <1>1, <1>4, <1>5
  <1> QED
    BY <1>2, <1>6 DEF VoteInv

LEMMA TakeLabelKeeps ==
  ASSUME VoteInv, NEW u \in Voters, NEW l, Propagation!TakeLabel(u, l)
  PROVE  VoteInv'
  <1>1. /\ stage = "rounds" /\ l \in Leading(u) /\ waiting' = waiting \ {u}
        /\ label' = [label EXCEPT ![u] = l]
        /\ changed' = (changed \/ label[u] # l)
        /\ UNCHANGED <<graph, sentinel, initial, iter, stage>>
    BY PropagationIs DEF Propagation!TakeLabel
  <1>2. /\ VoteTypes /\ LabelsKept
        /\ label \in [Voters -> AllLabels]
    BY DEF VoteInv, VoteTypes
  <1>3. /\ ~(sentinel /\ l = 0) /\ l \in AllLabels
        /\ \E w \in ReachedFrom(graph, u) : l = initial[w]
    BY <1>1, <1>2, TakesReached
  <1>4. label' \in [Voters -> AllLabels] /\ label'[u] = l /\ \A v \in Voters : v # u => label'[v] = label[v]
    BY <1>1, <1>2, <1>3
  <1>5. VoteTypes'
    <2>1. changed' \in BOOLEAN
      BY <1>1
    <2> QED
      BY <1>1, <1>2, <1>4, <2>1 DEF VoteTypes
  <1>6. LabelsKept'
    <2> SUFFICES ASSUME NEW v \in Voters
                 PROVE  /\ \E w \in ReachedFrom(graph, v) : label'[v] = initial[w]
                        /\ HasLabel(initial, v) => ~sentinel \/ label'[v] # 0
      BY <1>1 DEF LabelsKept, HasLabel
    <2>1. CASE v = u
      BY <1>3, <1>4, <2>1
    <2>2. CASE v # u
      BY <1>2, <1>4, <2>2 DEF LabelsKept, HasLabel
    <2> QED
      BY <2>1, <2>2
  <1>7. ASSUME ~changed' PROVE \A v \in Voters : v \in waiting' \/ Settled(v)'
    <2>1. ~changed /\ label[u] = l
      BY <1>1, <1>7
    <2>2. label' = label
      BY <1>1, <1>2, <2>1
    <2>3. Settled(u)
      BY <1>1, <2>1 DEF Settled
    <2>4. \A v : Settled(v)' <=> Settled(v)
      BY <1>1, <2>2, SameVotes
    <2>5. \A v \in Voters : v \in waiting \/ Settled(v)
      BY <1>1, <2>1 DEF VoteInv
    <2> QED
      BY <1>1, <2>3, <2>4, <2>5
  <1> QED
    BY <1>1, <1>5, <1>6, <1>7 DEF VoteInv

LEMMA VoteStep ==
  ASSUME VoteInv, Propagation!Next
  PROVE  VoteInv'
  <1>1. CASE Propagation!StartRound
    <2>1. /\ stage' = "rounds" /\ waiting' = Voters /\ changed' = FALSE
          /\ UNCHANGED <<graph, sentinel, initial, label>>
      BY <1>1, PropagationIs DEF Propagation!StartRound
    <2>2. VoteTypes' /\ LabelsKept'
      BY <2>1 DEF VoteInv, VoteTypes, LabelsKept, HasLabel
    <2> QED
      BY <2>1, <2>2 DEF VoteInv
  <1>2. CASE Propagation!Return
    <2>1. /\ stage = "rounds" /\ waiting = {} /\ stage' = IF changed THEN "exhausted" ELSE "converged"
          /\ UNCHANGED <<graph, sentinel, initial, label, iter, waiting, changed>>
      BY <1>2 DEF Propagation!Return
    <2>2. VoteTypes' /\ LabelsKept'
      BY <2>1 DEF VoteInv, VoteTypes, LabelsKept, HasLabel
    <2>3. ~changed => \A v \in Voters : Settled(v)
      BY <2>1 DEF VoteInv
    <2>4. \A v : Settled(v)' <=> Settled(v)
      BY <2>1, SameVotes
    <2>5. stage' # "rounds" /\ (stage' = "converged" => ~changed)
      BY <2>1
    <2> QED
      BY <2>2, <2>3, <2>4, <2>5 DEF VoteInv
  <1>3. ASSUME NEW u \in waiting, Propagation!KeepLabel(u) \/ \E l \in {1, 2, 3} \cup {0} : Propagation!TakeLabel(u, l)
        PROVE  VoteInv'
    <2>1. u \in Voters
      BY DEF VoteInv, VoteTypes
    <2> QED
      BY <1>3, <2>1, KeepLabelKeeps, TakeLabelKeeps
  <1> QED
    BY <1>1, <1>2, <1>3 DEF Propagation!Next

LEMMA VoteExact ==
  ASSUME VoteInv
  PROVE  Propagation!LabelsSettled
  <1>1. VoteTypes /\ LabelsKept /\ graph \in Adjacencies(Voters) /\ label \in [Voters -> AllLabels]
    BY DEF VoteInv, VoteTypes
  <1>2. Propagation!LabelsFlow
    <2> SUFFICES ASSUME NEW v \in Voters
                 PROVE  /\ label[v] \in {initial[u] : u \in ReachedFrom(graph, v)}
                        /\ v \in {w \in Voters : HasLabel(initial, w)} => v \in {w \in Voters : HasLabel(label, w)}
      BY PropagationIs DEF Propagation!LabelsFlow
    <2> QED
      BY <1>1 DEF LabelsKept
  <1>3. ASSUME stage = "converged", NEW v \in Voters,
               NEW y \in ReachedFrom(graph, v), y \in Voters, HasLabel(initial, y)
        PROVE  HasLabel(label, v)
    <2> SUFFICES ASSUME ~HasLabel(label, v) PROVE FALSE
      OBVIOUS
    <2>1. sentinel
      BY DEF HasLabel
    <2>2. PICK U : U = {x \in Voters : label[x] = 0}
      OBVIOUS
    <2>3. ASSUME NEW x \in U, NEW i \in 1..Len(graph[x]) PROVE graph[x][i] \in U
      <3>1. x \in Voters /\ label[x] = 0
        BY <2>2
      <3>2. PICK z \in Voters : z = graph[x][i]
        BY <1>1, <2>3, <3>1, ListsOfVoters
      <3>3. CASE label[z] # 0
        <4>1. label[z] \in AllLabels /\ VotesFor(x, label[z]) > 0
          BY <1>1, <2>3, <3>1, <3>2, <3>3, VotesAre
        <4>2. Leading(x) # {}
          BY <1>1, <3>1, <4>1, SomeLeads
        <4>3. 0 \in Leading(x)
          BY <1>3, <3>1, <4>2 DEF VoteInv, Settled
        <4>4. VotesFor(x, 0) > 0
          BY <4>3 DEF Leading
        <4> QED
          BY <1>1, <2>1, <3>1, <4>4, VotesAre
      <3> QED
        BY <2>2, <3>2, <3>3
    <2>4. v \in U /\ U \in SUBSET Voters
      BY <2>2 DEF HasLabel
    <2>5. ClosedIn(graph, U)
      BY <2>3 DEF ClosedIn
    <2>6. y \in U
      BY <1>1, <1>3, <2>4, <2>5, VotersReach DEF ReachesOnwards
    <2>7. HasLabel(label, y)
      BY <1>1, <1>3 DEF LabelsKept
    <2> QED
      BY <2>1, <2>2, <2>6, <2>7 DEF HasLabel
  <1>4. Propagation!ConvergedStable
    <2> SUFFICES ASSUME stage = "converged", NEW v \in Voters
                 PROVE  /\ Leading(v) # {} => label[v] \in Leading(v)
                        /\ ReachedFrom(graph, v) \cap {w \in Voters : HasLabel(initial, w)} # {}
                             => v \in {w \in Voters : HasLabel(label, w)}
      BY PropagationIs DEF Propagation!ConvergedStable
    <2> QED
      BY <1>3 DEF VoteInv, Settled
  <1> QED
    BY <1>2, <1>4 DEF Propagation!LabelsSettled

LEMMA VoteBegins ==
  ASSUME Init, algorithm = "label_propagation"
  PROVE  VoteInv
  <1>1. /\ graph \in VotingLists /\ initial \in InitialLabels /\ sentinel \in BOOLEAN
        /\ Propagation!Init
    BY DEF Init
  <1>2. label = initial /\ waiting = {} /\ changed = TRUE /\ stage = "rounds"
    BY <1>1 DEF Propagation!Init
  <1>3. graph \in Adjacencies(Voters)
    <2>1. PICK adj \in AdjacencyLists(Vertices, MaxVotes) :
            /\ \A v \in Vertices : \A i \in DOMAIN adj[v] : v < N - 1 /\ adj[v][i] < N - 1
            /\ graph = [v \in 0..(N - 2) |-> adj[v]]
      BY <1>1 DEF VotingLists
    <2>2. adj \in [Vertices -> Seq(Vertices)]
      BY ListsAreAdjacencies, ComponentsAssumption DEF Adjacencies
    <2>3. ASSUME NEW v \in Voters PROVE adj[v] \in Seq(Voters)
      <3>1. v \in Vertices
        BY ComponentsAssumption DEF Voters, Vertices
      <3>2. adj[v] \in Seq(Vertices)
        BY <2>2, <3>1
      <3>3. PICK n \in Nat : n = Len(adj[v]) /\ DOMAIN adj[v] = 1..n /\ adj[v] \in [1..n -> Vertices]
        BY <3>2, LenProperties
      <3>4. \A i \in 1..n : adj[v][i] \in Vertices /\ adj[v][i] < N - 1
        BY <2>1, <3>1, <3>3
      <3>5. \A w \in Vertices : w < N - 1 => w \in Voters
        BY ComponentsAssumption DEF Voters, Vertices
      <3>6. adj[v] \in [1..n -> Voters]
        BY <3>3, <3>4, <3>5
      <3> QED
        BY <3>6, IsASeq
    <2> QED
      BY <2>1, <2>3 DEF Adjacencies, Voters
  <1>4. initial \in [Voters -> AllLabels]
    BY <1>1 DEF InitialLabels, Voters, AllLabels
  <1>5. VoteTypes
    BY <1>1, <1>2, <1>3, <1>4 DEF VoteTypes
  <1>6. LabelsKept
    BY <1>2, <1>3, VotersReach DEF LabelsKept, ReachesOnwards
  <1> QED
    BY <1>2, <1>5, <1>6 DEF VoteInv

-----------------------------------------------------------------------------
(* triangle_count, directed_triangle_count and jaccard_coefficient *)

Rises(s) == \A i, j \in 1..Len(s) : i < j => s[i] < s[j]

\* What us, from the x-th place on, and vs, from the y-th, have in common.
SharedFrom(us, vs, x, y, C) ==
  {w \in C : (\E a \in 1..Len(us) : a >= x /\ us[a] = w) /\ (\E b \in 1..Len(vs) : b >= y /\ vs[b] = w)}

Places(us, vs) == (1..(Len(us) + 1)) \X (1..(Len(vs) + 1))

MergeAt(h, us, vs, C, x, y) ==
  IF x > Len(us) \/ y > Len(vs) THEN 0
  ELSE IF us[x] < vs[y] THEN h[<<x + 1, y>>]
  ELSE IF vs[y] < us[x] THEN h[<<x, y + 1>>]
  ELSE (IF us[x] \in C THEN 1 ELSE 0) + h[<<x + 1, y + 1>>]

Merges(h, us, vs, C) == h = [at \in Places(us, vs) |-> MergeAt(h, us, vs, C, at[1], at[2])]

\* One more place of one of two lists is left behind, or of both.
LEMMA SharedSteps ==
  ASSUME NEW us \in Seq(Vertices), NEW vs \in Seq(Vertices), Rises(us), Rises(vs), NEW C,
         NEW x \in 1..(Len(us) + 1), NEW y \in 1..(Len(vs) + 1)
  PROVE  /\ IsFiniteSet(SharedFrom(us, vs, x, y, C))
         /\ x > Len(us) \/ y > Len(vs) => SharedFrom(us, vs, x, y, C) = {}
         /\ x <= Len(us) /\ y <= Len(vs) =>
              /\ us[x] < vs[y] => SharedFrom(us, vs, x, y, C) = SharedFrom(us, vs, x + 1, y, C)
              /\ vs[y] < us[x] => SharedFrom(us, vs, x, y, C) = SharedFrom(us, vs, x, y + 1, C)
              /\ ~(us[x] < vs[y]) /\ ~(vs[y] < us[x]) =>
                   /\ us[x] \notin SharedFrom(us, vs, x + 1, y + 1, C)
                   /\ SharedFrom(us, vs, x, y, C) = SharedFrom(us, vs, x + 1, y + 1, C) \cup (C \cap {us[x]})
  <1>1. PICK m \in Nat, n \in Nat : /\ m = Len(us) /\ n = Len(vs)
                                    /\ \A a \in 1..m : us[a] \in Vertices /\ \A b \in 1..n : vs[b] \in Vertices
    <2>1. Len(us) \in Nat /\ Len(vs) \in Nat
      BY LenProperties
    <2> QED
      BY <2>1, ElementOfSeq
  <1>2. x \in 1..(m + 1) /\ y \in 1..(n + 1)
    BY <1>1
  <1>3. \A a \in 1..m : us[a] \in Int /\ \A b \in 1..n : vs[b] \in Int
    BY <1>1 DEF Vertices
  <1> DEFINE S(i, j) == SharedFrom(us, vs, i, j, C)
  <1>4. \A i, j : \A w : w \in S(i, j) <=> /\ w \in C /\ \E a \in 1..m : a >= i /\ us[a] = w
                                           /\ \E b \in 1..n : b >= j /\ vs[b] = w
    BY <1>1 DEF SharedFrom
  <1>5. IsFiniteSet(S(x, y))
    <2>1. S(x, y) \subseteq Vertices
      BY <1>1, <1>4
    <2> QED
      BY <2>1, VerticesFinite, FS_Subset
  <1> HIDE DEF S
  <1>6. ASSUME x > m \/ y > n PROVE S(x, y) = {}
    BY <1>2, <1>4, <1>6
  <1>7. ASSUME x <= m, y <= n
        PROVE  /\ us[x] < vs[y] => S(x, y) = S(x + 1, y)
               /\ vs[y] < us[x] => S(x, y) = S(x, y + 1)
               /\ ~(us[x] < vs[y]) /\ ~(vs[y] < us[x]) =>
                    us[x] \notin S(x + 1, y + 1) /\ S(x, y) = S(x + 1, y + 1) \cup (C \cap {us[x]})
    <2>1. x \in 1..m /\ y \in 1..n /\ us[x] \in Int /\ vs[y] \in Int
      BY <1>2, <1>3, <1>7
    <2>2. /\ \A a \in 1..m : a >= x => a = x \/ (a >= x + 1 /\ us[a] > us[x])
          /\ \A a \in 1..m : a >= x + 1 => a >= x /\ us[a] # us[x]
      BY <1>1, <1>3, <2>1 DEF Rises
    <2>3. /\ \A b \in 1..n : b >= y => b = y \/ (b >= y + 1 /\ vs[b] > vs[y])
          /\ \A b \in 1..n : b >= y + 1 => b >= y /\ vs[b] # vs[y]
      BY <1>1, <1>3, <2>1 DEF Rises
    <2>4. ASSUME us[x] < vs[y] PROVE S(x, y) = S(x + 1, y)
      <3>1. \A b \in 1..n : b >= y => vs[b] # us[x]
        BY <1>3, <2>1, <2>3, <2>4
      <3>2. ASSUME NEW w, w \in S(x, y) PROVE w \in S(x + 1, y)
        BY <1>4, <2>2, <3>1, <3>2
      <3>3. ASSUME NEW w, w \in S(x + 1, y) PROVE w \in S(x, y)
        BY <1>4, <2>2, <3>3
      <3> QED
        BY <3>2, <3>3
    <2>5. ASSUME vs[y] < us[x] PROVE S(x, y) = S(x, y + 1)
      <3>1. \A a \in 1..m : a >= x => us[a] # vs[y]
        BY <1>3, <2>1, <2>2, <2>5
      <3>2. ASSUME NEW w, w \in S(x, y) PROVE w \in S(x, y + 1)
        BY <1>4, <2>3, <3>1, <3>2
      <3>3. ASSUME NEW w, w \in S(x, y + 1) PROVE w \in S(x, y)
        BY <1>4, <2>3, <3>3
      <3> QED
        BY <3>2, <3>3
    <2>6. ASSUME ~(us[x] < vs[y]), ~(vs[y] < us[x])
          PROVE  us[x] \notin S(x + 1, y + 1) /\ S(x, y) = S(x + 1, y + 1) \cup (C \cap {us[x]})
      <3>1. us[x] = vs[y]
        BY <2>1, <2>6
      <3>2. us[x] \notin S(x + 1, y + 1)
        BY <1>4, <2>2
      <3>3. ASSUME NEW w, w \in S(x, y), w # us[x] PROVE w \in S(x + 1, y + 1)
        BY <1>4, <2>2, <2>3, <3>1, <3>3
      <3>4. ASSUME NEW w, w \in S(x + 1, y + 1) PROVE w \in S(x, y)
        BY <1>4, <2>2, <2>3, <3>4
      <3>5. us[x] \in S(x, y) <=> us[x] \in C
        <4>1. x >= x /\ y >= y
          BY <2>1
        <4> QED
          BY <1>4, <2>1, <3>1, <4>1
      <3> QED
        BY <3>2, <3>3, <3>4, <3>5
    <2> QED
      BY <2>4, <2>5, <2>6
  <1> QED
    BY <1>1, <1>5, <1>6, <1>7 DEF S

\* The merge counts what two ascending lists have in common.
LEMMA MergeIs ==
  ASSUME NEW us \in Seq(Vertices), NEW vs \in Seq(Vertices), Rises(us), Rises(vs), NEW C
  PROVE  /\ \E h : Merges(h, us, vs, C)
         /\ \A h : Merges(h, us, vs, C) =>
              \A x \in 1..(Len(us) + 1), y \in 1..(Len(vs) + 1) : h[<<x, y>>] = Cardinality(SharedFrom(us, vs, x, y, C))
  <1>1. PICK m \in Nat, n \in Nat : m = Len(us) /\ n = Len(vs)
    BY LenProperties
  <1>2. PICK H : H = [at \in Places(us, vs) |-> Cardinality(SharedFrom(us, vs, at[1], at[2], C))]
    OBVIOUS
  <1>3. /\ Places(us, vs) = (1..(m + 1)) \X (1..(n + 1))
        /\ \A x \in 1..(m + 1), y \in 1..(n + 1) : H[<<x, y>>] = Cardinality(SharedFrom(us, vs, x, y, C))
    BY <1>1, <1>2 DEF Places
  <1>4. ASSUME NEW x \in 1..(m + 1), NEW y \in 1..(n + 1)
        PROVE  /\ x > m \/ y > n => H[<<x, y>>] = 0
               /\ x <= m /\ y <= n /\ us[x] < vs[y] => H[<<x, y>>] = H[<<x + 1, y>>]
               /\ x <= m /\ y <= n /\ vs[y] < us[x] => H[<<x, y>>] = H[<<x, y + 1>>]
               /\ x <= m /\ y <= n /\ ~(us[x] < vs[y]) /\ ~(vs[y] < us[x]) =>
                    H[<<x, y>>] = (IF us[x] \in C THEN 1 ELSE 0) + H[<<x + 1, y + 1>>]
    <2>1. x <= m => x + 1 \in 1..(m + 1)
      OBVIOUS
    <2>2. y <= n => y + 1 \in 1..(n + 1)
      OBVIOUS
    <2>3. x \in 1..(Len(us) + 1) /\ y \in 1..(Len(vs) + 1)
      BY <1>1
    <2>4. ASSUME x > m \/ y > n PROVE H[<<x, y>>] = 0
      <3>1. SharedFrom(us, vs, x, y, C) = {}
        BY <1>1, <2>3, <2>4, SharedSteps
      <3> QED
        BY <1>3, <3>1, FS_EmptySet
    <2>5. ASSUME x <= m, y <= n, us[x] < vs[y] PROVE H[<<x, y>>] = H[<<x + 1, y>>]
      <3>1. SharedFrom(us, vs, x, y, C) = SharedFrom(us, vs, x + 1, y, C)
        BY <1>1, <2>3, <2>5, SharedSteps
      <3>2. H[<<x, y>>] = Cardinality(SharedFrom(us, vs, x, y, C))
        BY <1>3
      <3>3. H[<<x + 1, y>>] = Cardinality(SharedFrom(us, vs, x + 1, y, C))
        BY <1>3, <2>1, <2>5
      <3> QED
        BY <3>1, <3>2, <3>3
    <2>6. ASSUME x <= m, y <= n, vs[y] < us[x] PROVE H[<<x, y>>] = H[<<x, y + 1>>]
      <3>1. SharedFrom(us, vs, x, y, C) = SharedFrom(us, vs, x, y + 1, C)
        BY <1>1, <2>3, <2>6, SharedSteps
      <3>2. H[<<x, y>>] = Cardinality(SharedFrom(us, vs, x, y, C))
        BY <1>3
      <3>3. H[<<x, y + 1>>] = Cardinality(SharedFrom(us, vs, x, y + 1, C))
        BY <1>3, <2>2, <2>6
      <3> QED
        BY <3>1, <3>2, <3>3
    <2>7. ASSUME x <= m, y <= n, ~(us[x] < vs[y]), ~(vs[y] < us[x])
          PROVE  H[<<x, y>>] = (IF us[x] \in C THEN 1 ELSE 0) + H[<<x + 1, y + 1>>]
      <3>1. PICK A, B : /\ A = SharedFrom(us, vs, x, y, C) /\ B = SharedFrom(us, vs, x + 1, y + 1, C)
        OBVIOUS
      <3>2. us[x] \notin B /\ A = B \cup (C \cap {us[x]})
        BY <1>1, <2>3, <2>7, <3>1, SharedSteps
      <3>3. IsFiniteSet(B)
        <4>1. x + 1 \in 1..(Len(us) + 1) /\ y + 1 \in 1..(Len(vs) + 1)
          BY <1>1, <2>1, <2>2, <2>7
        <4> QED
          BY <3>1, <4>1, SharedSteps
      <3>4. H[<<x, y>>] = Cardinality(A) /\ H[<<x + 1, y + 1>>] = Cardinality(B)
        BY <1>3, <2>1, <2>2, <2>7, <3>1
      <3>5. Cardinality(B) \in Nat
        BY <3>3, FS_CardinalityType
      <3>6. CASE us[x] \in C
        <4>1. A = B \cup {us[x]}
          BY <3>2, <3>6
        <4>2. Cardinality(A) = Cardinality(B) + 1
          BY <3>2, <3>3, <4>1, FS_AddElement
        <4> QED
          BY <3>4, <3>5, <3>6, <4>2
      <3>7. CASE us[x] \notin C
        <4>1. A = B
          BY <3>2, <3>7
        <4> QED
          BY <3>4, <3>5, <3>7, <4>1
      <3> QED
        BY <3>6, <3>7
    <2> QED
      BY <2>4, <2>5, <2>6, <2>7
  <1>5. Merges(H, us, vs, C)
    <2>1. ASSUME NEW at \in Places(us, vs) PROVE H[at] = MergeAt(H, us, vs, C, at[1], at[2])
      <3>1. PICK x \in 1..(m + 1), y \in 1..(n + 1) : at = <<x, y>>
        BY <1>3
      <3>2. H[<<x, y>>] = MergeAt(H, us, vs, C, x, y)
        BY <1>1, <1>4 DEF MergeAt
      <3> QED
        BY <3>1, <3>2
    <2> QED
      BY <1>2, <2>1 DEF Merges
  <1>6. ASSUME NEW h, Merges(h, us, vs, C)
        PROVE  \A x \in 1..(m + 1), y \in 1..(n + 1) : h[<<x, y>>] = H[<<x, y>>]
    <2>1. ASSUME NEW x \in 1..(m + 1), NEW y \in 1..(n + 1)
          PROVE  h[<<x, y>>] = MergeAt(h, us, vs, C, x, y)
      <3>1. <<x, y>>[1] = x /\ <<x, y>>[2] = y
        OBVIOUS
      <3>3. <<x, y>> \in Places(us, vs)
        BY <1>3
      <3>4. PICK p : p = <<x, y>>
        OBVIOUS
      <3>2. h[p] = MergeAt(h, us, vs, C, p[1], p[2])
        BY <1>6, <3>3, <3>4 DEF Merges
      <3> QED
        BY <3>1, <3>2, <3>4
    <2>2. PICK K : K = {k \in Nat : \A x \in 1..(m + 1), y \in 1..(n + 1) :
                                      (m + 1 - x) + (n + 1 - y) <= k => h[<<x, y>>] = H[<<x, y>>]}
      OBVIOUS
    <2>3. ASSUME NEW x \in 1..(m + 1), NEW y \in 1..(n + 1), x > m \/ y > n
          PROVE  h[<<x, y>>] = H[<<x, y>>]
      <3>1. h[<<x, y>>] = MergeAt(h, us, vs, C, x, y)
        BY <2>1
      <3>2. MergeAt(h, us, vs, C, x, y) = 0
        BY <1>1, <2>3 DEF MergeAt
      <3>3. H[<<x, y>>] = 0
        BY <1>4, <2>3
      <3> QED
        BY <3>1, <3>2, <3>3
    <2>4. 0 \in K
      <3>1. \A x \in 1..(m + 1), y \in 1..(n + 1) : (m + 1 - x) + (n + 1 - y) <= 0 => x > m \/ y > n
        OBVIOUS
      <3> QED
        BY <2>2, <2>3, <3>1
    <2>5. ASSUME NEW k \in Nat, k \in K PROVE k + 1 \in K
      <3>1. \A x \in 1..(m + 1), y \in 1..(n + 1) : (m + 1 - x) + (n + 1 - y) <= k => h[<<x, y>>] = H[<<x, y>>]
        BY <2>2, <2>5
      <3>2. ASSUME NEW x \in 1..(m + 1), NEW y \in 1..(n + 1), (m + 1 - x) + (n + 1 - y) <= k + 1
            PROVE  h[<<x, y>>] = H[<<x, y>>]
        <4>1. CASE x > m \/ y > n
          BY <2>3, <4>1
        <4>2. CASE x <= m /\ y <= n
          <5>1. /\ x + 1 \in 1..(m + 1) /\ y + 1 \in 1..(n + 1)
                /\ (m + 1 - (x + 1)) + (n + 1 - y) <= k
                /\ (m + 1 - x) + (n + 1 - (y + 1)) <= k
                /\ (m + 1 - (x + 1)) + (n + 1 - (y + 1)) <= k
            BY <3>2, <4>2
          <5>2. /\ h[<<x + 1, y>>] = H[<<x + 1, y>>] /\ h[<<x, y + 1>>] = H[<<x, y + 1>>]
                /\ h[<<x + 1, y + 1>>] = H[<<x + 1, y + 1>>]
            BY <3>1, <5>1
          <5>3. h[<<x, y>>] = MergeAt(h, us, vs, C, x, y)
            BY <2>1
          <5>4. ~(x > m) /\ ~(y > n)
            BY <4>2
          <5>5. MergeAt(h, us, vs, C, x, y) = MergeAt(H, us, vs, C, x, y)
            BY <1>1, <5>2, <5>4 DEF MergeAt
          <5>6. H[<<x, y>>] = MergeAt(H, us, vs, C, x, y)
            BY <1>1, <1>4, <4>2, <5>4 DEF MergeAt
          <5> QED
            BY <5>3, <5>5, <5>6
        <4> QED
          BY <4>1, <4>2
      <3> QED
        BY <2>2, <3>2
    <2>6. Nat \subseteq K
      BY <2>4, <2>5, InductiveSet
    <2>7. TAKE x \in 1..(m + 1), y \in 1..(n + 1)
    <2>8. m + n \in Nat /\ (m + 1 - x) + (n + 1 - y) <= m + n
      OBVIOUS
    <2> QED
      BY <2>2, <2>6, <2>8
  <1> QED
    BY <1>1, <1>3, <1>5, <1>6

LEMMA CommonIs ==
  ASSUME NEW us \in Seq(Vertices), NEW vs \in Seq(Vertices), Rises(us), Rises(vs), NEW C,
         NEW i \in 1..(Len(us) + 1)
  PROVE  Triangles!Common(us, vs, i, C) = Cardinality(SharedFrom(us, vs, i, 1, C))
  <1> DEFINE D == CHOOSE h : Merges(h, us, vs, C)
  <1>1. Merges(D, us, vs, C)
    BY MergeIs
  <1>2. Triangles!Common(us, vs, i, C) = D[<<i, 1>>]
    BY DEF Triangles!Common, D, Merges, MergeAt, Places
  <1>3. 1 \in 1..(Len(vs) + 1)
    BY LenProperties
  <1> HIDE DEF D
  <1> QED
    BY <1>1, <1>2, <1>3, MergeIs

\* The edge from u to v has been looked at.
Passed(u, v) == u < start \/ (u = start /\ \E i \in 1..Len(graph[u]) : i < position /\ graph[u][i] = v)

\* An edge from each of three different vertices to those after it; triangle_count counts
\* only those in ascending order.
Triple(a, b, c) ==
  /\ a # b /\ a # c /\ b # c
  /\ Listed(graph[a], b) /\ Listed(graph[a], c) /\ Listed(graph[b], c)
  /\ algorithm = "triangle_count" => a < b /\ b < c

Counted == {t \in Vertices \X Vertices \X Vertices : Triple(t[1], t[2], t[3]) /\ Passed(t[1], t[2])}

Closing(u, v) == {w \in Vertices : Triple(u, v, w)}

NeighboursIn(g, u) == {w \in Vertices : Listed(g[u], w) /\ w # u}

\* What jaccard_coefficient has reported of the graph g is right, and nothing is missing of
\* the edges before the p-th of s.
Reports(g, told, s, p) ==
  /\ \A r \in told :
       /\ r.u \in Vertices /\ r.at \in 1..Len(g[r.u]) /\ g[r.u][r.at] # r.u
       /\ r.shared = Cardinality(NeighboursIn(g, r.u) \cap NeighboursIn(g, g[r.u][r.at]))
       /\ r.all = Cardinality(NeighboursIn(g, r.u) \cup NeighboursIn(g, g[r.u][r.at]))
  /\ \A u \in Vertices : \A i \in 1..Len(g[u]) :
       (u < s \/ (u = s /\ i < p)) /\ g[u][i] # u => \E r \in told : r.u = u /\ r.at = i

TrianglePlace ==
  /\ graph \in Adjacency /\ \A u \in Vertices : Rises(graph[u])
  /\ algorithm = "triangle_count" => \A u, v \in Vertices : Listed(graph[u], v) => Listed(graph[v], u)
  /\ start \in 0..N /\ position \in Nat \ {0}
  /\ start < N => position <= Len(graph[start]) + 1

TriangleInv ==
  /\ TrianglePlace
  /\ algorithm \in {"triangle_count", "directed_triangle_count"} => triangles = Cardinality(Counted)
  /\ algorithm = "jaccard_coefficient" => Reports(graph, reported, start, position)

LEMMA CountedAre ==
  /\ \A a, b, c : <<a, b, c>> \in Counted <=>
       a \in Vertices /\ b \in Vertices /\ c \in Vertices /\ Triple(a, b, c) /\ Passed(a, b)
  /\ \A t \in Counted : \E a, b, c \in Vertices : t = <<a, b, c>>
  /\ IsFiniteSet(Counted)
  <1>1. PICK V : V = Vertices
    OBVIOUS
  <1>2. PICK P : P = V \X V \X V
    OBVIOUS
  <1>4. \A t : t \in Counted <=> t \in P /\ Triple(t[1], t[2], t[3]) /\ Passed(t[1], t[2])
    BY <1>1, <1>2 DEF Counted
  <1>5. \A a, b, c : <<a, b, c>> \in P <=> a \in V /\ b \in V /\ c \in V
    BY <1>2
  <1>6. \A t \in P : \E a, b, c \in V : t = <<a, b, c>>
    BY <1>2
  <1>7. IsFiniteSet(P)
    <2>1. IsFiniteSet(V)
      BY <1>1, VerticesFinite
    <2>2. P = {<<p[1][1], p[1][2], p[2]>> : p \in (V \X V) \X V}
      <3>1. \A a, b, c : <<<<a, b>>, c>>[1][1] = a /\ <<<<a, b>>, c>>[1][2] = b /\ <<<<a, b>>, c>>[2] = c
        OBVIOUS
      <3>2. ASSUME NEW t \in P PROVE \E p \in (V \X V) \X V : t = <<p[1][1], p[1][2], p[2]>>
        <4>1. PICK a \in V, b \in V, c \in V : t = <<a, b, c>>
          BY <1>6
        <4>2. <<<<a, b>>, c>> \in (V \X V) \X V
          OBVIOUS
        <4> QED
          BY <3>1, <4>1, <4>2
      <3>3. ASSUME NEW p \in (V \X V) \X V PROVE <<p[1][1], p[1][2], p[2]>> \in P
        BY <1>2
      <3> QED
        BY <3>2, <3>3
    <2>3. IsFiniteSet((V \X V) \X V)
      BY <2>1, FS_Product
    <2>4. PICK f : f = [p \in (V \X V) \X V |-> <<p[1][1], p[1][2], p[2]>>]
      OBVIOUS
    <2>5. IsFiniteSet({f[p] : p \in (V \X V) \X V})
      BY <2>3, <2>4, FiniteImage
    <2> QED
      BY <2>2, <2>4, <2>5
  <1>8. IsFiniteSet(Counted)
    BY <1>4, <1>7, FS_Subset
  <1>9. ASSUME NEW a, NEW b, NEW c
        PROVE  <<a, b, c>> \in Counted <=> a \in V /\ b \in V /\ c \in V /\ Triple(a, b, c) /\ Passed(a, b)
    <2>1. PICK t : t = <<a, b, c>>
      OBVIOUS
    <2>2. t[1] = a /\ t[2] = b /\ t[3] = c
      BY <2>1
    <2> QED
      BY <1>4, <1>5, <2>1, <2>2
  <1> QED
    BY <1>1, <1>4, <1>6, <1>8, <1>9

LEMMA ListsRise ==
  ASSUME TrianglePlace, NEW u \in Vertices
  PROVE  /\ graph[u] \in Seq(Vertices) /\ Rises(graph[u]) /\ Len(graph[u]) \in Nat
         /\ DOMAIN graph[u] = 1..Len(graph[u])
         /\ \A i \in 1..Len(graph[u]) : graph[u][i] \in Vertices
         /\ \A i, j \in 1..Len(graph[u]) : graph[u][i] = graph[u][j] => i = j
  <1>1. graph[u] \in Seq(Vertices) /\ Rises(graph[u])
    BY DEF TrianglePlace, Adjacency
  <1>2. PICK n \in Nat : n = Len(graph[u]) /\ DOMAIN graph[u] = 1..n /\ \A i \in 1..n : graph[u][i] \in Vertices
    BY <1>1, LenProperties, ElementOfSeq
  <1>3. \A i, j \in 1..n : i < j => graph[u][i] < graph[u][j]
    BY <1>1, <1>2 DEF Rises
  <1>4. \A v \in Vertices : v \in Int
    BY DEF Vertices
  <1>5. ASSUME NEW i \in 1..n, NEW j \in 1..n, graph[u][i] = graph[u][j] PROVE i = j
    <2>1. graph[u][i] \in Int /\ graph[u][j] \in Int
      BY <1>2, <1>4
    <2>2. ~(i < j) /\ ~(j < i)
      BY <1>3, <1>5, <2>1
    <2> QED
      BY <2>2
  <1> QED
    BY <1>1, <1>2, <1>5

LEMMA NeighboursAre ==
  ASSUME TrianglePlace, NEW u \in Vertices
  PROVE  Triangles!Neighbours(u) = NeighboursIn(graph, u)
  BY ListsRise DEF Triangles!Neighbours, NeighboursIn, Listed

LEMMA EdgeAt ==
  ASSUME TrianglePlace, Triangles!AtEdge
  PROVE  /\ start \in Vertices /\ start < N
         /\ position \in 1..Len(graph[start])
         /\ Triangles!Target \in Vertices /\ Triangles!Target = graph[start][position]
         /\ Listed(graph[start], Triangles!Target)
  <1>1. start < N /\ position <= Len(graph[start]) /\ start \in 0..N /\ position \in Nat \ {0}
    BY DEF Triangles!AtEdge, TrianglePlace
  <1>2. start \in Vertices
    BY <1>1, ComponentsAssumption DEF Vertices
  <1>3. position \in 1..Len(graph[start])
    BY <1>1, <1>2, ListsRise
  <1> QED
    BY <1>1, <1>2, <1>3, ListsRise DEF Triangles!Target, Listed

\* The edge at the position is passed; no other.
LEMMA PassesEdge ==
  ASSUME TrianglePlace, Triangles!AtEdge, position' = position + 1, UNCHANGED <<graph, start, algorithm>>
  PROVE  /\ TrianglePlace'
         /\ \A a, b \in Vertices : Passed(a, b)' <=> Passed(a, b) \/ (a = start /\ b = Triangles!Target)
         /\ ~Passed(start, Triangles!Target)
  <1>1. /\ start \in Vertices /\ position \in 1..Len(graph[start])
        /\ Triangles!Target = graph[start][position] /\ start \in Int
    BY EdgeAt DEF Vertices
  <1>2. PICK n \in Nat : n = Len(graph[start])
    BY <1>1, ListsRise
  <1>3. TrianglePlace'
    <2>1. position' \in Nat \ {0} /\ position' <= n + 1
      BY <1>1, <1>2
    <2> QED
      BY <1>2, <2>1 DEF TrianglePlace
  <1>4. \A i \in 1..n : i < position + 1 <=> i < position \/ i = position
    BY <1>1, <1>2
  <1>5. \A a, b \in Vertices : Passed(a, b)' <=> Passed(a, b) \/ (a = start /\ b = Triangles!Target)
    <2> TAKE a, b \in Vertices
    <2>1. Passed(a, b)' <=> a < start \/ (a = start /\ \E i \in 1..Len(graph[a]) : i < position + 1 /\ graph[a][i] = b)
      BY DEF Passed
    <2> QED
      BY <1>1, <1>2, <1>4, <2>1 DEF Passed
  <1>6. ~Passed(start, Triangles!Target)
    <2>1. ~(start < start)
      BY <1>1
    <2>2. \A i \in 1..Len(graph[start]) : graph[start][i] = graph[start][position] => i = position
      BY <1>1, ListsRise
    <2>3. ~(position < position)
      BY <1>1, <1>2
    <2> QED
      BY <1>1, <2>1, <2>2, <2>3 DEF Passed
  <1> QED
    BY <1>3, <1>5, <1>6

\* The triples that the edge is the first of are counted with it.
LEMMA CountsMore ==
  ASSUME TrianglePlace, Triangles!AtEdge, position' = position + 1, UNCHANGED <<graph, start, algorithm>>
  PROVE  /\ IsFiniteSet(Closing(start, Triangles!Target))
         /\ Cardinality(Counted') = Cardinality(Counted) + Cardinality(Closing(start, Triangles!Target))
  <1>1. PICK u \in Vertices, v \in Vertices : u = start /\ v = Triangles!Target
    BY EdgeAt
  <1>2. PICK W : W = Closing(u, v)
    OBVIOUS
  <1>3. IsFiniteSet(W)
    BY <1>2, VerticesFinite, FS_Subset DEF Closing
  <1>4. PICK F : F = {<<u, v, w>> : w \in W}
    OBVIOUS
  <1>5. IsFiniteSet(F) /\ Cardinality(F) = Cardinality(W)
    <2>1. PICK f : f = [w \in W |-> <<u, v, w>>]
      OBVIOUS
    <2>2. f \in [W -> F] /\ \A z \in F : \E w \in W : f[w] = z
      BY <1>4, <2>1
    <2>3. \A x, y \in W : f[x] = f[y] => x = y
      BY <2>1
    <2> QED
      BY <1>3, <2>2, <2>3, SameSize
  <1>6. PICK S, T : S = Counted /\ T = Counted'
    OBVIOUS
  <1>7. \A a, b, c : <<a, b, c>> \in S <=>
          a \in Vertices /\ b \in Vertices /\ c \in Vertices /\ Triple(a, b, c) /\ Passed(a, b)
    BY <1>6, CountedAre
  <1>8. \A a, b, c : Triple(a, b, c)' <=> Triple(a, b, c)
    BY DEF Triple
  <1>9. \A t : t \in T <=> t \in Vertices \X Vertices \X Vertices /\ Triple(t[1], t[2], t[3]) /\ Passed(t[1], t[2])'
    BY <1>6, <1>8 DEF Counted, Vertices
  <1>10. \A a, b \in Vertices : Passed(a, b)' <=> Passed(a, b) \/ (a = u /\ b = v)
    BY <1>1, PassesEdge
  <1>11. ~Passed(u, v)
    BY <1>1, PassesEdge
  <1>12. \A c : c \in W <=> c \in Vertices /\ Triple(u, v, c)
    BY <1>2 DEF Closing
  <1>13. ASSUME NEW a \in Vertices, NEW b \in Vertices, NEW c \in Vertices
         PROVE  <<a, b, c>> \in T <=> <<a, b, c>> \in S \/ <<a, b, c>> \in F
    <2>1. <<a, b, c>> \in T <=> Triple(a, b, c) /\ Passed(a, b)'
      <3>1. PICK t : t = <<a, b, c>>
        OBVIOUS
      <3>2. t[1] = a /\ t[2] = b /\ t[3] = c /\ t \in Vertices \X Vertices \X Vertices
        BY <3>1
      <3> QED
        BY <1>9, <3>1, <3>2
    <2>2. <<a, b, c>> \in F <=> a = u /\ b = v /\ c \in W
      BY <1>4
    <2> QED
      BY <1>7, <1>10, <1>12, <2>1, <2>2
  <1>14. T = S \cup F
    <2>1. \A t \in T : \E a, b, c \in Vertices : t = <<a, b, c>>
      BY <1>9
    <2>2. \A t \in S : \E a, b, c \in Vertices : t = <<a, b, c>>
      BY <1>6, CountedAre
    <2>3. \A t \in F : \E a, b, c \in Vertices : t = <<a, b, c>>
      BY <1>4, <1>12
    <2> QED
      BY <1>13, <2>1, <2>2, <2>3
  <1>15. S \cap F = {}
    <2>1. \A w : <<u, v, w>> \notin S
      BY <1>7, <1>11
    <2> QED
      BY <1>4, <2>1
  <1>16. IsFiniteSet(S) /\ Cardinality(S) \in Nat
    BY <1>6, CountedAre, FS_CardinalityType
  <1>17. Cardinality(F) \in Nat
    BY <1>5, FS_CardinalityType
  <1>18. Cardinality(T) = Cardinality(S) + Cardinality(F)
    <2>1. Cardinality(T) = Cardinality(S) + Cardinality(F) - Cardinality(S \cap F)
      BY <1>5, <1>14, <1>16, FS_Union
    <2>2. Cardinality(S \cap F) = 0
      BY <1>15, FS_EmptySet
    <2> QED
      BY <1>16, <1>17, <2>1, <2>2
  <1> QED
    BY <1>1, <1>2, <1>3, <1>5, <1>6, <1>18

\* What the merge counts.
LEMMA ClosingUp ==
  ASSUME TrianglePlace, Triangles!AtEdge, algorithm = "triangle_count", start < Triangles!Target
  PROVE  Triangles!Common(graph[start], graph[Triangles!Target], position + 1, (Triangles!Target + 1)..(N - 1))
           = Cardinality(Closing(start, Triangles!Target))
  <1>1. PICK u \in Vertices, v \in Vertices : u = start /\ v = Triangles!Target /\ Listed(graph[u], v)
    BY EdgeAt
  <1>2. PICK us \in Seq(Vertices), vs \in Seq(Vertices) : us = graph[u] /\ vs = graph[v] /\ Rises(us) /\ Rises(vs)
    BY <1>1, ListsRise
  <1>3. PICK m \in Nat, n \in Nat : m = Len(us) /\ n = Len(vs)
    BY LenProperties
  <1>4. /\ position \in 1..m /\ us[position] = v
        /\ \A a \in 1..m : us[a] \in Vertices
        /\ \A i, j \in 1..m : i < j => us[i] < us[j]
    BY <1>1, <1>2, <1>3, EdgeAt, ListsRise DEF Rises
  <1>5. PICK C : C = (v + 1)..(N - 1)
    OBVIOUS
  <1>6. position + 1 \in 1..(Len(us) + 1)
    BY <1>3, <1>4
  <1>7. Triangles!Common(us, vs, position + 1, C) = Cardinality(SharedFrom(us, vs, position + 1, 1, C))
    BY <1>2, <1>6, CommonIs
  <1>8. /\ \A w : w \in C <=> w \in Vertices /\ v < w
        /\ \A w \in Vertices : w \in Int
        /\ \A w \in Vertices : u < v /\ v < w => u # v /\ u # w /\ v # w
    BY <1>1, <1>5, ComponentsAssumption DEF Vertices
  <1>9. \A a \in 1..m : v < us[a] <=> a >= position + 1
    <2> TAKE a \in 1..m
    <2>1. a \in Int /\ position \in Int /\ us[a] \in Int /\ us[position] \in Int
      BY <1>3, <1>4, <1>8
    <2>2. (a < position => us[a] < us[position]) /\ (position < a => us[position] < us[a])
      BY <1>4
    <2> QED
      BY <1>4, <2>1, <2>2
  <1>10. \A b \in 1..n : b >= 1
    BY <1>3
  <1>11. u < v
    BY <1>1
  <1>12. ASSUME NEW w PROVE w \in SharedFrom(us, vs, position + 1, 1, C) <=> w \in Closing(u, v)
    <2>1. w \in Closing(u, v) <=> w \in Vertices /\ v < w /\ Listed(us, w) /\ Listed(vs, w)
      BY <1>1, <1>2, <1>8, <1>11 DEF Closing, Triple
    <2>2. w \in SharedFrom(us, vs, position + 1, 1, C) <=>
            w \in C /\ (\E a \in 1..m : a >= position + 1 /\ us[a] = w) /\ (\E b \in 1..n : b >= 1 /\ vs[b] = w)
      BY <1>3 DEF SharedFrom
    <2>3. Listed(us, w) /\ v < w <=> \E a \in 1..m : a >= position + 1 /\ us[a] = w
      BY <1>3, <1>4, <1>9, <1>8 DEF Listed
    <2>4. Listed(vs, w) <=> \E b \in 1..n : b >= 1 /\ vs[b] = w
      BY <1>3, <1>10 DEF Listed
    <2>5. w \in C <=> w \in Vertices /\ v < w
      BY <1>8
    <2> QED
      BY <2>1, <2>2, <2>3, <2>4, <2>5
  <1>13. SharedFrom(us, vs, position + 1, 1, C) = Closing(u, v)
    BY <1>12
  <1> QED
    BY <1>1, <1>2, <1>5, <1>7, <1>13

LEMMA ClosingDirected ==
  ASSUME TrianglePlace, Triangles!AtEdge, algorithm = "directed_triangle_count", start # Triangles!Target
  PROVE  Triangles!Common(graph[start], graph[Triangles!Target], 1, Vertices \ {start, Triangles!Target})
           = Cardinality(Closing(start, Triangles!Target))
  <1>1. PICK u \in Vertices, v \in Vertices : u = start /\ v = Triangles!Target /\ Listed(graph[u], v)
    BY EdgeAt
  <1>2. PICK us \in Seq(Vertices), vs \in Seq(Vertices) : us = graph[u] /\ vs = graph[v] /\ Rises(us) /\ Rises(vs)
    BY <1>1, ListsRise
  <1>3. PICK m \in Nat, n \in Nat : m = Len(us) /\ n = Len(vs)
    BY LenProperties
  <1>4. PICK C : C = Vertices \ {u, v}
    OBVIOUS
  <1>5. 1 \in 1..(Len(us) + 1)
    BY <1>3
  <1>6. Triangles!Common(us, vs, 1, C) = Cardinality(SharedFrom(us, vs, 1, 1, C))
    BY <1>2, <1>5, CommonIs
  <1>7. (\A a \in 1..m : a >= 1) /\ \A b \in 1..n : b >= 1
    BY <1>3
  <1>8. ASSUME NEW w PROVE w \in SharedFrom(us, vs, 1, 1, C) <=> w \in Closing(u, v)
    <2>1. w \in Closing(u, v) <=> w \in Vertices /\ w # u /\ w # v /\ Listed(us, w) /\ Listed(vs, w)
      BY <1>1, <1>2 DEF Closing, Triple
    <2>2. w \in SharedFrom(us, vs, 1, 1, C) <=>
            w \in C /\ (\E a \in 1..m : a >= 1 /\ us[a] = w) /\ (\E b \in 1..n : b >= 1 /\ vs[b] = w)
      BY <1>3 DEF SharedFrom
    <2>3. Listed(us, w) <=> \E a \in 1..m : a >= 1 /\ us[a] = w
      BY <1>3, <1>7 DEF Listed
    <2>4. Listed(vs, w) <=> \E b \in 1..n : b >= 1 /\ vs[b] = w
      BY <1>3, <1>7 DEF Listed
    <2> QED
      BY <1>4, <2>1, <2>2, <2>3, <2>4
  <1>9. SharedFrom(us, vs, 1, 1, C) = Closing(u, v)
    BY <1>8
  <1> QED
    BY <1>1, <1>2, <1>4, <1>6, <1>9

\* The edges of a triple that does not rise are not passed over.
LEMMA NothingCloses ==
  ASSUME NEW u, NEW v, u = v \/ (algorithm = "triangle_count" /\ ~(u < v))
  PROVE  Closing(u, v) = {} /\ Cardinality(Closing(u, v)) = 0
  <1>1. Closing(u, v) = {}
    BY DEF Closing, Triple
  <1> QED
    BY <1>1, FS_EmptySet

LEMMA CountTrianglesKeeps ==
  ASSUME TriangleInv, Triangles!CountTriangles, algorithm' = algorithm
  PROVE  TriangleInv'
  <1>1. /\ algorithm = "triangle_count" /\ Triangles!AtEdge /\ position' = position + 1
        /\ UNCHANGED <<algorithm, graph, start, reported>>
        /\ triangles' = IF start < Triangles!Target
                        THEN triangles + Triangles!Common(graph[start], graph[Triangles!Target], position + 1,
                                                          (Triangles!Target + 1)..(N - 1))
                        ELSE triangles
    BY DEF Triangles!CountTriangles
  <1>2. TrianglePlace /\ triangles = Cardinality(Counted)
    BY <1>1 DEF TriangleInv
  <1>3. PICK c : c = Cardinality(Closing(start, Triangles!Target))
    OBVIOUS
  <1>4. Cardinality(Counted') = triangles + c /\ triangles \in Nat
    BY <1>1, <1>2, <1>3, CountsMore, CountedAre, FS_CardinalityType
  <1>5. triangles' = Cardinality(Counted')
    <2>1. CASE start < Triangles!Target
      BY <1>1, <1>2, <1>3, <1>4, <2>1, ClosingUp
    <2>2. CASE ~(start < Triangles!Target)
      <3>1. c = 0
        BY <1>1, <1>3, <2>2, NothingCloses
      <3> QED
        BY <1>1, <1>4, <2>2, <3>1
    <2> QED
      BY <2>1, <2>2
  <1>6. TrianglePlace'
    BY <1>1, <1>2, PassesEdge
  <1>7. Cardinality(Counted)' = Cardinality(Counted')
    BY DEF Cardinality
  <1> QED
    BY <1>1, <1>5, <1>6, <1>7 DEF TriangleInv

LEMMA CountDirectedKeeps ==
  ASSUME TriangleInv, Triangles!CountDirected, algorithm' = algorithm
  PROVE  TriangleInv'
  <1>1. /\ algorithm = "directed_triangle_count" /\ Triangles!AtEdge /\ position' = position + 1
        /\ UNCHANGED <<algorithm, graph, start, reported>>
        /\ triangles' = IF start # Triangles!Target
                        THEN triangles + Triangles!Common(graph[start], graph[Triangles!Target], 1,
                                                          Vertices \ {start, Triangles!Target})
                        ELSE triangles
    BY DEF Triangles!CountDirected, Triangles!Vertices, Vertices
  <1>2. TrianglePlace /\ triangles = Cardinality(Counted)
    BY <1>1 DEF TriangleInv
  <1>3. PICK c : c = Cardinality(Closing(start, Triangles!Target))
    OBVIOUS
  <1>4. Cardinality(Counted') = triangles + c /\ triangles \in Nat
    BY <1>1, <1>2, <1>3, CountsMore, CountedAre, FS_CardinalityType
  <1>5. triangles' = Cardinality(Counted')
    <2>1. CASE start # Triangles!Target
      BY <1>1, <1>2, <1>3, <1>4, <2>1, ClosingDirected
    <2>2. CASE start = Triangles!Target
      <3>1. c = 0
        BY <1>3, <2>2, NothingCloses
      <3> QED
        BY <1>1, <1>4, <2>2, <3>1
    <2> QED
      BY <2>1, <2>2
  <1>6. TrianglePlace'
    BY <1>1, <1>2, PassesEdge
  <1>7. Cardinality(Counted)' = Cardinality(Counted')
    BY DEF Cardinality
  <1> QED
    BY <1>1, <1>5, <1>6, <1>7 DEF TriangleInv

LEMMA ReportKeeps ==
  ASSUME TriangleInv, Triangles!Report, algorithm' = algorithm
  PROVE  TriangleInv'
  <1>1. /\ algorithm = "jaccard_coefficient" /\ Triangles!AtEdge /\ position' = position + 1
        /\ UNCHANGED <<algorithm, graph, start, triangles>>
        /\ TrianglePlace /\ Reports(graph, reported, start, position)
    BY DEF Triangles!Report, TriangleInv
  <1>2. PICK u \in Vertices, v \in Vertices : /\ u = start /\ v = Triangles!Target /\ v = graph[u][position]
                                              /\ position \in 1..Len(graph[u])
    BY <1>1, EdgeAt
  <1>3. PICK A, B : A = NeighboursIn(graph, u) /\ B = NeighboursIn(graph, v)
    OBVIOUS
  <1>4. IsFiniteSet(A) /\ IsFiniteSet(B)
    BY <1>3, VerticesFinite, FS_Subset DEF NeighboursIn
  <1>5. PICK shared, all : /\ shared = Cardinality(A \cap B)
                           /\ all = Cardinality(A) + Cardinality(B) - Cardinality(A \cap B)
    OBVIOUS
  <1>6. all = Cardinality(A \cup B)
    BY <1>4, <1>5, FS_Union
  <1>7. PICK new : new = [u |-> u, at |-> position, shared |-> shared, all |-> all]
    OBVIOUS
  <1>8. reported' = IF v = u THEN reported ELSE reported \cup {new}
    <2>1. Triangles!Neighbours(u) = A /\ Triangles!Neighbours(v) = B
      BY <1>1, <1>2, <1>3, NeighboursAre
    <2>2. /\ Triangles!Cardinality(A) = Cardinality(A) /\ Triangles!Cardinality(B) = Cardinality(B)
          /\ Triangles!Cardinality(A \cap B) = Cardinality(A \cap B)
      BY DEF Triangles!Cardinality, Cardinality
    <2> QED
      BY <1>2, <1>5, <1>7, <2>1, <2>2 DEF Triangles!Report
  <1>9. new.u = u /\ new.at = position /\ new.shared = shared /\ new.all = all
    BY <1>7
  <1>11. ASSUME NEW r \in reported'
         PROVE  /\ r.u \in Vertices /\ r.at \in 1..Len(graph[r.u]) /\ graph[r.u][r.at] # r.u
                /\ r.shared = Cardinality(NeighboursIn(graph, r.u) \cap NeighboursIn(graph, graph[r.u][r.at]))
                /\ r.all = Cardinality(NeighboursIn(graph, r.u) \cup NeighboursIn(graph, graph[r.u][r.at]))
    <2>1. CASE r \in reported
      BY <1>1, <2>1 DEF Reports
    <2>2. CASE r \notin reported
      <3>1. r = new /\ v # u
        BY <1>8, <2>2
      <3> QED
        BY <1>2, <1>3, <1>5, <1>6, <1>9, <3>1
    <2> QED
      BY <2>1, <2>2
  <1>12. ASSUME NEW x \in Vertices, NEW i \in 1..Len(graph[x]), x < start \/ (x = start /\ i < position + 1),
                graph[x][i] # x
         PROVE  \E r \in reported' : r.u = x /\ r.at = i
    <2>1. CASE x < start \/ (x = start /\ i < position)
      <3>1. \E r \in reported : r.u = x /\ r.at = i
        BY <1>1, <1>12, <2>1 DEF Reports
      <3> QED
        BY <1>8, <3>1
    <2>2. CASE ~(x < start \/ (x = start /\ i < position))
      <3>1. x = u /\ i = position
        <4>1. position \in Int /\ i \in Int
          BY <1>1 DEF TrianglePlace
        <4> QED
          BY <1>2, <1>12, <2>2, <4>1
      <3>2. v # u
        BY <1>2, <1>12, <3>1
      <3>3. new \in reported'
        BY <1>8, <3>2
      <3> QED
        BY <1>9, <3>1, <3>3
    <2> QED
      BY <2>1, <2>2
  <1>13. Reports(graph, reported', start, position + 1)
    BY <1>11, <1>12 DEF Reports
  <1>14. TrianglePlace'
    BY <1>1, PassesEdge
  <1> QED
    BY <1>1, <1>13, <1>14 DEF TriangleInv

LEMMA NextVertexKeeps ==
  ASSUME TriangleInv, Triangles!NextVertex, algorithm' = algorithm
  PROVE  TriangleInv'
  <1>1. /\ start < N /\ start' = start + 1 /\ position' = 1
        /\ UNCHANGED <<algorithm, graph, triangles, reported>>
        /\ ~(position <= Len(graph[start]))
        /\ TrianglePlace /\ start \in 0..N /\ position \in Nat \ {0}
    BY DEF Triangles!NextVertex, Triangles!AtEdge, TriangleInv, TrianglePlace
  <1>2. start \in Vertices /\ start \in Nat /\ start + 1 \in 0..N
    BY <1>1, ComponentsAssumption DEF Vertices
  <1>3. TrianglePlace'
    <2>1. start + 1 < N => start + 1 \in Vertices
      BY <1>2, ComponentsAssumption DEF Vertices
    <2>2. start + 1 < N => Len(graph[start + 1]) \in Nat
      BY <1>1, <2>1, ListsRise
    <2> QED
      BY <1>1, <1>2, <2>2 DEF TrianglePlace
  <1>4. \A x \in Vertices : x < start + 1 <=> x < start \/ x = start
    BY <1>2 DEF Vertices
  <1>5. \A i \in 1..Len(graph[start]) : i < position
    BY <1>1, <1>2, ListsRise
  <1>6. \A x \in Vertices : \A i \in 1..Len(graph[x]) : ~(i < 1)
    BY <1>1, ListsRise
  <1>7. ASSUME NEW a \in Vertices, NEW b, Listed(graph[a], b) PROVE Passed(a, b)' <=> Passed(a, b)
    <2>1. Passed(a, b)' <=> a < start + 1
      BY <1>1, <1>6 DEF Passed
    <2>2. Passed(a, b) <=> a < start \/ a = start
      BY <1>5, <1>7 DEF Passed, Listed
    <2> QED
      BY <1>4, <2>1, <2>2
  <1>8. \A a, b, c : Triple(a, b, c)' <=> Triple(a, b, c)
    BY <1>1 DEF Triple
  <1>9. Counted' = Counted
    <2>1. \A t \in Vertices \X Vertices \X Vertices : t[1] \in Vertices
      OBVIOUS
    <2>2. \A a \in Vertices : \A b, c : Triple(a, b, c) => (Passed(a, b)' <=> Passed(a, b))
      BY <1>7 DEF Triple
    <2>3. \A t : t \in Counted' <=> t \in Vertices \X Vertices \X Vertices /\ Triple(t[1], t[2], t[3]) /\ Passed(t[1], t[2])'
      BY <1>8 DEF Counted, Vertices
    <2>4. \A t : t \in Counted <=> t \in Vertices \X Vertices \X Vertices /\ Triple(t[1], t[2], t[3]) /\ Passed(t[1], t[2])
      BY DEF Counted
    <2> QED
      BY <2>1, <2>2, <2>3, <2>4
  <1>10. Reports(graph, reported, start, position) => Reports(graph, reported, start + 1, 1)
    <2>1. ASSUME NEW x \in Vertices, NEW i \in 1..Len(graph[x]), x < start + 1 \/ (x = start + 1 /\ i < 1)
          PROVE  x < start \/ (x = start /\ i < position)
      BY <1>4, <1>5, <1>6, <2>1
    <2> QED
      BY <2>1 DEF Reports
  <1>11. Cardinality(Counted)' = Cardinality(Counted)
    BY <1>9 DEF Cardinality
  <1> QED
    BY <1>1, <1>3, <1>10, <1>11 DEF TriangleInv

LEMMA TriangleStep ==
  ASSUME TriangleInv, Triangles!Next, algorithm' = algorithm
  PROVE  TriangleInv'
  BY CountTrianglesKeeps, CountDirectedKeeps, ReportKeeps, NextVertexKeeps DEF Triangles!Next

LEMMA TriangleBegins ==
  ASSUME Init, algorithm \in Counting
  PROVE  TriangleInv
  <1>1. position = 1 /\ triangles = 0 /\ reported = {}
    BY DEF Init, Triangles!Init
  <1>2. start = 0
    BY DEF Init, Connected!Init
  <1>3. graph \in SimpleLists /\ (algorithm = "triangle_count" => GoBothWays(graph))
    BY DEF Init, Undirected, Counting
  <1>4. graph \in Adjacency /\ \A u \in Vertices : Rises(graph[u])
    BY <1>3, SimpleListsAre DEF Rises
  <1>5. algorithm = "triangle_count" => \A u, v \in Vertices : Listed(graph[u], v) => Listed(graph[v], u)
    BY <1>3, <1>4, GoBothWaysIs
  <1>6. TrianglePlace
    <2>1. 0 < N => 0 \in Vertices
      BY ComponentsAssumption DEF Vertices
    <2>2. 0 < N => Len(graph[0]) \in Nat
      BY <1>4, <2>1, LenProperties DEF Adjacency
    <2> QED
      BY <1>1, <1>2, <1>4, <1>5, <2>2, ComponentsAssumption DEF TrianglePlace
  <1>7. \A a \in Vertices : \A b : ~Passed(a, b)
    <2>1. \A a \in Vertices : ~(a < 0) /\ \A i \in 1..Len(graph[a]) : ~(i < 1)
      BY <1>6, ListsRise DEF Vertices
    <2> QED
      BY <1>1, <1>2, <2>1 DEF Passed
  <1>8. Cardinality(Counted) = 0
    <2>1. Counted = {}
      BY <1>7, CountedAre
    <2> QED
      BY <2>1, FS_EmptySet
  <1>9. Reports(graph, reported, start, position)
    <2>1. \A u \in Vertices : \A i \in 1..Len(graph[u]) : ~(u < 0) /\ ~(i < 1)
      BY <1>6, ListsRise DEF Vertices
    <2> QED
      BY <1>1, <1>2, <2>1 DEF Reports
  <1> QED
    BY <1>1, <1>6, <1>8, <1>9 DEF TriangleInv

\* The triples of TriangleCount, in ascending order if they are to be.
LEMMA TriplesAre ==
  ASSUME TrianglePlace
  PROVE  /\ \A a, b, c : <<a, b, c>> \in Triangles!Triples <=>
              /\ a \in Vertices /\ b \in Vertices /\ c \in Vertices
              /\ a # b /\ a # c /\ b # c
              /\ Listed(graph[a], b) /\ Listed(graph[a], c) /\ Listed(graph[b], c)
         /\ \A t \in Triangles!Triples : \E a, b, c \in Vertices : t = <<a, b, c>>
  <1>1. PICK P : P = Vertices \X Vertices \X Vertices
    OBVIOUS
  <1>2. \A t : t \in Triangles!Triples <=>
          /\ t \in P
          /\ t[1] # t[2] /\ t[1] # t[3] /\ t[2] # t[3]
          /\ {t[2], t[3]} \subseteq Triangles!Neighbours(t[1]) /\ t[3] \in Triangles!Neighbours(t[2])
    BY <1>1 DEF Triangles!Triples, Triangles!Vertices, Vertices
  <1>3. \A u \in Vertices : \A v : v \in Triangles!Neighbours(u) <=> v \in Vertices /\ Listed(graph[u], v) /\ v # u
    BY NeighboursAre DEF NeighboursIn
  <1>4. ASSUME NEW a, NEW b, NEW c
        PROVE  <<a, b, c>> \in Triangles!Triples <=>
                 /\ a \in Vertices /\ b \in Vertices /\ c \in Vertices
                 /\ a # b /\ a # c /\ b # c
                 /\ Listed(graph[a], b) /\ Listed(graph[a], c) /\ Listed(graph[b], c)
    <2>1. PICK t : t = <<a, b, c>>
      OBVIOUS
    <2>2. t[1] = a /\ t[2] = b /\ t[3] = c
      BY <2>1
    <2>3. t \in P <=> a \in Vertices /\ b \in Vertices /\ c \in Vertices
      BY <1>1, <2>1
    <2>4. t \in Triangles!Triples <=>
            /\ t \in P
            /\ a # b /\ a # c /\ b # c
            /\ b \in Triangles!Neighbours(a) /\ c \in Triangles!Neighbours(a) /\ c \in Triangles!Neighbours(b)
      BY <1>2, <2>2
    <2> QED
      BY <1>3, <2>1, <2>3, <2>4
  <1>5. \A t \in P : \E a, b, c \in Vertices : t = <<a, b, c>>
    BY <1>1
  <1> QED
    BY <1>2, <1>4, <1>5

LEMMA AllPassed ==
  ASSUME TrianglePlace, start = N
  PROVE  \A a \in Vertices : \A b : Passed(a, b)
  <1>1. \A a \in Vertices : a < N
    BY ComponentsAssumption DEF Vertices
  <1> QED
    BY <1>1 DEF Passed

LEMMA DirectedExact ==
  ASSUME TriangleInv, start = N, algorithm = "directed_triangle_count"
  PROVE  triangles = Triangles!Cardinality(Triangles!Triples)
  <1>1. TrianglePlace /\ triangles = Cardinality(Counted)
    BY DEF TriangleInv
  <1>2. ASSUME NEW a \in Vertices, NEW b \in Vertices, NEW c \in Vertices
        PROVE  <<a, b, c>> \in Counted <=> <<a, b, c>> \in Triangles!Triples
    BY <1>1, CountedAre, TriplesAre, AllPassed DEF Triple
  <1>3. Counted = Triangles!Triples
    <2>1. \A t \in Counted : \E a, b, c \in Vertices : t = <<a, b, c>>
      BY CountedAre
    <2>2. \A t \in Triangles!Triples : \E a, b, c \in Vertices : t = <<a, b, c>>
      BY <1>1, TriplesAre
    <2> QED
      BY <1>2, <2>1, <2>2
  <1>4. Triangles!Cardinality(Counted) = Cardinality(Counted)
    BY DEF Triangles!Cardinality, Cardinality
  <1> QED
    BY <1>1, <1>3, <1>4

Corners(a, b, c) == {a, b, c}

\* Three different vertices with edges both ways are one triple in ascending order.
LEMMA InOneOrder ==
  ASSUME TriangleInv, start = N, algorithm = "triangle_count"
  PROVE  \A a, b, c \in Vertices : <<a, b, c>> \in Triangles!Triples =>
           \E x, y, z \in Vertices : <<x, y, z>> \in Counted /\ Corners(x, y, z) = Corners(a, b, c)
  <1> SUFFICES ASSUME NEW a \in Vertices, NEW b \in Vertices, NEW c \in Vertices, <<a, b, c>> \in Triangles!Triples
               PROVE  \E x, y, z \in Vertices : <<x, y, z>> \in Counted /\ Corners(x, y, z) = Corners(a, b, c)
    OBVIOUS
  <1>1. TrianglePlace /\ \A u, v \in Vertices : Listed(graph[u], v) => Listed(graph[v], u)
    BY DEF TriangleInv, TrianglePlace
  <1>2. /\ a # b /\ a # c /\ b # c
        /\ Listed(graph[a], b) /\ Listed(graph[a], c) /\ Listed(graph[b], c)
    BY <1>1, TriplesAre
  <1>3. Listed(graph[b], a) /\ Listed(graph[c], a) /\ Listed(graph[c], b)
    BY <1>1, <1>2
  <1>4. ASSUME NEW x \in Vertices, NEW y \in Vertices, NEW z \in Vertices, x < y, y < z,
               Listed(graph[x], y), Listed(graph[x], z), Listed(graph[y], z)
        PROVE  <<x, y, z>> \in Counted
    <2>1. x # y /\ x # z /\ y # z
      BY <1>4 DEF Vertices
    <2> QED
      BY <1>1, <1>4, <2>1, CountedAre, AllPassed DEF Triple
  <1>5. a \in Int /\ b \in Int /\ c \in Int
    BY DEF Vertices
  <1>6. \/ a < b /\ b < c
        \/ a < c /\ c < b
        \/ b < a /\ a < c
        \/ b < c /\ c < a
        \/ c < a /\ a < b
        \/ c < b /\ b < a
    BY <1>2, <1>5
  <1>7. /\ Corners(a, c, b) = Corners(a, b, c) /\ Corners(b, a, c) = Corners(a, b, c)
        /\ Corners(b, c, a) = Corners(a, b, c) /\ Corners(c, a, b) = Corners(a, b, c)
        /\ Corners(c, b, a) = Corners(a, b, c)
    BY DEF Corners
  <1>8. CASE a < b /\ b < c
    BY <1>2, <1>4, <1>8
  <1>9. CASE a < c /\ c < b
    BY <1>2, <1>3, <1>4, <1>7, <1>9
  <1>10. CASE b < a /\ a < c
    BY <1>2, <1>3, <1>4, <1>7, <1>10
  <1>11. CASE b < c /\ c < a
    BY <1>2, <1>3, <1>4, <1>7, <1>11
  <1>12. CASE c < a /\ a < b
    BY <1>2, <1>3, <1>4, <1>7, <1>12
  <1>13. CASE c < b /\ b < a
    BY <1>2, <1>3, <1>4, <1>7, <1>13
  <1> QED
    BY <1>6, <1>8, <1>9, <1>10, <1>11, <1>12, <1>13

LEMMA TrianglesExact ==
  ASSUME TriangleInv, start = N, algorithm = "triangle_count"
  PROVE  triangles = Triangles!Cardinality({{t[1], t[2], t[3]} : t \in Triangles!Triples})
  <1>1. TrianglePlace /\ triangles = Cardinality(Counted)
    BY DEF TriangleInv
  <1>2. PICK S : S = Counted
    OBVIOUS
  <1>3. PICK T : T = {{t[1], t[2], t[3]} : t \in Triangles!Triples}
    OBVIOUS
  <1>4. PICK f : f = [t \in S |-> {t[1], t[2], t[3]}]
    OBVIOUS
  <1>5. ASSUME NEW t \in S
        PROVE  \E a, b, c \in Vertices : t = <<a, b, c>> /\ f[t] = {a, b, c} /\ a < b /\ b < c /\ t \in Triangles!Triples
    <2>1. PICK a \in Vertices, b \in Vertices, c \in Vertices : t = <<a, b, c>>
      BY <1>2, CountedAre
    <2>2. t[1] = a /\ t[2] = b /\ t[3] = c
      BY <2>1
    <2>3. Triple(a, b, c)
      BY <1>2, <2>1, CountedAre
    <2>4. t \in Triangles!Triples
      BY <1>1, <2>1, <2>3, TriplesAre DEF Triple
    <2>5. a < b /\ b < c
      BY <2>3 DEF Triple
    <2> QED
      BY <1>4, <2>1, <2>2, <2>4, <2>5
  <1>6. f \in [S -> T]
    <2>1. ASSUME NEW t \in S PROVE f[t] \in T
      <3>1. t \in Triangles!Triples
        BY <1>5
      <3> QED
        BY <1>3, <1>4, <3>1
    <2> QED
      BY <1>4, <2>1
  <1>7. ASSUME NEW s \in S, NEW t \in S, f[s] = f[t] PROVE s = t
    <2>1. PICK a \in Vertices, b \in Vertices, c \in Vertices : s = <<a, b, c>> /\ f[s] = {a, b, c} /\ a < b /\ b < c
      BY <1>5
    <2>2. PICK x \in Vertices, y \in Vertices, z \in Vertices : t = <<x, y, z>> /\ f[t] = {x, y, z} /\ x < y /\ y < z
      BY <1>5
    <2>3. (a = x \/ a = y \/ a = z) /\ (b = x \/ b = y \/ b = z) /\ (c = x \/ c = y \/ c = z)
      <3>1. a \in f[t] /\ b \in f[t] /\ c \in f[t]
        BY <1>7, <2>1
      <3> QED
        BY <2>2, <3>1
    <2>4. /\ a \in Int /\ b \in Int /\ c \in Int
          /\ x \in Int /\ y \in Int /\ z \in Int
      BY DEF Vertices
    <2>5. a = x /\ b = y /\ c = z
      BY <2>1, <2>2, <2>3, <2>4
    <2> QED
      BY <2>1, <2>2, <2>5
  <1>12. \A a, b, c \in Vertices : <<a, b, c>> \in Triangles!Triples =>
           \E x, y, z \in Vertices : <<x, y, z>> \in Counted /\ Corners(x, y, z) = Corners(a, b, c)
    BY InOneOrder
  <1>8. ASSUME NEW A \in T PROVE \E t \in S : f[t] = A
    <2>1. PICK s \in Triangles!Triples : A = {s[1], s[2], s[3]}
      BY <1>3
    <2>2. PICK a \in Vertices, b \in Vertices, c \in Vertices : s = <<a, b, c>>
      BY <1>1, <2>1, TriplesAre
    <2>3. A = Corners(a, b, c)
      <3>1. s[1] = a /\ s[2] = b /\ s[3] = c
        BY <2>2
      <3> QED
        BY <2>1, <3>1 DEF Corners
    <2>4. <<a, b, c>> \in Triangles!Triples
      BY <2>1, <2>2
    <2>10. \E x, y, z \in Vertices :
            <<x, y, z>> \in Counted /\ Corners(x, y, z) = Corners(a, b, c)
      BY <1>12, <2>2, <2>4
    <2>5. PICK x \in Vertices, y \in Vertices, z \in Vertices :
            <<x, y, z>> \in S /\ Corners(x, y, z) = Corners(a, b, c)
      BY <1>2, <2>10
    <2>6. PICK t \in S : t = <<x, y, z>>
      BY <2>5
    <2>7. t[1] = x /\ t[2] = y /\ t[3] = z
      BY <2>6
    <2>8. f[t] = Corners(x, y, z)
      BY <1>4, <2>7 DEF Corners
    <2> QED
      BY <2>3, <2>5, <2>8
  <1>9. IsFiniteSet(S)
    BY <1>2, CountedAre
  <1>10. Cardinality(T) = Cardinality(S)
    BY <1>6, <1>7, <1>8, <1>9, SameSize
  <1>11. Triangles!Cardinality(T) = Cardinality(T)
    BY DEF Triangles!Cardinality, Cardinality
  <1> QED
    BY <1>1, <1>2, <1>3, <1>10, <1>11

LEMMA CoefficientsExact ==
  ASSUME TriangleInv, start = N, algorithm = "jaccard_coefficient"
  PROVE  /\ {<<r.u, graph[r.u][r.at]>> : r \in reported} =
              {e \in Triangles!Vertices \X Triangles!Vertices : e[2] \in Triangles!Neighbours(e[1])}
         /\ \A r \in reported :
              /\ r.shared = Triangles!Cardinality(Triangles!Neighbours(r.u) \cap Triangles!Neighbours(graph[r.u][r.at]))
              /\ r.all = Triangles!Cardinality(Triangles!Neighbours(r.u) \cup Triangles!Neighbours(graph[r.u][r.at]))
              /\ r.all > 0
  <1>1. TrianglePlace /\ Reports(graph, reported, start, position)
    BY DEF TriangleInv
  <1>2. Triangles!Vertices = Vertices
    BY DEF Triangles!Vertices, Vertices
  <1>3. \A u \in Vertices : u < start
    BY ComponentsAssumption DEF Vertices
  <1>4. \A u \in Vertices : Triangles!Neighbours(u) = NeighboursIn(graph, u)
    BY <1>1, NeighboursAre
  <1>5. ASSUME NEW r \in reported
        PROVE  \E u, v \in Vertices :
                 /\ r.u = u /\ graph[r.u][r.at] = v /\ v \in NeighboursIn(graph, u)
                 /\ r.shared = Cardinality(NeighboursIn(graph, u) \cap NeighboursIn(graph, v))
                 /\ r.all = Cardinality(NeighboursIn(graph, u) \cup NeighboursIn(graph, v))
    <2>1. /\ r.u \in Vertices /\ r.at \in 1..Len(graph[r.u]) /\ graph[r.u][r.at] # r.u
          /\ r.shared = Cardinality(NeighboursIn(graph, r.u) \cap NeighboursIn(graph, graph[r.u][r.at]))
          /\ r.all = Cardinality(NeighboursIn(graph, r.u) \cup NeighboursIn(graph, graph[r.u][r.at]))
      BY <1>1 DEF Reports
    <2>2. PICK u \in Vertices, v \in Vertices : r.u = u /\ v = graph[r.u][r.at]
      BY <1>1, <2>1, ListsRise
    <2>3. v \in NeighboursIn(graph, u)
      BY <2>1, <2>2 DEF NeighboursIn, Listed
    <2> QED
      BY <2>1, <2>2, <2>3
  <1>6. ASSUME NEW u \in Vertices, NEW v \in NeighboursIn(graph, u)
        PROVE  \E r \in reported : r.u = u /\ graph[r.u][r.at] = v
    <2>1. PICK i \in 1..Len(graph[u]) : graph[u][i] = v /\ v # u
      BY DEF NeighboursIn, Listed
    <2>2. PICK r \in reported : r.u = u /\ r.at = i
      BY <1>1, <1>3, <2>1 DEF Reports
    <2> QED
      BY <2>1, <2>2
  <1>7. {<<r.u, graph[r.u][r.at]>> : r \in reported} = {e \in Vertices \X Vertices : e[2] \in Triangles!Neighbours(e[1])}
    <2>1. PICK A, B : /\ A = {<<r.u, graph[r.u][r.at]>> : r \in reported}
                      /\ B = {e \in Vertices \X Vertices : e[2] \in Triangles!Neighbours(e[1])}
      OBVIOUS
    <2>2. \A u, v \in Vertices : <<u, v>> \in B <=> v \in NeighboursIn(graph, u)
      BY <1>4, <2>1
    <2>3. \A e \in B : \E u, v \in Vertices : e = <<u, v>>
      BY <2>1
    <2>4. \A e \in A : \E u, v \in Vertices : e = <<u, v>> /\ v \in NeighboursIn(graph, u)
      BY <1>5, <2>1
    <2>5. \A u \in Vertices : \A v \in NeighboursIn(graph, u) : <<u, v>> \in A
      BY <1>6, <2>1
    <2>6. A = B
      BY <2>2, <2>3, <2>4, <2>5
    <2> QED
      BY <2>1, <2>6
  <1>8. \A S : Triangles!Cardinality(S) = Cardinality(S)
    BY DEF Triangles!Cardinality, Cardinality
  <1>9. ASSUME NEW r \in reported
        PROVE  /\ r.shared = Triangles!Cardinality(Triangles!Neighbours(r.u) \cap Triangles!Neighbours(graph[r.u][r.at]))
               /\ r.all = Triangles!Cardinality(Triangles!Neighbours(r.u) \cup Triangles!Neighbours(graph[r.u][r.at]))
               /\ r.all > 0
    <2>1. PICK u \in Vertices, v \in Vertices :
                 /\ r.u = u /\ graph[r.u][r.at] = v /\ v \in NeighboursIn(graph, u)
                 /\ r.shared = Cardinality(NeighboursIn(graph, u) \cap NeighboursIn(graph, v))
                 /\ r.all = Cardinality(NeighboursIn(graph, u) \cup NeighboursIn(graph, v))
      BY <1>5
    <2>2. PICK S : S = NeighboursIn(graph, u) \cup NeighboursIn(graph, v)
      OBVIOUS
    <2>3. S \subseteq Vertices /\ v \in S
      BY <2>1, <2>2 DEF NeighboursIn
    <2>4. IsFiniteSet(S)
      BY <2>3, VerticesFinite, FS_Subset
    <2>5. Cardinality(S) \in Nat /\ Cardinality(S) # 0
      BY <2>3, <2>4, FS_CardinalityType, FS_EmptySet
    <2>6. r.all = Cardinality(S) /\ r.all > 0
      BY <2>1, <2>2, <2>5
    <2> QED
      BY <1>4, <1>8, <2>1, <2>6
  <1> QED
    BY <1>2, <1>7, <1>9

-----------------------------------------------------------------------------
(* The five algorithms together *)

NeighbourInv ==
  /\ algorithm = "maximal_independent_set" => IndependentInv
  /\ algorithm = "label_propagation" => VoteInv
  /\ algorithm \in Counting => TriangleInv

LEMMA CountsAreExact ==
  ASSUME TriangleInv, algorithm \in Counting
  PROVE  Triangles!CountsExact
  <1> SUFFICES ASSUME start = N
               PROVE  CASE algorithm = "triangle_count" ->
                             triangles = Triangles!Cardinality({{t[1], t[2], t[3]} : t \in Triangles!Triples})
                        [] algorithm = "directed_triangle_count" ->
                             triangles = Triangles!Cardinality(Triangles!Triples)
                        [] algorithm = "jaccard_coefficient" ->
                             /\ {<<r.u, graph[r.u][r.at]>> : r \in reported} =
                                  {e \in Triangles!Vertices \X Triangles!Vertices : e[2] \in Triangles!Neighbours(e[1])}
                             /\ \A r \in reported :
                                  /\ r.shared = Triangles!Cardinality(
                                       Triangles!Neighbours(r.u) \cap Triangles!Neighbours(graph[r.u][r.at]))
                                  /\ r.all = Triangles!Cardinality(
                                       Triangles!Neighbours(r.u) \cup Triangles!Neighbours(graph[r.u][r.at]))
                                  /\ r.all > 0
    BY DEF Triangles!CountsExact, Triangles!Returned
  <1>1. CASE algorithm = "triangle_count"
    BY <1>1, TrianglesExact
  <1>2. CASE algorithm = "directed_triangle_count"
    BY <1>2, DirectedExact
  <1>3. CASE algorithm = "jaccard_coefficient"
    BY <1>3, CoefficientsExact
  <1> QED
    BY <1>1, <1>2, <1>3 DEF Counting

LEMMA NeighbourhoodsFollow ==
  ASSUME NeighbourInv
  PROVE  NeighbourhoodsExact
  <1>1. CASE algorithm = "maximal_independent_set"
    BY <1>1, IndependentExact DEF NeighbourInv, NeighbourhoodsExact, Counting
  <1>2. CASE algorithm = "label_propagation"
    BY <1>2, VoteExact DEF NeighbourInv, NeighbourhoodsExact, Counting
  <1>3. CASE algorithm \in Counting
    BY <1>3, CountsAreExact DEF NeighbourInv, NeighbourhoodsExact, Counting
  <1>4. CASE algorithm \notin Counting \cup {"maximal_independent_set", "label_propagation"}
    BY <1>4 DEF NeighbourhoodsExact
  <1> QED
    BY <1>1, <1>2, <1>3, <1>4

LEMMA NothingMoves ==
  ASSUME NeighbourInv, UNCHANGED vars
  PROVE  NeighbourInv'
  <1>1. /\ algorithm' = algorithm /\ UNCHANGED <<graph, start, seed>>
        /\ UNCHANGED <<stage, chosen, removed>>
        /\ UNCHANGED <<sentinel, initial, label, iter, waiting, changed>>
        /\ UNCHANGED <<position, triangles, reported>>
    BY DEF vars, local, choosing, voting, counting
  <1>2. IndependentInv => IndependentInv'
    BY <1>1 DEF IndependentInv
  <1>3. VoteInv => VoteInv'
    <2> SUFFICES ASSUME VoteInv PROVE VoteInv'
      OBVIOUS
    <2>1. VoteTypes' /\ LabelsKept'
      BY <1>1 DEF VoteInv, VoteTypes, LabelsKept, HasLabel
    <2>2. \A u : Settled(u)' <=> Settled(u)
      BY <1>1, SameVotes
    <2> QED
      BY <1>1, <2>1, <2>2 DEF VoteInv
  <1>4. TriangleInv => TriangleInv'
    <2> SUFFICES ASSUME TriangleInv PROVE TriangleInv'
      OBVIOUS
    <2>1. TrianglePlace'
      BY <1>1 DEF TriangleInv, TrianglePlace
    <2>2. Counted' = Counted
      BY <1>1 DEF Counted, Triple, Passed, Vertices
    <2>3. Cardinality(Counted)' = Cardinality(Counted)
      BY <2>2 DEF Cardinality
    <2> QED
      BY <1>1, <2>1, <2>3 DEF TriangleInv
  <1> QED
    BY <1>1, <1>2, <1>3, <1>4 DEF NeighbourInv

LEMMA NeighbourhoodsKept ==
  ASSUME NeighbourInv, [Next]_vars
  PROVE  NeighbourInv'
  <1>1. CASE UNCHANGED vars
    BY <1>1, NothingMoves
  <1>2. CASE Next
    <2>1. algorithm' = algorithm /\ seed' = seed
      BY <1>2 DEF Next
    <2>2. CASE algorithm = "maximal_independent_set"
      <3>1. Independent!Next
        BY <1>2, <2>2 DEF Next, Counting
      <3>2. IndependentInv'
        BY <2>1, <2>2, <3>1, IndependentStep DEF NeighbourInv
      <3> QED
        BY <2>1, <2>2, <3>2 DEF NeighbourInv, Counting
    <2>3. CASE algorithm = "label_propagation"
      <3>1. Propagation!Next
        BY <1>2, <2>3 DEF Next, Counting
      <3>2. VoteInv'
        BY <2>3, <3>1, VoteStep DEF NeighbourInv
      <3> QED
        BY <2>1, <2>3, <3>2 DEF NeighbourInv, Counting
    <2>4. CASE algorithm \in Counting
      <3>1. Triangles!Next
        BY <1>2, <2>4 DEF Next, Counting
      <3>2. TriangleInv'
        BY <2>1, <2>4, <3>1, TriangleStep DEF NeighbourInv
      <3> QED
        BY <2>1, <2>4, <3>2 DEF NeighbourInv, Counting
    <2>5. CASE algorithm \notin Counting \cup {"maximal_independent_set", "label_propagation"}
      BY <2>1, <2>5 DEF NeighbourInv
    <2> QED
      BY <2>2, <2>3, <2>4, <2>5
  <1> QED
    BY <1>1, <1>2

LEMMA NeighbourhoodsBegin ==
  ASSUME Init
  PROVE  NeighbourInv
  BY IndependentBegins, VoteBegins, TriangleBegins DEF NeighbourInv

\* Whatever maximal_independent_set returns is independent and maximal; label_propagation
\* invents and loses no label, and once a round changes none each label is a most frequent
\* one and has reached every vertex it can; and the counts of triangle_count and
\* directed_triangle_count and the coefficients of jaccard_coefficient are what the
\* neighbourhoods of the graph define.
THEOREM NeighbourhoodsStayExact == Spec => []NeighbourhoodsExact
  <1>1. NeighbourInv => NeighbourhoodsExact
    BY NeighbourhoodsFollow
  <1>2. NeighbourInv /\ [Next]_vars => NeighbourInv'
    BY NeighbourhoodsKept
  <1>3. Init => NeighbourInv
    BY NeighbourhoodsBegin
  <1> QED
    BY <1>1, <1>2, <1>3, PTL DEF Spec
=============================================================================
