------------------------- MODULE MCSearches_proofs --------------------------
(***************************************************************************)
(* Proofs about the other searches as MCSearches runs them, for any number *)
(* of vertices, edges and sources: that the views of both searches visit   *)
(* what PrunedSearch promises, whatever the caller cancels, that the       *)
(* breadth-first views do so in order and report its depths, that the      *)
(* orders of topological_sort and of its views are exact, and that the     *)
(* visitor of breadth_first_search is told of a search in order.           *)
(***************************************************************************)
EXTENDS DepthFirstSearch_proofs

-----------------------------------------------------------------------------
(* The inductive invariant of the breadth-first views, and the view of vertices *)

LEMMA BfsEnded ==
  ASSUME BfsViewInv, search = "bfs_views"
  PROVE  /\ ViewEnded \in BOOLEAN
         /\ ViewEnded <=> visits # <<>> /\ queue = <<>>
         /\ IsView
  BY DEF BfsViewInv, ViewEnded, BfsView!AtEnd, BfsView!NoEdge, BfsBefore, BfsAfter, IsView

LEMMA BfsVerticesStep ==
  ASSUME ViewsType, visits # <<>>, queue \in Seq(Entries), queue # <<>>, BfsVertices,
         NEW found \in Seq(Vertices), NEW d \in Nat, Distinct(found),
         \A w : Listed(found, w) => /\ w \notin visited
                                    /\ Last(visits) \notin pruned' /\ Leads(Last(visits), w),
         Last(visits) \notin pruned' => LeadsInto(Last(visits), visited'),
         \A v : v \in pruned \/ v = Last(visits) <=> v \in pruned' \/ v = Last(visits),
         queue' = Tail(queue) \o [i \in 1..Len(found) |-> BfsView!Entry(found[i], d)],
         \A w : w \in visited' <=> w \in visited \/ Listed(found, w),
         visits' = IF queue' = <<>> THEN visits ELSE Append(visits, queue'[1].vertex),
         UNCHANGED graph
  PROVE  /\ visits' \in Seq(Vertices) /\ visits' # <<>>
         /\ \A v \in pruned' : Seen(v)'
         /\ queue' \in Seq(Entries) /\ BfsVertices'
         /\ queue' = <<>> => /\ UNCHANGED visits
                             /\ \A u : Seen(u) /\ u \notin pruned' => \A w : Leads(u, w) => Seen(w)
         /\ queue' # <<>> => \E v \in Vertices : /\ visits' = Append(visits, v) /\ ~Seen(v)
                                    /\ \E u : Seen(u) /\ u \notin pruned' /\ Leads(u, v)
  <1> DEFINE r == [i \in 1..Len(found) |-> BfsView!Entry(found[i], d)]
             c == Last(visits)
  <1>1. /\ Len(found) \in Nat /\ \A i \in 1..Len(found) : found[i] \in Vertices
        /\ visits \in Seq(Vertices)
    BY LenProperties, ElementOfSeq DEF ViewsType
  <1>2. /\ r \in Seq(Entries) /\ Len(r) = Len(found)
        /\ \A i \in 1..Len(found) : r[i].vertex = found[i]
    <2>1. \A i \in 1..Len(found) : BfsView!Entry(found[i], d) \in Entries
                                   /\ BfsView!Entry(found[i], d).vertex = found[i]
      BY <1>1 DEF BfsView!Entry, Entries
    <2>2. r \in [1..Len(found) -> Entries]
      BY <2>1
    <2> QED
      BY <1>1, <2>1, <2>2, IsASeq, LenProperties
  <1> HIDE DEF r
  <1>3. /\ queue' \in Seq(Entries) /\ Len(queue) \in Nat \ {0} /\ Len(queue') = Len(queue) - 1 + Len(found)
        /\ \A i \in 1..(Len(queue) - 1) : queue'[i] = queue[i + 1]
        /\ \A i \in 1..Len(found) : queue'[Len(queue) - 1 + i].vertex = found[i]
    BY <1>2, QueueAfter DEF r
  <1>4. /\ Seen(c) /\ c \in Vertices /\ \A v : Seen(v) => v \in Vertices
    BY <1>1, SeenIs DEF Seen
  <1>5. \A i \in 1..Len(queue) : queue[i].vertex \in Vertices
    <2>1. \A i \in 1..Len(queue) : queue[i] \in Entries
      BY ElementOfSeq
    <2> QED
      BY <2>1 DEF Entries
  <1>6. /\ queue[1].vertex = c /\ c \notin pruned /\ Apart(queue)
        /\ \A i \in 2..Len(queue) :
              /\ ~Seen(queue[i].vertex) 
              /\ \E u : Seen(u) /\ u \notin pruned /\ u # c /\ Leads(u, queue[i].vertex)
        /\ \A v : v \in visited <=> Seen(v) \/ On(queue, v)
        /\ \A u : Seen(u) /\ u \notin pruned /\ u # c => LeadsInto(u, visited)
    BY DEF BfsVertices
  \* The entries of the new queue.
  <1>7. \A k \in 1..Len(queue') : \/ k \in 1..(Len(queue) - 1) /\ k + 1 \in 2..Len(queue)
                                  \/ k - (Len(queue) - 1) \in 1..Len(found)
    BY <1>1, <1>3
  <1>8. ASSUME NEW k \in 1..Len(queue')
        PROVE  /\ queue'[k].vertex \in Vertices /\ ~Seen(queue'[k].vertex)
               /\ \E u : Seen(u) /\ u \notin pruned' /\ Leads(u, queue'[k].vertex)
    <2>1. CASE k \in 1..(Len(queue) - 1) /\ k + 1 \in 2..Len(queue)
      <3>1. queue'[k] = queue[k + 1] /\ k + 1 \in 1..Len(queue)
        BY <1>3, <2>1
      <3>2. PICK u : Seen(u) /\ u \notin pruned /\ u # c /\ Leads(u, queue[k + 1].vertex)
        BY <1>6, <2>1
      <3>3. u \notin pruned'
        BY <3>2
      <3> QED
        BY <1>5, <1>6, <2>1, <3>1, <3>2, <3>3
    <2>2. CASE k - (Len(queue) - 1) \in 1..Len(found)
      <3> DEFINE i == k - (Len(queue) - 1)
      <3>1. i \in 1..Len(found) /\ k = Len(queue) - 1 + i
        BY <1>3, <2>2
      <3> HIDE DEF i
      <3>2. queue'[k].vertex = found[i] /\ Listed(found, found[i])
        BY <1>3, <3>1 DEF Listed
      <3>3. found[i] \notin visited /\ c \notin pruned' /\ Leads(c, found[i])
        BY <3>2
      <3> QED
        BY <1>1, <1>4, <1>6, <3>1, <3>2, <3>3
    <2> QED
      BY <1>7, <2>1, <2>2
  <1>9. Apart(queue')
    <2> SUFFICES ASSUME NEW k \in 1..Len(queue'), NEW l \in 1..Len(queue'),
                        queue'[k].vertex = queue'[l].vertex
                 PROVE  k = l
      BY DEF Apart
    <2>1. ASSUME NEW a \in 1..Len(queue'), NEW b \in 1..Len(queue'), queue'[a].vertex = queue'[b].vertex,
                 a \in 1..(Len(queue) - 1), b - (Len(queue) - 1) \in 1..Len(found)
          PROVE  FALSE
      <3> DEFINE i == b - (Len(queue) - 1)
      <3>1. i \in 1..Len(found) /\ b = Len(queue) - 1 + i
        BY <1>3, <2>1
      <3> HIDE DEF i
      <3>2. queue'[b].vertex = found[i] /\ Listed(found, found[i])
        BY <1>3, <3>1 DEF Listed
      <3>3. a + 1 \in 1..Len(queue) /\ queue'[a] = queue[a + 1]
        BY <1>3, <2>1
      <3> QED
        BY <1>6, <2>1, <3>2, <3>3 DEF On
    <2>2. CASE k \in 1..(Len(queue) - 1) /\ l \in 1..(Len(queue) - 1)
      <3>1. queue[k + 1].vertex = queue[l + 1].vertex /\ k + 1 \in 1..Len(queue) /\ l + 1 \in 1..Len(queue)
        BY <1>3, <2>2
      <3>2. k + 1 = l + 1
        BY <1>6, <3>1 DEF Apart
      <3> QED
        BY <3>2
    <2>3. CASE k - (Len(queue) - 1) \in 1..Len(found) /\ l - (Len(queue) - 1) \in 1..Len(found)
      <3> DEFINE i == k - (Len(queue) - 1)
                 j == l - (Len(queue) - 1)
      <3>1. i \in 1..Len(found) /\ k = Len(queue) - 1 + i /\ j \in 1..Len(found) /\ l = Len(queue) - 1 + j
        BY <1>3, <2>3
      <3> HIDE DEF i, j
      <3>2. found[i] = found[j]
        BY <1>3, <3>1
      <3>3. i = j
        BY <3>1, <3>2 DEF Distinct
      <3> QED
        BY <3>1, <3>3
    <2> QED
      BY <1>7, <2>1, <2>2, <2>3
  <1>10. \A v : v \in visited' <=> Seen(v) \/ On(queue', v)
    <2>1. ASSUME NEW v, Listed(found, v) PROVE On(queue', v)
      <3>1. PICK i \in 1..Len(found) : found[i] = v
        BY <2>1 DEF Listed
      <3>2. Len(queue) - 1 + i \in 1..Len(queue')
        BY <1>1, <1>3
      <3>3. queue'[Len(queue) - 1 + i].vertex = v
        BY <1>3, <3>1
      <3> QED
        BY <3>2, <3>3 DEF On
    <2>2. ASSUME NEW v, On(queue, v) PROVE Seen(v) \/ On(queue', v)
      <3>1. PICK i \in 1..Len(queue) : queue[i].vertex = v
        BY <2>2 DEF On
      <3>2. CASE i = 1
        BY <1>4, <1>6, <3>1, <3>2
      <3>3. CASE i # 1
        <4>1. i - 1 \in 1..(Len(queue) - 1) /\ (i - 1) + 1 = i /\ i - 1 \in 1..Len(queue')
          BY <1>1, <1>3, <3>3
        <4> QED
          BY <1>3, <3>1, <4>1 DEF On
      <3> QED
        BY <3>2, <3>3
    <2>3. ASSUME NEW v, On(queue', v) PROVE On(queue, v) \/ Listed(found, v)
      <3>1. PICK k \in 1..Len(queue') : queue'[k].vertex = v
        BY <2>3 DEF On
      <3>2. CASE k \in 1..(Len(queue) - 1) /\ k + 1 \in 2..Len(queue)
        <4>1. k + 1 \in 1..Len(queue) /\ queue'[k] = queue[k + 1]
          BY <1>3, <3>2
        <4> QED
          BY <3>1, <4>1 DEF On
      <3>3. CASE k - (Len(queue) - 1) \in 1..Len(found)
        <4> DEFINE i == k - (Len(queue) - 1)
        <4>1. i \in 1..Len(found) /\ k = Len(queue) - 1 + i
          BY <1>3, <3>3
        <4> HIDE DEF i
        <4> QED
          BY <1>3, <3>1, <4>1 DEF Listed
      <3> QED
        BY <1>7, <3>2, <3>3
    <2> QED
      BY <1>6, <2>1, <2>2, <2>3
  <1>11. ASSUME NEW u, Seen(u), u \notin pruned' PROVE LeadsInto(u, visited')
    <2>1. CASE u = c
      BY <1>11, <2>1
    <2>2. CASE u # c
      <3>1. LeadsInto(u, visited)
        BY <1>6, <1>11, <2>2
      <3> QED
        BY <3>1 DEF LeadsInto
    <2> QED
      BY <2>1, <2>2
  <1>12. \A v \in pruned' : Seen(v)
    BY <1>4 DEF ViewsType
  <1>13. CASE queue' = <<>>
    <2>1. Len(queue') = 0 /\ visits' = visits
      BY <1>13, EmptySeq
    <2>2. \A v : ~On(queue', v)
      BY <2>1 DEF On
    <2>3. \A u : Seen(u) /\ u \notin pruned' => \A w : Leads(u, w) => Seen(w)
      BY <1>10, <1>11, <2>2 DEF Leads, LeadsInto
    <2>4. \A v : Seen(v)' <=> Seen(v)
      BY <2>1 DEF Seen
    <2> QED
      BY <1>1, <1>3, <1>12, <1>13, <2>1, <2>3, <2>4 DEF BfsVertices
  <1>14. CASE queue' # <<>>
    <2>0. PICK v : v = queue'[1].vertex
      OBVIOUS
    <2>1. 1 \in 1..Len(queue')
      <3>1. Len(queue') \in Nat /\ Len(queue') # 0
        BY <1>3, <1>14, EmptySeq
      <3> QED
        BY <3>1
    <2>2. /\ v \in Vertices /\ ~Seen(v) /\ visits' = Append(visits, v)
          /\ \E u : Seen(u) /\ u \notin pruned' /\ Leads(u, v)
      BY <1>8, <1>14, <2>0, <2>1
    <2>3. /\ visits' \in Seq(Vertices) /\ visits' # <<>> /\ Last(visits') = v
          /\ \A w : Listed(visits', w) <=> Listed(visits, w) \/ w = v
      <3>1. /\ Append(visits, v) \in Seq(Vertices) /\ Append(visits, v) # <<>> /\ Last(Append(visits, v)) = v
            /\ \A w : Listed(Append(visits, v), w) <=> Listed(visits, w) \/ w = v
        BY <1>1, <2>2, SeenAfter
      <3> QED
        BY <2>2, <3>1
    <2>4. \A w : Seen(w)' <=> Seen(w) \/ w = v
      BY <2>3 DEF Seen
    <2>5. v \notin pruned'
      BY <1>12, <2>2
    <2>6. ASSUME NEW i \in 2..Len(queue')
          PROVE  /\ ~Listed(visits', queue'[i].vertex)
                 /\ \E u : Seen(u)' /\ u \notin pruned' /\ u # v /\ Leads(u, queue'[i].vertex)
      <3>1. i \in 1..Len(queue') /\ i # 1
        OBVIOUS
      <3>2. queue'[i].vertex # v
        BY <1>9, <2>0, <2>1, <3>1 DEF Apart
      <3>3. PICK u : Seen(u) /\ u \notin pruned' /\ Leads(u, queue'[i].vertex)
        BY <1>8, <3>1
      <3>4. u # v /\ Seen(u)'
        BY <2>2, <2>4, <3>3
      <3>5. ~Listed(visits', queue'[i].vertex)
        BY <1>8, <2>3, <3>1, <3>2 DEF Seen
      <3> QED
        BY <3>3, <3>4, <3>5
    <2>7. \A w : w \in visited' <=> Seen(w)' \/ On(queue', w)
      <3>1. On(queue', v)
        BY <2>0, <2>1 DEF On
      <3> QED
        BY <1>10, <2>4, <3>1
    <2>8. \A u : Seen(u)' /\ u \notin pruned' /\ u # v => LeadsInto(u, visited)'
      BY <1>11, <2>4 DEF LeadsInto
    <2>9. BfsVertices'
      <3>1. \A i \in 2..Len(queue') :
               /\ ~Seen(queue[i].vertex)'
               /\ \E u : Seen(u)' /\ u \notin pruned' /\ u # v /\ Leads(u, queue[i].vertex)'
        <4>1. graph' = graph
          OBVIOUS
        <4> SUFFICES ASSUME NEW i \in 2..Len(queue')
                     PROVE  /\ ~Seen(queue[i].vertex)'
                            /\ \E u : Seen(u)' /\ u \notin pruned' /\ u # v /\ Leads(u, queue[i].vertex)'
          OBVIOUS
        <4>2. ~Seen(queue[i].vertex)'
          BY <2>6 DEF Seen
        <4>3. PICK u : Seen(u)' /\ u \notin pruned' /\ u # v /\ Leads(u, queue'[i].vertex)
          BY <2>6
        <4>4. Leads(u, queue[i].vertex)'
          BY <4>1, <4>3 DEF Leads
        <4> QED
          BY <4>2, <4>3, <4>4
      <3>2. Apart(queue)' /\ \A w : w \in visited' <=> Seen(w)' \/ On(queue, w)'
        BY <1>9, <2>7 DEF Apart, On
      <3> QED
        BY <2>0, <2>3, <2>5, <2>8, <3>1, <3>2 DEF BfsVertices
    <2> QED
      BY <1>3, <1>12, <1>14, <2>2, <2>3, <2>4, <2>9
  <1> QED
    BY <1>13, <1>14

LEMMA BfsEndedNext ==
  ASSUME BfsViewInv', search' = "bfs_views"
  PROVE  /\ ViewEnded' \in BOOLEAN
         /\ ViewEnded' <=> visits' # <<>> /\ queue' = <<>>
         /\ IsView'
  BY DEF BfsViewInv, ViewEnded, BfsView!AtEnd, BfsView!NoEdge, BfsBefore, BfsAfter, IsView

\* An iteration of vertices_bfs that finds the vertices of found.
Explores(found, d) ==
  /\ Distinct(found)
  /\ \A w : Listed(found, w) => /\ w \notin visited
                                /\ Last(visits) \notin pruned' /\ Leads(Last(visits), w)
  /\ Last(visits) \notin pruned' => LeadsInto(Last(visits), visited')
  /\ queue' = Tail(queue) \o [i \in 1..Len(found) |-> BfsView!Entry(found[i], d)]
  /\ \A w : w \in visited' <=> w \in visited \/ Listed(found, w)
  /\ visits' = IF queue' = <<>> THEN visits ELSE Append(visits, queue'[1].vertex)

\* In addition, the counts.
Expands(found, d) ==
  /\ Explores(found, d)
  /\ count' = count + Len(found) \/ (found = <<>> /\ count' = count)
  /\ maxDepth' = IF found # <<>> /\ d > maxDepth THEN d ELSE maxDepth

LEMMA BfsVerticesAdvance ==
  ASSUME BfsViewInv, search = "bfs_views", UNCHANGED arguments,
         BfsView!AdvanceSkipping \/ BfsView!AdvanceExploring
  PROVE  /\ BfsViewInv' /\ Promised!Continue
         /\ yields = "vertices" /\ queue # <<>> /\ \E found \in Seq(Vertices) : Expands(found, queue[1].depth + 1)
  <1> DEFINE c == Last(visits)
  <1>1. /\ yields = "vertices" /\ queue # <<>> /\ cancel # "cancel_all" /\ cancel' = "continue_search"
        /\ UNCHANGED <<graph, seed, yields, search, skip, edge, begun>>
        /\ pruned' = IF cancel = "cancel_branch" THEN pruned \cup {queue[1].vertex} ELSE pruned
        /\ Head(queue) = queue[1]
    BY DEF arguments, BfsView!AdvanceSkipping, BfsView!AdvanceExploring, BfsView!Remember, BfsView!current
  <1>2. /\ ViewsType /\ visits # <<>> /\ queue \in Seq(Entries) /\ BfsVertices /\ begun /\ edge = <<>>
    BY <1>1 DEF BfsViewInv, BfsAfter, BfsBefore
  <1>3. /\ queue[1].vertex = c /\ c \notin pruned /\ c \in Vertices
        /\ queue[1] \in Entries
    <2>1. queue[1] \in Entries
      <3>1. 1 \in 1..Len(queue)
        BY <1>1, <1>2, LenProperties, EmptySeq
      <3> QED
        BY <1>2, <3>1, ElementOfSeq
    <2> QED
      BY <1>1, <1>2, <2>1 DEF BfsVertices, Entries
  <1>4. PICK d \in Nat : d = queue[1].depth + 1
    BY <1>3 DEF Entries
  <1>5. \E found \in Seq(Vertices) : Expands(found, d)
    <2>1. CASE BfsView!AdvanceSkipping
      <3>1. /\ cancel = "cancel_branch" /\ queue' = Tail(queue) /\ visited' = visited
            /\ visits' = IF queue' = <<>> THEN visits ELSE Append(visits, queue'[1].vertex)
        BY <2>1 DEF BfsView!AdvanceSkipping, BfsView!Remember
      <3>2. c \in pruned'
        BY <1>1, <1>3, <3>1
      <3>3. <<>> \in Seq(Vertices) /\ Len(<<>>) = 0
        BY EmptySeq
      <3>4. Distinct(<<>>) /\ \A w : ~Listed(<<>>, w)
        BY <3>3 DEF Distinct, Listed
      <3>5. [i \in 1..Len(<<>>) |-> BfsView!Entry(<<>>[i], d)] = <<>>
        <4>1. \A i \in 1..0 : BfsView!Entry(<<>>[i], d) \in Entries
          OBVIOUS
        <4>2. [i \in 1..0 |-> BfsView!Entry(<<>>[i], d)] \in Seq(Entries)
          BY <4>1, IsASeq
        <4>3. Len([i \in 1..0 |-> BfsView!Entry(<<>>[i], d)]) = 0
          BY <4>2, LenProperties
        <4> QED
          BY <3>3, <4>2, <4>3, EmptySeq
      <3>6. Tail(queue) \o <<>> = Tail(queue)
        <4>1. Tail(queue) \in Seq(Entries)
          BY <1>1, <1>2, HeadTailProperties
        <4> QED
          BY <4>1, ConcatEmptySeq
      <3>7. queue' = Tail(queue) \o [i \in 1..Len(<<>>) |-> BfsView!Entry(<<>>[i], d)]
        BY <3>1, <3>5, <3>6
      <3>8. Explores(<<>>, d)
        BY <3>1, <3>2, <3>4, <3>7 DEF Explores
      <3>9. UNCHANGED <<count, maxDepth>>
        BY <2>1 DEF BfsView!AdvanceSkipping
      <3> QED
        BY <3>3, <3>8, <3>9 DEF Expands
    <2>2. CASE BfsView!AdvanceExploring
      <3> DEFINE found == Discoveries(graph[queue[1].vertex], visited)
      <3>1. BfsView!Discoveries(graph[queue[1].vertex], visited) = found
        BY DEF BfsView!Discoveries, Discoveries, BfsView!ToSet, ToSet
      <3> HIDE DEF found
      <3>2. /\ cancel = "continue_search" 
            /\ queue' = Tail(queue) \o [i \in DOMAIN found |-> BfsView!Entry(found[i], d)]
            /\ visited' = visited \cup ToSet(found)
            /\ visits' = IF queue' = <<>> THEN visits ELSE Append(visits, queue'[1].vertex)
        <4>1. BfsView!current = queue[1]
          BY <1>1 DEF BfsView!current
        <4>2. /\ cancel = "continue_search"
              /\ queue' = Tail(queue) \o [i \in DOMAIN found |-> BfsView!Entry(found[i], d)]
              /\ visited' = visited \cup BfsView!ToSet(found)
          BY <1>4, <2>2, <3>1, <4>1 DEF BfsView!AdvanceExploring
        <4>3. visits' = IF queue' = <<>> THEN visits ELSE Append(visits, Head(queue').vertex)
          BY <2>2 DEF BfsView!AdvanceExploring, BfsView!Remember
        <4>4. Head(queue') = queue'[1]
          OBVIOUS
        <4>5. BfsView!ToSet(found) = ToSet(found)
          BY DEF BfsView!ToSet, ToSet
        <4> QED
          BY <4>2, <4>3, <4>4, <4>5
      <3>3. graph[queue[1].vertex] \in Seq(Vertices)
        BY <1>2, <1>3, ListsOf DEF ViewsType
      <3>4. /\ found \in Seq(Vertices) /\ Distinct(found)
            /\ \A w : Listed(found, w) <=> w \notin visited /\ Listed(graph[queue[1].vertex], w)
        BY <3>3, DiscoveriesIs DEF found
      <3>5. ToSet(found) = {w \in Vertices : Listed(found, w)} /\ \A w : Listed(found, w) => w \in Vertices
        BY <3>4, SeenIs
      <3>6. \A w : w \in visited' <=> w \in visited \/ Listed(found, w)
        BY <3>2, <3>5
      <3>7. \A w : Listed(graph[queue[1].vertex], w) <=> Leads(c, w)
        BY <1>3 DEF Listed, Leads
      <3>8. c \notin pruned'
        BY <1>1, <1>3, <3>2
      <3>9. LeadsInto(c, visited')
        <4>1. \A w : Leads(c, w) => w \in visited'
          BY <3>4, <3>6, <3>7
        <4> QED
          BY <4>1 DEF Leads, LeadsInto
      <3>10. DOMAIN found = 1..Len(found)
        BY <3>4, LenProperties
      <3>11. queue' = Tail(queue) \o [i \in 1..Len(found) |-> BfsView!Entry(found[i], d)]
        BY <3>2, <3>10
      <3>12. Explores(found, d)
        BY <3>2, <3>4, <3>6, <3>7, <3>8, <3>9, <3>11 DEF Explores
      <3>13. count' = count + Len(found) /\ maxDepth' = IF found # <<>> /\ d > maxDepth THEN d ELSE maxDepth
        <4>1. BfsView!current = queue[1]
          BY <1>1 DEF BfsView!current
        <4> QED
          BY <1>4, <2>2, <3>1, <4>1 DEF BfsView!AdvanceExploring
      <3> QED
        BY <3>4, <3>12, <3>13 DEF Expands
    <2> QED
      BY <2>1, <2>2
  <1>6. PICK found \in Seq(Vertices) :
          /\ Distinct(found)
          /\ \A w : Listed(found, w) => w \notin visited /\ c \notin pruned' /\ Leads(c, w)
          /\ c \notin pruned' => LeadsInto(c, visited')
          /\ queue' = Tail(queue) \o [i \in 1..Len(found) |-> BfsView!Entry(found[i], d)]
          /\ \A w : w \in visited' <=> w \in visited \/ Listed(found, w)
          /\ visits' = IF queue' = <<>> THEN visits ELSE Append(visits, queue'[1].vertex)
    BY <1>5 DEF Expands, Explores
  <1>7. \A v : v \in pruned \/ v = c <=> v \in pruned' \/ v = c
    BY <1>1, <1>3
  <1>8. graph' = graph
    BY <1>1
  <1>9. /\ visits' \in Seq(Vertices) /\ visits' # <<>>
        /\ \A v \in pruned' : Seen(v)'
        /\ queue' \in Seq(Entries) /\ BfsVertices'
        /\ queue' = <<>> => /\ UNCHANGED visits
                            /\ \A u : Seen(u) /\ u \notin pruned' => \A w : Leads(u, w) => Seen(w)
        /\ queue' # <<>> => \E v \in Vertices : /\ visits' = Append(visits, v) /\ ~Seen(v)
                                   /\ \E u : Seen(u) /\ u \notin pruned' /\ Leads(u, v)
    BY <1>1, <1>2, <1>6, <1>7, <1>8, BfsVerticesStep
  <1>10. BfsViewInv'
    <2>1. ViewsType'
      BY <1>1, <1>2, <1>9 DEF ViewsType, CancelStates
    <2>2. BfsAfter'
      BY <1>1, <1>2, <1>9 DEF BfsAfter
    <2> QED
      BY <1>9, <2>1, <2>2 DEF BfsViewInv
  <1>11. /\ ViewEnded \in BOOLEAN /\ ~ViewEnded /\ ViewEnded' \in BOOLEAN /\ IsView /\ IsView'
         /\ ViewEnded' <=> queue' = <<>>
    BY <1>1, <1>9, <1>10, BfsEnded, BfsEndedNext
  <1>12. Exhausts \/ \E v : Finds(v)
    BY <1>9, <1>11 DEF Exhausts, Finds
  <1>13. pruned' = IF cancel = "cancel_branch" THEN pruned \cup {Last(visits)} ELSE pruned
    BY <1>1, <1>3
  <1>14. graph \in Adjacency /\ visits \in Seq(Vertices)
    BY <1>2 DEF ViewsType
  <1>15. Promised!Continue
    BY <1>1, <1>2, <1>11, <1>12, <1>13, <1>14, Continues
  <1> QED
    BY <1>1, <1>4, <1>5, <1>10, <1>15

-----------------------------------------------------------------------------
(* The breadth-first view of edges *)

\* An iteration of edges_bfs takes edge f of entry e, the k-th, to v, with skipped to be skipped.
TakesEdge(n, skipped, k, e, f, v, d) ==
  /\ n = Len(queue) /\ k \in 1..n /\ e = queue[k] /\ f \in 1..Len(graph[e.vertex])
  /\ \A i \in 1..n : queue[i].vertex \in pruned' => queue[i].vertex = skipped
  /\ skipped # N => skipped \in pruned'
  /\ \A u \in pruned : u \in pruned'
  /\ \A u \in pruned' : Seen(u)
  /\ \A i \in 1..(k - 1) : queue[i].vertex = skipped \/ LeadsInto(queue[i].vertex, visited)
  /\ v = graph[e.vertex][f] /\ v \notin visited
  /\ Passed(e.vertex, f, visited)
  /\ queue' = <<[e EXCEPT !.next = f + 1]>> \o SubSeq(queue, k + 1, n) \o <<BfsView!Entry(v, d)>>
  /\ skip' = IF skipped \in {queue[j].vertex : j \in 1..(k - 1)} THEN N ELSE skipped
  /\ visited' = visited \cup {v}
  /\ visits' = Append(visits, v)

Taken(v) == /\ visits' \in Seq(Vertices) /\ visits' # <<>> /\ Last(visits') = v
            /\ \A u \in pruned' : Seen(u)'
            /\ queue' \in Seq(Entries) /\ queue' # <<>> /\ BfsEdges'
            /\ v \in Vertices /\ ~Seen(v)

LEMMA BfsEdgesStep ==
  ASSUME ViewsType, visits # <<>>, queue \in Seq(Entries), queue # <<>>, BfsEdges, UNCHANGED graph,
         NEW n \in Nat, NEW skipped, NEW k, NEW e, NEW f \in Nat, NEW v, NEW d \in Nat,
         TakesEdge(n, skipped, k, e, f, v, d)
  PROVE  Taken(v)
  <1> SUFFICES
        /\ visits' \in Seq(Vertices) /\ visits' # <<>> /\ Last(visits') = v
        /\ \A u \in pruned' : Seen(u)'
        /\ queue' \in Seq(Entries) /\ queue' # <<>> /\ BfsEdges'
        /\ v \in Vertices /\ ~Seen(v)
    BY DEF Taken
  <1> USE DEF TakesEdge
  <1>0. PICK l \in Nat : l = n - k
    <2>1. n - k \in Nat
      OBVIOUS
    <2> QED
      BY <2>1
  <1>1. /\ \A i \in 1..n : queue[i] \in Entries /\ queue[i].vertex \in Vertices /\ queue[i].next \in Nat \ {0}
        /\ visits \in Seq(Vertices) /\ graph \in Adjacency
    <2>1. \A i \in 1..n : queue[i] \in Entries
      BY ElementOfSeq
    <2> QED
      BY <2>1 DEF Entries, ViewsType
  <1>2. /\ \A u : u \in visited <=> Seen(u)
        /\ Apart(queue) /\ \A i \in 1..n : Seen(queue[i].vertex)
        /\ \A u : Seen(u) => \/ u \in pruned \/ LeadsInto(u, visited)
                             \/ \E i \in 1..n : queue[i].vertex = u /\ Passed(u, queue[i].next, visited)
    BY DEF BfsEdges
  <1>3. v \in Vertices /\ ~Seen(v) /\ v \notin pruned' /\ f # 0
    <2>1. e.vertex \in Vertices
      BY <1>1
    <2>2. graph[e.vertex][f] \in Vertices
      BY <1>1, <2>1, ListsOf
    <2>3. Len(graph[e.vertex]) \in Nat
      BY <1>1, <2>1, ListsOf
    <2> QED
      BY <1>2, <2>2, <2>3
  <1>4. /\ visits' \in Seq(Vertices) /\ visits' # <<>> /\ Last(visits') = v
        /\ \A u : Seen(u)' <=> Seen(u) \/ u = v
    <2>1. PICK s \in Seq(Vertices), x \in Vertices : s = visits /\ x = v
      BY <1>1, <1>3
    <2>2. /\ Append(s, x) \in Seq(Vertices) /\ Append(s, x) # <<>> /\ Last(Append(s, x)) = x
          /\ \A u : Listed(Append(s, x), u) <=> Listed(s, u) \/ u = x
      BY SeenAfter
    <2> QED
      BY <2>1, <2>2 DEF Seen
  <1>5. PICK a, b : a = [e EXCEPT !.next = f + 1] /\ b = BfsView!Entry(v, d)
    OBVIOUS
  <1>6. /\ a \in Entries /\ a.vertex = e.vertex /\ a.next = f + 1
        /\ b \in Entries /\ b.vertex = v /\ b.next = 1
    <2>1. e \in Entries /\ f + 1 \in Nat \ {0}
      BY <1>1
    <2>2. a \in Entries /\ a.vertex = e.vertex /\ a.next = f + 1
      BY <1>5, <2>1 DEF Entries
    <2>3. b \in Entries /\ b.vertex = v /\ b.next = 1
      BY <1>3, <1>5 DEF Entries, BfsView!Entry
    <2> QED
      BY <2>2, <2>3
  <1>7. /\ queue' \in Seq(Entries) /\ Len(queue') = l + 2
        /\ queue'[1] = a /\ queue'[l + 2] = b
        /\ \A j \in 1..Len(queue') : j \in 1..(l + 1) \/ j = l + 2
        /\ \A j \in 2..(l + 1) : queue'[j] = queue[j + k - 1]
        /\ \A j \in 1..(l + 1) : j + k - 1 \in k..n /\ j + k - 1 \in 1..n /\ queue'[j].vertex = queue[j + k - 1].vertex
    <2>1. queue' = <<a>> \o SubSeq(queue, k + 1, n) \o <<b>>
      BY <1>5
    <2>2. /\ queue' \in Seq(Entries) /\ Len(queue') = n - k + 2
          /\ queue'[1] = a /\ queue'[n - k + 2] = b
          /\ \A j \in 2..(n - k + 1) : queue'[j] = queue[j + k - 1]
      <3>1. \A r : IsCut(r, queue, n, k, a, b) => CutInto(r, Entries, queue, n, k, a, b)
        BY <1>6, CutQueue
      <3>2. IsCut(queue', queue, n, k, a, b)
        BY <2>1 DEF IsCut
      <3> QED
        BY <3>1, <3>2 DEF CutInto
    <2>3. n - k + 2 = l + 2 /\ n - k + 1 = l + 1
      BY <1>0
    <2>4. \A j \in 1..(l + 1) : j + k - 1 \in k..n /\ j + k - 1 \in 1..n
      BY <1>0
    <2>5. \A j \in 2..(l + 1) : queue'[j] = queue[j + k - 1]
      BY <2>2, <2>3
    <2>6. ASSUME NEW j \in 1..(l + 1) PROVE queue'[j].vertex = queue[j + k - 1].vertex
      <3>1. CASE j = 1
        <4>1. j + k - 1 = k
          BY <3>1
        <4> QED
          BY <1>6, <2>2, <3>1, <4>1
      <3>2. CASE j # 1
        <4>1. j \in 2..(l + 1)
          BY <3>2
        <4> QED
          BY <2>5, <4>1
      <3> QED
        BY <3>1, <3>2
    <2>7. \A j \in 1..(l + 2) : j \in 1..(l + 1) \/ j = l + 2
      OBVIOUS
    <2> QED
      BY <2>2, <2>3, <2>4, <2>5, <2>6, <2>7
  <1>8. Apart(queue')
    <2> SUFFICES ASSUME NEW x \in 1..Len(queue'), NEW y \in 1..Len(queue'), queue'[x].vertex = queue'[y].vertex
                 PROVE  x = y
      BY DEF Apart
    <2>1. ASSUME NEW z \in 1..(l + 1) PROVE queue'[z].vertex # v
      <3>1. z + k - 1 \in 1..n /\ queue'[z].vertex = queue[z + k - 1].vertex
        BY <1>7
      <3>2. Seen(queue[z + k - 1].vertex)
        BY <1>2, <3>1
      <3> QED
        BY <1>3, <3>1, <3>2
    <2>2. CASE x \in 1..(l + 1) /\ y \in 1..(l + 1)
      <3>1. x + k - 1 \in 1..n /\ y + k - 1 \in 1..n /\ queue[x + k - 1].vertex = queue[y + k - 1].vertex
        BY <1>7, <2>2
      <3>2. x + k - 1 = y + k - 1
        BY <1>2, <3>1 DEF Apart
      <3> QED
        BY <3>2
    <2> QED
      BY <1>6, <1>7, <2>1, <2>2
  <1>9. \A j \in 1..Len(queue') : Listed(visits', queue'[j].vertex)
    <2> TAKE j \in 1..Len(queue')
    <2>1. Listed(visits', v) /\ \A u : Seen(u) => Listed(visits', u)
      BY <1>4 DEF Seen
    <2>2. j = l + 2 \/ (j + k - 1 \in 1..n /\ queue'[j].vertex = queue[j + k - 1].vertex)
      BY <1>7
    <2>3. CASE j = l + 2
      BY <1>6, <1>7, <2>1, <2>3
    <2>4. CASE j + k - 1 \in 1..n /\ queue'[j].vertex = queue[j + k - 1].vertex
      BY <1>2, <2>1, <2>4
    <2> QED
      BY <2>2, <2>3, <2>4
  <1>10. \A j \in 1..Len(queue') : queue'[j].vertex \in pruned' => queue'[j].vertex = skip'
    <2> SUFFICES ASSUME NEW j \in 1..Len(queue'), queue'[j].vertex \in pruned' PROVE queue'[j].vertex = skip'
      OBVIOUS
    <2>1. j \in 1..(l + 1)
      <3>1. j # l + 2
        BY <1>3, <1>6, <1>7
      <3> QED
        BY <1>7, <3>1
    <2>2. PICK i \in k..n : queue'[j].vertex = queue[i].vertex
      BY <1>7, <2>1
    <2>3. i \in 1..n /\ queue[i].vertex = skipped
      <3>1. k \in 1..n /\ \A x \in 1..n : queue[x].vertex \in pruned' => queue[x].vertex = skipped
        OBVIOUS
      <3>2. i \in 1..n
        BY <3>1
      <3> QED
        BY <2>2, <3>1, <3>2
    <2>4. skipped \notin {queue[y].vertex : y \in 1..(k - 1)}
      <3> SUFFICES ASSUME NEW z \in 1..(k - 1), queue[z].vertex = skipped PROVE FALSE
        OBVIOUS
      <3>1. z \in 1..n /\ z # i
        BY <2>2
      <3> QED
        BY <1>2, <2>3, <3>1 DEF Apart
    <2> QED
      BY <2>2, <2>3, <2>4
  <1>11. skip' # N => skip' \in pruned'
    OBVIOUS
  <1>12. ASSUME NEW u, Seen(u) \/ u = v
         PROVE  \/ u \in pruned' \/ LeadsInto(u, visited')
                \/ \E j \in 1..Len(queue') : queue'[j].vertex = u /\ Passed(u, queue'[j].next, visited')
    <2>1. CASE u = v
      <3>1. l + 2 \in 1..Len(queue')
        BY <1>7
      <3>2. queue'[l + 2].vertex = v /\ queue'[l + 2].next = 1
        BY <1>6, <1>7
      <3>3. Passed(v, 1, visited')
        <4>1. Len(graph[v]) \in Nat
          BY <1>1, <1>3, ListsOf
        <4> QED
          BY <4>1 DEF Passed
      <3> QED
        BY <2>1, <3>1, <3>2, <3>3
    <2>2. CASE Seen(u) /\ LeadsInto(u, visited)
      BY <2>2 DEF LeadsInto
    <2>3. CASE \E i \in 1..n : queue[i].vertex = u /\ Passed(u, queue[i].next, visited)
      <3>1. PICK i \in 1..n : queue[i].vertex = u /\ Passed(u, queue[i].next, visited)
        BY <2>3
      <3>2. CASE i \in 1..(k - 1)
        <4>1. u = skipped \/ LeadsInto(u, visited)
          BY <3>1, <3>2
        <4>2. u # N
          BY <1>1, <3>1, SearchesAssumption DEF Vertices
        <4> QED
          BY <4>1, <4>2 DEF LeadsInto
      <3>3. CASE i = k
        <4>1. 1 \in 1..Len(queue') /\ queue'[1].vertex = u /\ queue'[1].next = f + 1
          BY <1>6, <1>7, <3>1, <3>3
        <4>2. Passed(u, f + 1, visited')
          <5>1. u \in Vertices
            BY <1>1, <3>1
          <5>2. Len(graph[u]) \in Nat
            BY <1>1, <5>1, ListsOf
          <5>3. ASSUME NEW j \in 1..Len(graph[u]), j < f + 1 PROVE graph[u][j] \in visited'
            <6>1. j < f \/ j = f
              BY <1>3, <5>2, <5>3
            <6> QED
              BY <3>1, <3>3, <6>1 DEF Passed
          <5> QED
            BY <5>3 DEF Passed
        <4> QED
          BY <4>1, <4>2
      <3>4. CASE i \in (k + 1)..n
        <4>1. PICK j \in 2..(l + 1) : j + k - 1 = i
          <5>1. i - k + 1 \in 2..(l + 1) /\ (i - k + 1) + k - 1 = i
            BY <1>0, <3>4
          <5> QED
            BY <5>1
        <4>2. j \in 1..Len(queue') /\ queue'[j] = queue[i]
          <5>1. j \in 1..(l + 2)
            OBVIOUS
          <5> QED
            BY <1>7, <4>1, <5>1
        <4>3. Passed(u, queue[i].next, visited')
          BY <3>1 DEF Passed
        <4> QED
          BY <3>1, <4>2, <4>3
      <3>5. i \in 1..(k - 1) \/ i = k \/ i \in (k + 1)..n
        OBVIOUS
      <3> QED
        BY <3>2, <3>3, <3>4, <3>5
    <2> QED
      BY <1>2, <1>12, <2>1, <2>2, <2>3
  <1>13. BfsEdges'
    <2>1. \A u : u \in visited' <=> Seen(u)'
      BY <1>2, <1>4
    <2>2. Apart(queue)' /\ \A j \in 1..Len(queue') : Seen(queue[j].vertex)'
      BY <1>8, <1>9 DEF Apart, Seen
    <2>3. \A u : Seen(u)' => \/ u \in pruned' \/ LeadsInto(u, visited)'
                    \/ \E j \in 1..Len(queue') : queue'[j].vertex = u /\ Passed(u, queue[j].next, visited)'
      <3>1. graph' = graph
        OBVIOUS
      <3> QED
        BY <1>4, <1>12, <3>1 DEF LeadsInto, Passed
    <2> QED
      BY <1>10, <1>11, <2>1, <2>2, <2>3 DEF BfsEdges
  <1>14. queue' # <<>>
    <2>1. Len(queue') # 0
      BY <1>7
    <2> QED
      BY <1>7, <2>1, EmptySeq
  <1> QED
    BY <1>3, <1>4, <1>7, <1>13, <1>14

LEMMA LeastOf ==
  ASSUME NEW S, S \subseteq Nat, S # {}
  PROVE  BfsView!First(S) \in S /\ \A j \in S : BfsView!First(S) <= j
  <1>1. \E m \in S : \A x \in S : m <= x
    BY LeastNatural
  <1> QED
    BY <1>1 DEF BfsView!First

\* An entry without a fresh edge is done with.
LEMMA NothingFresh ==
  ASSUME NEW q, q.next \in Nat, Len(graph[q.vertex]) \in Nat,
         Passed(q.vertex, q.next, visited), BfsView!Fresh(q) = {}
  PROVE  LeadsInto(q.vertex, visited)
  <1> SUFFICES ASSUME NEW j \in 1..Len(graph[q.vertex]) PROVE graph[q.vertex][j] \in visited
    BY DEF LeadsInto
  <1>1. CASE j < q.next
    BY <1>1 DEF Passed
  <1>2. CASE ~(j < q.next)
    <2>1. j \in q.next..Len(graph[q.vertex])
      BY <1>2
    <2> QED
      BY <2>1 DEF BfsView!Fresh
  <1> QED
    BY <1>1, <1>2

\* What an iteration does: it empties the queue, or takes an edge.
BfsMoves ==
  \/ queue' = <<>> /\ edge' = <<>> /\ UNCHANGED <<visits, visited, count, maxDepth>>
  \/ \E n, k, f \in Nat, e \in Entries : \E skipped, v :
       /\ TakesEdge(n, skipped, k, e, f, v, e.depth + 1) /\ e.vertex # skipped
       /\ count' = count + 1
       /\ maxDepth' = IF e.depth + 1 > maxDepth THEN e.depth + 1 ELSE maxDepth
       /\ edge' = <<e.vertex, f>>

LEMMA BfsEdgesAdvance ==
  ASSUME BfsViewInv, search = "bfs_views", UNCHANGED arguments, BfsView!AdvanceEdge
  PROVE  /\ BfsViewInv' /\ Promised!Continue
         /\ yields = "edges" /\ queue # <<>> /\ BfsMoves
  <1>1. /\ yields = "edges" /\ visits # <<>> /\ cancel # "cancel_all" /\ cancel' = "continue_search"
        /\ UNCHANGED <<graph, seed, yields, search>> /\ begun' = TRUE
        /\ pruned' = IF cancel = "cancel_branch" THEN pruned \cup {BfsView!Target(edge)} ELSE pruned
        /\ ~BfsView!AtEnd
    BY DEF arguments, BfsView!AdvanceEdge, BfsView!Made
  <1>2. ViewEnded \in BOOLEAN /\ ~ViewEnded /\ queue # <<>> /\ IsView
    BY <1>1, BfsEnded DEF ViewEnded
  <1>3. /\ ViewsType /\ queue \in Seq(Entries) /\ BfsEdges /\ visits \in Seq(Vertices) /\ graph \in Adjacency
        /\ cancel = "cancel_branch" => skip = N
        /\ cancel = "cancel_branch" => BfsView!Target(edge) = Last(visits)
    BY <1>1, <1>2 DEF BfsViewInv, BfsAfter, BfsBefore, ViewsType
  <1>4. PICK c : c = Last(visits)
    OBVIOUS
  <1>5. PICK n \in Nat : n = Len(queue)
    BY <1>3, LenProperties
  <1>6. Seen(c) /\ c \in Vertices /\ \A u : Seen(u) => u \in Vertices
    BY <1>1, <1>3, <1>4, SeenIs DEF Seen
  <1>7. pruned' = IF cancel = "cancel_branch" THEN pruned \cup {c} ELSE pruned
    BY <1>1, <1>3, <1>4
  <1>8. PICK skipped : skipped = BfsView!Skipped
    OBVIOUS
  <1>9. skipped = IF cancel = "cancel_branch" THEN c ELSE skip
    BY <1>3, <1>4, <1>8 DEF BfsView!Skipped
  <1>10. /\ \A i \in 1..n : queue[i] \in Entries /\ queue[i].vertex \in Vertices /\ queue[i].next \in Nat \ {0}
         /\ \A i \in 1..n : Len(graph[queue[i].vertex]) \in Nat
         /\ DOMAIN queue = 1..n
    <2>1. \A i \in 1..n : queue[i] \in Entries
      BY <1>3, <1>5, ElementOfSeq
    <2>2. \A i \in 1..n : queue[i] \in Entries /\ queue[i].vertex \in Vertices /\ queue[i].next \in Nat \ {0}
      BY <2>1 DEF Entries
    <2> QED
      BY <1>3, <1>5, <2>2, ListsOf, LenProperties
  <1>11. N \notin Vertices
    BY SearchesAssumption DEF Vertices
  <1>12. /\ \A u : u \in visited <=> Seen(u)
         /\ \A i \in 1..n : Seen(queue[i].vertex)
         /\ \A i \in 1..n : queue[i].vertex \in pruned => queue[i].vertex = skip
         /\ skip # N => skip \in pruned
         /\ \A u : Seen(u) => \/ u \in pruned \/ LeadsInto(u, visited)
                              \/ \E i \in 1..n : queue[i].vertex = u /\ Passed(u, queue[i].next, visited)
         /\ Apart(queue)
    BY <1>2, <1>3, <1>5 DEF BfsEdges
  <1>13. /\ \A i \in 1..n : queue[i].vertex \in pruned' => queue[i].vertex = skipped
         /\ skipped # N => skipped \in pruned'
         /\ \A u \in pruned : u \in pruned' /\ \A w \in pruned' : Seen(w)
    <2>1. \A i \in 1..n : queue[i].vertex # N
      BY <1>10, <1>11
    <2>2. CASE cancel = "cancel_branch"
      BY <1>3, <1>6, <1>7, <1>9, <1>12, <2>1, <2>2 DEF ViewsType
    <2>3. CASE cancel # "cancel_branch"
      BY <1>3, <1>7, <1>9, <1>12, <2>3 DEF ViewsType
    <2> QED
      BY <2>2, <2>3
  <1>14. \A w \in pruned' : Seen(w)
    BY <1>3, <1>6, <1>7 DEF ViewsType
  <1>15. BfsView!Productive \subseteq 1..n
    BY <1>10 DEF BfsView!Productive
  <1>16. ASSUME NEW u, Seen(u), NEW i \in 1..n, queue[i].vertex = u, Passed(u, queue[i].next, visited),
                i \notin BfsView!Productive
         PROVE  u = skipped \/ LeadsInto(u, visited)
    <2>1. u = skipped \/ BfsView!Fresh(queue[i]) = {}
      BY <1>8, <1>10, <1>16 DEF BfsView!Productive
    <2>2. queue[i].next \in Nat /\ Len(graph[queue[i].vertex]) \in Nat
      BY <1>10
    <2> QED
      BY <1>16, <2>1, <2>2, NothingFresh
  <1>17. CASE BfsView!Productive = {}
    <2>1. queue' = <<>> /\ edge' = <<>> /\ UNCHANGED <<visited, visits>>
      BY <1>17 DEF BfsView!AdvanceEdge, BfsView!NoEdge
    <2>2. ASSUME NEW u, Seen(u), u \notin pruned' PROVE \A w : Leads(u, w) => Seen(w)
      <3>1. u # skipped
        BY <1>6, <1>11, <1>13, <2>2
      <3>2. u \notin pruned
        BY <1>7, <2>2
      <3>3. LeadsInto(u, visited)
        BY <1>12, <1>16, <1>17, <2>2, <3>1, <3>2
      <3> QED
        BY <1>12, <3>3 DEF Leads, LeadsInto
    <2>3. /\ visits' \in Seq(Vertices) /\ visits' # <<>> /\ \A v \in pruned' : Seen(v)'
          /\ queue' \in Seq(Entries)
      <3>1. <<>> \in Seq(Entries)
        BY EmptySeq
      <3> QED
        BY <1>1, <1>3, <1>14, <2>1, <3>1 DEF Seen
    <2>4. BfsViewInv'
      <3>1. ViewsType'
        BY <1>1, <1>3, <2>3 DEF ViewsType, CancelStates
      <3>2. BfsAfter'
        BY <1>1, <2>1, <2>3 DEF BfsAfter, BfsEdges
      <3> QED
        BY <2>3, <3>1, <3>2 DEF BfsViewInv
    <2>5. ViewEnded' \in BOOLEAN /\ ViewEnded' /\ IsView'
      BY <1>1, <2>1, <2>3, <2>4, BfsEndedNext
    <2>6. Exhausts
      BY <2>1, <2>2, <2>5 DEF Exhausts
    <2>7. Promised!Continue
      <3>1. pruned' = IF cancel = "cancel_branch" THEN pruned \cup {Last(visits)} ELSE pruned
        BY <1>4, <1>7
      <3> QED
        BY <1>1, <1>2, <1>3, <2>5, <2>6, <3>1, Continues
    <2>8. BfsMoves
      <3>1. UNCHANGED <<visited, count, maxDepth>>
        BY <1>17 DEF BfsView!AdvanceEdge
      <3> QED
        BY <2>1, <3>1 DEF BfsMoves
    <2> QED
      BY <1>1, <1>2, <2>4, <2>7, <2>8
  <1>18. CASE BfsView!Productive # {}
    <2>1. PICK k, e, f, v : /\ k = BfsView!First(BfsView!Productive) /\ e = queue[k]
                            /\ f = BfsView!First(BfsView!Fresh(e)) /\ v = graph[e.vertex][f]
      OBVIOUS
    <2>2. k \in BfsView!Productive /\ k \in 1..n /\ \A j \in BfsView!Productive : k <= j
      <3>1. BfsView!Productive \subseteq Nat
        BY <1>15
      <3> QED
        BY <1>15, <1>18, <2>1, <3>1, LeastOf
    <2>3. /\ BfsView!Fresh(e) # {} /\ e.vertex \in Vertices /\ e.next \in Nat \ {0} /\ e.depth \in Nat
          /\ Len(graph[e.vertex]) \in Nat /\ e.vertex # skipped /\ e \in Entries
      <3>1. BfsView!Fresh(e) # {} /\ e.vertex # skipped
        BY <1>8, <2>1, <2>2 DEF BfsView!Productive
      <3>2. e.depth \in Nat
        BY <1>10, <2>1, <2>2 DEF Entries
      <3> QED
        BY <1>10, <2>1, <2>2, <3>1, <3>2
    <2>4. /\ f \in 1..Len(graph[e.vertex]) /\ v \notin visited
          /\ f >= e.next /\ \A j \in 1..Len(graph[e.vertex]) : e.next <= j /\ j < f => graph[e.vertex][j] \in visited
      <3>1. BfsView!Fresh(e) \subseteq Nat
        BY <2>3 DEF BfsView!Fresh
      <3>2. f \in BfsView!Fresh(e) /\ \A j \in BfsView!Fresh(e) : f <= j
        BY <2>1, <2>3, <3>1, LeastOf
      <3>3. f \in e.next..Len(graph[e.vertex]) /\ graph[e.vertex][f] \notin visited
        BY <3>2 DEF BfsView!Fresh
      <3>4. ASSUME NEW j \in 1..Len(graph[e.vertex]), e.next <= j, j < f PROVE graph[e.vertex][j] \in visited
        <4>1. j \notin BfsView!Fresh(e)
          BY <2>3, <3>2, <3>3, <3>4
        <4>2. j \in e.next..Len(graph[e.vertex])
          BY <2>3, <3>4
        <4> QED
          BY <4>1, <4>2 DEF BfsView!Fresh
      <3> QED
        BY <2>1, <2>3, <3>3, <3>4
    <2>5. \A i \in 1..(k - 1) : queue[i].vertex = skipped \/ LeadsInto(queue[i].vertex, visited)
      <3> SUFFICES ASSUME NEW i \in 1..(k - 1) PROVE queue[i].vertex = skipped \/ LeadsInto(queue[i].vertex, visited)
        OBVIOUS
      <3>1. i \in 1..n /\ i \notin BfsView!Productive
        BY <2>2
      <3>2. Seen(queue[i].vertex)
        BY <1>12, <3>1
      <3>3. CASE queue[i].vertex \in pruned
        BY <1>13, <3>1, <3>3
      <3>4. CASE \E j \in 1..n : queue[j].vertex = queue[i].vertex /\ Passed(queue[i].vertex, queue[j].next, visited)
        <4>1. Passed(queue[i].vertex, queue[i].next, visited)
          BY <1>5, <1>12, <3>1, <3>4 DEF Apart
        <4> QED
          BY <1>16, <3>1, <3>2, <4>1
      <3> QED
        BY <1>12, <3>2, <3>3, <3>4
    <2>6. Passed(e.vertex, f, visited)
      <3>1. e.vertex \notin pruned
        BY <1>7, <1>13, <2>1, <2>2, <2>3
      <3>2. Seen(e.vertex) /\ ~LeadsInto(e.vertex, visited)
        BY <1>12, <2>1, <2>2, <2>4 DEF LeadsInto
      <3>3. PICK i \in 1..n : queue[i].vertex = e.vertex /\ Passed(e.vertex, queue[i].next, visited)
        BY <1>12, <3>1, <3>2
      <3>4. i = k
        BY <1>5, <1>12, <2>1, <2>2, <3>3 DEF Apart
      <3>5. Passed(e.vertex, e.next, visited)
        BY <2>1, <3>3, <3>4
      <3>6. ASSUME NEW j \in 1..Len(graph[e.vertex]), j < f PROVE graph[e.vertex][j] \in visited
        <4>1. j < e.next \/ e.next <= j
          BY <2>3
        <4> QED
          BY <2>4, <3>5, <3>6, <4>1 DEF Passed
      <3> QED
        BY <3>6 DEF Passed
    <2>7. /\ queue' = <<[e EXCEPT !.next = f + 1]>> \o SubSeq(queue, k + 1, n) \o <<BfsView!Entry(v, e.depth + 1)>>
          /\ skip' = IF skipped \in {queue[j].vertex : j \in 1..(k - 1)} THEN N ELSE skipped
          /\ edge' = <<e.vertex, f>>
          /\ visited' = visited \cup {v}
          /\ visits' = Append(visits, v)
      BY <1>5, <1>8, <1>18, <2>1 DEF BfsView!AdvanceEdge, BfsView!Popped, BfsView!None
    <2>8. TakesEdge(n, skipped, k, e, f, v, e.depth + 1)
      <3>1. \A u \in pruned : u \in pruned'
        BY <1>7
      <3> QED
        BY <1>5, <1>13, <1>14, <2>1, <2>2, <2>4, <2>5, <2>6, <2>7, <3>1 DEF TakesEdge
    <2>9. /\ visits' \in Seq(Vertices) /\ visits' # <<>> /\ Last(visits') = v
          /\ \A u \in pruned' : Seen(u)'
          /\ queue' \in Seq(Entries) /\ queue' # <<>> /\ BfsEdges'
          /\ v \in Vertices /\ ~Seen(v)
      <3>1. e.depth + 1 \in Nat /\ f \in Nat /\ graph' = graph
        BY <1>1, <2>3, <2>4
      <3>2. Taken(v)
        BY <1>1, <1>2, <1>3, <2>8, <3>1, BfsEdgesStep
      <3> QED
        BY <3>2 DEF Taken
    <2>10. BfsViewInv'
      <3>1. ViewsType'
        BY <1>1, <1>3, <2>9 DEF ViewsType, CancelStates
      <3>2. edge' # <<>> /\ BfsView!Target(edge)' = Last(visits)'
        <4>1. edge'[1] = e.vertex /\ edge'[2] = f /\ edge' # <<>>
          BY <2>7
        <4> QED
          BY <1>1, <2>1, <2>9, <4>1 DEF BfsView!Target
      <3>3. BfsAfter'
        BY <1>1, <2>9, <3>2 DEF BfsAfter
      <3> QED
        BY <2>9, <3>1, <3>3 DEF BfsViewInv
    <2>11. ViewEnded' \in BOOLEAN /\ ~ViewEnded' /\ IsView'
      BY <1>1, <2>9, <2>10, BfsEndedNext
    <2>12. Finds(v)
      <3>1. Seen(e.vertex) /\ e.vertex \notin pruned' /\ Leads(e.vertex, v)
        BY <1>12, <1>13, <2>1, <2>2, <2>3, <2>4 DEF Leads
      <3> QED
        BY <2>7, <2>9, <2>11, <3>1 DEF Finds
    <2>13. Promised!Continue
      <3>1. pruned' = IF cancel = "cancel_branch" THEN pruned \cup {Last(visits)} ELSE pruned
        BY <1>4, <1>7
      <3> QED
        BY <1>1, <1>2, <1>3, <2>11, <2>12, <3>1, Continues
    <2>14. BfsMoves
      <3>1. count' = count + 1 /\ maxDepth' = IF e.depth + 1 > maxDepth THEN e.depth + 1 ELSE maxDepth
        BY <1>5, <1>8, <1>18, <2>1 DEF BfsView!AdvanceEdge
      <3>2. n \in Nat /\ k \in Nat /\ f \in Nat /\ e \in Entries /\ e.vertex # skipped
        BY <1>5, <2>2, <2>3, <2>4
      <3>3. edge' = <<e.vertex, f>>
        BY <2>7
      <3> QED
        BY <2>8, <3>1, <3>2, <3>3 DEF BfsMoves
    <2> QED
      BY <1>1, <1>2, <2>10, <2>13, <2>14
  <1> QED
    BY <1>1, <1>2, <1>17, <1>18

LEMMA BfsStep ==
  ASSUME BfsViewInv, search = "bfs_views", CancelTwice = FALSE, UNCHANGED arguments, BfsView!Next
  PROVE  BfsViewInv' /\ Promised!Next
  <1>1. /\ UNCHANGED <<search, seed, yields>> /\ search' = "bfs_views"
        /\ ViewEnded \in BOOLEAN /\ (ViewEnded <=> visits # <<>> /\ queue = <<>>) /\ IsView
    BY BfsEnded DEF arguments
  <1>2. ViewsType
    BY DEF BfsViewInv
  <1>3. CASE BfsView!Make
    <2>1. /\ visits = <<>> /\ queue' = <<BfsView!Entry(seed, 0)>> /\ visited' = {seed} /\ visits' = <<seed>>
          /\ begun' = (yields = "vertices")
          /\ UNCHANGED <<graph, cancel, skip, edge, pruned>>
      BY <1>3 DEF BfsView!Make, BfsView!Made
    <2>2. cancel = "continue_search" /\ skip = N /\ edge = <<>> /\ pruned = {} /\ seed \in Vertices
      BY <2>1 DEF BfsViewInv, BfsBefore, ViewsType
    <2>3. /\ visits' \in Seq(Vertices) /\ visits' # <<>> /\ Last(visits') = seed
          /\ \A v : Seen(v)' <=> v = seed
      <3>1. Len(<<seed>>) = 1 /\ <<seed>>[1] = seed /\ <<seed>> \in Seq(Vertices) /\ <<seed>> # <<>>
        BY <2>2
      <3> QED
        BY <2>1, <3>1 DEF Seen, Listed, Last
    <2>4. PICK a : a = BfsView!Entry(seed, 0)
      OBVIOUS
    <2>5. a \in Entries /\ a.vertex = seed /\ a.next = 1
      BY <2>2, <2>4 DEF BfsView!Entry, Entries
    <2>6. queue' \in Seq(Entries) /\ queue' # <<>> /\ Len(queue') = 1 /\ queue'[1] = a
      BY <2>1, <2>4, <2>5
    <2>7. \A i \in 1..Len(queue') : i = 1
      BY <2>6
    <2>8. \A v : On(queue', v) <=> v = seed
      BY <2>5, <2>6, <2>7 DEF On
    <2>9. BfsVertices'
      <3>1. Apart(queue)' /\ \A v : On(queue, v)' <=> v = seed
        BY <2>7, <2>8 DEF Apart, On
      <3>2. \A i \in 2..Len(queue') : FALSE
        BY <2>6
      <3> QED
        BY <2>1, <2>2, <2>3, <2>5, <2>6, <3>1, <3>2 DEF BfsVertices
    <2>10. BfsEdges'
      <3>1. Apart(queue)' /\ \A i \in 1..Len(queue') : Seen(queue[i].vertex)'
        <4>1. \A i \in 1..Len(queue') : Listed(visits', queue'[i].vertex)
          BY <2>3, <2>5, <2>6, <2>7 DEF Seen
        <4> QED
          BY <2>7, <4>1 DEF Apart, Seen
      <3>2. Passed(seed, 1, visited)'
        <4>1. graph' = graph /\ Len(graph[seed]) \in Nat
          BY <1>2, <2>1, <2>2, ListsOf DEF ViewsType
        <4> QED
          BY <4>1 DEF Passed
      <3>3. 1 \in 1..Len(queue') /\ queue'[1].vertex = seed /\ queue'[1].next = 1
        BY <2>5, <2>6
      <3>4. \A v : Seen(v)' => \E j \in 1..Len(queue') : queue'[j].vertex = v /\ Passed(v, queue[j].next, visited)'
        <4>1. Passed(seed, queue[1].next, visited)'
          BY <3>2, <3>3 DEF Passed
        <4> QED
          BY <2>3, <3>3, <4>1 DEF Passed
      <3> QED
        BY <2>1, <2>2, <2>3, <3>1, <3>4 DEF BfsEdges
    <2>11. BfsViewInv'
      <3>1. ViewsType'
        BY <1>1, <1>2, <2>1, <2>2, <2>3 DEF ViewsType
      <3>2. BfsAfter'
        BY <1>1, <1>2, <2>1, <2>2, <2>6, <2>9, <2>10 DEF BfsAfter, ViewsType
      <3> QED
        BY <2>3, <3>1, <3>2 DEF BfsViewInv
    <2>12. ViewEnded' = ViewEnded /\ IsView'
      BY <1>1, <2>1, <2>6, <2>11, BfsEndedNext
    <2> QED
      BY <1>1, <2>1, <2>11, <2>12 DEF Promised!Next, Promised!Make
  <1>4. CASE BfsView!Cancel
    <2>1. /\ begun /\ ~BfsView!AtEnd /\ cancel' \in CancelStates
          /\ cancel' = "cancel_branch" => skip = N \/ CancelTwice
          /\ UNCHANGED <<graph, queue, visited, skip, edge, begun, visits, pruned>>
      BY <1>4 DEF BfsView!Cancel, BfsView!None, CancelStates
    <2>2. ~ViewEnded
      BY <1>1, <2>1 DEF ViewEnded
    <2>3. visits # <<>> /\ BfsAfter
      BY <2>1 DEF BfsViewInv, BfsBefore
    <2>4. BfsViewInv'
      <3>1. ViewsType'
        BY <1>1, <1>2, <2>1 DEF ViewsType, Seen
      <3>2. BfsVertices => BfsVertices'
        BY <2>1 DEF BfsVertices, Seen, Leads, LeadsInto
      <3>3. BfsEdges => BfsEdges'
        BY <2>1 DEF BfsEdges, Seen, LeadsInto, Passed
      <3>4. BfsView!Target(edge)' = BfsView!Target(edge)
        BY <2>1 DEF BfsView!Target
      <3>5. BfsAfter'
        BY <1>1, <2>1, <2>3, <3>2, <3>3, <3>4 DEF BfsAfter
      <3> QED
        BY <2>1, <2>3, <3>1, <3>5 DEF BfsViewInv
    <2>5. ViewEnded' = ViewEnded /\ IsView'
      BY <1>1, <2>1, <2>4, BfsEndedNext
    <2> QED
      BY <1>1, <2>1, <2>2, <2>3, <2>4, <2>5 DEF Promised!Next, Promised!Ask, CancelStates
  <1>5. CASE BfsView!AdvanceCancelled
    <2>1. /\ visits # <<>> /\ ~BfsView!AtEnd /\ cancel = "cancel_all" /\ queue' = <<>> /\ edge' = <<>>
          /\ UNCHANGED <<graph, visited, cancel, skip, begun, visits, pruned>>
      BY <1>5 DEF BfsView!AdvanceCancelled, BfsView!Made, BfsView!NoEdge
    <2>2. ~ViewEnded /\ BfsAfter /\ begun
      BY <1>1, <2>1 DEF ViewEnded, BfsViewInv, BfsAfter
    <2>3. BfsViewInv'
      <3>1. ViewsType'
        BY <1>1, <1>2, <2>1 DEF ViewsType, Seen
      <3>2. queue' \in Seq(Entries)
        BY <2>1, EmptySeq
      <3>3. BfsAfter'
        BY <1>1, <2>1, <2>2, <3>2 DEF BfsAfter, BfsVertices, BfsEdges
      <3> QED
        BY <2>1, <3>1, <3>3 DEF BfsViewInv
    <2>4. ViewEnded' = TRUE /\ IsView'
      BY <1>1, <2>1, <2>3, BfsEndedNext
    <2> QED
      BY <1>1, <2>1, <2>2, <2>3, <2>4 DEF Promised!Next, Promised!Stop
  <1>6. CASE BfsView!AdvanceSkipping \/ BfsView!AdvanceExploring
    BY <1>6, BfsVerticesAdvance DEF Promised!Next
  <1>7. CASE BfsView!AdvanceEdge
    BY <1>7, BfsEdgesAdvance DEF Promised!Next
  <1> QED
    BY <1>3, <1>4, <1>5, <1>6, <1>7 DEF BfsView!Next, BfsView!Advance

-----------------------------------------------------------------------------
(* Both views implement PrunedSearch *)

LEMMA ViewsStep ==
  ASSUME ViewInv, CancelTwice = FALSE, [Next]_vars
  PROVE  ViewInv' /\ [Promised!Next]_(Promised!vars)
  <1>1. CASE UNCHANGED vars
    <2>1. UNCHANGED <<search, graph, seed, yields, visits, pruned, cancel, queue, visited, stack, skip, edge, begun>>
      BY <1>1 DEF vars, arguments, views, bfsDepths, edges
    <2>2. ViewsType => ViewsType'
      BY <2>1 DEF ViewsType, Seen
    <2>3. BfsViewInv => BfsViewInv'
      <3>1. BfsVertices => BfsVertices'
        BY <2>1 DEF BfsVertices, Seen, Leads, LeadsInto
      <3>2. BfsEdges => BfsEdges'
        BY <2>1 DEF BfsEdges, Seen, LeadsInto, Passed
      <3>3. BfsView!Target(edge)' = BfsView!Target(edge)
        BY <2>1 DEF BfsView!Target
      <3>4. BfsAfter => BfsAfter'
        BY <2>1, <3>1, <3>2, <3>3 DEF BfsAfter
      <3> QED
        BY <2>1, <2>2, <3>4 DEF BfsViewInv, BfsBefore
    <2>4. DfsViewInv => DfsViewInv'
      <3>1. DfsStack => DfsStack'
        BY <2>1 DEF DfsStack, Seen, LeadsInto, Passed
      <3> QED
        BY <2>1, <2>2, <3>1 DEF DfsViewInv
    <2>5. ViewEnded' = ViewEnded /\ IsView' = IsView
      BY <2>1 DEF ViewEnded, BfsView!AtEnd, BfsView!NoEdge, DfsView!AtEnd, DfsView!Made, IsView
    <2> QED
      BY <2>1, <2>3, <2>4, <2>5 DEF ViewInv, Promised!vars
  <1>2. CASE Next
    <2>1. UNCHANGED arguments /\ UNCHANGED <<search, seed>>
      BY <1>2 DEF Next, arguments
    <2>2. CASE search = "bfs_views"
      <3>1. BfsView!Next
        BY <1>2, <2>2 DEF Next
      <3>2. BfsViewInv' /\ Promised!Next
        BY <2>1, <2>2, <3>1, BfsStep DEF ViewInv
      <3> QED
        BY <2>1, <2>2, <3>2 DEF ViewInv
    <2>3. CASE search = "dfs_views"
      <3>1. DfsView!Next
        BY <1>2, <2>3 DEF Next
      <3>2. DfsViewInv' /\ Promised!Next
        BY <2>1, <2>3, <3>1, DfsStep DEF ViewInv
      <3> QED
        BY <2>1, <2>3, <3>2 DEF ViewInv
    <2>4. CASE search \notin {"bfs_views", "dfs_views"}
      <3>1. UNCHANGED <<graph, pruned>>
        <4>1. CASE search = "breadth_first_search"
          BY <1>2, <4>1 DEF Next, views, Bfs!Next, Bfs!Seed, Bfs!Examine, Bfs!ExamineEdge, Bfs!Finish
        <4>2. CASE search = "depth_first_search"
          BY <1>2, <4>2 DEF Next, views, Dfs!SearchNext, Dfs!Start, Dfs!Finish, Dfs!FollowTreeEdge, Dfs!PassEdge
        <4>3. CASE search = "topological_sort"
          BY <1>2, <4>3 DEF Next, views, Dfs!SortNext, Dfs!SkipSource, Dfs!Visit, Dfs!SortFinish, Dfs!Follow, Dfs!Output
        <4>4. CASE search = "topological_views"
          BY <1>2, <4>4 DEF Next, TopoView!Next, TopoView!Construct, TopoView!Begin, TopoView!Cancel, TopoView!Advance,
             TopoView!Root, TopoView!Leave, TopoView!CloseCycle, TopoView!Follow, TopoView!Constructed,
             TopoView!AdvanceVertex, TopoView!AdvanceEdge
        <4> QED
          BY <1>2, <2>4, <4>1, <4>2, <4>3, <4>4 DEF Next
      <3>2. ~IsView /\ ~IsView' /\ ViewEnded = FALSE /\ ViewEnded' = FALSE
        BY <2>1, <2>4 DEF IsView, ViewEnded
      <3> QED
        BY <2>1, <2>4, <3>1, <3>2 DEF ViewInv, Promised!vars
    <2> QED
      BY <2>2, <2>3, <2>4
  <1> QED
    BY <1>1, <1>2

\* Both views visit what they promise whatever the caller cancels: each element is a vertex
\* that an edge leads to from one already visited and not cancelled, and they end only
\* when there is none.  A branch may not be cancelled twice before it is skipped.
THEOREM ViewsVisitWhatIsPromised == (Spec /\ CancelTwice = FALSE) => ImplementsPrunedSearch
  <1>1. ASSUME CancelTwice = FALSE PROVE ViewInv /\ [Next]_vars => ViewInv' /\ [Promised!Next]_(Promised!vars)
    BY <1>1, ViewsStep
  <1>2. Init => ViewInv /\ Promised!Init
    BY ViewsBegin
  <1>3. ASSUME CancelTwice = FALSE PROVE Spec => Promised!Spec
    <2>1. ViewInv /\ [Next]_vars => ViewInv' /\ [Promised!Next]_(Promised!vars)
      BY <1>1, <1>3
    <2> QED
      BY <1>2, <2>1, PTL DEF Spec, Promised!Spec
  <1> QED
    BY <1>3 DEF ImplementsPrunedSearch

-----------------------------------------------------------------------------
(* Layers of a breadth-first search *)

\* The layers are the distances from the first vertex.
LEMMA LayersAreDistances ==
  ASSUME NEW succ \in [Vertices -> SUBSET Vertices], NEW d \in Seq(Vertices), NEW n \in Nat, n = Len(d), NEW L, NEW w \in Nat,
         Layered(succ, d, L, w), NEW m \in 1..n, w <= m, ClosedTo(succ, d, m), NEW a \in 1..n
  PROVE  Distance(succ, d[1], d[a]) = L[a]
  <1>1. /\ \A i \in 1..n : L[i] \in Nat /\ (i = 1 => L[i] = 0)
        /\ \A i, j \in 1..n : i <= j => L[i] <= L[j]
        /\ \A i, j \in 1..n : d[i] = d[j] => i = j
        /\ \A b \in 2..n : \E c \in 1..(b - 1) : c <= w /\ FirstTo(succ, d, c, b) /\ L[b] = L[c] + 1
        /\ Distinct(d)
    BY DEF Layered, Distinct
  <1>2. 1 \in 1..n /\ d[1] \in Vertices
    <2>1. 1 \in 1..n
      OBVIOUS
    <2> QED
      BY <2>1, ElementOfSeq
  <1>3. PICK R : R = Balls(succ, d[1])
    OBVIOUS
  <1>4. R[0] = {d[1]} /\ \A k \in Nat : R[k + 1] = R[k] \cup UNION {succ[x] : x \in R[k]}
    <2>0. \A u \in Vertices : Balls(succ, u)[0] = {u} /\ \A k \in Nat : Balls(succ, u)[k + 1] = Ball(succ, Balls(succ, u)[k])
      BY BallsUnfold
    <2>1. R[0] = {d[1]} /\ \A k \in Nat : R[k + 1] = Ball(succ, R[k])
      BY <1>2, <1>3, <2>0
    <2> QED
      BY <2>1 DEF Ball
  \* The vertices of a layer are reached in so many steps,
  <1>5. \A k \in Nat : \A b \in 1..n : L[b] = k => d[b] \in R[k]
    <2> DEFINE Good == {k \in Nat : \A b \in 1..n : L[b] = k => d[b] \in R[k]}
    <2>1. 0 \in Good
      <3> SUFFICES ASSUME NEW b \in 1..n, L[b] = 0 PROVE d[b] \in R[0]
        OBVIOUS
      <3>1. b = 1
        <4> SUFFICES ASSUME b \in 2..n PROVE FALSE
          OBVIOUS
        <4>1. PICK c \in 1..(b - 1) : L[b] = L[c] + 1
          BY <1>1
        <4>2. c \in 1..n
          BY <4>1
        <4> QED
          BY <1>1, <4>1, <4>2
      <3> QED
        BY <1>4, <3>1
    <2>2. ASSUME NEW k \in Nat, k \in Good PROVE k + 1 \in Good
      <3> SUFFICES ASSUME NEW b \in 1..n, L[b] = k + 1 PROVE d[b] \in R[k + 1]
        OBVIOUS
      <3>1. b \in 2..n
        BY <1>1
      <3>2. PICK c \in 1..(b - 1) : FirstTo(succ, d, c, b) /\ L[b] = L[c] + 1
        BY <1>1, <3>1
      <3>3. c \in 1..n
        BY <3>2
      <3>4. L[c] = k
        BY <1>1, <3>2, <3>3
      <3>5. d[c] \in R[k]
        BY <2>2, <3>3, <3>4
      <3>6. d[b] \in succ[d[c]]
        BY <3>2 DEF FirstTo
      <3>7. d[b] \in UNION {succ[x] : x \in R[k]}
        BY <3>5, <3>6
      <3>8. R[k + 1] = R[k] \cup UNION {succ[x] : x \in R[k]}
        BY <1>4
      <3> QED
        BY <3>7, <3>8
    <2> HIDE DEF Good
    <2>3. Nat \subseteq Good
      BY <2>1, <2>2, InductiveSet
    <2> QED
      BY <2>3 DEF Good
  \* and up to the layer of the m-th no others are.
  <1>6. \A k \in Nat : k <= L[m] => \A x \in R[k] : \E b \in 1..n : d[b] = x /\ L[b] <= k
    <2> DEFINE Good == {k \in Nat : k <= L[m] => \A x \in R[k] : \E b \in 1..n : d[b] = x /\ L[b] <= k}
    <2>1. 0 \in Good
      BY <1>1, <1>2, <1>4
    <2>2. ASSUME NEW k \in Nat, k \in Good PROVE k + 1 \in Good
      <3> SUFFICES ASSUME k + 1 <= L[m], NEW x \in R[k + 1] PROVE \E b \in 1..n : d[b] = x /\ L[b] <= k + 1
        OBVIOUS
      <3>1. \A y \in R[k] : \E b \in 1..n : d[b] = y /\ L[b] <= k
        BY <1>1, <2>2
      <3>2. CASE x \in R[k]
        BY <1>1, <3>1, <3>2
      <3>3. CASE \E y \in R[k] : x \in succ[y]
        <4>1. PICK y \in R[k] : x \in succ[y]
          BY <3>3
        <4>2. PICK c \in 1..n : d[c] = y /\ L[c] <= k
          BY <3>1, <4>1
        <4>3. c < m
          <5> SUFFICES ASSUME m <= c PROVE FALSE
            OBVIOUS
          <5>1. L[m] <= L[c] /\ L[m] \in Nat /\ L[c] \in Nat
            BY <1>1
          <5> QED
            BY <4>2, <5>1
        <4>4. PICK b \in 1..n : d[b] = x
          BY <4>1, <4>2, <4>3 DEF ClosedTo, Listed
        <4>5. L[b] <= L[c] + 1
          BY <4>1, <4>2, <4>4, OneLayer
        <4> QED
          BY <1>1, <4>2, <4>4, <4>5
      <3> QED
        BY <1>4, <3>2, <3>3
    <2> HIDE DEF Good
    <2>3. Nat \subseteq Good
      BY <2>1, <2>2, InductiveSet
    <2> QED
      BY <2>3 DEF Good
  <1>7. L[a] <= L[m] + 1
    <2>1. CASE a = 1
      BY <1>1, <2>1
    <2>2. CASE a \in 2..n
      <3>1. PICK c \in 1..(a - 1) : c <= w /\ L[a] = L[c] + 1
        BY <1>1, <2>2
      <3>2. c \in 1..n /\ c <= m
        BY <3>1
      <3> QED
        BY <1>1, <3>1, <3>2
    <2> QED
      BY <2>1, <2>2
  <1>8. ASSUME NEW j \in Nat, j < L[a] PROVE d[a] \notin R[j]
    <2> SUFFICES ASSUME d[a] \in R[j] PROVE FALSE
      OBVIOUS
    <2>1. j <= L[m]
      BY <1>1, <1>7, <1>8
    <2>2. PICK b \in 1..n : d[b] = d[a] /\ L[b] <= j
      BY <1>6, <2>1
    <2>3. b = a
      BY <1>1, <2>2
    <2> QED
      BY <1>1, <1>8, <2>2, <2>3
  <1>9. PICK C : C = Cardinality(DOMAIN succ)
    OBVIOUS
  <1>10. L[a] \in 0..C
    <2>1. C = Cardinality(Vertices)
      BY <1>9
    <2>2. IsFiniteSet(Vertices)
      BY VerticesFinite
    <2>3. {v \in Vertices : Listed(d, v)} \subseteq Vertices
      OBVIOUS
    <2>4. Cardinality({v \in Vertices : Listed(d, v)}) <= Cardinality(Vertices)
      BY <2>2, <2>3, FS_Subset
    <2>5. Cardinality({v \in Vertices : Listed(d, v)}) = n
      BY <1>1, DistinctSize
    <2>6. C \in Nat
      BY <2>1, <2>2, FS_CardinalityType
    <2>7. L[a] < a
      BY LayersShallow
    <2>8. n <= C
      BY <2>1, <2>4, <2>5
    <2> QED
      BY <1>1, <2>6, <2>7, <2>8
  <1>11. Distance(succ, d[1], d[a]) = CHOOSE k \in 0..C : d[a] \in R[k] /\ \A j \in 0..(k - 1) : d[a] \notin R[j]
    BY <1>3, <1>9 DEF Distance, Balls, Ball
  <1>12. d[a] \in R[L[a]] /\ \A j \in 0..(L[a] - 1) : d[a] \notin R[j]
    BY <1>1, <1>5, <1>8
  <1>13. ASSUME NEW k \in 0..C, d[a] \in R[k], \A j \in 0..(k - 1) : d[a] \notin R[j] PROVE k = L[a]
    <2>1. ~(k < L[a])
      BY <1>8, <1>13
    <2>2. ~(L[a] < k)
      <3> SUFFICES ASSUME L[a] \in 0..(k - 1) PROVE FALSE
        BY <1>1
      <3> QED
        BY <1>12, <1>13
    <2> QED
      BY <1>1, <2>1, <2>2
  <1> QED
    BY <1>10, <1>11, <1>12, <1>13

-----------------------------------------------------------------------------
(* The layers of the breadth-first views *)

\* E is D with found after it, and M the layers L with found one layer below the p-th.
Grown(succ, D, L, n, p, found, k, E, M) ==
  /\ Len(E) = n + k
  /\ \A i \in 1..n : E[i] = D[i] /\ M[i] = L[i]
  /\ \A i \in 1..k : E[n + i] = found[i] /\ M[n + i] = L[p] + 1 /\ FirstTo(succ, E, p, n + i)
  /\ k # 0 => M[n + k] = L[p] + 1 /\ L[n] <= L[p] + 1
  /\ \A x : Listed(E, x) <=> Listed(D, x) \/ Listed(found, x)
  /\ Layered(succ, E, M, p) /\ ClosedTo(succ, E, p)

LEMMA LayersGrow ==
  ASSUME NEW succ, NEW D \in Seq(Vertices), NEW n \in Nat, n = Len(D), NEW L, NEW w \in Nat, Layered(succ, D, L, w),
         NEW p \in 1..n, w <= p, ClosedTo(succ, D, p),
         NEW found \in Seq(Vertices), NEW k \in Nat, k = Len(found), Distinct(found),
         \A x : Listed(found, x) => ~Listed(D, x) /\ x \in succ[D[p]]
  PROVE  \E E \in Seq(Vertices) : \E M : Grown(succ, D, L, n, p, found, k, E, M)
  <1>1. PICK E : E = D \o found
    OBVIOUS
  <1>2. /\ E \in Seq(Vertices) /\ Len(E) = n + k
        /\ \A i \in 1..(n + k) : E[i] = IF i <= n THEN D[i] ELSE found[i - n]
    BY <1>1, ConcatProperties
  <1>3. \A i \in 1..n : E[i] = D[i] /\ i \in 1..(n + k)
    BY <1>2
  <1>4. \A i \in 1..k : n + i \in 1..(n + k) /\ E[n + i] = found[i]
    <2> TAKE i \in 1..k
    <2>1. n + i \in 1..(n + k) /\ ~(n + i <= n) /\ (n + i) - n = i
      OBVIOUS
    <2> QED
      BY <1>2, <2>1
  <1>5. \A j \in 1..(n + k) : j > n => j - n \in 1..k /\ E[j] = found[j - n]
    <2> TAKE j \in 1..(n + k)
    <2> HAVE j > n
    <2>1. j - n \in 1..k /\ ~(j <= n)
      OBVIOUS
    <2> QED
      BY <1>2, <2>1
  <1>6. \A i \in 1..k : ~Listed(D, found[i]) /\ found[i] \in succ[D[p]]
    BY DEF Listed
  <1>7. /\ \A i, j \in 1..n : D[i] = D[j] => i = j
        /\ \A i, j \in 1..k : found[i] = found[j] => i = j
        /\ \A i \in 1..k : \A j \in 1..n : found[i] # D[j]
    BY <1>6 DEF Layered, Distinct, Listed
  <1>8. Distinct(E)
    <2> SUFFICES ASSUME NEW i \in 1..(n + k), NEW j \in 1..(n + k), E[i] = E[j] PROVE i = j
      BY <1>2 DEF Distinct
    <2>1. CASE i <= n /\ j <= n
      <3>1. i \in 1..n /\ j \in 1..n
        BY <2>1
      <3> QED
        BY <1>3, <1>7, <3>1
    <2>2. CASE i > n /\ j > n
      <3>1. i - n \in 1..k /\ j - n \in 1..k /\ found[i - n] = found[j - n]
        BY <1>5, <2>2
      <3>2. i - n = j - n
        BY <1>7, <3>1
      <3> QED
        BY <3>2
    <2>3. CASE i <= n /\ j > n
      <3>1. i \in 1..n /\ j - n \in 1..k /\ found[j - n] = D[i]
        BY <1>3, <1>5, <2>3
      <3> QED
        BY <1>7, <3>1
    <2>4. CASE i > n /\ j <= n
      <3>1. j \in 1..n /\ i - n \in 1..k /\ found[i - n] = D[j]
        BY <1>3, <1>5, <2>4
      <3> QED
        BY <1>7, <3>1
    <2> QED
      BY <2>1, <2>2, <2>3, <2>4
  <1>9. Extends(succ, E, D, p)
    <2>1. \A i \in 1..(n + k) : i > n => E[i] \in succ[D[p]]
      BY <1>5, <1>6
    <2> QED
      BY <1>2, <1>3, <1>8, <2>1 DEF Extends
  <1>10. PICK M : Deepens(succ, E, M, L, n, p)
    BY <1>9, LayeredGrows
  <1>11. /\ Layered(succ, E, M, p)
         /\ \A i \in 1..n : M[i] = L[i]
         /\ \A i \in 1..(n + k) : i > n => M[i] = L[p] + 1 /\ FirstTo(succ, E, p, i)
    BY <1>2, <1>10 DEF Deepens
  <1>12. \A i \in 1..k : E[n + i] = found[i] /\ M[n + i] = L[p] + 1 /\ FirstTo(succ, E, p, n + i)
    <2> TAKE i \in 1..k
    <2>1. n + i \in 1..(n + k) /\ n + i > n
      OBVIOUS
    <2> QED
      BY <1>4, <1>11, <2>1
  <1>13. k # 0 => M[n + k] = L[p] + 1 /\ L[n] <= L[p] + 1
    <2> SUFFICES ASSUME k # 0 PROVE M[n + k] = L[p] + 1 /\ L[n] <= L[p] + 1
      OBVIOUS
    <2>1. k \in 1..k /\ n \in 1..n /\ n \in 1..(n + k) /\ n + k \in 1..(n + k) /\ n <= n + k
      OBVIOUS
    <2>2. M[n + k] = L[p] + 1 /\ M[n] = L[n]
      BY <1>11, <1>12, <2>1
    <2>3. M[n] <= M[n + k]
      BY <1>2, <1>11, <2>1 DEF Layered
    <2> QED
      BY <2>2, <2>3
  <1>14. \A x : Listed(E, x) <=> Listed(D, x) \/ Listed(found, x)
    <2>1. ASSUME NEW x, Listed(E, x) PROVE Listed(D, x) \/ Listed(found, x)
      <3>1. PICK j \in 1..(n + k) : E[j] = x
        BY <1>2, <2>1 DEF Listed
      <3>2. CASE j <= n
        <4>1. j \in 1..n
          BY <3>2
        <4>2. D[j] = x
          BY <1>3, <3>1, <4>1
        <4> QED
          BY <4>1, <4>2 DEF Listed
      <3>3. CASE j > n
        <4>1. j - n \in 1..k /\ found[j - n] = x
          BY <1>5, <3>1, <3>3
        <4> QED
          BY <4>1 DEF Listed
      <3> QED
        BY <3>2, <3>3
    <2>2. ASSUME NEW x, Listed(D, x) PROVE Listed(E, x)
      <3>1. PICK i \in 1..n : D[i] = x
        BY <2>2 DEF Listed
      <3>2. E[i] = x /\ i \in 1..Len(E)
        BY <1>2, <1>3, <3>1
      <3> QED
        BY <3>2 DEF Listed
    <2>3. ASSUME NEW x, Listed(found, x) PROVE Listed(E, x)
      <3>1. PICK i \in 1..k : found[i] = x
        BY <2>3 DEF Listed
      <3>2. E[n + i] = x /\ n + i \in 1..Len(E)
        BY <1>2, <1>4, <3>1
      <3> QED
        BY <3>2 DEF Listed
    <2> QED
      BY <2>1, <2>2, <2>3
  <1>15. ClosedTo(succ, E, p)
    <2> SUFFICES ASSUME NEW a \in 1..(n + k), a < p, NEW x \in succ[E[a]] PROVE Listed(E, x)
      BY <1>2 DEF ClosedTo
    <2>1. a \in 1..n
      OBVIOUS
    <2>2. x \in succ[D[a]]
      BY <1>3, <2>1
    <2>3. Listed(D, x)
      BY <2>1, <2>2 DEF ClosedTo
    <2> QED
      BY <1>14, <2>3
  <1>16. Grown(succ, D, L, n, p, found, k, E, M)
    BY <1>2, <1>3, <1>11, <1>12, <1>13, <1>14, <1>15 DEF Grown
  <1> QED
    BY <1>2, <1>16

-----------------------------------------------------------------------------
(* The invariant of the breadth-first views *)

\* D is what is marked, in layers L: it begins with the vertices visited; none of those before
\* the m-th leads to an unmarked one.
BfsMarked(D, L, m, w) ==
  /\ D \in Seq(Vertices) /\ m \in 1..Len(D) /\ w \in Nat /\ w <= m
  /\ Layered(Explored(pruned), D, L, w) /\ ClosedTo(Explored(pruned), D, m)
  /\ Len(visits) <= Len(D) /\ \A i \in 1..Len(visits) : visits[i] = D[i]
  /\ D[1] = seed
  /\ \A v : v \in visited <=> Listed(D, v)
  /\ count = Len(D) - (IF yields = "edges" THEN 1 ELSE 0)
  /\ maxDepth = L[Len(D)]

\* The queue holds the vertices from the m-th on.
BfsQueued(D, L, m, w) ==
  queue # <<>> =>
    /\ Len(D) = (m - 1) + Len(queue)
    /\ \A j \in 1..Len(queue) : queue[j].vertex = D[(m - 1) + j] /\ queue[j].depth = L[(m - 1) + j]
    /\ yields = "vertices" => m = Len(visits) /\ w < m

\* For edges, what is marked is what was visited, and the current edge is the first to its target.
BfsArrived(D) ==
  yields = "edges" =>
    /\ Len(visits) = Len(D)
    /\ edge # <<>> => \E c \in 1..(Len(D) - 1) : edge[1] = D[c] /\ FirstTo(Explored(pruned), D, c, Len(D))

BfsLayers == \E D, L, m, w : BfsMarked(D, L, m, w) /\ BfsQueued(D, L, m, w) /\ BfsArrived(D)

BfsOrder == IF visits = <<>> THEN maxDepth = 0 ELSE BfsLayers

LEMMA BfsLayersNext ==
  ASSUME UNCHANGED graph, NEW less, less = Explored(pruned'),
         NEW D \in Seq(Vertices), NEW n \in Nat, n = Len(D), NEW L, NEW m \in 1..n, NEW w \in Nat, w <= m,
         Layered(less, D, L, w), ClosedTo(less, D, m),
         Len(visits') <= n, \A i \in 1..Len(visits') : visits'[i] = D[i],
         D[1] = seed', \A v : v \in visited' <=> Listed(D, v),
         count' = n - (IF yields' = "edges" THEN 1 ELSE 0), maxDepth' = L[n],
         queue' # <<>> => /\ n = (m - 1) + Len(queue')
                          /\ \A j \in 1..Len(queue') : queue'[j].vertex = D[(m - 1) + j] /\ queue'[j].depth = L[(m - 1) + j]
                          /\ yields' = "vertices" => m = Len(visits') /\ w < m,
         yields' = "edges" => /\ Len(visits') = n
                              /\ edge' # <<>> => \E c \in 1..(n - 1) : edge'[1] = D[c] /\ FirstTo(less, D, c, n)
  PROVE  BfsLayers'
  <1>1. Explored(pruned)' = less
    BY DEF Explored
  <1>2. BfsMarked(D, L, m, w)'
    BY <1>1 DEF BfsMarked
  <1>3. BfsQueued(D, L, m, w)'
    BY DEF BfsQueued
  <1>4. BfsArrived(D)'
    BY <1>1 DEF BfsArrived
  <1> QED
    BY <1>2, <1>3, <1>4 DEF BfsLayers

LEMMA BfsLayersBegin ==
  ASSUME UNCHANGED graph, ViewsType, maxDepth = 0, edge = <<>>, UNCHANGED <<maxDepth, edge, seed, yields>>,
         queue' = <<BfsView!Entry(seed, 0)>>, visited' = {seed}, visits' = <<seed>>,
         count' = IF yields = "vertices" THEN 1 ELSE 0
  PROVE  BfsLayers'
  <1>1. seed \in Vertices /\ yields \in {"vertices", "edges"}
    BY DEF ViewsType
  <1>2. PICK D : D = <<seed>>
    OBVIOUS
  <1>3. D \in Seq(Vertices) /\ Len(D) = 1 /\ D[1] = seed /\ \A i \in 1..1 : i = 1
    BY <1>1, <1>2
  <1>4. PICK L : L = [i \in 1..1 |-> 0]
    OBVIOUS
  <1>5. L \in [1..1 -> Nat] /\ \A i \in 1..1 : L[i] = 0
    BY <1>4
  <1>6. PICK less : less = Explored(pruned')
    OBVIOUS
  <1>7. Layered(less, D, L, 0)
    <2>1. Distinct(D) /\ (\A b \in 2..Len(D) : FALSE) /\ \A a, b \in 1..Len(D) : a <= b => L[a] <= L[b]
      BY <1>3, <1>5 DEF Distinct
    <2> QED
      BY <1>3, <1>5, <2>1 DEF Layered
  <1>8. ClosedTo(less, D, 1)
    BY <1>3 DEF ClosedTo
  <1>9. \A v : v \in visited' <=> Listed(D, v)
    BY <1>3 DEF Listed
  <1>10. Len(visits') = 1 /\ \A i \in 1..Len(visits') : visits'[i] = D[i]
    BY <1>2, <1>3
  <1>11. count' = 1 - (IF yields' = "edges" THEN 1 ELSE 0) /\ maxDepth' = L[1]
    BY <1>1, <1>5
  <1>12. PICK a : a = BfsView!Entry(seed, 0)
    OBVIOUS
  <1>13. a.vertex = seed /\ a.depth = 0
    BY <1>12 DEF BfsView!Entry
  <1>14. /\ 1 = (1 - 1) + Len(queue')
         /\ \A j \in 1..Len(queue') : queue'[j].vertex = D[(1 - 1) + j] /\ queue'[j].depth = L[(1 - 1) + j]
    <2>1. queue' = <<a>> /\ Len(queue') = 1 /\ queue'[1] = a
      BY <1>12
    <2> QED
      BY <1>3, <1>5, <1>13, <2>1
  <1>15. yields' = "vertices" => 1 = Len(visits') /\ 0 < 1
    BY <1>10
  <1>16. yields' = "edges" => /\ Len(visits') = 1
                              /\ edge' # <<>> => \E c \in 1..(1 - 1) : edge'[1] = D[c] /\ FirstTo(less, D, c, 1)
    BY <1>10
  <1>17. 1 \in Nat /\ 1 = Len(D) /\ 1 \in 1..1 /\ 0 \in Nat /\ 0 <= 1 /\ Len(visits') <= 1
    BY <1>3, <1>10
  <1>18. D[1] = seed'
    BY <1>3
  <1> QED
    BY <1>3, <1>6, <1>7, <1>8, <1>9, <1>10, <1>11, <1>14, <1>15, <1>16, <1>17, <1>18, BfsLayersNext

\* Cancelling and being cancelled.
LEMMA BfsLayersStay ==
  ASSUME BfsLayers, UNCHANGED <<graph, seed, yields, visits, visited, pruned, count, maxDepth>>,
         UNCHANGED <<queue, edge>> \/ (queue' = <<>> /\ edge' = <<>>)
  PROVE  BfsLayers'
  <1>1. PICK D, L, m, w : BfsMarked(D, L, m, w) /\ BfsQueued(D, L, m, w) /\ BfsArrived(D)
    BY DEF BfsLayers
  <1>2. Explored(pruned)' = Explored(pruned)
    BY DEF Explored
  <1>3. BfsMarked(D, L, m, w)'
    BY <1>1, <1>2 DEF BfsMarked
  <1>4. BfsQueued(D, L, m, w)'
    BY <1>1 DEF BfsQueued
  <1>5. BfsArrived(D)'
    BY <1>1, <1>2 DEF BfsArrived
  <1> QED
    BY <1>3, <1>4, <1>5 DEF BfsLayers

\* What the caller cancels at the end of what has been reached, or before it has led anywhere.
LEMMA CutAt ==
  ASSUME graph \in Adjacency, NEW D \in Seq(Vertices), NEW n \in Nat, n = Len(D), NEW L, NEW w \in Nat,
         Layered(Explored(pruned), D, L, w),
         \A u \in pruned : u \in pruned',
         \A a \in 1..(n - 1) : a <= w => (D[a] \in pruned' => D[a] \in pruned)
  PROVE  /\ Layered(Explored(pruned'), D, L, w)
         /\ \A m : ClosedTo(Explored(pruned), D, m) => ClosedTo(Explored(pruned'), D, m)
  <1>1. PICK succ, less : succ = Explored(pruned) /\ less = Explored(pruned')
    OBVIOUS
  <1>2. \A P : \A u \in Vertices : \A x : x \in Explored(P)[u] <=> u \notin P /\ Leads(u, x)
    BY ExploredIs
  <1>3. \A a \in 1..n : D[a] \in Vertices
    BY ElementOfSeq
  <1>4. \A a \in 1..n : less[D[a]] \subseteq succ[D[a]]
    <2> SUFFICES ASSUME NEW a \in 1..n, NEW x \in less[D[a]] PROVE x \in succ[D[a]]
      OBVIOUS
    <2>1. D[a] \notin pruned' /\ Leads(D[a], x)
      BY <1>1, <1>2, <1>3
    <2> QED
      BY <1>1, <1>2, <1>3, <2>1
  <1>5. \A a \in 1..(n - 1) : a <= w => less[D[a]] = succ[D[a]]
    <2> TAKE a \in 1..(n - 1)
    <2> HAVE a <= w
    <2>1. a \in 1..n
      OBVIOUS
    <2>2. ASSUME NEW x \in succ[D[a]] PROVE x \in less[D[a]]
      <3>1. D[a] \notin pruned /\ Leads(D[a], x)
        BY <1>1, <1>2, <1>3, <2>1
      <3> QED
        BY <1>1, <1>2, <1>3, <2>1, <3>1
    <2> QED
      BY <1>4, <2>1, <2>2
  <1>6. Layered(succ, D, L, w)
    BY <1>1
  <1>7. Layered(less, D, L, w) /\ \A m : ClosedTo(succ, D, m) => ClosedTo(less, D, m)
    BY <1>4, <1>5, <1>6, LayeredCut
  <1> QED
    BY <1>1, <1>7

\* An iteration of vertices_bfs.
LEMMA BfsLayersExpand ==
  ASSUME BfsLayers, ViewsType, visits # <<>>, queue \in Seq(Entries), queue # <<>>, yields = "vertices",
         UNCHANGED <<graph, seed, yields>>, BfsVertices,
         \A v : v \in pruned \/ v = Last(visits) <=> v \in pruned' \/ v = Last(visits),
         \A u \in pruned : u \in pruned',
         NEW found \in Seq(Vertices), NEW d \in Nat, d = queue[1].depth + 1, Expands(found, d)
  PROVE  BfsLayers'
  <1>1. PICK D, L, m, w : BfsMarked(D, L, m, w) /\ BfsQueued(D, L, m, w)
    BY DEF BfsLayers
  <1>2. PICK n \in Nat : n = Len(D)
    BY <1>1, LenProperties DEF BfsMarked
  <1>3. /\ D \in Seq(Vertices) /\ m \in 1..n /\ w \in Nat /\ w < m
        /\ Layered(Explored(pruned), D, L, w) /\ ClosedTo(Explored(pruned), D, m)
        /\ m = Len(visits) /\ \A i \in 1..m : visits[i] = D[i]
        /\ D[1] = seed
        /\ \A v : v \in visited <=> Listed(D, v)
        /\ count = n - (IF yields = "edges" THEN 1 ELSE 0) /\ maxDepth = L[n]
    BY <1>1, <1>2 DEF BfsMarked, BfsQueued
  <1>4. PICK l \in Nat \ {0} : l = Len(queue)
    BY LenProperties, EmptySeq
  <1>5. /\ n = (m - 1) + l
        /\ \A j \in 1..l : queue[j].vertex = D[(m - 1) + j] /\ queue[j].depth = L[(m - 1) + j]
    BY <1>1, <1>2, <1>4 DEF BfsQueued
  <1>6. Last(visits) = D[m]
    BY <1>3 DEF Last
  <1>7. d = L[m] + 1
    <2>1. 1 \in 1..l /\ (m - 1) + 1 = m
      BY <1>2, <1>3, <1>4
    <2> QED
      BY <1>5, <2>1
  <1>8. PICK less : less = Explored(pruned')
    OBVIOUS
  <1>9. graph \in Adjacency
    BY DEF ViewsType
  <1>10. \A a \in 1..n : D[a] \in Vertices
    BY <1>2, <1>3, ElementOfSeq
  <1>11. Layered(less, D, L, w) /\ ClosedTo(less, D, m)
    <2>1. \A a \in 1..(n - 1) : a <= w => (D[a] \in pruned' => D[a] \in pruned)
      <3> TAKE a \in 1..(n - 1)
      <3> HAVE a <= w
      <3>1. a \in 1..n /\ m \in 1..n /\ a # m
        BY <1>3
      <3>2. D[a] # D[m]
        BY <1>2, <1>3, <3>1 DEF Layered, Distinct
      <3> QED
        BY <1>6, <3>2
    <2> QED
      BY <1>2, <1>3, <1>8, <1>9, <2>1, CutAt
  <1>12. PICK k \in Nat : k = Len(found)
    BY LenProperties
  <1>13. Distinct(found) /\ \A x : Listed(found, x) => x \notin visited /\ D[m] \notin pruned' /\ Leads(D[m], x)
    BY <1>6 DEF Expands, Explores
  <1>14. \A u \in Vertices : \A x : x \in less[u] <=> u \notin pruned' /\ Leads(u, x)
    BY <1>8, <1>9, ExploredIs
  <1>15. \A x : Listed(found, x) => ~Listed(D, x) /\ x \in less[D[m]]
    BY <1>3, <1>10, <1>13, <1>14
  <1>16. \E E \in Seq(Vertices) : \E M : Grown(less, D, L, n, m, found, k, E, M)
    <2>1. m \in 1..n /\ w <= m
      BY <1>2, <1>3
    <2> QED
      BY <1>2, <1>3, <1>11, <1>12, <1>13, <1>15, <2>1, LayersGrow
  <1>17. PICK E \in Seq(Vertices) : \E M : Grown(less, D, L, n, m, found, k, E, M)
    BY <1>16
  <1>18. PICK M : Grown(less, D, L, n, m, found, k, E, M)
    BY <1>17
  <1>19. /\ Len(E) = n + k
         /\ \A i \in 1..n : E[i] = D[i] /\ M[i] = L[i]
         /\ \A i \in 1..k : E[n + i] = found[i] /\ M[n + i] = L[m] + 1
         /\ k # 0 => M[n + k] = L[m] + 1 /\ L[n] <= L[m] + 1
         /\ \A x : Listed(E, x) <=> Listed(D, x) \/ Listed(found, x)
         /\ Layered(less, E, M, m) /\ ClosedTo(less, E, m)
    BY <1>18 DEF Grown
  <1>20. \A v : v \in visited' <=> Listed(E, v)
    BY <1>3, <1>19 DEF Expands, Explores
  <1>21. ClosedTo(less, E, m + 1)
    <2> SUFFICES ASSUME NEW a \in 1..Len(E), a < m + 1, NEW x \in less[E[a]] PROVE Listed(E, x)
      BY DEF ClosedTo
    <2>1. CASE a < m
      BY <1>19, <2>1 DEF ClosedTo
    <2>2. CASE a = m
      <3>1. x \in less[D[m]]
        BY <1>3, <1>19, <2>2
      <3>2. D[m] \notin pruned' /\ Leads(D[m], x)
        BY <1>3, <1>10, <1>14, <3>1
      <3>3. LeadsInto(D[m], visited')
        BY <1>6, <3>2 DEF Expands, Explores
      <3>4. x \in visited'
        BY <3>2, <3>3 DEF Leads, LeadsInto
      <3> QED
        BY <1>20, <3>4
    <2>3. a \in Nat /\ m \in Nat
      BY <1>2, <1>3, <1>12, <1>19
    <2>4. a < m \/ a = m
      BY <2>3
    <2> QED
      BY <2>1, <2>2, <2>4
  <1>22. count' = Len(E) - (IF yields' = "edges" THEN 1 ELSE 0)
    <2>1. found = <<>> => k = 0
      BY <1>12, EmptySeq
    <2>2. count' = count + k
      BY <1>3, <1>12, <2>1 DEF Expands
    <2> QED
      BY <1>3, <1>19, <2>2
  <1>23. maxDepth' = M[Len(E)]
    <2>0. found = <<>> <=> k = 0
      BY <1>12, EmptySeq
    <2>1. maxDepth' = IF k # 0 /\ d > maxDepth THEN d ELSE maxDepth
      BY <2>0 DEF Expands
    <2>2. CASE k = 0
      <3>1. n \in 1..n /\ Len(E) = n
        BY <1>3, <1>19, <2>2
      <3> QED
        BY <1>3, <1>19, <2>1, <2>2, <3>1
    <2>3. CASE k # 0
      <3>1. L[n] \in Nat /\ L[m] \in Nat
        <4>1. n \in 1..n /\ m \in 1..n
          BY <1>3
        <4> QED
          BY <1>2, <1>3, <4>1 DEF Layered
      <3> QED
        BY <1>3, <1>7, <1>19, <2>1, <2>3, <3>1
    <2> QED
      BY <2>2, <2>3
  <1>24. /\ queue' \in Seq(Entries) /\ Len(queue') = l - 1 + k
         /\ \A j \in 1..(l - 1) : queue'[j] = queue[j + 1]
         /\ \A i \in 1..k : queue'[l - 1 + i].vertex = found[i] /\ queue'[l - 1 + i].depth = d
    <2>1. PICK r : r = [i \in 1..k |-> BfsView!Entry(found[i], d)]
      OBVIOUS
    <2>2. \A i \in 1..k : /\ BfsView!Entry(found[i], d) \in Entries
                          /\ BfsView!Entry(found[i], d).vertex = found[i] /\ BfsView!Entry(found[i], d).depth = d
      <3>1. \A i \in 1..k : found[i] \in Vertices
        BY <1>12, ElementOfSeq
      <3> QED
        BY <3>1 DEF BfsView!Entry, Entries
    <2>3. r \in Seq(Entries) /\ Len(r) = k /\ \A i \in 1..k : r[i].vertex = found[i] /\ r[i].depth = d
      <3>1. r \in [1..k -> Entries]
        BY <2>1, <2>2
      <3> QED
        BY <2>1, <2>2, <3>1, IsASeq, LenProperties
    <2>4. queue' = Tail(queue) \o r
      BY <1>12, <2>1 DEF Expands, Explores
    <2>5. /\ queue' \in Seq(Entries) /\ Len(queue') = l - 1 + k
          /\ \A i \in 1..(l - 1) : queue'[i] = queue[i + 1]
          /\ \A i \in 1..k : queue'[l - 1 + i] = r[i]
      <3>1. /\ Tail(queue) \o r \in Seq(Entries)
            /\ Len(Tail(queue) \o r) = Len(queue) - 1 + Len(r)
            /\ \A i \in 1..(Len(queue) - 1) : (Tail(queue) \o r)[i] = queue[i + 1]
            /\ \A i \in 1..Len(r) : (Tail(queue) \o r)[Len(queue) - 1 + i] = r[i]
        <4>1. PICK q, s : q = queue /\ s = r
          OBVIOUS
        <4>2. q \in Seq(Entries) /\ q # <<>> /\ s \in Seq(Entries)
          BY <2>3, <4>1
        <4>3. /\ Tail(q) \o s \in Seq(Entries)
              /\ Len(Tail(q) \o s) = Len(q) - 1 + Len(s)
              /\ \A i \in 1..(Len(q) - 1) : (Tail(q) \o s)[i] = q[i + 1]
              /\ \A i \in 1..Len(s) : (Tail(q) \o s)[Len(q) - 1 + i] = s[i]
          BY <4>2, QueueAfter
        <4> QED
          BY <4>1, <4>3
      <3> QED
        BY <1>4, <2>3, <2>4, <3>1
    <2> QED
      BY <2>3, <2>5
  <1>25. visits' = IF queue' = <<>> THEN visits ELSE Append(visits, queue'[1].vertex)
    BY DEF Expands, Explores
  <1>26. PICK h \in Nat : h = n + k
    OBVIOUS
  <1>27. h = Len(E) /\ h = m + Len(queue')
    BY <1>2, <1>3, <1>4, <1>5, <1>12, <1>19, <1>24, <1>26
  <1>28. E[1] = seed'
    <2>1. 1 \in 1..n
      BY <1>3
    <2> QED
      BY <1>3, <1>19, <2>1
  <1>29. \A j \in 1..Len(queue') : queue'[j].vertex = E[m + j] /\ queue'[j].depth = M[m + j]
    <2> TAKE j \in 1..Len(queue')
    <2>1. CASE j \in 1..(l - 1)
      <3>1. j + 1 \in 1..l /\ (m - 1) + (j + 1) = m + j /\ m + j \in 1..n
        BY <1>2, <1>3, <1>4, <1>5, <2>1
      <3>2. queue'[j] = queue[j + 1]
        BY <1>24, <2>1
      <3>3. queue[j + 1].vertex = D[m + j] /\ queue[j + 1].depth = L[m + j]
        BY <1>5, <3>1
      <3> QED
        BY <1>19, <3>1, <3>2, <3>3
    <2>2. CASE j \notin 1..(l - 1)
      <3>1. PICK i \in 1..k : j = l - 1 + i
        <4>1. j - (l - 1) \in 1..k /\ j = l - 1 + (j - (l - 1))
          BY <1>4, <1>12, <1>24, <2>2
        <4> QED
          BY <4>1
      <3>2. m + j = n + i
        BY <1>2, <1>3, <1>4, <1>5, <3>1
      <3> QED
        BY <1>7, <1>19, <1>24, <3>1, <3>2
    <2> QED
      BY <2>1, <2>2
  <1>30. yields' = "vertices"
    OBVIOUS
  <1>31. CASE queue' = <<>>
    <2>1. Len(queue') = 0
      BY <1>31, EmptySeq
    <2>2. h = m /\ m = n /\ visits' = visits
      BY <1>2, <1>3, <1>12, <1>25, <1>26, <1>27, <1>31, <2>1
    <2>3. m \in 1..h /\ m \in Nat /\ m <= m /\ Len(visits') <= h
      <3>1. m \in 1..m /\ m \in Nat /\ m <= m
        BY <1>2, <1>3
      <3>2. Len(visits') = m
        BY <1>3, <2>2
      <3> QED
        BY <2>2, <3>1, <3>2
    <2>4. \A i \in 1..Len(visits') : visits'[i] = E[i]
      BY <1>3, <1>19, <2>2
    <2>5. count' = h - (IF yields' = "edges" THEN 1 ELSE 0) /\ maxDepth' = M[h]
      BY <1>22, <1>23, <1>27
    <2> QED
      BY <1>8, <1>19, <1>20, <1>27, <1>28, <1>30, <1>31, <2>3, <2>4, <2>5, BfsLayersNext
  <1>32. CASE queue' # <<>>
    <2>1. Len(queue') \in Nat /\ Len(queue') # 0
      BY <1>24, <1>32, LenProperties, EmptySeq
    <2>2. visits' = Append(visits, queue'[1].vertex)
      BY <1>25, <1>32
    <2>3. queue'[1].vertex = E[m + 1]
      <3>1. 1 \in 1..Len(queue')
        BY <2>1
      <3> QED
        BY <1>29, <3>1
    <2>4. Len(visits') = m + 1 /\ \A i \in 1..(m + 1) : visits'[i] = E[i]
      <3>1. visits \in Seq(Vertices)
        BY DEF ViewsType
      <3>2. E[m + 1] \in Vertices
        <4>1. m + 1 \in 1..Len(E)
          BY <1>3, <1>27, <2>1
        <4> QED
          BY <1>17, <4>1, ElementOfSeq
      <3>3. /\ Len(visits') = m + 1 /\ visits'[m + 1] = E[m + 1]
            /\ \A i \in 1..m : visits'[i] = visits[i]
        BY <1>3, <2>2, <2>3, <3>1, <3>2, AppendProperties
      <3>4. \A i \in 1..m : i \in 1..n
        BY <1>3
      <3>5. \A i \in 1..(m + 1) : i \in 1..m \/ i = m + 1
        BY <1>3
      <3> QED
        BY <1>3, <1>19, <3>3, <3>4, <3>5
    <2>5. PICK q \in Nat : q = m + 1
      BY <1>3
    <2>6. /\ q \in 1..h /\ m \in Nat /\ m <= q /\ m < q /\ Len(visits') <= h /\ q = Len(visits')
          /\ q - 1 = m
      BY <1>3, <1>26, <1>27, <2>1, <2>4, <2>5
    <2>7. \A i \in 1..Len(visits') : visits'[i] = E[i]
      BY <2>4
    <2>8. count' = h - (IF yields' = "edges" THEN 1 ELSE 0) /\ maxDepth' = M[h]
      BY <1>22, <1>23, <1>27
    <2>9. ClosedTo(less, E, q)
      BY <1>21, <2>5
    <2>10. /\ h = (q - 1) + Len(queue')
           /\ \A j \in 1..Len(queue') : queue'[j].vertex = E[(q - 1) + j] /\ queue'[j].depth = M[(q - 1) + j]
           /\ yields' = "vertices" => q = Len(visits') /\ m < q
      BY <1>27, <1>29, <2>6
    <2> QED
      BY <1>8, <1>17, <1>19, <1>20, <1>27, <1>28, <1>30, <2>6, <2>7, <2>8, <2>9, <2>10, BfsLayersNext
  <1> QED
    BY <1>31, <1>32

\* The caller has cancelled at the last vertex at most.
LEMMA CutAtLast ==
  ASSUME ViewsType, NEW D \in Seq(Vertices), NEW n \in Nat, n = Len(D), NEW L, NEW w \in Nat,
         Layered(Explored(pruned), D, L, w), n = Len(visits), n # 0, \A i \in 1..n : visits[i] = D[i],
         \A u \in pruned : u \in pruned', \A u \in pruned' : u \in pruned \/ u = Last(visits)
  PROVE  /\ Layered(Explored(pruned'), D, L, w)
         /\ \A m : ClosedTo(Explored(pruned), D, m) => ClosedTo(Explored(pruned'), D, m)
  <1>1. graph \in Adjacency
    BY DEF ViewsType
  <1>2. Last(visits) = D[n] /\ n \in 1..n
    BY DEF Last
  <1>3. ASSUME NEW a \in 1..(n - 1), D[a] \in pruned' PROVE D[a] \in pruned
    <2>1. a \in 1..n /\ a # n
      OBVIOUS
    <2>2. D[a] # D[n]
      BY <1>2, <2>1 DEF Layered, Distinct
    <2> QED
      BY <1>2, <1>3, <2>2
  <1> QED
    BY <1>1, <1>3, CutAt

\* edges_bfs finds no further edge.
LEMMA BfsLayersDrop ==
  ASSUME BfsLayers, ViewsType, visits # <<>>, yields = "edges",
         UNCHANGED <<graph, seed, yields, visits, visited, count, maxDepth>>, queue' = <<>>, edge' = <<>>,
         \A u \in pruned : u \in pruned', \A u \in pruned' : u \in pruned \/ u = Last(visits)
  PROVE  BfsLayers'
  <1>1. PICK D, L, m, w : BfsMarked(D, L, m, w) /\ BfsArrived(D)
    BY DEF BfsLayers
  <1>2. PICK n \in Nat : n = Len(D)
    BY <1>1, LenProperties DEF BfsMarked
  <1>3. /\ D \in Seq(Vertices) /\ m \in 1..n /\ w \in Nat /\ w <= m
        /\ Layered(Explored(pruned), D, L, w) /\ ClosedTo(Explored(pruned), D, m)
        /\ n = Len(visits) /\ \A i \in 1..n : visits[i] = D[i]
        /\ D[1] = seed
        /\ \A v : v \in visited <=> Listed(D, v)
        /\ count = n - (IF yields = "edges" THEN 1 ELSE 0) /\ maxDepth = L[n]
    BY <1>1, <1>2 DEF BfsMarked, BfsArrived
  <1>4. n # 0
    BY <1>2, <1>3
  <1>5. PICK less : less = Explored(pruned')
    OBVIOUS
  <1>6. Layered(less, D, L, w) /\ ClosedTo(less, D, m)
    BY <1>2, <1>3, <1>4, <1>5, CutAtLast
  <1>7. Len(visits') <= n /\ \A i \in 1..Len(visits') : visits'[i] = D[i]
    BY <1>2, <1>3
  <1>8. D[1] = seed' /\ (\A v : v \in visited' <=> Listed(D, v)) /\ Len(visits') = n
    BY <1>3
  <1>9. count' = n - (IF yields' = "edges" THEN 1 ELSE 0) /\ maxDepth' = L[n] /\ yields' = "edges"
    BY <1>3
  <1> QED
    BY <1>2, <1>3, <1>5, <1>6, <1>7, <1>8, <1>9, BfsLayersNext

\* edges_bfs takes an edge.
LEMMA BfsLayersTake ==
  ASSUME BfsLayers, ViewsType, visits # <<>>, queue \in Seq(Entries), queue # <<>>, yields = "edges",
         UNCHANGED <<graph, seed, yields>>,
         NEW n \in Nat, NEW skipped, NEW k \in Nat, NEW e \in Entries, NEW f \in Nat, NEW v \in Vertices,
         TakesEdge(n, skipped, k, e, f, v, e.depth + 1), e.vertex # skipped, count' = count + 1,
         maxDepth' = IF e.depth + 1 > maxDepth THEN e.depth + 1 ELSE maxDepth, edge' = <<e.vertex, f>>,
         \A u \in pruned' : u \in pruned \/ u = Last(visits)
  PROVE  BfsLayers'
  <1>1. PICK D, L, m, w : BfsMarked(D, L, m, w) /\ BfsQueued(D, L, m, w) /\ BfsArrived(D)
    BY DEF BfsLayers
  <1>2. PICK g \in Nat : g = Len(D)
    BY <1>1, LenProperties DEF BfsMarked
  <1>3. /\ D \in Seq(Vertices) /\ m \in 1..g /\ w \in Nat /\ w <= m
        /\ Layered(Explored(pruned), D, L, w) /\ ClosedTo(Explored(pruned), D, m)
        /\ g = Len(visits) /\ \A i \in 1..g : visits[i] = D[i]
        /\ D[1] = seed
        /\ \A x : x \in visited <=> Listed(D, x)
        /\ count = g - (IF yields = "edges" THEN 1 ELSE 0) /\ maxDepth = L[g]
    BY <1>1, <1>2 DEF BfsMarked, BfsArrived
  <1>4. /\ n = Len(queue) /\ k \in 1..n /\ e = queue[k] /\ f \in 1..Len(graph[e.vertex])
        /\ \A i \in 1..n : queue[i].vertex \in pruned' => queue[i].vertex = skipped
        /\ skipped # N => skipped \in pruned'
        /\ \A u \in pruned : u \in pruned'
        /\ \A i \in 1..(k - 1) : queue[i].vertex = skipped \/ LeadsInto(queue[i].vertex, visited)
        /\ v = graph[e.vertex][f] /\ v \notin visited
        /\ queue' = <<[e EXCEPT !.next = f + 1]>> \o SubSeq(queue, k + 1, n) \o <<BfsView!Entry(v, e.depth + 1)>>
        /\ visited' = visited \cup {v}
        /\ visits' = Append(visits, v)
    BY DEF TakesEdge
  <1>5. /\ g = (m - 1) + n
        /\ \A j \in 1..n : queue[j].vertex = D[(m - 1) + j] /\ queue[j].depth = L[(m - 1) + j]
    BY <1>1, <1>2, <1>4 DEF BfsQueued
  <1>6. PICK p \in 1..g : p = (m - 1) + k
    <2>0. m \in 1..g /\ k \in 1..n /\ g = (m - 1) + n /\ g \in Nat /\ n \in Nat
      BY <1>2, <1>3, <1>4, <1>5
    <2>1. (m - 1) + k \in 1..g
      BY <2>0
    <2> QED
      BY <2>1
  <1>7. D[p] = e.vertex /\ L[p] = e.depth /\ e.vertex \notin pruned'
    BY <1>4, <1>5, <1>6
  <1>8. g # 0 /\ 1 \in 1..g /\ g \in 1..g
    BY <1>2, <1>3
  <1>9. PICK less : less = Explored(pruned')
    OBVIOUS
  <1>10. Layered(less, D, L, w) /\ ClosedTo(less, D, m)
    BY <1>2, <1>3, <1>4, <1>8, <1>9, CutAtLast
  <1>11. \A u \in Vertices : \A x : x \in less[u] <=> u \notin pruned' /\ Leads(u, x)
    <2>1. graph \in Adjacency
      BY DEF ViewsType
    <2> QED
      BY <1>9, <2>1, ExploredIs
  <1>12. \A a \in 1..g : D[a] \in Vertices /\ D[a] # N
    <2>1. \A a \in 1..g : D[a] \in Vertices
      BY <1>2, <1>3, ElementOfSeq
    <2>2. N \notin Vertices
      BY SearchesAssumption DEF Vertices
    <2> QED
      BY <2>1, <2>2
  <1>13. ClosedTo(less, D, p)
    <2> SUFFICES ASSUME NEW a \in 1..g, a < p, NEW x \in less[D[a]] PROVE Listed(D, x)
      BY <1>2 DEF ClosedTo
    <2>1. CASE a < m
      BY <1>2, <1>10, <2>1 DEF ClosedTo
    <2>2. CASE ~(a < m)
      <3>1. PICK j \in 1..(k - 1) : a = (m - 1) + j
        <4>1. a - (m - 1) \in 1..(k - 1) /\ a = (m - 1) + (a - (m - 1))
          BY <1>2, <1>3, <1>6, <2>2
        <4> QED
          BY <4>1
      <3>2. queue[j].vertex = D[a]
        <4>1. k \in 1..n
          BY <1>4
        <4>2. j \in 1..n
          BY <4>1
        <4> QED
          BY <1>5, <3>1, <4>2
      <3>3. D[a] \notin pruned' /\ Leads(D[a], x)
        BY <1>11, <1>12
      <3>4. D[a] # skipped
        BY <1>4, <1>12, <3>3
      <3>5. LeadsInto(D[a], visited)
        BY <1>4, <3>2, <3>4
      <3>6. x \in visited
        BY <3>3, <3>5 DEF Leads, LeadsInto
      <3> QED
        BY <1>3, <3>6
    <2> QED
      BY <2>1, <2>2
  <1>14. v \in less[D[p]] /\ ~Listed(D, v)
    <2>1. Leads(e.vertex, v)
      BY <1>4 DEF Leads
    <2>2. D[p] \in Vertices
      BY <1>12
    <2> QED
      BY <1>3, <1>4, <1>7, <1>11, <2>1, <2>2
  <1>15. PICK found : found = <<v>>
    OBVIOUS
  <1>16. found \in Seq(Vertices) /\ Len(found) = 1 /\ found[1] = v /\ Distinct(found)
         /\ \A x : Listed(found, x) <=> x = v
    BY <1>15 DEF Distinct, Listed
  <1>17. w <= p
    BY <1>2, <1>3, <1>4, <1>6
  <1>18. PICK E \in Seq(Vertices) : \E M : Grown(less, D, L, g, p, found, 1, E, M)
    <2>1. 1 \in Nat /\ \A x : Listed(found, x) => ~Listed(D, x) /\ x \in less[D[p]]
      BY <1>14, <1>16
    <2> QED
      BY <1>2, <1>3, <1>6, <1>10, <1>13, <1>16, <1>17, <2>1, LayersGrow
  <1>19. PICK M : Grown(less, D, L, g, p, found, 1, E, M)
    BY <1>18
  <1>20. /\ Len(E) = g + 1
         /\ \A i \in 1..g : E[i] = D[i] /\ M[i] = L[i]
         /\ E[g + 1] = v /\ M[g + 1] = L[p] + 1 /\ FirstTo(less, E, p, g + 1)
         /\ L[g] <= L[p] + 1
         /\ \A x : Listed(E, x) <=> Listed(D, x) \/ x = v
         /\ Layered(less, E, M, p) /\ ClosedTo(less, E, p)
    <2>1. 1 \in 1..1 /\ 1 # 0
      OBVIOUS
    <2>2. /\ Len(E) = g + 1
          /\ \A i \in 1..g : E[i] = D[i] /\ M[i] = L[i]
          /\ \A i \in 1..1 : E[g + i] = found[i] /\ M[g + i] = L[p] + 1 /\ FirstTo(less, E, p, g + i)
          /\ 1 # 0 => M[g + 1] = L[p] + 1 /\ L[g] <= L[p] + 1
          /\ \A x : Listed(E, x) <=> Listed(D, x) \/ Listed(found, x)
          /\ Layered(less, E, M, p) /\ ClosedTo(less, E, p)
      BY <1>19 DEF Grown
    <2> QED
      BY <1>16, <2>1, <2>2
  <1>21. PICK a, b : a = [e EXCEPT !.next = f + 1] /\ b = BfsView!Entry(v, e.depth + 1)
    OBVIOUS
  <1>22. /\ a \in Entries /\ a.vertex = e.vertex /\ a.depth = e.depth
         /\ b \in Entries /\ b.vertex = v /\ b.depth = e.depth + 1
    <2>1. e \in [vertex : Vertices, depth : Nat, next : Nat \ {0}] /\ f + 1 \in Nat \ {0} /\ e.depth + 1 \in Nat
      BY DEF Entries
    <2>2. a = [vertex |-> e.vertex, depth |-> e.depth, next |-> f + 1]
      BY <1>21, <2>1
    <2>3. b = [vertex |-> v, depth |-> e.depth + 1, next |-> 1]
      BY <1>21 DEF BfsView!Entry
    <2> QED
      BY <2>1, <2>2, <2>3 DEF Entries
  <1>23. /\ queue' \in Seq(Entries) /\ Len(queue') = n - k + 2
         /\ queue'[1] = a /\ queue'[n - k + 2] = b
         /\ \A j \in 2..(n - k + 1) : queue'[j] = queue[j + k - 1]
    <2>1. IsCut(queue', queue, n, k, a, b)
      BY <1>4, <1>21 DEF IsCut
    <2>2. \A r : IsCut(r, queue, n, k, a, b) => CutInto(r, Entries, queue, n, k, a, b)
      BY <1>4, <1>22, CutQueue
    <2> QED
      BY <2>1, <2>2 DEF CutInto
  <1>24. PICK h \in Nat : h = g + 1
    BY <1>2
  <1>25. h = (p - 1) + Len(queue')
    <2>1. m \in 1..g /\ k \in 1..n /\ g = (m - 1) + n /\ g \in Nat /\ n \in Nat /\ h = g + 1 /\ p = (m - 1) + k
      BY <1>2, <1>3, <1>4, <1>5, <1>6, <1>24
    <2>2. Len(queue') = n - k + 2
      BY <1>23
    <2>3. g + 1 = (((m - 1) + k) - 1) + (n - k + 2)
      BY <2>1
    <2> QED
      BY <2>1, <2>2, <2>3
  <1>26. \A j \in 1..Len(queue') : queue'[j].vertex = E[(p - 1) + j] /\ queue'[j].depth = M[(p - 1) + j]
    <2> TAKE j \in 1..Len(queue')
    <2>1. CASE j = 1
      <3>1. (p - 1) + j = p
        BY <1>2, <1>6, <2>1
      <3> QED
        BY <1>6, <1>7, <1>20, <1>22, <1>23, <2>1, <3>1
    <2>2. CASE j = n - k + 2
      <3>1. (p - 1) + j = g + 1
        BY <1>2, <1>3, <1>4, <1>5, <1>6, <2>2
      <3> QED
        BY <1>7, <1>20, <1>22, <1>23, <2>2, <3>1
    <2>3. CASE j \in 2..(n - k + 1)
      <3>1. /\ j + k - 1 \in 1..n /\ (m - 1) + (j + k - 1) = (p - 1) + j /\ (p - 1) + j \in 1..g
        BY <1>2, <1>3, <1>4, <1>5, <1>6, <2>3
      <3>2. queue'[j] = queue[j + k - 1]
        BY <1>23, <2>3
      <3>3. queue[j + k - 1].vertex = D[(p - 1) + j] /\ queue[j + k - 1].depth = L[(p - 1) + j]
        BY <1>5, <3>1
      <3> QED
        BY <1>20, <3>1, <3>2, <3>3
    <2>4. j = 1 \/ j = n - k + 2 \/ j \in 2..(n - k + 1)
      <3>1. j \in 1..(n - k + 2)
        BY <1>23
      <3>2. n \in Nat /\ k \in 1..n
        BY <1>4
      <3> QED
        BY <3>1, <3>2
    <2> QED
      BY <2>1, <2>2, <2>3, <2>4
  <1>27. Len(visits') = h /\ \A i \in 1..h : visits'[i] = E[i]
    <2>1. visits \in Seq(Vertices)
      BY DEF ViewsType
    <2>2. Len(visits') = g + 1 /\ visits'[g + 1] = v /\ \A i \in 1..g : visits'[i] = visits[i]
      BY <1>3, <1>4, <2>1, AppendProperties
    <2>3. \A i \in 1..h : i \in 1..g \/ i = g + 1
      BY <1>2, <1>24
    <2> QED
      BY <1>3, <1>20, <1>24, <2>2, <2>3
  <1>28. E[1] = seed' /\ \A x : x \in visited' <=> Listed(E, x)
    BY <1>3, <1>4, <1>8, <1>20
  <1>29. count' = h - (IF yields' = "edges" THEN 1 ELSE 0)
    BY <1>2, <1>3, <1>24
  <1>30. maxDepth' = M[h]
    <2>1. L[g] \in Nat /\ L[p] \in Nat
      BY <1>2, <1>3, <1>6, <1>8 DEF Layered
    <2> QED
      BY <1>3, <1>7, <1>20, <1>24, <2>1
  <1>31. /\ h = Len(E) /\ p \in 1..h /\ p \in Nat /\ p <= p /\ Len(visits') <= h
         /\ p \in 1..(h - 1)
    BY <1>2, <1>6, <1>20, <1>24, <1>27
  <1>32. yields' = "edges" => /\ Len(visits') = h
                              /\ edge' # <<>> => \E c \in 1..(h - 1) : edge'[1] = E[c] /\ FirstTo(less, E, c, h)
    <2>1. edge'[1] = E[p]
      BY <1>6, <1>7, <1>20
    <2>2. FirstTo(less, E, p, h)
      BY <1>20, <1>24
    <2> QED
      BY <1>27, <1>31, <2>1, <2>2
  <1>33. yields' # "vertices" /\ \A i \in 1..Len(visits') : visits'[i] = E[i]
    BY <1>27
  <1> QED
    BY <1>9, <1>18, <1>20, <1>25, <1>26, <1>28, <1>29, <1>30, <1>31, <1>32, <1>33, <1>24, BfsLayersNext

-----------------------------------------------------------------------------
(* The breadth-first views in order *)

\* What the steps of vertices_bfs and edges_bfs leave of the layers.
LEMMA BfsLayersStep ==
  ASSUME BfsViewInv, search = "bfs_views", UNCHANGED arguments, BfsOrder, BfsView!Next
  PROVE  visits' # <<>> /\ BfsLayers'
  <1>1. ViewsType /\ graph \in Adjacency /\ UNCHANGED <<search, seed, yields>> /\ yields \in {"vertices", "edges"}
    BY DEF BfsViewInv, ViewsType, arguments
  <1>2. CASE BfsView!Make
    <2>1. /\ visits = <<>> /\ queue' = <<BfsView!Entry(seed, 0)>> /\ visited' = {seed} /\ visits' = <<seed>>
          /\ count' = IF yields = "vertices" THEN 1 ELSE 0
          /\ UNCHANGED <<graph, edge, maxDepth>>
      BY <1>2 DEF BfsView!Make, BfsView!Made
    <2>2. maxDepth = 0 /\ edge = <<>>
      BY <2>1 DEF BfsOrder, BfsViewInv, BfsBefore
    <2>3. BfsLayers'
      BY <1>1, <2>1, <2>2, BfsLayersBegin
    <2>4. <<seed>> # <<>>
      OBVIOUS
    <2> QED
      BY <2>1, <2>3, <2>4
  <1>3. ASSUME visits # <<>> PROVE BfsAfter /\ BfsLayers
    BY <1>3 DEF BfsOrder, BfsViewInv
  <1>4. CASE BfsView!Cancel
    <2>1. /\ begun
          /\ UNCHANGED <<graph, seed, yields, queue, visited, maxDepth, count, edge, visits, pruned>>
      BY <1>4 DEF BfsView!Cancel
    <2>2. visits # <<>>
      BY <2>1 DEF BfsViewInv, BfsBefore
    <2>3. BfsLayers'
      BY <1>3, <2>1, <2>2, BfsLayersStay
    <2> QED
      BY <2>1, <2>2, <2>3
  <1>5. CASE BfsView!AdvanceCancelled
    <2>1. /\ visits # <<>> /\ queue' = <<>> /\ edge' = <<>>
          /\ UNCHANGED <<graph, seed, yields, visited, maxDepth, count, visits, pruned>>
      BY <1>5 DEF BfsView!AdvanceCancelled, BfsView!Made, BfsView!NoEdge
    <2>2. BfsLayers'
      BY <1>3, <2>1, BfsLayersStay
    <2> QED
      BY <2>1, <2>2
  <1>6. CASE BfsView!AdvanceSkipping \/ BfsView!AdvanceExploring
    <2>1. /\ yields = "vertices" /\ queue # <<>> /\ visits' # <<>>
          /\ \E found \in Seq(Vertices) : Expands(found, queue[1].depth + 1)
      <3>1. BfsViewInv' /\ yields = "vertices" /\ queue # <<>>
            /\ \E found \in Seq(Vertices) : Expands(found, queue[1].depth + 1)
        BY <1>6, BfsVerticesAdvance
      <3>2. PICK found : Explores(found, queue[1].depth + 1)
        BY <3>1 DEF Expands
      <3>3. visits # <<>>
        BY <3>1 DEF BfsViewInv, BfsBefore
      <3>4. visits' = IF queue' = <<>> THEN visits ELSE Append(visits, queue'[1].vertex)
        BY <3>2 DEF Explores
      <3>5. Append(visits, queue'[1].vertex) # <<>>
        <4>1. visits \in Seq(Vertices)
          BY <1>1 DEF ViewsType
        <4>2. PICK x : x = queue'[1].vertex
          OBVIOUS
        <4>3. Append(visits, x) # <<>>
          BY <4>1, NotEmptied
        <4> QED
          BY <4>2, <4>3
      <3> QED
        BY <3>1, <3>3, <3>4, <3>5
    <2>2. visits # <<>>
      BY <2>1 DEF BfsViewInv, BfsBefore
    <2>3. queue \in Seq(Entries) /\ BfsVertices /\ BfsLayers
      BY <1>3, <2>1, <2>2 DEF BfsAfter
    <2>4. UNCHANGED graph /\ pruned' = IF cancel = "cancel_branch" THEN pruned \cup {queue[1].vertex} ELSE pruned
      <3>1. Head(queue) = queue[1]
        BY <2>1, <2>3, HeadTailProperties
      <3> QED
        BY <1>6, <3>1 DEF BfsView!AdvanceSkipping, BfsView!AdvanceExploring, BfsView!Remember, BfsView!current
    <2>5. queue[1].vertex = Last(visits)
      BY <2>1, <2>3 DEF BfsVertices
    <2>6. /\ \A v : v \in pruned \/ v = Last(visits) <=> v \in pruned' \/ v = Last(visits)
          /\ \A u \in pruned : u \in pruned'
      BY <2>4, <2>5
    <2>7. PICK d \in Nat : d = queue[1].depth + 1
      <3>1. 1 \in 1..Len(queue)
        BY <2>1, <2>3, LenProperties, EmptySeq
      <3>2. queue[1] \in Entries
        BY <2>3, <3>1, ElementOfSeq
      <3>3. queue[1].depth + 1 \in Nat
        BY <3>2 DEF Entries
      <3> QED
        BY <3>3
    <2>8. PICK found \in Seq(Vertices) : Expands(found, d)
      BY <2>1, <2>7
    <2>9. BfsLayers'
      BY <1>1, <2>1, <2>2, <2>3, <2>4, <2>6, <2>7, <2>8, BfsLayersExpand
    <2> QED
      BY <2>1, <2>9
  <1>7. CASE BfsView!AdvanceEdge
    <2>1. BfsViewInv' /\ yields = "edges" /\ queue # <<>> /\ BfsMoves
      BY <1>7, BfsEdgesAdvance
    <2>2. visits # <<>>
      BY <2>1 DEF BfsViewInv, BfsBefore
    <2>3. queue \in Seq(Entries) /\ BfsAfter /\ BfsLayers /\ BfsEdges
      BY <1>3, <2>1, <2>2 DEF BfsAfter
    <2>4. UNCHANGED graph /\ pruned' = IF cancel = "cancel_branch" THEN pruned \cup {BfsView!Target(edge)} ELSE pruned
      BY <1>7 DEF BfsView!AdvanceEdge
    <2>5. cancel = "cancel_branch" => BfsView!Target(edge) = Last(visits)
      BY <2>1, <2>3 DEF BfsAfter
    <2>6. (\A u \in pruned : u \in pruned') /\ \A u \in pruned' : u \in pruned \/ u = Last(visits)
      BY <2>4, <2>5
    <2>7. CASE queue' = <<>> /\ edge' = <<>> /\ UNCHANGED <<visits, visited, count, maxDepth>>
      <3>1. BfsLayers'
        BY <1>1, <2>1, <2>2, <2>3, <2>4, <2>6, <2>7, BfsLayersDrop
      <3> QED
        BY <2>2, <2>7, <3>1
    <2>8. CASE \E n, k, f \in Nat, e \in Entries : \E skipped, v :
                 /\ TakesEdge(n, skipped, k, e, f, v, e.depth + 1) /\ e.vertex # skipped
                 /\ count' = count + 1
                 /\ maxDepth' = IF e.depth + 1 > maxDepth THEN e.depth + 1 ELSE maxDepth
                 /\ edge' = <<e.vertex, f>>
      <3>1. PICK n \in Nat, k \in Nat, f \in Nat, e \in Entries : \E skipped, v :
                 /\ TakesEdge(n, skipped, k, e, f, v, e.depth + 1) /\ e.vertex # skipped
                 /\ count' = count + 1
                 /\ maxDepth' = IF e.depth + 1 > maxDepth THEN e.depth + 1 ELSE maxDepth
                 /\ edge' = <<e.vertex, f>>
        BY <2>8
      <3>2. PICK skipped, v :
                 /\ TakesEdge(n, skipped, k, e, f, v, e.depth + 1) /\ e.vertex # skipped
                 /\ count' = count + 1
                 /\ maxDepth' = IF e.depth + 1 > maxDepth THEN e.depth + 1 ELSE maxDepth
                 /\ edge' = <<e.vertex, f>>
        BY <3>1
      <3>3. v \in Vertices /\ visits' # <<>>
        <4>1. e.depth + 1 \in Nat
          BY <3>1 DEF Entries
        <4>2. Taken(v)
          BY <1>1, <2>2, <2>1, <2>3, <2>4, <3>1, <3>2, <4>1, BfsEdgesStep
        <4> QED
          BY <4>2 DEF Taken
      <3>4. BfsLayers'
        BY <1>1, <2>1, <2>2, <2>3, <2>4, <2>6, <3>1, <3>2, <3>3, BfsLayersTake
      <3> QED
        BY <3>3, <3>4
    <2> QED
      BY <2>1, <2>7, <2>8 DEF BfsMoves
  <1> QED
    BY <1>2, <1>4, <1>5, <1>6, <1>7 DEF BfsView!Next, BfsView!Advance

LEMMA BfsExplored == BfsView!Explored = Explored(pruned)
  BY DEF BfsView!Explored, Explored, BfsView!Pruned, Pruned, BfsView!Successors, Successors

LEMMA BfsVisitsInOrder ==
  ASSUME BfsViewInv, BfsOrder
  PROVE  BfsView!VisitsInOrder
  <1> SUFFICES ASSUME visits # <<>>
               PROVE  /\ BfsView!BreadthFirst(BfsView!Explored, visits)
                      /\ edge # BfsView!NoEdge =>
                           /\ BfsView!Target(edge) = BfsView!Last(visits)
                           /\ edge[1] = visits[BfsView!First(BfsView!PositionsTo(BfsView!Explored, visits, BfsView!Last(visits)))]
    BY DEF BfsView!VisitsInOrder, BfsView!Made
  <1>1. BfsLayers /\ BfsAfter /\ visits \in Seq(Vertices)
    BY DEF BfsOrder, BfsViewInv, ViewsType
  <1>2. PICK succ : succ = Explored(pruned)
    OBVIOUS
  <1>3. BfsView!Explored = succ
    BY <1>2, BfsExplored
  <1>4. PICK D, L, m, w : BfsMarked(D, L, m, w) /\ BfsArrived(D)
    BY <1>1 DEF BfsLayers
  <1>5. /\ D \in Seq(Vertices) /\ Layered(succ, D, L, w) /\ Len(visits) <= Len(D)
        /\ \A i \in 1..Len(visits) : visits[i] = D[i]
    BY <1>2, <1>4 DEF BfsMarked
  <1>6. Len(D) \in Nat /\ Len(visits) \in Nat /\ DOMAIN visits = 1..Len(visits)
    BY <1>1, <1>5, LenProperties
  <1>7. BreadthFirst(succ, visits)
    BY <1>5, <1>6, LayersAreOrder
  <1>8. BfsView!BreadthFirst(succ, visits)
    BY <1>7 DEF BfsView!BreadthFirst, BreadthFirst, BfsView!Connects, Connects, BfsView!Overtaken, Overtaken,
           BfsView!PositionsTo, PositionsTo, BfsView!IsInjective, IsInjective
  <1>9. ASSUME edge # <<>>
        PROVE  /\ BfsView!Target(edge) = Last(visits)
               /\ edge[1] = visits[BfsView!First(BfsView!PositionsTo(succ, visits, Last(visits)))]
    <2>1. yields = "edges" /\ BfsView!Target(edge) = Last(visits)
      BY <1>1, <1>9 DEF BfsAfter, BfsViewInv, ViewsType
    <2>2. PICK n \in Nat : n = Len(visits) /\ DOMAIN visits = 1..n
      BY <1>1, LenProperties
    <2>3. Len(D) = n /\ \E c \in 1..(n - 1) : edge[1] = D[c] /\ FirstTo(succ, D, c, n)
      BY <1>2, <1>4, <1>9, <2>1, <2>2 DEF BfsArrived
    <2>4. PICK c \in 1..(n - 1) : edge[1] = D[c] /\ FirstTo(succ, D, c, n)
      BY <2>3
    <2>5. \A i \in 1..n : visits[i] = D[i]
      BY <1>5, <2>2
    <2>6. c \in 1..n /\ n \in 1..n /\ Last(visits) = D[n]
      BY <2>2, <2>5 DEF Last
    <2>7. PICK from : from = BfsView!PositionsTo(succ, visits, Last(visits))
      OBVIOUS
    <2>8. from = {a \in 1..n : D[n] \in succ[visits[a]]}
      BY <2>2, <2>6, <2>7 DEF BfsView!PositionsTo
    <2>9. c \in from
      BY <2>4, <2>5, <2>6, <2>8 DEF FirstTo
    <2>10. ASSUME NEW a \in from PROVE c <= a
      <3>1. a \in 1..n /\ D[n] \in succ[D[a]]
        BY <2>5, <2>8
      <3> SUFFICES ASSUME a \in 1..(c - 1) PROVE FALSE
        BY <3>1
      <3>2. PICK i \in 1..(n - 1) : D[i] = D[n]
        BY <2>4, <3>1 DEF FirstTo
      <3>3. i \in 1..n /\ i # n
        BY <3>2
      <3> QED
        BY <1>5, <2>3, <2>6, <3>2, <3>3 DEF Layered, Distinct
    <2>11. \A a \in from : (\A j \in from : a <= j) => a = c
      <3> TAKE a \in from
      <3> HAVE \A j \in from : a <= j
      <3>1. a <= c /\ c <= a /\ a \in 1..n
        BY <2>8, <2>9, <2>10
      <3> QED
        BY <3>1
    <2>12. BfsView!First(from) = c
      BY <2>9, <2>10, <2>11 DEF BfsView!First
    <2>13. visits[c] = D[c]
      BY <2>5, <2>6
    <2> QED
      BY <2>1, <2>4, <2>7, <2>12, <2>13
  <1>10. BfsView!Last(visits) = Last(visits)
    BY DEF BfsView!Last, Last
  <1> QED
    BY <1>3, <1>8, <1>9, <1>10 DEF BfsView!NoEdge

LEMMA BfsDistance ==
  ASSUME NEW succ, NEW u, NEW v
  PROVE  BfsView!Distance(succ, u, v) = Distance(succ, u, v)
  <1>1. BfsView!Cardinality(DOMAIN succ) = Cardinality(DOMAIN succ)
    BY DEF BfsView!Cardinality, Cardinality
  <1>2. PICK n : n = Cardinality(DOMAIN succ)
    OBVIOUS
  <1>3. BfsView!Cardinality(DOMAIN succ) = n
    BY <1>1, <1>2
  <1> QED
    BY <1>2, <1>3 DEF BfsView!Distance, Distance

LEMMA BfsDepthsExact ==
  ASSUME BfsViewInv, BfsOrder
  PROVE  BfsView!DepthsExact
  <1> SUFFICES ASSUME visits # <<>>
               PROVE  /\ \A i \in DOMAIN queue : queue[i].depth = BfsView!Distance(BfsView!Explored, seed, queue[i].vertex)
                      /\ \A i, j \in DOMAIN queue : i < j => queue[i].depth <= queue[j].depth
                      /\ \E v \in visited : maxDepth = BfsView!Distance(BfsView!Explored, seed, v)
                      /\ \A v \in visited : maxDepth >= BfsView!Distance(BfsView!Explored, seed, v)
                      /\ count = Cardinality(visited) - IF yields = "edges" THEN 1 ELSE 0
    <2>1. BfsView!Cardinality(visited) = Cardinality(visited)
      BY DEF BfsView!Cardinality, Cardinality
    <2> QED
      BY <2>1 DEF BfsView!DepthsExact, BfsView!Made
  <1>1. BfsLayers /\ BfsAfter /\ graph \in Adjacency
    BY DEF BfsOrder, BfsViewInv, ViewsType
  <1>2. PICK succ : succ = Explored(pruned)
    OBVIOUS
  <1>3. BfsView!Explored = succ
    BY <1>2, BfsExplored
  <1>4. PICK D, L, m, w : BfsMarked(D, L, m, w) /\ BfsQueued(D, L, m, w)
    BY <1>1 DEF BfsLayers
  <1>5. PICK n \in Nat : n = Len(D)
    BY <1>4, LenProperties DEF BfsMarked
  <1>6. /\ D \in Seq(Vertices) /\ m \in 1..n /\ w \in Nat /\ w <= m
        /\ Layered(succ, D, L, w) /\ ClosedTo(succ, D, m)
        /\ D[1] = seed
        /\ \A v : v \in visited <=> Listed(D, v)
        /\ count = n - (IF yields = "edges" THEN 1 ELSE 0) /\ maxDepth = L[n]
    BY <1>2, <1>4, <1>5 DEF BfsMarked
  <1>7. succ \in [Vertices -> SUBSET Vertices]
    <2>1. Successors(graph) \in [Vertices -> SUBSET Vertices]
      BY <1>1, ListsOf
    <2> QED
      BY <1>2, <2>1 DEF Explored, Pruned
  <1>8. \A a \in 1..n : Distance(succ, seed, D[a]) = L[a]
    BY <1>5, <1>6, <1>7, LayersAreDistances
  <1>9. \A v : BfsView!Distance(succ, seed, v) = Distance(succ, seed, v)
    BY BfsDistance
  <1>10. /\ \A i, j \in 1..n : i <= j => L[i] <= L[j]
         /\ \A i \in 1..n : L[i] \in Nat
         /\ Distinct(D) /\ n \in 1..n
    <2>1. (\A i, j \in 1..n : i <= j => L[i] <= L[j]) /\ (\A i \in 1..n : L[i] \in Nat) /\ Distinct(D)
      BY <1>5, <1>6 DEF Layered
    <2>2. n \in 1..n
      BY <1>5, <1>6
    <2> QED
      BY <2>1, <2>2
  <1>11. \A v \in visited : \E a \in 1..n : D[a] = v
    BY <1>5, <1>6 DEF Listed
  <1>12. \A a \in 1..n : D[a] \in visited
    BY <1>5, <1>6 DEF Listed
  <1>13. ASSUME NEW i \in DOMAIN queue
         PROVE  (m - 1) + i \in 1..n /\ queue[i].vertex = D[(m - 1) + i] /\ queue[i].depth = L[(m - 1) + i] /\ i \in Nat
    <2>1. queue \in Seq(Entries) /\ DOMAIN queue = 1..Len(queue) /\ Len(queue) \in Nat
      BY <1>1, LenProperties DEF BfsAfter
    <2>2. queue # <<>>
      BY <1>13, <2>1, EmptySeq
    <2>3. n = (m - 1) + Len(queue) /\ queue[i].vertex = D[(m - 1) + i] /\ queue[i].depth = L[(m - 1) + i]
      BY <1>4, <1>5, <1>13, <2>1, <2>2 DEF BfsQueued
    <2> QED
      BY <1>5, <1>6, <2>1, <2>3
  <1>14. \A i \in DOMAIN queue : queue[i].depth = BfsView!Distance(succ, seed, queue[i].vertex)
    BY <1>8, <1>9, <1>13
  <1>15. ASSUME NEW i \in DOMAIN queue, NEW j \in DOMAIN queue, i < j PROVE queue[i].depth <= queue[j].depth
    <2>1. (m - 1) + i <= (m - 1) + j
      BY <1>5, <1>6, <1>13, <1>15
    <2> QED
      BY <1>10, <1>13, <2>1
  <1>16. \E v \in visited : maxDepth = BfsView!Distance(succ, seed, v)
    BY <1>6, <1>8, <1>9, <1>10, <1>12
  <1>17. ASSUME NEW v \in visited PROVE maxDepth >= BfsView!Distance(succ, seed, v)
    <2>1. PICK a \in 1..n : D[a] = v
      BY <1>11
    <2>2. L[a] <= L[n] /\ L[a] \in Nat /\ L[n] \in Nat
      BY <1>5, <1>10
    <2>3. BfsView!Distance(succ, seed, v) = L[a]
      BY <1>8, <1>9, <2>1
    <2> QED
      BY <1>6, <2>2, <2>3
  <1>18. Cardinality(visited) = n
    <2>1. \A v : Listed(D, v) => v \in Vertices
      BY <1>6, SeenIs
    <2>2. visited = {v \in Vertices : Listed(D, v)}
      BY <1>6, <2>1
    <2> QED
      BY <1>5, <1>6, <1>10, <2>2, DistinctSize
  <1> QED
    BY <1>3, <1>6, <1>14, <1>15, <1>16, <1>17, <1>18

\* The inductive invariant of the breadth-first views: what they have marked is in layers.
BfsViewsInv == search = "bfs_views" => BfsViewInv /\ BfsOrder

LEMMA BfsViewsBegin ==
  ASSUME Init
  PROVE  BfsViewsInv
  <1>1. ViewInv
    BY ViewsBegin
  <1>2. visits = <<>> /\ (search = "bfs_views" => maxDepth = 0)
    BY DEF Init, BfsView!Init
  <1> QED
    BY <1>1, <1>2 DEF BfsViewsInv, ViewInv, BfsOrder

LEMMA BfsViewsStep ==
  ASSUME BfsViewsInv, CancelTwice = FALSE, [Next]_vars
  PROVE  BfsViewsInv'
  <1> SUFFICES ASSUME search' = "bfs_views"
               PROVE  BfsViewInv' /\ BfsOrder'
    BY DEF BfsViewsInv
  <1>1. CASE UNCHANGED vars
    <2>1. UNCHANGED <<search, graph, seed, yields, visits, pruned, cancel, queue, visited, skip, edge, begun,
                      count, maxDepth>>
      BY <1>1 DEF vars, arguments, views, bfsDepths, edges
    <2>2. ViewsType => ViewsType'
      BY <2>1 DEF ViewsType, Seen
    <2>3. BfsViewInv => BfsViewInv'
      <3>1. BfsVertices => BfsVertices'
        BY <2>1 DEF BfsVertices, Seen, Leads, LeadsInto
      <3>2. BfsEdges => BfsEdges'
        BY <2>1 DEF BfsEdges, Seen, LeadsInto, Passed
      <3>3. BfsView!Target(edge)' = BfsView!Target(edge)
        BY <2>1 DEF BfsView!Target
      <3>4. BfsAfter => BfsAfter'
        BY <2>1, <3>1, <3>2, <3>3 DEF BfsAfter
      <3> QED
        BY <2>1, <2>2, <3>4 DEF BfsViewInv, BfsBefore
    <2>4. BfsLayers => BfsLayers'
      <3>1. Explored(pruned)' = Explored(pruned)
        BY <2>1 DEF Explored
      <3>2. ASSUME NEW D, NEW L, NEW m, NEW w, BfsMarked(D, L, m, w), BfsQueued(D, L, m, w), BfsArrived(D)
            PROVE  BfsMarked(D, L, m, w)' /\ BfsQueued(D, L, m, w)' /\ BfsArrived(D)'
        <4>1. BfsMarked(D, L, m, w)'
          BY <2>1, <3>1, <3>2 DEF BfsMarked
        <4>2. BfsQueued(D, L, m, w)'
          BY <2>1, <3>2 DEF BfsQueued
        <4>3. BfsArrived(D)'
          BY <2>1, <3>1, <3>2 DEF BfsArrived
        <4> QED
          BY <4>1, <4>2, <4>3
      <3> QED
        BY <3>2 DEF BfsLayers
    <2> QED
      BY <2>1, <2>3, <2>4 DEF BfsViewsInv, BfsOrder
  <1>2. CASE Next
    <2>1. UNCHANGED arguments /\ search = "bfs_views"
      BY <1>2 DEF Next, arguments
    <2>2. BfsView!Next
      BY <1>2, <2>1 DEF Next
    <2>3. BfsViewInv /\ BfsOrder
      BY <2>1 DEF BfsViewsInv
    <2>4. BfsViewInv'
      BY <2>1, <2>2, <2>3, BfsStep
    <2>5. visits' # <<>> /\ BfsLayers'
      BY <2>1, <2>2, <2>3, BfsLayersStep
    <2> QED
      BY <2>4, <2>5 DEF BfsOrder
  <1> QED
    BY <1>1, <1>2

\* The breadth-first views visit in breadth-first order what the caller has left to be
\* searched, and each edge yielded leads from the first vertex that leads to its target.
\* A branch may not be cancelled twice before it is skipped.
THEOREM BfsViewsStayInOrder ==
  (Spec /\ CancelTwice = FALSE) => [](search = "bfs_views" => BfsView!VisitsInOrder)
  <1>1. BfsViewsInv => (search = "bfs_views" => BfsView!VisitsInOrder)
    BY BfsVisitsInOrder DEF BfsViewsInv
  <1>2. Init => BfsViewsInv
    BY BfsViewsBegin
  <1>3. ASSUME CancelTwice = FALSE PROVE Spec => [](search = "bfs_views" => BfsView!VisitsInOrder)
    <2>1. BfsViewsInv /\ [Next]_vars => BfsViewsInv'
      BY <1>3, BfsViewsStep
    <2> QED
      BY <1>1, <1>2, <2>1, PTL DEF Spec
  <1> QED
    BY <1>3

\* The depths on the queue of the breadth-first views are the distances from the seed in the
\* graph as the caller has left it, depth() is the greatest of what is marked, and
\* num_visited() counts it; the stack of the depth-first views is the path to the current
\* vertex.  A branch may not be cancelled twice before it is skipped.
THEOREM DepthsStayExact == (Spec /\ CancelTwice = FALSE) => []DepthsExact
  <1>1. BfsViewsInv /\ DfsViewsInv => DepthsExact
    BY BfsDepthsExact, DfsDepthsExact DEF BfsViewsInv, DfsViewsInv, DepthsExact
  <1>2. Init => BfsViewsInv /\ DfsViewsInv
    BY BfsViewsBegin, DfsViewsBegin
  <1>3. ASSUME CancelTwice = FALSE PROVE Spec => []DepthsExact
    <2>1. BfsViewsInv /\ DfsViewsInv /\ [Next]_vars => (BfsViewsInv /\ DfsViewsInv)'
      BY <1>3, BfsViewsStep, DfsViewsStep
    <2> QED
      BY <1>1, <1>2, <2>1, PTL DEF Spec
  <1> QED
    BY <1>3

-----------------------------------------------------------------------------
(* The views of topological orders *)

GraphCyclic == CyclicWithin(Successors(graph), Vertices)

\* What construction keeps, with s for the stack and f for the order.  Without cycle
\* detection the order is one only if there is no cycle.
Built(s, f, seen, path) ==
  /\ Searching(graph, s, f)
  /\ \A v : v \in seen <=> On(s, v) \/ Listed(f, v)
  /\ detect => \A v : v \in path <=> On(s, v)
  /\ detect \/ ~GraphCyclic => Behind(graph, s, f) /\ Finished(graph, f)

Constructing == /\ Built(stack, postOrder, visited, onPath)
                /\ \A v \in Vertices : v < root => v \in visited
                /\ count = 0

Refused == \E v \in Successors(graph)[cycle] : cycle \in ReachedFrom(graph, v)

InOrder == /\ postOrder \in Seq(Vertices) /\ Distinct(postOrder)
           /\ \A v \in Vertices : Listed(postOrder, v)
           /\ detect => ~GraphCyclic
           /\ GraphCyclic \/ Topological(Successors(graph), postOrder)

Elements == {<<v>> : v \in Vertices} \cup (Vertices \X Nat)

EdgeLists(g, f) == [i \in 1..Len(f) |-> [e \in 1..Len(g[f[i]]) |-> <<f[i], e>>]]

EdgeWalk(g, f) == FlattenSeq(EdgeLists(g, f))

VertexWalk(f) == [i \in 1..Len(f) |-> <<f[i]>>]

\* w is the beginning of the walk of all vertices, ...
VerticesWalked(f, w) == Len(w) <= Len(f) /\ \A j \in 1..Len(w) : w[j] = <<f[j]>>

\* ... or of that of all edges, up to edge p of the i-th vertex.
EdgesWalked(g, f, off, w, i, p) ==
  /\ Flattened(off, EdgeWalk(g, f), EdgeLists(g, f), Len(f), Elements)
  /\ \A j \in 1..Len(w) : w[j] = EdgeWalk(g, f)[j]
  /\ i <= Len(f) => p \in 1..Len(g[f[i]]) /\ Len(w) = off[i - 1] + p
  /\ i > Len(f) => Len(w) = off[Len(f)]

Walking ==
  /\ walked \in Seq(Elements) /\ count = Len(walked) /\ index \in Nat \ {0}
  /\ yields = "vertices" =>
       /\ VerticesWalked(postOrder, walked)
       /\ cancel = "continue_search" => Len(walked) = IF index <= Len(postOrder) THEN index ELSE Len(postOrder)
  /\ yields = "edges" =>
       \E off \in [0..Len(postOrder) -> Nat] : EdgesWalked(graph, postOrder, off, walked, index, position)

Phases == {"construct", "refused", "begin", "iterate"}

TopoInv ==
  /\ graph \in Adjacency /\ detect \in BOOLEAN /\ yields \in {"vertices", "edges"}
  /\ root \in 0..N /\ phase \in Phases
  /\ phase = "construct" => Constructing
  /\ phase = "refused" => Refused
  /\ phase \in {"begin", "iterate"} => InOrder
  /\ phase \in {"construct", "begin"} => index = 1 /\ position = 1 /\ walked = <<>> /\ cancel = "continue_search"
  /\ phase = "begin" => count = IF yields = "vertices" THEN 1 ELSE 0
  /\ phase = "iterate" => Walking

LEMMA TopoBegins ==
  ASSUME Init, search = "topological_views"
  PROVE  TopoInv
  <1>1. graph \in Adjacency
    BY GraphIsGiven
  <1>2. /\ root = 0 /\ stack = <<>> /\ visited = {} /\ onPath = {} /\ postOrder = <<>>
        /\ phase = "construct" /\ cancel = "continue_search" /\ count = 0 /\ index = 1 /\ position = 1
        /\ walked = <<>> /\ yields \in {"vertices", "edges"} /\ detect \in BOOLEAN
    BY DEF Init, TopoView!Init
  <1>3. N \in Nat /\ 0 \in 0..N
    BY SearchesAssumption
  <1>4. /\ stack \in Seq(Frames) /\ postOrder \in Seq(Vertices) /\ Len(stack) = 0 /\ Len(postOrder) = 0
        /\ \A i \in 1..0 : FALSE
    BY <1>2, EmptySeq
  <1>5. /\ \A v : ~On(stack, v) /\ ~Listed(postOrder, v)
        /\ Apart(stack) /\ Distinct(postOrder)
    BY <1>4 DEF On, Listed, Apart, Distinct
  <1>6. Finished(graph, postOrder) /\ Behind(graph, stack, postOrder)
    BY <1>4 DEF Finished, Behind
  <1>7. IsPath(graph, stack)
    <2>1. \A i \in 1..(0 - 1) : FALSE
      OBVIOUS
    <2> QED
      BY <1>4, <2>1 DEF IsPath
  <1>8. Searching(graph, stack, postOrder)
    BY <1>4, <1>5, <1>7 DEF Searching
  <1>9. \A v \in Vertices : ~(v < 0)
    BY <1>3 DEF Vertices
  <1>10. Constructing
    BY <1>2, <1>5, <1>6, <1>8, <1>9 DEF Constructing, Built
  <1> QED
    BY <1>1, <1>2, <1>3, <1>10 DEF TopoInv, Phases

\* As long as the view is being made.
LEMMA TopoKeeps ==
  ASSUME TopoInv, phase = "construct", phase' = "construct", UNCHANGED <<graph, detect, yields, TopoView!walk>>,
         root' \in 0..N, Built(stack', postOrder', visited', onPath'),
         \A v \in Vertices : v < root' => v \in visited'
  PROVE  TopoInv'
  <1>1. /\ UNCHANGED <<graph, detect, index, position, walked, cancel, count>>
        /\ count = 0 /\ index = 1 /\ position = 1 /\ walked = <<>> /\ cancel = "continue_search"
    BY DEF TopoInv, Constructing, TopoView!walk
  <1>2. Built(stack, postOrder, visited, onPath)'
    BY <1>1 DEF Built, GraphCyclic
  <1>3. Constructing'
    BY <1>1, <1>2 DEF Constructing
  <1> QED
    BY <1>1, <1>3 DEF TopoInv, Phases

LEMMA TopoConstruct ==
  ASSUME TopoInv, UNCHANGED arguments, TopoView!Construct
  PROVE  TopoInv'
  <1>1. /\ graph \in Adjacency /\ root \in 0..N /\ detect \in BOOLEAN /\ phase = "construct"
        /\ Built(stack, postOrder, visited, onPath) /\ count = 0
        /\ \A v \in Vertices : v < root => v \in visited
        /\ index = 1 /\ position = 1 /\ walked = <<>> /\ cancel = "continue_search"
    BY DEF TopoInv, Constructing, TopoView!Construct, TopoView!Root, TopoView!Leave, TopoView!CloseCycle,
           TopoView!Follow, TopoView!Constructed
  <1>2. /\ Searching(graph, stack, postOrder)
        /\ stack \in Seq(Frames) /\ postOrder \in Seq(Vertices) /\ Distinct(postOrder)
    BY <1>1 DEF Built, Searching
  <1>3. UNCHANGED <<detect, graph, yields>>
    BY DEF arguments, TopoView!Construct, TopoView!Root, TopoView!Leave, TopoView!CloseCycle,
           TopoView!Follow, TopoView!Constructed
  <1>4. N \in Nat
    BY SearchesAssumption
  <1>5. CASE TopoView!Root
    <2>1. /\ stack = <<>> /\ root < N /\ root' = root + 1 /\ phase' = "construct"
          /\ IF root \in visited THEN UNCHANGED <<stack, visited, onPath>>
             ELSE /\ stack' = Append(<<>>, New(root))
                  /\ visited' = visited \cup {root}
                  /\ onPath' = IF detect THEN onPath \cup {root} ELSE onPath
          /\ UNCHANGED <<graph, detect, yields, postOrder, TopoView!walk>>
      BY <1>1, <1>5 DEF TopoView!Root, TopoView!PushVertex, TopoView!Entry, New
    <2>2. root \in Vertices /\ root' \in 0..N /\ \A v \in Vertices : v < root' => v < root \/ v = root
      BY <1>1, <1>4, <2>1 DEF Vertices
    <2>3. CASE root \in visited
      BY <1>1, <2>1, <2>2, <2>3, TopoKeeps
    <2>4. CASE root \notin visited
      <3>0. PICK v0 \in Vertices : v0 = root
        BY <2>2
      <3>1. /\ stack' = <<New(v0)>> /\ visited' = visited \cup {v0}
            /\ detect => onPath' = onPath \cup {v0}
        BY <2>1, <2>4, <3>0
      <3>2. ~Listed(postOrder, v0) /\ \A w : ~On(stack, w)
        <4>1. Len(stack) = 0 /\ \A i \in 1..0 : FALSE
          BY <2>1, EmptySeq
        <4> QED
          BY <1>1, <2>4, <3>0, <4>1 DEF Built, On
      <3>3. /\ Searching(graph, stack', postOrder) /\ Behind(graph, stack', postOrder)
            /\ \A w : On(stack', w) <=> w = v0
        BY <1>2, <3>1, <3>2, FirstFrame
      <3>4. Built(stack', postOrder', visited', onPath')
        <4>1. postOrder' = postOrder /\ graph' = graph
          BY <2>1
        <4>2. \A w : w \in visited' <=> On(stack', w) \/ Listed(postOrder, w)
          BY <1>1, <3>1, <3>2, <3>3 DEF Built
        <4>3. detect => \A w : w \in onPath' <=> On(stack', w)
          BY <1>1, <3>1, <3>2, <3>3 DEF Built
        <4>4. detect \/ ~GraphCyclic => Behind(graph, stack', postOrder) /\ Finished(graph, postOrder)
          BY <1>1, <3>3 DEF Built
        <4> QED
          BY <3>3, <4>1, <4>2, <4>3, <4>4 DEF Built
      <3>5. ASSUME NEW v \in Vertices, v < root' PROVE v \in visited'
        <4>1. v < root \/ v = v0
          BY <2>2, <3>0, <3>5
        <4>2. v < root => v \in visited
          BY <1>1
        <4> QED
          BY <3>1, <4>1, <4>2
      <3> QED
        BY <1>1, <2>1, <2>2, <3>4, <3>5, TopoKeeps
    <2> QED
      BY <2>3, <2>4
  <1>6. CASE TopoView!Leave
    <2>1. /\ stack # <<>> /\ TopoView!top.next > Len(graph[TopoView!top.vertex])
          /\ onPath' = onPath \ {TopoView!top.vertex}
          /\ postOrder' = Append(postOrder, TopoView!top.vertex)
          /\ stack' = Front(stack)
          /\ phase' = "construct"
          /\ UNCHANGED <<graph, detect, yields, root, visited, TopoView!walk>>
      BY <1>1, <1>6 DEF TopoView!Leave, TopoView!Front, Front
    <2>2. PICK n \in Nat \ {0} : n = Len(stack)
      BY <1>2, <2>1, LenProperties, EmptySeq
    <2>3. PICK e : e = stack[n] /\ e = TopoView!top
      BY <2>2 DEF TopoView!top, TopoView!Last
    <2>4. PICK v \in Vertices : v = e.vertex
      <3>1. n \in 1..Len(stack)
        BY <2>2
      <3>2. stack[n].vertex \in Vertices
        BY <1>2, <3>1, FrameOf
      <3> QED
        BY <2>3, <3>2
    <2>5. Leaves(stack', postOrder', stack, postOrder, v) /\ e.next > Len(graph[v])
      BY <2>1, <2>3, <2>4 DEF Leaves
    <2>6. HasGoneUp(graph, stack, postOrder, e, v, stack', postOrder')
      BY <1>1, <1>2, <2>2, <2>3, <2>4, <2>5, GoesUp
    <2>7. /\ Searching(graph, stack', postOrder')
          /\ \A w : On(stack, w) <=> On(stack', w) \/ w = v
          /\ \A w : Listed(postOrder', w) <=> Listed(postOrder, w) \/ w = v
      BY <2>6 DEF HasGoneUp
    <2>8. ~On(stack', v)
      BY <2>7 DEF Searching
    <2>9. detect \/ ~GraphCyclic => Behind(graph, stack', postOrder') /\ Finished(graph, postOrder')
      BY <1>1, <2>5, <2>6 DEF Built, HasGoneUp
    <2>10. detect => \A w : w \in onPath' <=> On(stack', w)
      BY <1>1, <2>1, <2>3, <2>4, <2>7, <2>8 DEF Built
    <2>11. \A w : w \in visited' <=> On(stack', w) \/ Listed(postOrder', w)
      BY <1>1, <2>1, <2>7 DEF Built
    <2>12. Built(stack', postOrder', visited', onPath')
      BY <2>7, <2>9, <2>10, <2>11 DEF Built
    <2> QED
      BY <1>1, <2>1, <2>12, TopoKeeps
  <1>7. ASSUME stack # <<>>, TopoView!top.next <= Len(graph[TopoView!top.vertex])
        PROVE  \E n, e, t, m :
                 /\ n \in Nat \ {0} /\ t \in Vertices /\ n = Len(stack) /\ e = stack[n] /\ e = TopoView!top
                 /\ e.next <= Len(graph[e.vertex]) /\ t = graph[e.vertex][e.next] /\ t = TopoView!target
                 /\ Moved(m, stack, n, e) /\ m = TopoView!Advanced
                 /\ t \in Successors(graph)[stack[n].vertex]
    <2>2. PICK n \in Nat \ {0} : n = Len(stack)
      BY <1>2, <1>7, LenProperties, EmptySeq
    <2>3. PICK e : e = stack[n] /\ e = TopoView!top
      BY <2>2 DEF TopoView!top, TopoView!Last
    <2>4. e.vertex \in Vertices /\ e.next \in Nat \ {0}
      <3>1. n \in 1..Len(stack)
        BY <2>2
      <3>2. stack[n].vertex \in Vertices /\ stack[n].next \in Nat \ {0}
        BY <1>2, <3>1, FrameOf
      <3> QED
        BY <2>3, <3>2
    <2>5. e.next \in 1..Len(graph[e.vertex]) /\ e.next <= Len(graph[e.vertex])
      BY <1>1, <1>7, <2>3, <2>4, ListsOfGraph
    <2>6. PICK t \in Vertices : t = graph[e.vertex][e.next] /\ t = TopoView!target
      BY <1>1, <2>3, <2>4, <2>5, ListsOfGraph DEF TopoView!target
    <2>7. PICK m : Moved(m, stack, n, e) /\ m = TopoView!Advanced
      BY <2>2, <2>3 DEF Moved, TopoView!Advanced
    <2>8. t \in Successors(graph)[e.vertex]
      BY <1>1, <2>4, <2>5, <2>6, SuccessorEdge
    <2> QED
      BY <2>2, <2>3, <2>5, <2>6, <2>7, <2>8
  <1>8. CASE TopoView!CloseCycle
    <2>1. /\ stack # <<>> /\ TopoView!top.next <= Len(graph[TopoView!top.vertex])
          /\ detect /\ TopoView!target \in onPath
          /\ cycle' = TopoView!target /\ phase' = "refused"
          /\ UNCHANGED <<graph, detect, yields, root>>
      BY <1>8 DEF TopoView!CloseCycle
    <2>2. PICK n, e, t, m :
                 /\ n \in Nat \ {0} /\ t \in Vertices /\ n = Len(stack) /\ e = stack[n] /\ t = TopoView!target
                 /\ t \in Successors(graph)[stack[n].vertex]
      BY <1>7, <2>1
    <2>3. PICK k \in 1..n : stack[k].vertex = t
      BY <1>1, <2>1, <2>2 DEF Built, On
    <2>4. \A i \in 1..n : stack[i].vertex \in Vertices
      BY <1>2, <2>2, FrameOf
    <2>5. \A v \in Vertices : ReachesOnwards(Vertices, graph, v)
      BY <1>1, VerticesFinite, Reachability DEF Adjacency
    <2>6. \E v \in Successors(graph)[t] : t \in ReachedFrom(graph, v)
      <3>1. CASE k = n
        BY <2>2, <2>3, <2>5, <3>1 DEF ReachesOnwards
      <3>2. CASE k # n
        <4>1. k \in 1..(Len(stack) - 1) /\ k + 1 \in 1..n /\ \A i \in (k + 1)..n : i \in 1..n
          BY <2>2, <3>2
        <4>2. PICK v : v = stack[k + 1].vertex
          OBVIOUS
        <4>3. v \in Successors(graph)[t] /\ v \in Vertices
          <5>1. /\ stack[k].next - 1 \in 1..Len(graph[stack[k].vertex])
                /\ graph[stack[k].vertex][stack[k].next - 1] = stack[k + 1].vertex
            BY <1>2, <4>1 DEF Searching, IsPath
          <5>2. stack[k].vertex \in Vertices /\ v \in Vertices
            BY <2>4, <4>1, <4>2
          <5>3. stack[k + 1].vertex \in Successors(graph)[stack[k].vertex]
            <6>1. graph \in Adjacency
              BY <1>1
            <6> QED
              BY <5>1, <5>2, <6>1, SuccessorEdge
          <5> QED
            BY <2>3, <4>2, <5>2, <5>3
        <4>4. stack[n].vertex \in ReachedWithin(Successors(graph), Vertices, v)
          <5>1. \A i \in (k + 1)..n : stack[i].vertex \in Vertices
            BY <2>4, <4>1
          <5> QED
            BY <1>1, <1>2, <2>2, <4>1, <4>2, <5>1, PathLeadsUp
        <4>5. ReachedFrom(graph, v) = ReachedWithin(Successors(graph), Vertices, v)
          <5>1. DOMAIN Successors(graph) = Vertices
            BY <1>1, SuccessorsOf DEF Adjacency
          <5> QED
            BY <5>1 DEF ReachedFrom, Reached
        <4>6. PICK j \in 1..Len(graph[stack[n].vertex]) : graph[stack[n].vertex][j] = t
          <5>1. stack[n].vertex \in Vertices
            BY <2>2, <2>4
          <5> QED
            BY <1>1, <2>2, <5>1, SuccessorEdge
        <4>7. t \in ReachedFrom(graph, v)
          BY <2>5, <4>3, <4>4, <4>5, <4>6 DEF ReachesOnwards
        <4> QED
          BY <4>3, <4>7
      <3> QED
        BY <3>1, <3>2
    <2>7. Refused'
      BY <2>1, <2>2, <2>6 DEF Refused
    <2> QED
      BY <2>1, <2>7 DEF TopoInv, Phases
  <1>9. CASE TopoView!Follow
    <2>1. /\ stack # <<>> /\ TopoView!top.next <= Len(graph[TopoView!top.vertex])
          /\ ~(detect /\ TopoView!target \in onPath)
          /\ IF TopoView!target \in visited
             THEN stack' = TopoView!Advanced /\ UNCHANGED <<visited, onPath>>
             ELSE /\ stack' = Append(TopoView!Advanced, New(TopoView!target))
                  /\ visited' = visited \cup {TopoView!target}
                  /\ onPath' = IF detect THEN onPath \cup {TopoView!target} ELSE onPath
          /\ phase' = "construct"
          /\ UNCHANGED <<graph, detect, yields, root, postOrder, TopoView!walk>>
      BY <1>1, <1>9 DEF TopoView!Follow, TopoView!PushVertex, TopoView!Entry, New
    <2>2. PICK n, e, t, m :
                 /\ n \in Nat \ {0} /\ t \in Vertices /\ n = Len(stack) /\ e = stack[n]
                 /\ e.next <= Len(graph[e.vertex]) /\ t = graph[e.vertex][e.next] /\ t = TopoView!target
                 /\ Moved(m, stack, n, e) /\ m = TopoView!Advanced
                 /\ t \in Successors(graph)[stack[n].vertex]
      BY <1>7, <2>1
    <2>3. CASE t \in visited
      <3>1. stack' = m /\ UNCHANGED <<visited, onPath>>
        BY <2>1, <2>2, <2>3
      <3>2. Moved(stack', stack, n, e)
        BY <2>2, <3>1
      <3>3. HasMovedOn(graph, stack, postOrder, t, stack')
        BY <1>1, <1>2, <2>2, <3>2, MovesOn
      <3>4. detect \/ ~GraphCyclic => Listed(postOrder, t)
        <4> SUFFICES ASSUME On(stack, t), detect \/ ~GraphCyclic PROVE FALSE
          BY <1>1, <2>3 DEF Built
        <4>1. ~detect
          BY <1>1, <2>1, <2>2 DEF Built
        <4>2. PICK k \in 1..n : stack[k].vertex = t
          BY <2>2 DEF On
        <4>3. \A i \in 1..n : stack[i].vertex \in Vertices
          BY <1>2, <2>2, FrameOf
        <4>4. stack[k].vertex \in Successors(graph)[stack[n].vertex]
          BY <2>2, <4>2
        <4>5. CyclicWithin(Successors(graph), Vertices)
          BY <1>1, <1>2, <2>2, <4>3, <4>4, ClosesCycle
        <4> QED
          BY <4>1, <4>5 DEF GraphCyclic
      <3>5. Built(stack', postOrder', visited', onPath')
        BY <1>1, <2>1, <3>1, <3>3, <3>4 DEF Built, HasMovedOn
      <3> QED
        BY <1>1, <2>1, <3>1, <3>5, TopoKeeps
    <2>4. CASE t \notin visited
      <3>1. /\ Topped(stack', m, t) /\ visited' = visited \cup {t}
            /\ detect => onPath' = onPath \cup {t}
        BY <2>1, <2>2, <2>4 DEF Topped
      <3>2. ~On(stack, t) /\ ~Listed(postOrder, t)
        BY <1>1, <2>4 DEF Built
      <3>3. HasGoneDown(graph, stack, postOrder, t, stack')
        BY <1>1, <1>2, <2>2, <3>1, <3>2, GoesDown
      <3>4. Built(stack', postOrder', visited', onPath')
        BY <1>1, <2>1, <3>1, <3>3 DEF Built, HasGoneDown
      <3>5. \A v \in Vertices : v < root' => v \in visited'
        BY <1>1, <2>1, <3>1
      <3> QED
        BY <1>1, <2>1, <3>4, <3>5, TopoKeeps
    <2> QED
      BY <2>3, <2>4
  <1>10. CASE TopoView!Constructed
    <2>1. /\ stack = <<>> /\ root = N /\ phase' = "begin"
          /\ postOrder' = Reverse(postOrder)
          /\ count' = IF yields = "vertices" /\ postOrder # <<>> THEN 1 ELSE 0
          /\ UNCHANGED <<graph, detect, yields, root, cancel, index, position, walked>>
      BY <1>10 DEF TopoView!Constructed, TopoView!Reverse, Reverse
    <2>2. \A v \in Vertices : Listed(postOrder, v)
      <3>1. Len(stack) = 0 /\ \A i \in 1..0 : FALSE
        BY <2>1, EmptySeq
      <3>2. \A v \in Vertices : v < root
        BY <1>4, <2>1 DEF Vertices
      <3> QED
        BY <1>1, <3>1, <3>2 DEF Built, On
    <2>3. PICK r : r = Reverse(postOrder)
      OBVIOUS
    <2>4. /\ r \in Seq(Vertices) /\ DOMAIN r = 1..Len(r) /\ IsInjective(r)
          /\ \A w : w \in ToSet(r) <=> Listed(postOrder, w)
          /\ Finished(graph, postOrder) => Topological(Successors(graph), r)
      BY <1>1, <1>2, <2>3, FinishedBackwards
    <2>5. Distinct(r)
      BY <2>4 DEF IsInjective, Distinct
    <2>6. \A v \in Vertices : Listed(r, v)
      BY <2>2, <2>4, SeenIs
    <2>7. detect \/ ~GraphCyclic => Finished(graph, postOrder)
      BY <1>1 DEF Built
    <2>8. Finished(graph, postOrder) => ~GraphCyclic
      <3>1. Vertices \in SUBSET Vertices
        OBVIOUS
      <3> QED
        BY <1>1, <1>2, <2>2, <3>1, OrderExcludesCycle DEF GraphCyclic
    <2>9. InOrder'
      <3>1. graph' = graph /\ detect' = detect /\ postOrder' = r
        BY <2>1, <2>3
      <3>2. GraphCyclic' <=> GraphCyclic
        BY <3>1 DEF GraphCyclic
      <3> QED
        BY <2>4, <2>5, <2>6, <2>7, <2>8, <3>1, <3>2 DEF InOrder
    <2>10. postOrder # <<>>
      <3>1. Len(postOrder) # 0
        BY <2>2, VerticesFinite DEF Listed
      <3> QED
        BY <3>1, EmptySeq
    <2> QED
      BY <1>1, <2>1, <2>9, <2>10 DEF TopoInv, Phases
  <1> QED
    BY <1>5, <1>6, <1>8, <1>9, <1>10 DEF TopoView!Construct

-----------------------------------------------------------------------------
(* The walk of an order *)

LEMMA ListsAre ==
  ASSUME NEW g \in Adjacency, NEW f \in Seq(Vertices)
  PROVE  /\ EdgeLists(g, f) \in Seq(Seq(Elements)) /\ Len(EdgeLists(g, f)) = Len(f)
         /\ \A i \in 1..Len(f) : /\ f[i] \in Vertices /\ Len(g[f[i]]) \in Nat
                                 /\ Len(EdgeLists(g, f)[i]) = Len(g[f[i]])
                                 /\ \A e \in 1..Len(g[f[i]]) : EdgeLists(g, f)[i][e] = <<f[i], e>>
  <1>1. PICK n \in Nat : n = Len(f)
    BY LenProperties
  <1>2. ASSUME NEW i \in 1..n
        PROVE  /\ f[i] \in Vertices /\ Len(g[f[i]]) \in Nat
               /\ [e \in 1..Len(g[f[i]]) |-> <<f[i], e>>] \in Seq(Elements)
               /\ Len([e \in 1..Len(g[f[i]]) |-> <<f[i], e>>]) = Len(g[f[i]])
    <2>1. PICK v \in Vertices : v = f[i]
      BY <1>1, <1>2, ElementOfSeq
    <2>2. PICK l \in Nat : l = Len(g[v])
      BY ListsOfGraph
    <2>3. \A e \in 1..l : <<v, e>> \in Elements
      BY DEF Elements
    <2>4. PICK r : r = [e \in 1..l |-> <<v, e>>]
      OBVIOUS
    <2>5. r \in [1..l -> Elements]
      BY <2>3, <2>4
    <2>6. r \in Seq(Elements) /\ Len(r) = l
      BY <2>5, IsASeq, LenProperties
    <2> QED
      BY <2>1, <2>2, <2>4, <2>6
  <1>3. EdgeLists(g, f) = [i \in 1..n |-> [e \in 1..Len(g[f[i]]) |-> <<f[i], e>>]]
    BY <1>1 DEF EdgeLists
  <1>4. EdgeLists(g, f) \in [1..n -> Seq(Elements)]
    BY <1>2, <1>3
  <1>5. EdgeLists(g, f) \in Seq(Seq(Elements)) /\ Len(EdgeLists(g, f)) = n
    BY <1>4, IsASeq, LenProperties
  <1> QED
    BY <1>1, <1>2, <1>3, <1>5

HasWalkedOn(g, f, off, w, i, p, r) == /\ r \in Seq(Elements) /\ Len(r) = Len(w) + 1
                                      /\ EdgesWalked(g, f, off, r, i, p)

\* The walk goes on to edge p of the i-th vertex.
LEMMA WalksOn ==
  ASSUME NEW g \in Adjacency, NEW f \in Seq(Vertices), NEW n \in Nat \ {0}, n = Len(f),
         NEW off \in [0..n -> Nat], Flattened(off, EdgeWalk(g, f), EdgeLists(g, f), n, Elements),
         NEW w \in Seq(Elements), \A j \in 1..Len(w) : w[j] = EdgeWalk(g, f)[j],
         NEW i \in 1..n, NEW p \in 1..Len(g[f[i]]), Len(w) + 1 = off[i - 1] + p
  PROVE  \A r : r = Append(w, <<f[i], p>>) => HasWalkedOn(g, f, off, w, i, p, r)
  <1> TAKE r
  <1> HAVE r = Append(w, <<f[i], p>>)
  <1>1. <<f[i], p>> \in Elements
    BY ListsAre DEF Elements
  <1>2. PICK l \in Nat : l = Len(w)
    BY LenProperties
  <1>3. /\ r \in Seq(Elements) /\ Len(r) = l + 1 /\ r[l + 1] = <<f[i], p>>
        /\ \A j \in 1..l : r[j] = w[j]
    BY <1>1, <1>2, AppendProperties
  <1>4. EdgeWalk(g, f)[l + 1] = <<f[i], p>>
    <2>1. Len(EdgeLists(g, f)[i]) = Len(g[f[i]]) /\ EdgeLists(g, f)[i][p] = <<f[i], p>>
      <3>1. /\ Len(EdgeLists(g, f)[i]) = Len(g[f[i]])
            /\ \A e \in 1..Len(g[f[i]]) : EdgeLists(g, f)[i][e] = <<f[i], e>>
        BY ListsAre
      <3> QED
        BY <3>1
    <2>2. EdgeWalk(g, f)[off[i - 1] + p] = EdgeLists(g, f)[i][p]
      BY <2>1 DEF Flattened
    <2> QED
      BY <1>2, <2>1, <2>2
  <1>5. \A j \in 1..(l + 1) : j \in 1..l \/ j = l + 1
    OBVIOUS
  <1>6. \A j \in 1..Len(r) : r[j] = EdgeWalk(g, f)[j]
    BY <1>2, <1>3, <1>4, <1>5
  <1>7. Len(r) = off[i - 1] + p /\ i <= Len(f) /\ ~(i > Len(f))
    BY <1>2, <1>3
  <1>8. EdgesWalked(g, f, off, r, i, p)
    BY <1>6, <1>7 DEF EdgesWalked
  <1> QED
    BY <1>2, <1>3, <1>8 DEF HasWalkedOn

\* One use of MoveTo with the edge behind the p-th of the i-th vertex.
LEMMA EdgeSteps ==
  ASSUME graph \in Adjacency, postOrder \in Seq(Vertices), NEW n \in Nat \ {0}, n = Len(postOrder),
         NEW off \in [0..n -> Nat], Flattened(off, EdgeWalk(graph, postOrder), EdgeLists(graph, postOrder), n, Elements),
         walked \in Seq(Elements), \A j \in 1..Len(walked) : walked[j] = EdgeWalk(graph, postOrder)[j],
         NEW i \in 1..n, NEW p \in Nat, p <= Len(graph[postOrder[i]]), Len(walked) = off[i - 1] + p,
         count = Len(walked), yields = "edges", TopoView!MoveTo(TopoView!NextEdge(i, p + 1))
  PROVE  /\ EdgesWalked(graph, postOrder, off, walked', index', position')
         /\ walked' \in Seq(Elements) /\ count' = Len(walked') /\ index' \in Nat \ {0}
  <1>1. PICK q : q = TopoView!NextEdge(i, p + 1)
    OBVIOUS
  <1>2. /\ index' = q[1] /\ position' = q[2]
        /\ IF q[1] > n THEN UNCHANGED <<count, walked>>
           ELSE /\ count' = count + 1
                /\ walked' = Append(walked, <<postOrder[q[1]], q[2]>>)
    BY <1>1 DEF TopoView!MoveTo, TopoView!Element
  <1>3. \A j \in 1..n : Len(graph[postOrder[j]]) \in Nat /\ (graph[postOrder[j]] # <<>> <=> Len(graph[postOrder[j]]) # 0)
    <2> SUFFICES ASSUME NEW j \in 1..n PROVE Len(graph[postOrder[j]]) \in Nat /\ (graph[postOrder[j]] # <<>> <=> Len(graph[postOrder[j]]) # 0)
      OBVIOUS
    <2>1. postOrder[j] \in Vertices
      BY ElementOfSeq
    <2>2. graph[postOrder[j]] \in Seq(Vertices)
      BY <2>1 DEF Adjacency, Adjacencies
    <2> QED
      BY <2>2, LenProperties, EmptySeq
  <1>4. \A j \in 1..n : off[j] = off[j - 1] + Len(graph[postOrder[j]])
    <2>1. \A j \in 1..n : Len(EdgeLists(graph, postOrder)[j]) = Len(graph[postOrder[j]])
      BY ListsAre
    <2>2. \A j \in 1..n : off[j] = off[j - 1] + Len(EdgeLists(graph, postOrder)[j])
      BY DEF Flattened
    <2> QED
      BY <2>1, <2>2
  <1>5. ASSUME NEW j \in 1..n, NEW e \in 1..Len(graph[postOrder[j]]), q = <<j, e>>, Len(walked) + 1 = off[j - 1] + e
        PROVE  /\ EdgesWalked(graph, postOrder, off, walked', index', position')
               /\ walked' \in Seq(Elements) /\ count' = Len(walked') /\ index' \in Nat \ {0}
    <2>1. index' = j /\ position' = e /\ count' = count + 1 /\ walked' = Append(walked, <<postOrder[j], e>>)
      BY <1>2, <1>5
    <2>2. /\ walked' \in Seq(Elements) /\ Len(walked') = Len(walked) + 1
          /\ EdgesWalked(graph, postOrder, off, walked', j, e)
      <3>1. HasWalkedOn(graph, postOrder, off, walked, j, e, walked')
        BY <1>5, <2>1, WalksOn
      <3> QED
        BY <3>1 DEF HasWalkedOn
    <2> QED
      BY <2>1, <2>2
  <1>6. CASE p + 1 <= Len(graph[postOrder[i]])
    <2>1. q = <<i, p + 1>> /\ p + 1 \in 1..Len(graph[postOrder[i]])
      BY <1>1, <1>3, <1>6 DEF TopoView!NextEdge
    <2>2. Len(walked) + 1 = off[i - 1] + (p + 1)
      <3>1. i - 1 \in 0..n
        OBVIOUS
      <3>2. PICK o \in Nat : o = off[i - 1]
        BY <3>1
      <3>3. PICK l \in Nat : l = Len(walked)
        BY LenProperties
      <3>4. l = o + p
        BY <3>2, <3>3
      <3>5. l + 1 = o + (p + 1)
        BY <3>4
      <3> QED
        BY <3>2, <3>3, <3>5
    <2> QED
      BY <1>5, <2>1, <2>2
  <1>7. CASE ~(p + 1 <= Len(graph[postOrder[i]]))
    <2>1. PICK later : later = {j \in (i + 1)..n : graph[postOrder[j]] # <<>>}
      OBVIOUS
    <2>2. q = IF later = {} THEN <<n + 1, p + 1>> ELSE <<CHOOSE j \in later : \A k \in later : j <= k, 1>>
      BY <1>1, <1>7, <2>1 DEF TopoView!NextEdge
    <2>3. Len(walked) = off[i]
      BY <1>3, <1>4, <1>7
    <2>4. ASSUME NEW m \in i..n, \A j \in (i + 1)..m : j \notin later PROVE off[m] = off[i]
      <3>1. i \in 0..n
        OBVIOUS
      <3>2. ASSUME NEW j \in (i + 1)..m PROVE off[j] = off[j - 1]
        <4>1. j \in 1..n /\ j \in (i + 1)..n /\ j - 1 \in 0..n
          OBVIOUS
        <4>2. Len(graph[postOrder[j]]) = 0
          BY <1>3, <2>1, <2>4, <4>1
        <4>3. off[j - 1] \in Nat
          BY <4>1
        <4> QED
          BY <1>4, <4>1, <4>2, <4>3
      <3> QED
        BY <3>1, <3>2, NoneBetween
    <2>5. CASE later = {}
      <3>1. index' = n + 1 /\ walked' = walked /\ count' = count
        BY <1>2, <2>2, <2>5
      <3>2. n \in i..n
        OBVIOUS
      <3>3. off[n] = off[i]
        BY <2>4, <2>5, <3>2
      <3>4. ~(index' <= Len(postOrder)) /\ index' \in Nat \ {0}
        BY <3>1
      <3>5. Len(walked') = off[Len(postOrder)]
        BY <2>3, <3>1, <3>3
      <3>6. EdgesWalked(graph, postOrder, off, walked', index', position')
        BY <3>1, <3>4, <3>5 DEF EdgesWalked
      <3> QED
        BY <3>1, <3>4, <3>6
    <2>6. CASE later # {}
      <3>1. later \subseteq Nat
        BY <2>1
      <3>2. PICK j : j = CHOOSE x \in later : \A k \in later : x <= k
        OBVIOUS
      <3>3. j \in later /\ \A k \in later : j <= k
        BY <2>6, <3>1, <3>2, LeastNatural
      <3>4. j \in (i + 1)..n /\ j \in 1..n /\ j - 1 \in i..n /\ graph[postOrder[j]] # <<>>
        BY <2>1, <3>3
      <3>5. off[j - 1] = off[i]
        <4>1. \A k \in (i + 1)..(j - 1) : k \notin later
          BY <3>3, <3>4
        <4> QED
          BY <2>4, <3>4, <4>1
      <3>6. q = <<j, 1>> /\ 1 \in 1..Len(graph[postOrder[j]])
        BY <1>3, <2>2, <2>6, <3>2, <3>4
      <3>7. Len(walked) + 1 = off[j - 1] + 1
        BY <2>3, <3>5
      <3> QED
        BY <1>5, <3>4, <3>6, <3>7
    <2> QED
      BY <2>5, <2>6
  <1> QED
    BY <1>6, <1>7

\* While the view is walked, only where the walk is and what it has passed changes.
LEMMA WalkKeeps ==
  ASSUME TopoInv, UNCHANGED <<graph, detect, yields, TopoView!search>>, phase' = "iterate",
         InOrder, Walking'
  PROVE  TopoInv'
  <1>1. /\ graph' = graph /\ detect' = detect /\ yields' = yields /\ root' = root /\ postOrder' = postOrder
    BY DEF TopoView!search
  <1>2. InOrder'
    BY <1>1 DEF InOrder, GraphCyclic
  <1> QED
    BY <1>1, <1>2 DEF TopoInv, Phases

LEMMA OrderIsNotEmpty ==
  ASSUME InOrder
  PROVE  \E n \in Nat \ {0} : n = Len(postOrder)
  <1>1. Listed(postOrder, 0)
    BY VerticesFinite DEF InOrder
  <1>2. Len(postOrder) \in Nat
    BY LenProperties DEF InOrder
  <1> QED
    BY <1>1, <1>2 DEF Listed

LEMMA EdgesFlattened ==
  ASSUME graph \in Adjacency, postOrder \in Seq(Vertices), NEW n \in Nat \ {0}, n = Len(postOrder)
  PROVE  \E off \in [0..n -> Nat] : Flattened(off, EdgeWalk(graph, postOrder), EdgeLists(graph, postOrder), n, Elements)
  <1>1. EdgeLists(graph, postOrder) \in Seq(Seq(Elements)) /\ Len(EdgeLists(graph, postOrder)) = n
    BY ListsAre
  <1> QED
    BY <1>1, FlattenIs DEF EdgeWalk

LEMMA TopoWalk ==
  ASSUME TopoInv, UNCHANGED arguments, TopoView!Begin \/ TopoView!Cancel \/ TopoView!Advance
  PROVE  TopoInv'
  <1>1. /\ UNCHANGED <<graph, detect, yields, TopoView!search>> /\ phase' = "iterate"
        /\ phase \in {"begin", "iterate"}
    BY DEF TopoView!Begin, TopoView!Cancel, TopoView!Advance, TopoView!AdvanceVertex, TopoView!AdvanceEdge
  <1>2. /\ graph' = graph /\ postOrder' = postOrder /\ yields' = yields
    BY <1>1 DEF TopoView!search
  <1>3. /\ graph \in Adjacency /\ InOrder /\ postOrder \in Seq(Vertices) /\ yields \in {"vertices", "edges"}
    BY <1>1 DEF TopoInv, InOrder
  <1>4. PICK n \in Nat \ {0} : n = Len(postOrder)
    BY <1>3, OrderIsNotEmpty
  <1>5. \A i \in 1..n : postOrder[i] \in Vertices /\ <<postOrder[i]>> \in Elements
    <2>1. \A i \in 1..n : postOrder[i] \in Vertices
      BY <1>3, <1>4, ElementOfSeq
    <2> QED
      BY <2>1 DEF Elements
  <1>6. Walking'
    <2>1. CASE TopoView!Begin
      <3>1. phase = "begin" /\ index = 1 /\ position = 1 /\ walked = <<>> /\ cancel = "continue_search" /\ cancel' = cancel
            /\ count = IF yields = "vertices" THEN 1 ELSE 0
        BY <2>1 DEF TopoInv, TopoView!Begin
      <3>2. CASE yields = "edges"
        <4>1. TopoView!MoveTo(TopoView!NextEdge(1, 0 + 1)) /\ count = 0
          BY <2>1, <3>1, <3>2 DEF TopoView!Begin
        <4>2. PICK off \in [0..n -> Nat] : Flattened(off, EdgeWalk(graph, postOrder), EdgeLists(graph, postOrder), n, Elements)
          BY <1>3, <1>4, EdgesFlattened
        <4>3. walked \in Seq(Elements) /\ Len(walked) = 0 /\ \A j \in 1..0 : FALSE
          BY <3>1, EmptySeq
        <4>4. 1 \in 1..n /\ 0 \in Nat /\ Len(walked) = off[1 - 1] + 0 /\ 0 <= Len(graph[postOrder[1]])
          <5>1. 1 \in 1..n /\ 1 - 1 = 0 /\ off[0] = 0
            BY <4>2 DEF Flattened
          <5>2. Len(graph[postOrder[1]]) \in Nat
            BY <1>3, <1>5, <5>1, ListsOfGraph
          <5> QED
            BY <4>3, <5>1, <5>2
        <4>5. /\ EdgesWalked(graph, postOrder, off, walked', index', position')
              /\ walked' \in Seq(Elements) /\ count' = Len(walked') /\ index' \in Nat \ {0}
          BY <1>3, <1>4, <3>2, <4>1, <4>2, <4>3, <4>4, EdgeSteps
        <4> QED
          BY <1>2, <1>4, <3>2, <4>5 DEF Walking
      <3>3. CASE yields = "vertices"
        <4>1. walked' = <<<<postOrder[1]>>>> /\ index' = 1 /\ count' = 1
          BY <2>1, <3>1, <3>3 DEF TopoView!Begin, TopoView!Element
        <4>2. walked' \in Seq(Elements) /\ Len(walked') = 1 /\ walked'[1] = <<postOrder[1]>>
          <5>1. <<postOrder[1]>> \in Elements
            BY <1>4, <1>5
          <5>2. PICK x \in Elements : x = <<postOrder[1]>>
            BY <5>1
          <5> QED
            BY <4>1, <5>2
        <4>3. VerticesWalked(postOrder, walked')
          BY <1>4, <4>2 DEF VerticesWalked
        <4> QED
          BY <1>2, <1>4, <3>3, <4>1, <4>2, <4>3 DEF Walking
      <3> QED
        BY <1>3, <3>2, <3>3
    <2>2. CASE TopoView!Cancel
      <3>1. /\ UNCHANGED <<count, index, position, walked>> /\ cancel' # "continue_search" /\ Walking
        BY <2>2 DEF TopoView!Cancel, TopoInv
      <3>2. count' = count /\ index' = index /\ position' = position /\ walked' = walked
        BY <3>1
      <3> QED
        BY <1>2, <3>1, <3>2 DEF Walking
    <2>3. CASE TopoView!AdvanceVertex
      <3>1. /\ index <= n /\ yields = "vertices" /\ cancel' = cancel /\ Walking
            /\ IF cancel = "continue_search"
               THEN TopoView!MoveTo(<<index + 1, position>>)
               ELSE index' = index + 1 /\ count' = count /\ walked' = walked
        BY <1>4, <2>3 DEF TopoView!AdvanceVertex, TopoInv
      <3>2. /\ walked \in Seq(Elements) /\ count = Len(walked) /\ index \in Nat \ {0}
            /\ VerticesWalked(postOrder, walked)
            /\ cancel = "continue_search" => Len(walked) = index
        BY <1>4, <3>1 DEF Walking
      <3>3. CASE cancel # "continue_search"
        BY <1>2, <3>1, <3>2, <3>3 DEF Walking
      <3>4. CASE cancel = "continue_search" /\ index + 1 > n
        <4>1. index' = index + 1 /\ walked' = walked /\ count' = count
          BY <1>4, <3>1, <3>4 DEF TopoView!MoveTo
        <4>2. Len(walked) = n /\ ~(index' <= n) /\ index' \in Nat \ {0}
          BY <3>1, <3>2, <3>4, <4>1
        <4> QED
          BY <1>2, <1>4, <3>1, <3>2, <4>1, <4>2 DEF Walking
      <3>5. CASE cancel = "continue_search" /\ ~(index + 1 > n)
        <4>1. PICK i : i = index + 1
          OBVIOUS
        <4>2. i \in 1..n /\ i \in Nat \ {0} /\ i = Len(walked) + 1
          BY <3>2, <3>5, <4>1
        <4>3. index' = i /\ walked' = Append(walked, <<postOrder[i]>>) /\ count' = count + 1
          BY <1>4, <3>1, <3>5, <4>1 DEF TopoView!MoveTo, TopoView!Element
        <4>4. /\ walked' \in Seq(Elements) /\ Len(walked') = i /\ walked'[i] = <<postOrder[i]>>
              /\ \A j \in 1..Len(walked) : walked'[j] = walked[j]
          BY <1>5, <3>2, <4>2, <4>3, AppendProperties
        <4>5. \A j \in 1..i : j \in 1..Len(walked) \/ j = i
          BY <4>2
        <4>6. VerticesWalked(postOrder, walked')
          <5>1. \A j \in 1..Len(walked) : walked[j] = <<postOrder[j]>>
            BY <3>2 DEF VerticesWalked
          <5>2. Len(walked') <= Len(postOrder)
            BY <1>4, <4>2, <4>4
          <5> QED
            BY <4>4, <4>5, <5>1, <5>2 DEF VerticesWalked
        <4>7. count' = Len(walked') /\ index' <= Len(postOrder)
          BY <1>4, <3>2, <4>2, <4>3, <4>4
        <4> QED
          BY <1>2, <3>1, <4>2, <4>3, <4>4, <4>6, <4>7 DEF Walking
      <3> QED
        BY <3>3, <3>4, <3>5
    <2>4. CASE TopoView!AdvanceEdge
      <3>1. /\ index <= n /\ yields = "edges" /\ TopoView!MoveTo(TopoView!NextEdge(index, position + 1))
            /\ Walking
        <4>1. index \in Nat \ {0} /\ ~TopoView!AtEnd
          BY <2>4 DEF TopoView!AdvanceEdge, TopoInv, Walking
        <4>2. index <= n
          BY <1>4, <4>1 DEF TopoView!AtEnd
        <4> QED
          BY <2>4, <4>2 DEF TopoView!AdvanceEdge, TopoInv
      <3>2. /\ walked \in Seq(Elements) /\ count = Len(walked) /\ index \in 1..n
        BY <3>1 DEF Walking
      <3>3. PICK off \in [0..n -> Nat] : EdgesWalked(graph, postOrder, off, walked, index, position)
        BY <1>4, <3>1 DEF Walking
      <3>4. /\ Flattened(off, EdgeWalk(graph, postOrder), EdgeLists(graph, postOrder), n, Elements)
            /\ \A j \in 1..Len(walked) : walked[j] = EdgeWalk(graph, postOrder)[j]
            /\ position \in 1..Len(graph[postOrder[index]]) /\ Len(walked) = off[index - 1] + position
        BY <1>4, <3>1, <3>3 DEF EdgesWalked
      <3>5. Len(graph[postOrder[index]]) \in Nat /\ position \in Nat /\ position <= Len(graph[postOrder[index]])
        BY <1>3, <1>5, <3>2, <3>4, ListsOfGraph
      <3>6. /\ EdgesWalked(graph, postOrder, off, walked', index', position')
            /\ walked' \in Seq(Elements) /\ count' = Len(walked') /\ index' \in Nat \ {0}
        BY <1>3, <1>4, <3>1, <3>2, <3>4, <3>5, EdgeSteps
      <3> QED
        BY <1>2, <1>4, <3>1, <3>6 DEF Walking
    <2> QED
      BY <2>1, <2>2, <2>3, <2>4 DEF TopoView!Advance
  <1> QED
    BY <1>1, <1>3, <1>6, WalkKeeps

LEMMA TopoStep ==
  ASSUME TopoInv, UNCHANGED arguments, TopoView!Next
  PROVE  TopoInv'
  BY TopoConstruct, TopoWalk DEF TopoView!Next

-----------------------------------------------------------------------------
(* Both kinds of orders are exact *)

LEMMA TopoExact ==
  ASSUME TopoInv
  PROVE  TopoView!WalkExact
  <1>1. graph \in Adjacency /\ yields \in {"vertices", "edges"}
    BY DEF TopoInv
  <1>2. PICK succ : succ = Successors(graph)
    OBVIOUS
  <1>3. TopoView!Successors(graph) = succ
    BY <1>2 DEF Successors, TopoView!Successors
  <1>4. \A S, u : TopoView!ReachedWithin(succ, S, u) = ReachedWithin(succ, S, u)
    BY DEF ReachedWithin, TopoView!ReachedWithin, Cardinality, TopoView!Cardinality
  <1>5. phase = "refused" => \E v \in succ[cycle] : cycle \in TopoView!Reached(succ, v)
    BY <1>2, <1>4 DEF TopoInv, Refused, ReachedFrom, Reached, TopoView!Reached
  <1>6. TopoView!Cyclic <=> GraphCyclic
    <2>1. TopoView!CyclicWithin(succ, Vertices) <=> CyclicWithin(succ, Vertices)
      BY <1>4 DEF CyclicWithin, TopoView!CyclicWithin
    <2> QED
      BY <1>2, <1>3, <2>1 DEF TopoView!Cyclic, GraphCyclic, TopoView!Vertices, Vertices
  <1>7. ASSUME phase \in {"begin", "iterate"}
        PROVE  /\ TopoView!ToSet(postOrder) = Vertices /\ TopoView!IsInjective(postOrder)
               /\ detect => ~GraphCyclic
               /\ GraphCyclic \/ TopoView!Topological(succ, postOrder)
    <2>1. InOrder
      BY <1>7 DEF TopoInv
    <2>2. ToSet(postOrder) = Vertices
      BY <2>1, SeenIs DEF InOrder
    <2>3. IsInjective(postOrder)
      BY <2>1, LenProperties DEF InOrder, Distinct, IsInjective
    <2>4. TopoView!Topological(succ, postOrder) <=> Topological(succ, postOrder)
      BY DEF Topological, TopoView!Topological, IsInjective, TopoView!IsInjective
    <2> QED
      BY <1>2, <2>1, <2>2, <2>3, <2>4 DEF InOrder, ToSet, TopoView!ToSet, IsInjective, TopoView!IsInjective
  <1>8. ASSUME phase = "iterate"
        PROVE  /\ TopoView!IsPrefix(walked, TopoView!Walk)
               /\ count = Len(walked)
               /\ index > Len(postOrder) /\ cancel = "continue_search" => walked = TopoView!Walk
    <2>1. Walking /\ InOrder /\ postOrder \in Seq(Vertices)
      BY <1>8 DEF TopoInv, InOrder
    <2>2. PICK n \in Nat \ {0} : n = Len(postOrder) /\ DOMAIN postOrder = 1..n
      BY <2>1, OrderIsNotEmpty, LenProperties
    <2>3. walked \in Seq(Elements) /\ count = Len(walked) /\ Len(walked) \in Nat /\ index \in Nat \ {0}
      BY <2>1, LenProperties DEF Walking
    <2>4. ASSUME NEW W \in Seq(Elements), W = TopoView!Walk,
                 Len(walked) <= Len(W), \A j \in 1..Len(walked) : walked[j] = W[j],
                 index > Len(postOrder) /\ cancel = "continue_search" => Len(walked) = Len(W)
          PROVE  /\ TopoView!IsPrefix(walked, TopoView!Walk)
                 /\ index > Len(postOrder) /\ cancel = "continue_search" => walked = TopoView!Walk
      <3>1. IsPrefix(walked, W) /\ (Len(walked) = Len(W) => walked = W)
        BY <2>3, <2>4, BeginningIs
      <3>2. TopoView!IsPrefix(walked, W)
        BY <3>1 DEF IsPrefix, TopoView!IsPrefix
      <3> QED
        BY <2>4, <3>1, <3>2
    <2>5. CASE yields = "vertices"
      <3>1. PICK W : W = [i \in 1..n |-> <<postOrder[i]>>]
        OBVIOUS
      <3>2. W = TopoView!Walk
        BY <2>2, <2>5, <3>1 DEF TopoView!Walk
      <3>3. W \in Seq(Elements) /\ Len(W) = n
        <4>1. \A i \in 1..n : <<postOrder[i]>> \in Elements
          BY <2>1, <2>2, ElementOfSeq DEF Elements
        <4>2. W \in [1..n -> Elements]
          BY <3>1, <4>1
        <4> QED
          BY <4>2, IsASeq, LenProperties
      <3>4. Len(walked) <= n /\ \A j \in 1..Len(walked) : walked[j] = <<postOrder[j]>>
        BY <2>1, <2>2, <2>5 DEF Walking, VerticesWalked
      <3>5. \A j \in 1..Len(walked) : walked[j] = W[j]
        <4>1. \A j \in 1..Len(walked) : j \in 1..n
          BY <2>3, <3>4
        <4> QED
          BY <3>1, <3>4, <4>1
      <3>6. index > Len(postOrder) /\ cancel = "continue_search" => Len(walked) = n
        BY <2>1, <2>2, <2>3, <2>5 DEF Walking
      <3> QED
        BY <2>3, <2>4, <3>2, <3>3, <3>4, <3>5, <3>6
    <2>6. CASE yields = "edges"
      <3>1. PICK W : W = EdgeWalk(graph, postOrder)
        OBVIOUS
      <3>2. W = TopoView!Walk
        <4>1. \A i \in 1..n : DOMAIN graph[postOrder[i]] = 1..Len(graph[postOrder[i]])
          <5> SUFFICES ASSUME NEW i \in 1..n PROVE DOMAIN graph[postOrder[i]] = 1..Len(graph[postOrder[i]])
            OBVIOUS
          <5>1. postOrder[i] \in Vertices
            BY <2>1, <2>2, ElementOfSeq
          <5> QED
            BY <1>1, <5>1, LenProperties DEF Adjacency, Adjacencies
        <4>2. PICK L : L = EdgeLists(graph, postOrder)
          OBVIOUS
        <4>3. L = [i \in DOMAIN postOrder |-> [e \in DOMAIN graph[postOrder[i]] |-> <<postOrder[i], e>>]]
          BY <2>2, <4>1, <4>2 DEF EdgeLists
        <4>4. TopoView!Walk = TopoView!FlattenSeq(L)
          BY <2>6, <4>3 DEF TopoView!Walk
        <4> QED
          BY <3>1, <4>2, <4>4 DEF EdgeWalk, FlattenSeq, TopoView!FlattenSeq
      <3>3. PICK off \in [0..n -> Nat] : EdgesWalked(graph, postOrder, off, walked, index, position)
        BY <2>1, <2>2, <2>6 DEF Walking
      <3>4. /\ W \in Seq(Elements) /\ Len(W) = off[n]
            /\ Flattened(off, W, EdgeLists(graph, postOrder), n, Elements)
            /\ \A j \in 1..Len(walked) : walked[j] = W[j]
            /\ index <= n => position \in 1..Len(graph[postOrder[index]]) /\ Len(walked) = off[index - 1] + position
            /\ index > n => Len(walked) = off[n]
        BY <2>2, <3>1, <3>3 DEF EdgesWalked, Flattened
      <3>5. Len(walked) <= Len(W)
        <4>1. CASE index <= n
          <5>1. index \in 1..n
            BY <2>3, <4>1
          <5>2. position \in 1..Len(EdgeLists(graph, postOrder)[index])
            BY <1>1, <2>1, <2>2, <3>4, <4>1, <5>1, ListsAre
          <5>3. off[index - 1] + position \in 1..off[n]
            BY <3>4, <5>1, <5>2 DEF Flattened
          <5> QED
            BY <3>4, <4>1, <5>3
        <4>2. CASE ~(index <= n)
          <5>1. off[n] \in Nat
            OBVIOUS
          <5> QED
            BY <2>3, <3>4, <4>2, <5>1
        <4> QED
          BY <4>1, <4>2
      <3>6. index > Len(postOrder) /\ cancel = "continue_search" => Len(walked) = Len(W)
        BY <2>2, <3>4
      <3> QED
        BY <2>3, <2>4, <3>2, <3>4, <3>5, <3>6
    <2> QED
      BY <1>1, <2>3, <2>5, <2>6
  <1>9. TopoView!Vertices = Vertices
    BY DEF TopoView!Vertices, Vertices
  <1> QED
    BY <1>3, <1>5, <1>6, <1>7, <1>8, <1>9 DEF TopoView!WalkExact

\* The inductive invariant of topological sort and of the views of topological orders.
OrderInv == /\ search = "topological_sort" => SortInv
            /\ search = "topological_views" => TopoInv

LEMMA OrdersStep ==
  ASSUME OrderInv, [Next]_vars
  PROVE  OrderInv'
  <1>1. CASE UNCHANGED vars
    <2>1. UNCHANGED <<search, graph, given, sources, color, stack, finishOrder, returned, result>>
      BY <1>1 DEF vars, arguments, sorted
    <2>2. SortInv => SortInv'
      BY <2>1 DEF SortInv, SortTypes, Colored, SourcesFollowed, SortEnded
    <2>3. UNCHANGED <<graph, detect, yields, root, stack, visited, onPath, postOrder, cycle, phase, cancel, count,
                      index, position, walked>>
      BY <1>1 DEF vars, arguments, views, ordering
    <2>4. /\ InOrder => InOrder'
          /\ Refused => Refused'
          /\ Constructing => Constructing'
          /\ Walking => Walking'
      BY <2>3 DEF InOrder, Refused, Constructing, Built, Walking, GraphCyclic
    <2>5. TopoInv => TopoInv'
      BY <2>3, <2>4 DEF TopoInv
    <2> QED
      BY <2>1, <2>2, <2>5 DEF OrderInv
  <1>2. CASE Next
    <2>1. UNCHANGED arguments /\ search' = search
      BY <1>2 DEF Next, arguments
    <2>2. search = "topological_sort" => Dfs!SortNext
      BY <1>2 DEF Next
    <2>3. search = "topological_views" => TopoView!Next
      BY <1>2 DEF Next
    <2> QED
      BY <2>1, <2>2, <2>3, SortStep, TopoStep DEF OrderInv
  <1> QED
    BY <1>1, <1>2

\* topological_sort (src/include/graph/algorithm/topological_sort.hpp) returns false for
\* exactly the graphs with a cycle behind the sources, and otherwise each vertex reached
\* from them once, before the vertices its edges lead to.  The views of topological orders
\* (src/include/graph/views/topological_sort.hpp) refuse exactly the cyclic graphs when
\* made by a _safe function, and what they yield at any time is the beginning of the walk
\* of an order of all vertices, complete when the iteration ends by itself; if the graph
\* is acyclic the order is topological.
THEOREM OrdersStayExact == Spec => []OrdersExact
  <1>1. Init => OrderInv
    BY SortBegins, TopoBegins DEF OrderInv
  <1>2. OrderInv /\ [Next]_vars => OrderInv'
    BY OrdersStep
  <1>3. OrderInv => OrdersExact
    BY SortExact, TopoExact DEF OrderInv, OrdersExact
  <1> QED
    BY <1>1, <1>2, <1>3, PTL DEF Spec

-----------------------------------------------------------------------------
(* The edges examined *)

LEMMA EdgesOfMore ==
  ASSUME NEW g \in Adjacency, NEW s \in Seq(Vertices), NEW v \in Vertices, NEW r, r = Append(s, v)
  PROVE  EdgesOf(g, s) \in Seq(Vertices) /\ EdgesOf(g, r) = EdgesOf(g, s) \o g[v]
  <1>1. PICK n \in Nat : n = Len(s)
    BY LenProperties
  <1>2. r \in Seq(Vertices) /\ Len(r) = n + 1 /\ (\A i \in 1..n : r[i] = s[i]) /\ r[n + 1] = v
    BY <1>1, AppendProperties
  <1>3. \A u \in Vertices : g[u] \in Seq(Vertices)
    BY DEF Adjacency, Adjacencies
  <1>4. \A i \in 1..n : s[i] \in Vertices
    BY <1>1, ElementOfSeq
  <1>5. PICK a : a = [i \in 1..n |-> g[s[i]]]
    OBVIOUS
  <1>6. PICK b : b = [i \in 1..(n + 1) |-> g[r[i]]]
    OBVIOUS
  <1>7. PICK T : T = Seq(Vertices)
    OBVIOUS
  <1>8. g[v] \in T /\ \A i \in 1..n : g[s[i]] \in T
    BY <1>3, <1>4, <1>7
  <1>9. a \in Seq(T) /\ Len(a) = n
    <2>1. a \in [1..n -> T]
      BY <1>5, <1>8
    <2> QED
      BY <2>1
  <1>10. PICK c : c = Append(a, g[v])
    OBVIOUS
  <1>11. c \in Seq(T) /\ Len(c) = n + 1 /\ (\A i \in 1..n : c[i] = a[i]) /\ c[n + 1] = g[v]
    BY <1>8, <1>9, <1>10, AppendProperties
  <1>12. ASSUME NEW i \in 1..(n + 1) PROVE b[i] = c[i]
    <2>1. CASE i = n + 1
      BY <1>2, <1>6, <1>11, <2>1
    <2>2. CASE i # n + 1
      <3>1. i \in 1..n
        BY <2>2
      <3> QED
        BY <1>2, <1>5, <1>6, <1>11, <3>1
    <2> QED
      BY <2>1, <2>2
  <1>13. b = c
    <2>1. c = [i \in 1..(n + 1) |-> c[i]]
      BY <1>11, LenProperties
    <2> QED
      BY <1>6, <1>12, <2>1
  <1>14. FlattenSeq(a) \in Seq(Vertices) /\ FlattenSeq(b) = FlattenSeq(a) \o g[v]
    <2>1. a \in Seq(Seq(Vertices)) /\ g[v] \in Seq(Vertices)
      BY <1>3, <1>7, <1>9
    <2>2. \A z \in Seq(Vertices) : \A m : m = Append(a, z) => FlattenSeq(a) \in Seq(Vertices) /\ FlattenSeq(m) = FlattenSeq(a) \o z
      BY <2>1, FlattenAppended
    <2> QED
      BY <1>10, <1>13, <2>1, <2>2
  <1> QED
    BY <1>1, <1>2, <1>5, <1>6, <1>14 DEF EdgesOf

\* The edges e are all of y and the first k of s.
EdgesTold(e, y, s, k) ==
  /\ e \in Seq(Vertices) /\ y \in Seq(Vertices) /\ s \in Seq(Vertices)
  /\ k \in 0..Len(s) /\ Len(e) = Len(y) + k
  /\ \A i \in 1..Len(y) : e[i] = y[i]
  /\ \A i \in 1..k : e[Len(y) + i] = s[i]

LEMMA EdgesToldNone ==
  ASSUME NEW e \in Seq(Vertices), NEW s \in Seq(Vertices)
  PROVE  EdgesTold(e, e, s, 0)
  BY LenProperties DEF EdgesTold

LEMMA EdgesToldMore ==
  ASSUME NEW e, NEW y, NEW s, NEW k \in Nat, EdgesTold(e, y, s, k), NEW j, j = k + 1, j <= Len(s), NEW r, r = Append(e, s[j])
  PROVE  EdgesTold(r, y, s, j)
  <1>1. PICK n \in Nat : n = Len(y)
    BY LenProperties DEF EdgesTold
  <1>2. Len(s) \in Nat /\ j \in 1..Len(s) /\ j \in 0..Len(s)
    BY LenProperties DEF EdgesTold
  <1>3. s[j] \in Vertices
    BY <1>2, ElementOfSeq DEF EdgesTold
  <1>4. r \in Seq(Vertices) /\ Len(r) = Len(e) + 1 /\ (\A i \in 1..Len(e) : r[i] = e[i]) /\ r[Len(e) + 1] = s[j]
    BY <1>3, AppendProperties DEF EdgesTold
  <1>5. Len(e) = n + k
    BY <1>1 DEF EdgesTold
  <1>6. Len(r) = n + j /\ r[n + j] = s[j]
    <2>1. (n + k) + 1 = n + j
      OBVIOUS
    <2> QED
      BY <1>4, <1>5, <2>1
  <1>7. ASSUME NEW i \in 1..n PROVE r[i] = y[i]
    <2>1. i \in 1..(n + k)
      OBVIOUS
    <2> QED
      BY <1>1, <1>4, <1>5, <2>1 DEF EdgesTold
  <1>8. ASSUME NEW i \in 1..j PROVE r[n + i] = s[i]
    <2>1. CASE i = j
      BY <1>6, <2>1
    <2>2. CASE i # j
      <3>1. i \in 1..k /\ n + i \in 1..(n + k)
        BY <2>2
      <3> QED
        BY <1>1, <1>4, <1>5, <3>1 DEF EdgesTold
    <2> QED
      BY <2>1, <2>2
  <1> QED
    BY <1>1, <1>2, <1>4, <1>6, <1>7, <1>8 DEF EdgesTold

LEMMA EdgesToldPrefix ==
  ASSUME NEW e, NEW y, NEW s, NEW k, EdgesTold(e, y, s, k)
  PROVE  IsPrefix(e, y \o s) /\ (k = Len(s) => e = y \o s)
  <1>1. PICK n \in Nat : n = Len(y)
    BY LenProperties DEF EdgesTold
  <1>2. PICK l \in Nat : l = Len(s)
    BY LenProperties DEF EdgesTold
  <1>3. PICK r : r = y \o s
    OBVIOUS
  <1>4. r \in Seq(Vertices) /\ Len(r) = n + l /\ \A i \in 1..(n + l) : r[i] = IF i <= n THEN y[i] ELSE s[i - n]
    BY <1>1, <1>2, <1>3, ConcatProperties DEF EdgesTold
  <1>5. e \in Seq(Vertices) /\ k \in 0..l /\ Len(e) = n + k
        /\ (\A i \in 1..n : e[i] = y[i]) /\ \A i \in 1..k : e[n + i] = s[i]
    BY <1>1, <1>2 DEF EdgesTold
  <1>6. ASSUME NEW i \in 1..(n + k) PROVE e[i] = r[i]
    <2>1. i \in 1..(n + l)
      BY <1>5
    <2>2. CASE i <= n
      <3>1. i \in 1..n
        BY <2>2
      <3> QED
        BY <1>4, <1>5, <2>1, <2>2, <3>1
    <2>3. CASE ~(i <= n)
      <3>1. PICK h \in 1..k : h = i - n /\ n + h = i
        <4>1. i - n \in 1..k /\ n + (i - n) = i
          BY <1>5, <2>3
        <4> QED
          BY <4>1
      <3>2. r[i] = s[h]
        BY <1>4, <2>1, <2>3, <3>1
      <3>3. e[i] = s[h]
        BY <1>5, <3>1
      <3> QED
        BY <3>2, <3>3
    <2> QED
      BY <2>2, <2>3
  <1>7. Len(e) <= Len(r) /\ (k = l => Len(e) = Len(r)) /\ \A i \in 1..Len(e) : e[i] = r[i]
    BY <1>4, <1>5, <1>6
  <1>8. IsPrefix(e, r) /\ (Len(e) = Len(r) => e = r)
    BY <1>4, <1>5, <1>7, BeginningIs
  <1> QED
    BY <1>2, <1>3, <1>7, <1>8

-----------------------------------------------------------------------------
(* Layers of a search from several sources *)

\* N before what has been discovered, as a vertex from which edges lead to the sources p.
FromRoot(d) == <<N>> \o d

RootedAt(g, p) == [u \in 0..N |-> IF u = N THEN {v \in Vertices : Listed(p, v)} ELSE Successors(g)[u]]

LEMMA RootApart == N \in Nat /\ N \notin Vertices /\ 0..N = Vertices \cup {N}
  BY SearchesAssumption DEF Vertices

LEMMA FromRootIs ==
  ASSUME NEW d \in Seq(Vertices), NEW D, D = FromRoot(d), NEW n, n = Len(d)
  PROVE  /\ n \in Nat /\ D \in Seq(0..N) /\ Len(D) = n + 1 /\ D[1] = N
         /\ \A i \in 1..n : D[i + 1] = d[i]
         /\ \A v : Listed(D, v) <=> v = N \/ Listed(d, v)
         /\ \A v : Listed(d, v) => v \in Vertices
  <1>1. n \in Nat /\ \A i \in 1..n : d[i] \in Vertices
    BY LenProperties, ElementOfSeq
  <1>2. PICK a : a = <<N>>
    OBVIOUS
  <1>3. a \in Seq(0..N) /\ Len(a) = 1 /\ a[1] = N
    BY <1>2, RootApart
  <1>4. d \in Seq(0..N)
    BY RootApart, SeqMonotonic
  <1>5. D \in Seq(0..N) /\ Len(D) = 1 + n /\ \A i \in 1..(1 + n) : D[i] = IF i <= 1 THEN a[i] ELSE d[i - 1]
    BY <1>2, <1>3, <1>4, ConcatProperties DEF FromRoot
  <1>6. Len(D) = n + 1 /\ D[1] = N
    BY <1>1, <1>3, <1>5
  <1>7. ASSUME NEW i \in 1..n PROVE D[i + 1] = d[i] /\ i + 1 \in 1..(n + 1)
    <2>1. i + 1 \in 1..(1 + n) /\ ~(i + 1 <= 1) /\ (i + 1) - 1 = i
      BY <1>1
    <2> QED
      BY <1>5, <2>1
  <1>8. ASSUME NEW j \in 1..(n + 1) PROVE j = 1 \/ \E i \in 1..n : j = i + 1
    <2>1. j = 1 \/ (j - 1 \in 1..n /\ j = (j - 1) + 1)
      BY <1>1
    <2> QED
      BY <2>1
  <1>9. ASSUME NEW v PROVE Listed(D, v) <=> v = N \/ Listed(d, v)
    <2>1. Listed(D, v) => v = N \/ Listed(d, v)
      BY <1>6, <1>7, <1>8 DEF Listed
    <2>2. 1 \in 1..(n + 1)
      BY <1>1
    <2>3. v = N \/ Listed(d, v) => Listed(D, v)
      BY <1>6, <1>7, <2>2 DEF Listed
    <2> QED
      BY <2>1, <2>3
  <1>10. \A v : Listed(d, v) => v \in Vertices
    BY <1>1 DEF Listed
  <1> QED
    BY <1>1, <1>5, <1>6, <1>7, <1>9, <1>10

-----------------------------------------------------------------------------
(* The inductive invariant of breadth_first_search *)

BfsEvents == {"initialize_vertex", "discover_vertex", "examine_vertex", "examine_edge", "finish_vertex"}

BfsCalls  == [on : BfsEvents, vertex : Vertices]

\* What the calls r tell: the vertices initialized, discovered, examined and finished and
\* the targets of the edges examined.
BfsTold(r, p, d, x, f, e) ==
  /\ r \in Seq(BfsCalls)
  /\ p \in Seq(Vertices) /\ d \in Seq(Vertices) /\ x \in Seq(Vertices) /\ f \in Seq(Vertices) /\ e \in Seq(Vertices)
  /\ p = VerticesIn(r, "initialize_vertex")
  /\ d = VerticesIn(r, "discover_vertex")
  /\ x = VerticesIn(r, "examine_vertex")
  /\ f = VerticesIn(r, "finish_vertex")
  /\ e = VerticesIn(r, "examine_edge")

\* The sources to come are new, and nothing has been examined before the last.
SourcesAhead(s, d, x, a) ==
  /\ s \in Seq(Vertices) /\ Distinct(s)
  /\ \A i \in 1..Len(s) : ~Listed(d, s[i])
  /\ s # <<>> => x = <<>> /\ a = N

\* What was discovered is what was examined and, after it, the queue.
QueueBehind(q, d, x) ==
  /\ q \in Seq(Vertices)
  /\ Len(d) = Len(x) + Len(q)
  /\ \A i \in 1..Len(x) : x[i] = d[i]
  /\ \A i \in 1..Len(q) : q[i] = d[Len(x) + i]

\* The vertices examined are finished, with their edges, but for a, the first n - 1 of whose
\* edges have been examined.
Examined(g, a, n, x, f, e) ==
  IF a = N THEN f = x /\ e = EdgesOf(g, f)
  ELSE /\ a \in Vertices /\ x = Append(f, a) /\ n \in Nat \ {0}
       /\ EdgesTold(e, EdgesOf(g, f), g[a], n - 1)

\* The vertices finished and those edges lead to what was discovered.
SearchedTo(g, a, n, p, d, k) ==
  IF a = N THEN ClosedTo(RootedAt(g, p), FromRoot(d), k + 2)
  ELSE /\ ClosedTo(RootedAt(g, p), FromRoot(d), k + 1)
       /\ \A j \in 1..Len(g[a]) : j < n => Listed(d, g[a][j])

BfsAt(g, s, q, m, a, n, p, d, x, f, e) ==
  /\ SourcesAhead(s, d, x, a)
  /\ QueueBehind(q, d, x)
  /\ \A v : v \in m <=> Listed(d, v)
  /\ Examined(g, a, n, x, f, e)
  /\ SearchedTo(g, a, n, p, d, Len(x))
  /\ InLayers(RootedAt(g, p), FromRoot(d), Len(x))

BfsInv ==
  /\ graph \in Adjacency
  /\ \E p, d, x, f, e : /\ BfsTold(calls, p, d, x, f, e)
                        /\ BfsAt(graph, sources, queue, visited, at, next, p, d, x, f, e)

LEMMA BfsCallIs ==
  ASSUME NEW k \in BfsEvents, NEW v \in Vertices
  PROVE  Bfs!Call(k, v) \in BfsCalls /\ Bfs!Call(k, v).on = k /\ Bfs!Call(k, v).vertex = v
  BY DEF Bfs!Call, BfsCalls

\* s, and v if the call is of the event.
With(s, k, event, v) == IF k = event THEN Append(s, v) ELSE s

\* One call more.
LEMMA BfsTells ==
  ASSUME NEW r, NEW p, NEW d, NEW x, NEW f, NEW e, BfsTold(r, p, d, x, f, e), NEW v \in Vertices
  PROVE  /\ BfsTold(Append(r, Bfs!Call("initialize_vertex", v)), Append(p, v), d, x, f, e)
         /\ BfsTold(Append(r, Bfs!Call("discover_vertex", v)), p, Append(d, v), x, f, e)
         /\ BfsTold(Append(r, Bfs!Call("examine_vertex", v)), p, d, Append(x, v), f, e)
         /\ BfsTold(Append(r, Bfs!Call("finish_vertex", v)), p, d, x, Append(f, v), e)
         /\ BfsTold(Append(r, Bfs!Call("examine_edge", v)), p, d, x, f, Append(e, v))
  <1>1. r \in Seq(BfsCalls)
    BY DEF BfsTold
  <1>2. ASSUME NEW k \in BfsEvents
        PROVE  BfsTold(Append(r, Bfs!Call(k, v)), With(p, k, "initialize_vertex", v),
                       With(d, k, "discover_vertex", v), With(x, k, "examine_vertex", v),
                       With(f, k, "finish_vertex", v), With(e, k, "examine_edge", v))
    <2>1. PICK c \in BfsCalls : c = Bfs!Call(k, v) /\ c.on = k /\ c.vertex = v
      BY BfsCallIs
    <2>2. PICK z \in Seq(BfsCalls) : z = Append(r, c)
      BY <1>1, <2>1, AppendProperties
    <2>3. \A b \in BfsCalls : b.vertex \in Vertices
      BY DEF BfsCalls
    <2>4. \A event : VerticesAfter(z, r, c, event)
      BY <1>1, <2>2, <2>3, VerticesAppended
    <2>5. \A event : VerticesIn(z, event) = With(VerticesIn(r, event), k, event, v)
      BY <2>1, <2>4 DEF VerticesAfter, With
    <2>6. \A s \in Seq(Vertices) : \A event : With(s, k, event, v) \in Seq(Vertices)
      BY AppendProperties DEF With
    <2>7. BfsTold(z, With(p, k, "initialize_vertex", v), With(d, k, "discover_vertex", v),
                  With(x, k, "examine_vertex", v), With(f, k, "finish_vertex", v), With(e, k, "examine_edge", v))
      BY <2>5, <2>6 DEF BfsTold
    <2> QED
      BY <2>1, <2>2, <2>7
  <1>3. \A s, event : With(s, event, event, v) = Append(s, v)
    BY DEF With
  <1>4. \A s, k, event : k # event => With(s, k, event, v) = s
    BY DEF With
  <1>5. BfsTold(Append(r, Bfs!Call("initialize_vertex", v)), Append(p, v), d, x, f, e)
    <2>1. "initialize_vertex" \in BfsEvents
      BY DEF BfsEvents
    <2>2. BfsTold(Append(r, Bfs!Call("initialize_vertex", v)), With(p, "initialize_vertex", "initialize_vertex", v),
                  With(d, "initialize_vertex", "discover_vertex", v), With(x, "initialize_vertex", "examine_vertex", v),
                  With(f, "initialize_vertex", "finish_vertex", v), With(e, "initialize_vertex", "examine_edge", v))
      BY <1>2, <2>1
    <2>3. /\ With(p, "initialize_vertex", "initialize_vertex", v) = Append(p, v)
          /\ With(d, "initialize_vertex", "discover_vertex", v) = d /\ With(x, "initialize_vertex", "examine_vertex", v) = x
          /\ With(f, "initialize_vertex", "finish_vertex", v) = f /\ With(e, "initialize_vertex", "examine_edge", v) = e
      BY <1>3, <1>4
    <2> QED
      BY <2>2, <2>3
  <1>6. BfsTold(Append(r, Bfs!Call("discover_vertex", v)), p, Append(d, v), x, f, e)
    <2>1. "discover_vertex" \in BfsEvents
      BY DEF BfsEvents
    <2>2. BfsTold(Append(r, Bfs!Call("discover_vertex", v)), With(p, "discover_vertex", "initialize_vertex", v),
                  With(d, "discover_vertex", "discover_vertex", v), With(x, "discover_vertex", "examine_vertex", v),
                  With(f, "discover_vertex", "finish_vertex", v), With(e, "discover_vertex", "examine_edge", v))
      BY <1>2, <2>1
    <2>3. /\ With(d, "discover_vertex", "discover_vertex", v) = Append(d, v)
          /\ With(p, "discover_vertex", "initialize_vertex", v) = p /\ With(x, "discover_vertex", "examine_vertex", v) = x
          /\ With(f, "discover_vertex", "finish_vertex", v) = f /\ With(e, "discover_vertex", "examine_edge", v) = e
      BY <1>3, <1>4
    <2> QED
      BY <2>2, <2>3
  <1>7. BfsTold(Append(r, Bfs!Call("examine_vertex", v)), p, d, Append(x, v), f, e)
    <2>1. "examine_vertex" \in BfsEvents
      BY DEF BfsEvents
    <2>2. BfsTold(Append(r, Bfs!Call("examine_vertex", v)), With(p, "examine_vertex", "initialize_vertex", v),
                  With(d, "examine_vertex", "discover_vertex", v), With(x, "examine_vertex", "examine_vertex", v),
                  With(f, "examine_vertex", "finish_vertex", v), With(e, "examine_vertex", "examine_edge", v))
      BY <1>2, <2>1
    <2>3. /\ With(x, "examine_vertex", "examine_vertex", v) = Append(x, v)
          /\ With(p, "examine_vertex", "initialize_vertex", v) = p /\ With(d, "examine_vertex", "discover_vertex", v) = d
          /\ With(f, "examine_vertex", "finish_vertex", v) = f /\ With(e, "examine_vertex", "examine_edge", v) = e
      BY <1>3, <1>4
    <2> QED
      BY <2>2, <2>3
  <1>8. BfsTold(Append(r, Bfs!Call("finish_vertex", v)), p, d, x, Append(f, v), e)
    <2>1. "finish_vertex" \in BfsEvents
      BY DEF BfsEvents
    <2>2. BfsTold(Append(r, Bfs!Call("finish_vertex", v)), With(p, "finish_vertex", "initialize_vertex", v),
                  With(d, "finish_vertex", "discover_vertex", v), With(x, "finish_vertex", "examine_vertex", v),
                  With(f, "finish_vertex", "finish_vertex", v), With(e, "finish_vertex", "examine_edge", v))
      BY <1>2, <2>1
    <2>3. /\ With(f, "finish_vertex", "finish_vertex", v) = Append(f, v)
          /\ With(p, "finish_vertex", "initialize_vertex", v) = p /\ With(d, "finish_vertex", "discover_vertex", v) = d
          /\ With(x, "finish_vertex", "examine_vertex", v) = x /\ With(e, "finish_vertex", "examine_edge", v) = e
      BY <1>3, <1>4
    <2> QED
      BY <2>2, <2>3
  <1>9. BfsTold(Append(r, Bfs!Call("examine_edge", v)), p, d, x, f, Append(e, v))
    <2>1. "examine_edge" \in BfsEvents
      BY DEF BfsEvents
    <2>2. BfsTold(Append(r, Bfs!Call("examine_edge", v)), With(p, "examine_edge", "initialize_vertex", v),
                  With(d, "examine_edge", "discover_vertex", v), With(x, "examine_edge", "examine_vertex", v),
                  With(f, "examine_edge", "finish_vertex", v), With(e, "examine_edge", "examine_edge", v))
      BY <1>2, <2>1
    <2>3. /\ With(e, "examine_edge", "examine_edge", v) = Append(e, v)
          /\ With(p, "examine_edge", "initialize_vertex", v) = p /\ With(d, "examine_edge", "discover_vertex", v) = d
          /\ With(x, "examine_edge", "examine_vertex", v) = x /\ With(f, "examine_edge", "finish_vertex", v) = f
      BY <1>3, <1>4
    <2> QED
      BY <2>2, <2>3
  <1> QED
    BY <1>5, <1>6, <1>7, <1>8, <1>9

LEMMA BfsBegins ==
  ASSUME Init, search = "breadth_first_search"
  PROVE  BfsInv
  <1>1. graph \in Adjacency
    BY GraphIsGiven
  <1>2. /\ calls = <<>> /\ queue = <<>> /\ visited = {} /\ at = N /\ next = 1 /\ sources = given
        /\ given \in SourceLists
    BY DEF Init, Bfs!Init, Bfs!None
  <1>3. PICK z : z = <<>>
    OBVIOUS
  <1>4. z \in Seq(Vertices) /\ z \in Seq(BfsCalls) /\ Len(z) = 0
    BY <1>3, EmptySeq
  <1>5. BfsTold(calls, z, z, z, z, z)
    <2>1. \A event : OfKind(<<>>, event) = <<>>
      BY OfKindNone
    <2>2. DOMAIN <<>> = {}
      BY <1>3, <1>4, LenProperties
    <2>3. \A event : VerticesIn(z, event) = z
      <3> SUFFICES ASSUME NEW event PROVE VerticesIn(z, event) = z
        OBVIOUS
      <3>1. VerticesIn(z, event) = [i \in {} |-> <<>>[i].vertex]
        BY <1>3, <2>1, <2>2 DEF VerticesIn
      <3>2. z = [i \in {} |-> z[i]]
        BY <1>3, <2>2
      <3> QED
        BY <3>1, <3>2
    <2> QED
      BY <1>2, <1>3, <1>4, <2>3 DEF BfsTold
  <1>6. SourcesAhead(sources, z, z, at)
    <2>1. given \in Seq(Vertices) /\ Distinct(given)
      <3>1. PICK n \in Nat : n \in 0..MaxSources /\ given \in [1..n -> Vertices]
        BY <1>2, SearchesAssumption DEF SourceLists
      <3>2. given \in Seq(Vertices) /\ DOMAIN given = 1..Len(given)
        BY <3>1, LenProperties
      <3> QED
        BY <1>2, <3>2 DEF SourceLists, Distinct
    <2> QED
      BY <1>2, <1>3, <1>4, <2>1 DEF SourcesAhead, Listed
  <1>7. QueueBehind(queue, z, z)
    BY <1>2, <1>3, <1>4 DEF QueueBehind
  <1>8. \A v : v \in visited <=> Listed(z, v)
    BY <1>2, <1>4 DEF Listed
  <1>9. Examined(graph, at, next, z, z, z)
    BY <1>2, <1>3, EdgesOfNone DEF Examined
  <1>10. PICK D : D = FromRoot(z)
    OBVIOUS
  <1>11. Len(D) = 1 /\ D[1] = N
    <2>1. PICK n : n = Len(z)
      OBVIOUS
    <2>2. Len(D) = n + 1 /\ D[1] = N
      BY <1>4, <1>10, <2>1, FromRootIs
    <2> QED
      BY <1>4, <2>1, <2>2
  <1>12. PICK succ : succ = RootedAt(graph, z)
    OBVIOUS
  <1>13. succ[N] = {}
    <2>1. N \in 0..N /\ \A v : ~Listed(z, v)
      BY <1>4, RootApart DEF Listed
    <2> QED
      BY <1>12, <2>1 DEF RootedAt
  <1>14. SearchedTo(graph, at, next, z, z, Len(z))
    <2>1. ClosedTo(succ, D, Len(z) + 2)
      BY <1>11, <1>13 DEF ClosedTo
    <2> QED
      BY <1>2, <1>10, <1>12, <2>1 DEF SearchedTo
  <1>15. InLayers(RootedAt(graph, z), FromRoot(z), Len(z))
    BY <1>4, <1>10, <1>11, <1>12, InLayersBegins
  <1> QED
    BY <1>1, <1>5, <1>6, <1>7, <1>8, <1>9, <1>14, <1>15 DEF BfsInv, BfsAt

-----------------------------------------------------------------------------
(* The steps of breadth_first_search *)

\* Appending to a sequence of vertices.
LEMMA LengthensIs ==
  ASSUME NEW s \in Seq(Vertices), NEW v \in Vertices, NEW n, n = Len(s), NEW r, r = Append(s, v)
  PROVE  r \in Seq(Vertices) /\ n \in Nat /\ Lengthens(r, s, n, v)
  BY AppendProperties, LenProperties DEF Lengthens

LEMMA RootInFront ==
  \A d \in Seq(Vertices) : /\ Len(FromRoot(d)) = Len(d) + 1 /\ FromRoot(d)[1] = N
                            /\ \A i \in 1..Len(d) : FromRoot(d)[i + 1] = d[i]
  BY FromRootIs

\* The same with the root in front.
LEMMA RootMore ==
  ASSUME NEW d \in Seq(Vertices), NEW v \in Vertices, NEW r, r = Append(d, v), NEW n, n = Len(d)
  PROVE  /\ n + 1 \in Nat /\ n + 1 = Len(FromRoot(d))
         /\ Lengthens(FromRoot(r), FromRoot(d), n + 1, v)
  <1>1. r \in Seq(Vertices) /\ n \in Nat /\ Lengthens(r, d, n, v)
    BY LengthensIs
  <1>2. PICK D : D = FromRoot(d)
    OBVIOUS
  <1>3. PICK E : E = FromRoot(r)
    OBVIOUS
  <1>4. Len(D) = n + 1 /\ D[1] = N /\ \A i \in 1..n : D[i + 1] = d[i]
    BY <1>2, FromRootIs
  <1>5. PICK m \in Nat : m = n + 1 /\ m = Len(r)
    BY <1>1 DEF Lengthens
  <1>6. Len(E) = m + 1 /\ E[1] = N /\ \A i \in 1..m : E[i + 1] = r[i]
    <2>1. PICK u \in Seq(Vertices) : u = r /\ m = Len(u) /\ E = FromRoot(u)
      BY <1>1, <1>3, <1>5
    <2>2. Len(E) = m + 1 /\ E[1] = N /\ \A i \in 1..m : E[i + 1] = u[i]
      BY <2>1, RootInFront
    <2> QED
      BY <2>1, <2>2
  <1>7. ASSUME NEW i \in 1..m PROVE E[i] = D[i]
    <2>1. CASE i = 1
      BY <1>4, <1>6, <2>1
    <2>2. CASE i # 1
      <3>1. PICK j \in 1..n : i = j + 1
        <4>1. i - 1 \in 1..n /\ i = (i - 1) + 1
          BY <1>1, <1>5, <2>2
        <4> QED
          BY <4>1
      <3>2. j \in 1..m
        BY <1>1, <1>5
      <3>3. E[i] = r[j] /\ D[i] = d[j]
        BY <1>4, <1>6, <3>1, <3>2
      <3>4. r[j] = d[j]
        BY <1>1 DEF Lengthens
      <3> QED
        BY <3>3, <3>4
    <2> QED
      BY <2>1, <2>2
  <1>8. m \in 1..m
    BY <1>1, <1>5
  <1>9. E[m + 1] = v
    BY <1>1, <1>5, <1>6, <1>8 DEF Lengthens
  <1>10. Lengthens(E, D, m, v)
    BY <1>6, <1>7, <1>9 DEF Lengthens
  <1> QED
    BY <1>2, <1>3, <1>4, <1>5, <1>10

LEMMA RootedAtIs ==
  ASSUME NEW g, NEW p
  PROVE  /\ RootedAt(g, p)[N] = {v \in Vertices : Listed(p, v)}
         /\ \A u \in Vertices : RootedAt(g, p)[u] = Successors(g)[u]
  BY RootApart DEF RootedAt

\* One more at the end of the queue.
LEMMA QueueMore ==
  ASSUME NEW q, NEW d \in Seq(Vertices), NEW x \in Seq(Vertices), QueueBehind(q, d, x), NEW v \in Vertices
  PROVE  QueueBehind(Append(q, v), Append(d, v), x)
  <1>1. PICK l \in Nat : l = Len(q)
    BY LenProperties DEF QueueBehind
  <1>2. PICK k \in Nat : k = Len(x)
    BY LenProperties
  <1>3. PICK n \in Nat : n = Len(d) /\ n = k + l
    BY <1>1, <1>2 DEF QueueBehind
  <1>4. PICK r : r = Append(q, v)
    OBVIOUS
  <1>5. PICK e : e = Append(d, v)
    OBVIOUS
  <1>6. r \in Seq(Vertices) /\ Lengthens(r, q, l, v)
    BY <1>1, <1>4, LengthensIs DEF QueueBehind
  <1>7. Lengthens(e, d, n, v)
    BY <1>3, <1>5, LengthensIs
  <1>8. Len(e) = k + Len(r)
    <2>1. n + 1 = k + (l + 1)
      BY <1>3
    <2> QED
      BY <1>6, <1>7, <2>1 DEF Lengthens
  <1>9. \A i \in 1..k : x[i] = e[i]
    <2>1. \A i \in 1..k : i \in 1..n
      BY <1>3
    <2> QED
      BY <1>2, <1>7, <2>1 DEF Lengthens, QueueBehind
  <1>10. ASSUME NEW i \in 1..(l + 1) PROVE r[i] = e[k + i]
    <2>1. CASE i = l + 1
      <3>1. k + i = n + 1
        BY <1>3, <2>1
      <3> QED
        BY <1>6, <1>7, <2>1, <3>1 DEF Lengthens
    <2>2. CASE i # l + 1
      <3>1. i \in 1..l /\ k + i \in 1..n
        BY <1>3, <2>2
      <3>2. q[i] = d[k + i]
        BY <1>1, <1>2, <3>1 DEF QueueBehind
      <3> QED
        BY <1>6, <1>7, <3>1, <3>2 DEF Lengthens
    <2> QED
      BY <2>1, <2>2
  <1>11. Len(r) = l + 1
    BY <1>6 DEF Lengthens
  <1> QED
    BY <1>2, <1>4, <1>5, <1>6, <1>8, <1>9, <1>10, <1>11 DEF QueueBehind

\* The next source.
LEMMA SeedKeeps ==
  ASSUME NEW g, NEW s, NEW q, NEW m, NEW a, NEW n, NEW x, NEW f, NEW e,
         NEW p \in Seq(Vertices), NEW d \in Seq(Vertices),
         BfsAt(g, s, q, m, a, n, p, d, x, f, e), s # <<>>
  PROVE  /\ Head(s) \in Vertices
         /\ BfsAt(g, Tail(s), Append(q, Head(s)), m \cup {Head(s)}, a, n,
                  Append(p, Head(s)), Append(d, Head(s)), x, f, e)
  <1>1. /\ SourcesAhead(s, d, x, a) /\ QueueBehind(q, d, x) /\ (\A v : v \in m <=> Listed(d, v))
        /\ Examined(g, a, n, x, f, e) /\ SearchedTo(g, a, n, p, d, Len(x))
        /\ InLayers(RootedAt(g, p), FromRoot(d), Len(x))
    BY DEF BfsAt
  <1>2. x = <<>> /\ a = N /\ s \in Seq(Vertices) /\ Len(x) = 0
    BY <1>1, EmptySeq DEF SourcesAhead
  <1>3. PICK l \in Nat : l = Len(s) /\ l # 0
    BY <1>2, LenProperties, EmptySeq
  <1>4. PICK t : t = Tail(s)
    OBVIOUS
  <1>5. t \in Seq(Vertices) /\ Len(t) = l - 1 /\ \A i \in 1..(l - 1) : t[i] = s[i + 1]
    BY <1>2, <1>3, <1>4, HeadTailProperties
  <1>6. PICK v \in Vertices : v = Head(s) /\ v = s[1]
    BY <1>2, HeadTailProperties
  <1>7. PICK k \in Nat : k = Len(d)
    BY LenProperties
  <1>8. PICK y : y = Append(d, v)
    OBVIOUS
  <1>9. y \in Seq(Vertices) /\ Lengthens(y, d, k, v)
    BY <1>7, <1>8, LengthensIs
  <1>10. \A z : Listed(y, z) <=> Listed(d, z) \/ z = v
    BY <1>7, <1>9, ListedMore
  <1>11. SourcesAhead(t, y, x, a)
    <2>1. Distinct(t)
      <3> SUFFICES ASSUME NEW i \in 1..(l - 1), NEW j \in 1..(l - 1), t[i] = t[j] PROVE i = j
        BY <1>5 DEF Distinct
      <3>1. i + 1 \in 1..l /\ j + 1 \in 1..l /\ s[i + 1] = s[j + 1]
        BY <1>3, <1>5
      <3>2. i + 1 = j + 1
        BY <1>1, <1>3, <3>1 DEF SourcesAhead, Distinct
      <3> QED
        BY <3>2
    <2>2. ASSUME NEW i \in 1..(l - 1) PROVE ~Listed(y, t[i])
      <3>1. i + 1 \in 1..l /\ 1 \in 1..l /\ i + 1 # 1
        BY <1>3
      <3>2. ~Listed(d, s[i + 1]) /\ s[i + 1] # s[1]
        BY <1>1, <1>3, <3>1 DEF SourcesAhead, Distinct
      <3> QED
        BY <1>5, <1>6, <1>10, <3>2
    <2> QED
      BY <1>2, <1>5, <2>1, <2>2 DEF SourcesAhead
  <1>12. QueueBehind(Append(q, v), y, x)
    <2>1. x \in Seq(Vertices)
      BY <1>2, EmptySeq
    <2> QED
      BY <1>1, <1>8, <2>1, QueueMore
  <1>13. \A z : z \in m \cup {v} <=> Listed(y, z)
    BY <1>1, <1>10
  <1>14. PICK succ : succ = RootedAt(g, p)
    OBVIOUS
  <1>15. PICK w : w = Append(p, v)
    OBVIOUS
  <1>16. PICK more : more = RootedAt(g, w)
    OBVIOUS
  <1>17. \A z : Listed(w, z) <=> Listed(p, z) \/ z = v
    <2>1. PICK h \in Nat : h = Len(p)
      BY LenProperties
    <2>2. Lengthens(w, p, h, v)
      BY <1>15, <2>1, LengthensIs
    <2> QED
      BY <2>1, <2>2, ListedMore
  <1>18. more[N] = succ[N] \cup {v}
    BY <1>14, <1>16, <1>17, RootedAtIs
  <1>19. PICK D : D = FromRoot(d)
    OBVIOUS
  <1>20. PICK E : E = FromRoot(y)
    OBVIOUS
  <1>21. PICK h \in Nat : h = k + 1
    OBVIOUS
  <1>22. Len(D) = h /\ D[1] = N /\ Lengthens(E, D, h, v) /\ \A z : Listed(D, z) <=> z = N \/ Listed(d, z)
    BY <1>7, <1>8, <1>19, <1>20, <1>21, FromRootIs, RootMore
  <1>23. ~Listed(D, v)
    <2>1. 1 \in 1..Len(s)
      BY <1>3
    <2>2. ~Listed(d, v)
      BY <1>1, <1>6, <2>1 DEF SourcesAhead
    <2> QED
      BY <1>22, <2>2, RootApart
  <1>24. InLayers(more, E, 0)
    <2>1. InLayers(more, D, 0)
      BY <1>1, <1>2, <1>14, <1>18, <1>19, <1>22, InLayersSeeded
    <2>2. ClosedTo(more, D, 1)
      BY DEF ClosedTo
    <2>3. PICK one \in 1..h : one = 0 + 1
      BY <1>21
    <2>4. v \in more[D[one]] /\ ClosedTo(more, D, one)
      BY <1>18, <1>22, <2>2, <2>3
    <2> QED
      BY <1>22, <1>23, <2>1, <2>3, <2>4, InLayersGrows
  <1>25. ClosedTo(more, E, 2)
    <2>1. E[1] = N /\ \A z : Listed(E, z) <=> Listed(D, z) \/ z = v
      <3>1. 1 \in 1..h
        BY <1>21
      <3> QED
        BY <1>22, <3>1, ListedMore DEF Lengthens
    <2>2. ClosedTo(succ, D, 2)
      BY <1>1, <1>2, <1>14, <1>19 DEF SearchedTo
    <2>3. \A z \in succ[N] : Listed(D, z)
      <3>1. 1 \in 1..Len(D) /\ 1 < 2
        BY <1>21, <1>22
      <3> QED
        BY <1>22, <2>2, <3>1 DEF ClosedTo
    <2>4. \A z \in more[N] : Listed(E, z)
      BY <1>18, <2>1, <2>3
    <2>5. \A i \in 1..Len(E) : i < 2 => i = 1
      OBVIOUS
    <2> QED
      BY <2>1, <2>4, <2>5 DEF ClosedTo
  <1>26. SearchedTo(g, a, n, w, y, 0)
    BY <1>2, <1>16, <1>20, <1>25 DEF SearchedTo
  <1> QED
    BY <1>1, <1>2, <1>4, <1>6, <1>8, <1>11, <1>12, <1>13, <1>15, <1>16, <1>20, <1>24, <1>26 DEF BfsAt

\* The next vertex is taken from the queue.
LEMMA ExamineKeeps ==
  ASSUME NEW g \in Adjacency, NEW s, NEW q, NEW m, NEW a, NEW n, NEW p, NEW f, NEW e \in Seq(Vertices),
         NEW x \in Seq(Vertices), NEW d \in Seq(Vertices),
         BfsAt(g, s, q, m, a, n, p, d, x, f, e), s = <<>>, a = N, q # <<>>
  PROVE  /\ Head(q) \in Vertices
         /\ BfsAt(g, s, Tail(q), m, Head(q), 1, p, d, Append(x, Head(q)), f, e)
  <1>1. /\ SourcesAhead(s, d, x, a) /\ QueueBehind(q, d, x) /\ (\A v : v \in m <=> Listed(d, v))
        /\ Examined(g, a, n, x, f, e) /\ SearchedTo(g, a, n, p, d, Len(x))
        /\ InLayers(RootedAt(g, p), FromRoot(d), Len(x))
    BY DEF BfsAt
  <1>2. PICK l \in Nat : l = Len(q) /\ l # 0
    BY <1>1, LenProperties, EmptySeq DEF QueueBehind
  <1>3. PICK t : t = Tail(q)
    OBVIOUS
  <1>4. t \in Seq(Vertices) /\ Len(t) = l - 1 /\ \A i \in 1..(l - 1) : t[i] = q[i + 1]
    BY <1>1, <1>2, <1>3, HeadTailProperties DEF QueueBehind
  <1>5. PICK v \in Vertices : v = Head(q) /\ v = q[1]
    BY <1>1, HeadTailProperties DEF QueueBehind
  <1>6. PICK k \in Nat : k = Len(x)
    BY LenProperties
  <1>7. PICK y : y = Append(x, v)
    OBVIOUS
  <1>8. y \in Seq(Vertices) /\ Lengthens(y, x, k, v)
    BY <1>6, <1>7, LengthensIs
  <1>9. Len(y) = k + 1 /\ (\A i \in 1..k : y[i] = x[i]) /\ y[k + 1] = v
    BY <1>8 DEF Lengthens
  <1>10. QueueBehind(t, d, y)
    <2>1. Len(d) = k + l /\ (\A i \in 1..k : x[i] = d[i]) /\ \A i \in 1..l : q[i] = d[k + i]
      BY <1>1, <1>2, <1>6 DEF QueueBehind
    <2>2. Len(d) = Len(y) + Len(t)
      <3>1. k + l = (k + 1) + (l - 1)
        BY <1>2
      <3> QED
        BY <1>4, <1>9, <2>1, <3>1
    <2>3. ASSUME NEW i \in 1..(k + 1) PROVE y[i] = d[i]
      <3>1. CASE i = k + 1
        <4>1. 1 \in 1..l
          BY <1>2
        <4> QED
          BY <1>5, <1>9, <2>1, <3>1, <4>1
      <3>2. CASE i # k + 1
        <4>1. i \in 1..k
          BY <3>2
        <4> QED
          BY <1>9, <2>1, <4>1
      <3> QED
        BY <3>1, <3>2
    <2>4. ASSUME NEW i \in 1..(l - 1) PROVE t[i] = d[(k + 1) + i]
      <3>1. i + 1 \in 1..l /\ k + (i + 1) = (k + 1) + i
        BY <1>2
      <3>2. q[i + 1] = d[k + (i + 1)]
        BY <2>1, <3>1
      <3> QED
        BY <1>4, <3>1, <3>2
    <2> QED
      BY <1>4, <1>9, <2>2, <2>3, <2>4 DEF QueueBehind
  <1>11. SourcesAhead(s, d, y, v)
    BY <1>1 DEF SourcesAhead
  <1>12. v # N /\ f = x /\ e = EdgesOf(g, f)
    BY <1>1, RootApart DEF Examined
  <1>13. Examined(g, v, 1, y, f, e)
    <2>1. g[v] \in Seq(Vertices)
      BY DEF Adjacency, Adjacencies
    <2>2. EdgesTold(e, e, g[v], 0)
      BY <2>1, EdgesToldNone
    <2>3. 1 - 1 = 0 /\ 1 \in Nat \ {0}
      OBVIOUS
    <2> QED
      BY <1>7, <1>12, <2>2, <2>3 DEF Examined
  <1>14. SearchedTo(g, v, 1, p, d, k + 1)
    <2>1. ClosedTo(RootedAt(g, p), FromRoot(d), k + 2)
      BY <1>1, <1>6 DEF SearchedTo
    <2>2. k + 2 = (k + 1) + 1 /\ \A j \in 1..Len(g[v]) : ~(j < 1)
      OBVIOUS
    <2> QED
      BY <1>12, <2>1, <2>2 DEF SearchedTo
  <1>15. InLayers(RootedAt(g, p), FromRoot(d), k + 1)
    <2>1. ASSUME NEW w \in Nat, w <= k + 1 PROVE w <= (k + 1) + 1
      BY <2>1
    <2> QED
      BY <1>1, <1>6, <2>1 DEF InLayers
  <1> QED
    BY <1>1, <1>3, <1>5, <1>7, <1>9, <1>10, <1>11, <1>13, <1>14, <1>15 DEF BfsAt

\* What is known of the vertex examined.
LEMMA AtIs ==
  ASSUME NEW g \in Adjacency, NEW q, NEW a, NEW n, NEW f \in Seq(Vertices), NEW e,
         NEW x \in Seq(Vertices), NEW d \in Seq(Vertices), QueueBehind(q, d, x), Examined(g, a, n, x, f, e), a # N
  PROVE  /\ Len(x) \in Nat /\ a \in Vertices
         /\ Len(x) + 1 \in 1..Len(FromRoot(d)) /\ Len(FromRoot(d)) \in Nat /\ FromRoot(d)[Len(x) + 1] = a
  <1>1. PICK D : D = FromRoot(d)
    OBVIOUS
  <1>2. PICK k : k = Len(x)
    OBVIOUS
  <1>3. PICK h \in Nat : h = Len(f)
    BY LenProperties
  <1>4. a \in Vertices /\ x = Append(f, a)
    BY DEF Examined
  <1>5. Lengthens(x, f, h, a)
    BY <1>3, <1>4, LengthensIs
  <1>6. k = h + 1 /\ x[k] = a
    BY <1>2, <1>5 DEF Lengthens
  <1>7. PICK l \in Nat : l = Len(q)
    BY LenProperties DEF QueueBehind
  <1>8. PICK l0 \in Nat : l0 = Len(d)
    BY LenProperties
  <1>9. l0 = k + l /\ \A i \in 1..k : x[i] = d[i]
    BY <1>2, <1>7, <1>8 DEF QueueBehind
  <1>10. Len(D) = l0 + 1 /\ \A i \in 1..l0 : D[i + 1] = d[i]
    BY <1>1, <1>8, FromRootIs
  <1>11. k \in 1..k /\ k \in 1..l0 /\ k \in Nat /\ k + 1 \in 1..(l0 + 1) /\ l0 + 1 \in Nat
    BY <1>6, <1>9
  <1>12. D[k + 1] = a
    BY <1>6, <1>9, <1>10, <1>11
  <1> QED
    BY <1>1, <1>2, <1>4, <1>10, <1>11, <1>12

\* An edge is examined whose target is new.
LEMMA FoundKeeps ==
  ASSUME NEW g \in Adjacency, NEW s, NEW q, NEW m, NEW a, NEW n, NEW p, NEW f \in Seq(Vertices), NEW e,
         NEW x \in Seq(Vertices), NEW d \in Seq(Vertices),
         BfsAt(g, s, q, m, a, n, p, d, x, f, e), a # N, n <= Len(g[a]), NEW v, v = g[a][n], v \notin m
  PROVE  /\ v \in Vertices
         /\ BfsAt(g, s, Append(q, v), m \cup {v}, a, n + 1, p, Append(d, v), x, f, Append(e, v))
  <1>1. /\ SourcesAhead(s, d, x, a) /\ QueueBehind(q, d, x) /\ (\A u : u \in m <=> Listed(d, u))
        /\ Examined(g, a, n, x, f, e) /\ SearchedTo(g, a, n, p, d, Len(x))
        /\ InLayers(RootedAt(g, p), FromRoot(d), Len(x))
    BY DEF BfsAt
  <1>2. PICK D : D = FromRoot(d)
    OBVIOUS
  <1>3. PICK k : k = Len(x)
    OBVIOUS
  <1>4. PICK succ : succ = RootedAt(g, p)
    OBVIOUS
  <1>5. k \in Nat /\ a \in Vertices /\ k + 1 \in 1..Len(D) /\ Len(D) \in Nat /\ D[k + 1] = a /\ succ[a] = Successors(g)[a]
    <2>1. k \in Nat /\ a \in Vertices /\ k + 1 \in 1..Len(D) /\ Len(D) \in Nat /\ D[k + 1] = a
      BY <1>1, <1>2, <1>3, AtIs
    <2> QED
      BY <1>4, <2>1, RootedAtIs
  <1>6. n \in Nat \ {0} /\ x = Append(f, a) /\ EdgesTold(e, EdgesOf(g, f), g[a], n - 1)
    BY <1>1 DEF Examined
  <1>7. Len(g[a]) \in Nat /\ n \in 1..Len(g[a]) /\ v \in Vertices
    BY <1>5, <1>6, ListsOfGraph
  <1>8. v \in succ[a]
    BY <1>5, <1>7, SuccessorEdge
  <1>9. PICK h \in Nat : h = Len(d)
    BY LenProperties
  <1>10. PICK y : y = Append(d, v)
    OBVIOUS
  <1>11. Lengthens(y, d, h, v)
    BY <1>7, <1>9, <1>10, LengthensIs
  <1>12. \A z : Listed(y, z) <=> Listed(d, z) \/ z = v
    BY <1>9, <1>11, ListedMore
  <1>13. SourcesAhead(s, y, x, a)
    <2>1. s = <<>> /\ Len(s) = 0
      BY <1>1, EmptySeq DEF SourcesAhead
    <2> QED
      BY <1>1, <2>1 DEF SourcesAhead
  <1>14. QueueBehind(Append(q, v), y, x)
    BY <1>1, <1>7, <1>10, QueueMore
  <1>15. \A z : z \in m \cup {v} <=> Listed(y, z)
    BY <1>1, <1>12
  <1>16. Examined(g, a, n + 1, x, f, Append(e, v))
    <2>1. PICK c \in Nat : c = n - 1 /\ n = c + 1 /\ (n + 1) - 1 = n /\ n + 1 \in Nat \ {0}
      <3>1. n - 1 \in Nat /\ n = (n - 1) + 1 /\ (n + 1) - 1 = n /\ n + 1 \in Nat \ {0}
        BY <1>6
      <3> QED
        BY <3>1
    <2>2. PICK b : b = EdgesOf(g, f)
      OBVIOUS
    <2>3. PICK r : r = g[a]
      OBVIOUS
    <2>4. EdgesTold(e, b, r, c)
      BY <1>6, <2>1, <2>2, <2>3
    <2>5. EdgesTold(Append(e, r[n]), b, r, n)
      BY <1>7, <2>1, <2>3, <2>4, EdgesToldMore
    <2> QED
      BY <1>5, <1>6, <2>1, <2>2, <2>3, <2>5 DEF Examined
  <1>17. PICK E : E = FromRoot(y)
    OBVIOUS
  <1>18. PICK o \in Nat : o = Len(D) /\ Lengthens(E, D, o, v)
    BY <1>2, <1>7, <1>9, <1>10, <1>17, RootMore
  <1>19. \A z : Listed(D, z) <=> z = N \/ Listed(d, z)
    BY <1>2, <1>9, FromRootIs
  <1>20. ~Listed(D, v)
    BY <1>1, <1>7, <1>19, RootApart
  <1>21. PICK c \in 1..o : c = k + 1
    BY <1>5, <1>18
  <1>22. ClosedTo(succ, D, c)
    BY <1>1, <1>2, <1>3, <1>4, <1>21 DEF SearchedTo
  <1>23. InLayers(succ, E, k)
    <2>1. v \in succ[D[c]] /\ InLayers(succ, D, k)
      BY <1>1, <1>2, <1>3, <1>4, <1>5, <1>8, <1>21
    <2> QED
      BY <1>5, <1>18, <1>20, <1>21, <1>22, <2>1, InLayersGrows
  <1>24. SearchedTo(g, a, n + 1, p, y, k)
    <2>1. c \in Int /\ c <= o + 1
      BY <1>21
    <2>2. ClosedTo(succ, E, c)
      BY <1>18, <1>22, <2>1, ClosedMore
    <2>3. ASSUME NEW j \in 1..Len(g[a]), j < n + 1 PROVE Listed(y, g[a][j])
      <3>1. CASE j = n
        BY <1>12, <3>1
      <3>2. CASE j # n
        <4>1. j < n
          BY <1>6, <1>7, <2>3, <3>2
        <4> QED
          BY <1>1, <1>12, <4>1 DEF SearchedTo
      <3> QED
        BY <3>1, <3>2
    <2> QED
      BY <1>4, <1>17, <1>21, <2>2, <2>3 DEF SearchedTo
  <1> QED
    BY <1>3, <1>4, <1>7, <1>10, <1>13, <1>14, <1>15, <1>16, <1>17, <1>23, <1>24 DEF BfsAt

\* An edge is examined whose target is known.
LEMMA KnownKeeps ==
  ASSUME NEW g \in Adjacency, NEW s, NEW q, NEW m, NEW a, NEW n, NEW p, NEW f, NEW e, NEW x, NEW d,
         BfsAt(g, s, q, m, a, n, p, d, x, f, e), a # N, n <= Len(g[a]), NEW v, v = g[a][n], v \in m
  PROVE  v \in Vertices /\ BfsAt(g, s, q, m, a, n + 1, p, d, x, f, Append(e, v))
  <1>1. /\ SourcesAhead(s, d, x, a) /\ QueueBehind(q, d, x) /\ (\A u : u \in m <=> Listed(d, u))
        /\ Examined(g, a, n, x, f, e) /\ SearchedTo(g, a, n, p, d, Len(x))
        /\ InLayers(RootedAt(g, p), FromRoot(d), Len(x))
    BY DEF BfsAt
  <1>2. n \in Nat \ {0} /\ a \in Vertices /\ x = Append(f, a) /\ EdgesTold(e, EdgesOf(g, f), g[a], n - 1)
    BY <1>1 DEF Examined
  <1>3. Len(g[a]) \in Nat /\ n \in 1..Len(g[a]) /\ v \in Vertices
    BY <1>2, ListsOfGraph
  <1>4. Examined(g, a, n + 1, x, f, Append(e, v))
    <2>1. PICK c \in Nat : c = n - 1 /\ n = c + 1 /\ (n + 1) - 1 = n /\ n + 1 \in Nat \ {0}
      <3>1. n - 1 \in Nat /\ n = (n - 1) + 1 /\ (n + 1) - 1 = n /\ n + 1 \in Nat \ {0}
        BY <1>2
      <3> QED
        BY <3>1
    <2>2. PICK b : b = EdgesOf(g, f)
      OBVIOUS
    <2>3. PICK r : r = g[a]
      OBVIOUS
    <2>4. EdgesTold(e, b, r, c)
      BY <1>2, <2>1, <2>2, <2>3
    <2>5. EdgesTold(Append(e, r[n]), b, r, n)
      BY <1>3, <2>1, <2>3, <2>4, EdgesToldMore
    <2> QED
      BY <1>2, <2>1, <2>2, <2>3, <2>5 DEF Examined
  <1>5. SearchedTo(g, a, n + 1, p, d, Len(x))
    <2>1. ASSUME NEW j \in 1..Len(g[a]), j < n + 1 PROVE Listed(d, g[a][j])
      <3>1. CASE j = n
        BY <1>1, <3>1
      <3>2. CASE j # n
        <4>1. j < n
          BY <1>3, <2>1, <3>2
        <4> QED
          BY <1>1, <4>1 DEF SearchedTo
      <3> QED
        BY <3>1, <3>2
    <2> QED
      BY <1>1, <2>1 DEF SearchedTo
  <1> QED
    BY <1>1, <1>3, <1>4, <1>5 DEF BfsAt

\* The vertex is finished.
LEMMA FinishKeeps ==
  ASSUME NEW g \in Adjacency, NEW s, NEW q, NEW m, NEW a, NEW n, NEW p, NEW f \in Seq(Vertices), NEW e,
         NEW x \in Seq(Vertices), NEW d \in Seq(Vertices),
         BfsAt(g, s, q, m, a, n, p, d, x, f, e), a # N, n > Len(g[a])
  PROVE  a \in Vertices /\ BfsAt(g, s, q, m, N, 1, p, d, x, Append(f, a), e)
  <1>1. /\ SourcesAhead(s, d, x, a) /\ QueueBehind(q, d, x) /\ (\A u : u \in m <=> Listed(d, u))
        /\ Examined(g, a, n, x, f, e) /\ SearchedTo(g, a, n, p, d, Len(x))
        /\ InLayers(RootedAt(g, p), FromRoot(d), Len(x))
    BY DEF BfsAt
  <1>2. n \in Nat \ {0} /\ a \in Vertices /\ x = Append(f, a) /\ EdgesTold(e, EdgesOf(g, f), g[a], n - 1)
    BY <1>1 DEF Examined
  <1>3. PICK l \in Nat : l = Len(g[a])
    BY <1>2, ListsOfGraph
  <1>4. n - 1 = l
    <2>1. n - 1 \in 0..l
      BY <1>2, <1>3 DEF EdgesTold
    <2> QED
      BY <1>2, <1>3, <2>1
  <1>5. e = EdgesOf(g, x)
    <2>1. e = EdgesOf(g, f) \o g[a]
      BY <1>2, <1>3, <1>4, EdgesToldPrefix
    <2>2. EdgesOf(g, x) = EdgesOf(g, f) \o g[a]
      BY <1>2, EdgesOfMore
    <2> QED
      BY <2>1, <2>2
  <1>6. Examined(g, N, 1, x, Append(f, a), e)
    BY <1>2, <1>5 DEF Examined
  <1>7. SourcesAhead(s, d, x, N)
    BY <1>1 DEF SourcesAhead
  <1>8. PICK D : D = FromRoot(d)
    OBVIOUS
  <1>9. PICK k : k = Len(x)
    OBVIOUS
  <1>10. PICK succ : succ = RootedAt(g, p)
    OBVIOUS
  <1>11. k \in Nat /\ k + 1 \in 1..Len(D) /\ Len(D) \in Nat /\ D[k + 1] = a
    BY <1>1, <1>8, <1>9, AtIs
  <1>12. succ[a] = Successors(g)[a]
    BY <1>2, <1>10, RootedAtIs
  <1>13. \A z : Listed(d, z) => Listed(D, z)
    <2>1. \A h : h = Len(d) => \A z : Listed(D, z) <=> z = N \/ Listed(d, z)
      BY <1>8, FromRootIs
    <2> QED
      BY <2>1
  <1>14. ASSUME NEW z \in succ[a] PROVE Listed(D, z)
    <2>1. PICK i \in 1..Len(g[a]) : g[a][i] = z
      BY <1>2, <1>12, SuccessorEdge
    <2>2. i < n
      BY <1>2, <1>3, <1>4
    <2>3. Listed(d, z)
      BY <1>1, <2>1, <2>2 DEF SearchedTo
    <2> QED
      BY <1>13, <2>3
  <1>15. ClosedTo(succ, D, k + 2)
    <2> SUFFICES ASSUME NEW i \in 1..Len(D), i < k + 2, NEW z \in succ[D[i]] PROVE Listed(D, z)
      BY DEF ClosedTo
    <2>1. CASE i = k + 1
      BY <1>11, <1>14, <2>1
    <2>2. CASE i # k + 1
      <3>1. i < k + 1
        BY <1>11, <2>2
      <3>2. ClosedTo(succ, D, k + 1)
        BY <1>1, <1>8, <1>9, <1>10 DEF SearchedTo
      <3> QED
        BY <3>1, <3>2 DEF ClosedTo
    <2> QED
      BY <2>1, <2>2
  <1>16. SearchedTo(g, N, 1, p, d, Len(x))
    BY <1>8, <1>9, <1>10, <1>15 DEF SearchedTo
  <1> QED
    BY <1>1, <1>2, <1>6, <1>7, <1>16 DEF BfsAt

LEMMA BfsSearchStep ==
  ASSUME BfsInv, Bfs!Next
  PROVE  BfsInv'
  <1>1. graph \in Adjacency /\ graph' = graph
    BY DEF BfsInv, Bfs!Next, Bfs!Seed, Bfs!Examine, Bfs!ExamineEdge, Bfs!Finish
  <1>2. PICK p, d, x, f, e : BfsTold(calls, p, d, x, f, e)
                              /\ BfsAt(graph, sources, queue, visited, at, next, p, d, x, f, e)
    BY DEF BfsInv
  <1>3. p \in Seq(Vertices) /\ d \in Seq(Vertices) /\ x \in Seq(Vertices) /\ f \in Seq(Vertices) /\ e \in Seq(Vertices)
    BY <1>2 DEF BfsTold
  <1>4. CASE Bfs!Seed
    <2>1. /\ sources # <<>> /\ sources' = Tail(sources) /\ visited' = visited \cup {Head(sources)}
          /\ queue' = Append(queue, Head(sources)) /\ UNCHANGED <<at, next>>
          /\ calls' = calls \o <<Bfs!Call("initialize_vertex", Head(sources)), Bfs!Call("discover_vertex", Head(sources))>>
      BY <1>4 DEF Bfs!Seed
    <2>2. /\ Head(sources) \in Vertices
          /\ BfsAt(graph, sources', queue', visited', at, next, Append(p, Head(sources)), Append(d, Head(sources)), x, f, e)
      BY <1>2, <1>3, <2>1, SeedKeeps
    <2>3. PICK v \in Vertices : v = Head(sources)
      BY <2>2
    <2>4. calls' = Append(Append(calls, Bfs!Call("initialize_vertex", v)), Bfs!Call("discover_vertex", v))
      <3>1. PICK a \in BfsCalls : a = Bfs!Call("initialize_vertex", v)
        BY BfsCallIs DEF BfsEvents
      <3>2. PICK b \in BfsCalls : b = Bfs!Call("discover_vertex", v)
        BY BfsCallIs DEF BfsEvents
      <3>3. calls \in Seq(BfsCalls) /\ calls' = calls \o <<a, b>>
        BY <1>2, <2>1, <2>3, <3>1, <3>2 DEF BfsTold
      <3>4. calls \o <<a, b>> = Append(Append(calls, a), b)
        BY <3>3
      <3> QED
        BY <3>1, <3>2, <3>3, <3>4
    <2>5. BfsTold(Append(calls, Bfs!Call("initialize_vertex", v)), Append(p, v), d, x, f, e)
      BY <1>2, BfsTells
    <2>6. BfsTold(calls', Append(p, v), Append(d, v), x, f, e)
      BY <2>4, <2>5, BfsTells
    <2> QED
      BY <1>1, <2>1, <2>2, <2>3, <2>6 DEF BfsInv
  <1>5. CASE Bfs!Examine
    <2>1. /\ sources = <<>> /\ at = N /\ queue # <<>> /\ at' = Head(queue) /\ queue' = Tail(queue) /\ next' = 1
          /\ calls' = Append(calls, Bfs!Call("examine_vertex", Head(queue))) /\ UNCHANGED <<sources, visited>>
      BY <1>5 DEF Bfs!Examine, Bfs!None
    <2>2. /\ Head(queue) \in Vertices
          /\ BfsAt(graph, sources, queue', visited, at', next', p, d, Append(x, Head(queue)), f, e)
      BY <1>1, <1>2, <1>3, <2>1, ExamineKeeps
    <2>3. PICK v \in Vertices : v = Head(queue)
      BY <2>2
    <2>4. BfsTold(calls', p, d, Append(x, v), f, e)
      BY <1>2, <2>1, <2>3, BfsTells
    <2> QED
      BY <1>1, <2>1, <2>2, <2>3, <2>4 DEF BfsInv
  <1>6. CASE Bfs!ExamineEdge
    <2>1. PICK v : v = graph[at][next]
      OBVIOUS
    <2>2. /\ at # N /\ next <= Len(graph[at]) /\ next' = next + 1 /\ UNCHANGED <<sources, at>>
      BY <1>6 DEF Bfs!ExamineEdge, Bfs!None
    <2>3. CASE v \in visited
      <3>1. calls' = Append(calls, Bfs!Call("examine_edge", v)) /\ UNCHANGED <<visited, queue>>
        BY <1>6, <2>1, <2>3 DEF Bfs!ExamineEdge
      <3>2. v \in Vertices /\ BfsAt(graph, sources, queue, visited, at, next + 1, p, d, x, f, Append(e, v))
        BY <1>1, <1>2, <2>1, <2>2, <2>3, KnownKeeps
      <3>3. BfsTold(calls', p, d, x, f, Append(e, v))
        BY <1>2, <3>1, <3>2, BfsTells
      <3> QED
        BY <1>1, <2>2, <3>1, <3>2, <3>3 DEF BfsInv
    <2>4. CASE v \notin visited
      <3>1. /\ calls' = Append(Append(calls, Bfs!Call("examine_edge", v)), Bfs!Call("discover_vertex", v))
            /\ visited' = visited \cup {v} /\ queue' = Append(queue, v)
        BY <1>6, <2>1, <2>4 DEF Bfs!ExamineEdge
      <3>2. /\ v \in Vertices
            /\ BfsAt(graph, sources, queue', visited', at, next + 1, p, Append(d, v), x, f, Append(e, v))
        BY <1>1, <1>2, <1>3, <2>1, <2>2, <2>4, <3>1, FoundKeeps
      <3>3. BfsTold(Append(calls, Bfs!Call("examine_edge", v)), p, d, x, f, Append(e, v))
        BY <1>2, <3>2, BfsTells
      <3>4. BfsTold(calls', p, Append(d, v), x, f, Append(e, v))
        BY <3>1, <3>2, <3>3, BfsTells
      <3> QED
        BY <1>1, <2>2, <3>1, <3>2, <3>4 DEF BfsInv
    <2> QED
      BY <2>3, <2>4
  <1>7. CASE Bfs!Finish
    <2>1. /\ at # N /\ next > Len(graph[at]) /\ at' = N /\ next' = 1
          /\ calls' = Append(calls, Bfs!Call("finish_vertex", at)) /\ UNCHANGED <<sources, queue, visited>>
      BY <1>7 DEF Bfs!Finish, Bfs!None
    <2>2. at \in Vertices /\ BfsAt(graph, sources, queue, visited, at', next', p, d, x, Append(f, at), e)
      BY <1>1, <1>2, <1>3, <2>1, FinishKeeps
    <2>3. BfsTold(calls', p, d, x, Append(f, at), e)
      BY <1>2, <2>1, <2>2, BfsTells
    <2> QED
      BY <1>1, <2>1, <2>2, <2>3 DEF BfsInv
  <1> QED
    BY <1>4, <1>5, <1>6, <1>7 DEF Bfs!Next

\* The inductive invariant: what the calls tell goes with the state.
BfsSearchInv == search = "breadth_first_search" => BfsInv

LEMMA BfsSearchSteps ==
  ASSUME BfsSearchInv, [Next]_vars
  PROVE  BfsSearchInv'
  <1> SUFFICES ASSUME search' = "breadth_first_search"
               PROVE  BfsInv'
    BY DEF BfsSearchInv
  <1>1. CASE UNCHANGED vars
    <2>1. UNCHANGED <<search, graph, calls, sources, queue, visited, at, next>>
      BY <1>1 DEF vars, arguments, bfsOnly
    <2> QED
      BY <2>1 DEF BfsSearchInv, BfsInv
  <1>2. CASE Next
    <2>1. search = "breadth_first_search"
      BY <1>2 DEF Next, arguments
    <2>2. Bfs!Next
      BY <1>2, <2>1 DEF Next
    <2> QED
      BY <2>1, <2>2, BfsSearchStep DEF BfsSearchInv
  <1> QED
    BY <1>1, <1>2

-----------------------------------------------------------------------------
(* What the calls of breadth_first_search tell *)

\* What a search has discovered that has nothing more to discover is what is reached.
LEMMA ClosedLayersReached ==
  ASSUME NEW succ, DOMAIN succ = 0..N, NEW D \in Seq(0..N), D[1] = N, NEW n \in Nat \ {0}, n = Len(D),
         NEW k, InLayers(succ, D, k), ClosedTo(succ, D, n + 1)
  PROVE  \A v : Listed(D, v) <=> v \in Reached(succ, N)
  <1>1. PICK V : V = 0..N
    OBVIOUS
  <1>2. IsFiniteSet(V) /\ N \in V
    BY <1>1, RootApart, FS_Interval
  <1>3. PICK R : R = ReachedWithin(succ, V, N)
    OBVIOUS
  <1>4. LeastClosed(V, succ, N, R)
    BY <1>2, <1>3, ReachedIsLeast
  <1>5. PICK S : S = {D[i] : i \in 1..n}
    OBVIOUS
  <1>6. \A i \in 1..n : D[i] \in V
    BY <1>1, ElementOfSeq
  <1>7. N \in S /\ S \in SUBSET V
    <2>1. 1 \in 1..n
      OBVIOUS
    <2> QED
      BY <1>5, <1>6, <2>1
  <1>8. \A v : Listed(D, v) <=> v \in S
    BY <1>5 DEF Listed
  <1>9. ClosedWithin(V, succ, S)
    <2>1. \A a \in 1..n : \A v \in succ[D[a]] : Listed(D, v)
      BY DEF ClosedTo
    <2> QED
      BY <1>5, <1>8, <2>1 DEF ClosedWithin
  <1>10. R \subseteq S
    BY <1>4, <1>7, <1>9 DEF LeastClosed
  <1>11. PICK L, w : Layered(succ, D, L, w)
    BY DEF InLayers
  <1>12. \A i \in 1..n : D[i] \in R
    <2> SUFFICES ASSUME \E i \in 1..n : D[i] \notin R PROVE FALSE
      OBVIOUS
    <2>1. PICK Missed : Missed = {i \in 1..n : D[i] \notin R}
      OBVIOUS
    <2>2. Missed \subseteq Nat /\ Missed # {}
      BY <2>1
    <2>3. PICK i \in Missed : \A j \in Missed : i <= j
      BY <2>2, LeastNatural
    <2>4. i \in 1..n /\ D[i] \notin R
      BY <2>1
    <2>5. i # 1
      BY <1>4, <2>4 DEF LeastClosed
    <2>6. i \in 2..n
      BY <2>4, <2>5
    <2>7. PICK c \in 1..(i - 1) : FirstTo(succ, D, c, i)
      BY <1>11, <2>6 DEF Layered
    <2>8. c \in 1..n /\ ~(i <= c)
      BY <2>4
    <2>9. D[c] \in R
      BY <2>1, <2>3, <2>8
    <2>10. D[i] \in succ[D[c]] \cap V
      BY <1>6, <2>4, <2>7 DEF FirstTo
    <2> QED
      BY <1>4, <2>4, <2>9, <2>10 DEF LeastClosed, ClosedWithin
  <1>13. S \subseteq R
    BY <1>5, <1>12
  <1>14. Reached(succ, N) = R
    BY <1>1, <1>3 DEF Reached
  <1> QED
    BY <1>8, <1>10, <1>13, <1>14

\* The definitions of BreadthFirstSearch in the terms of these lemmas.
LEMMA BfsToldIs == \A event : Bfs!Told(event) = VerticesIn(calls, event)
  <1>1. \A event : Bfs!OfKind(calls, event) = OfKind(calls, event)
    BY DEF Bfs!OfKind, OfKind
  <1> QED
    BY <1>1 DEF Bfs!Told, VerticesIn

LEMMA BfsReachedIs == \A succ, u : Bfs!Reached(succ, u) = Reached(succ, u)
  <1>1. \A succ, S, u : Bfs!ReachedWithin(succ, S, u) = ReachedWithin(succ, S, u)
    BY DEF ReachedWithin, Bfs!ReachedWithin, Cardinality, Bfs!Cardinality
  <1> QED
    BY <1>1 DEF Reached, Bfs!Reached

LEMMA BfsOrderIs ==
  ASSUME NEW succ, NEW v
  PROVE  Bfs!BreadthFirst(succ, v) <=> BreadthFirst(succ, v)
  BY DEF Bfs!BreadthFirst, BreadthFirst, Bfs!Connects, Connects, Bfs!Overtaken, Overtaken,
         Bfs!PositionsTo, PositionsTo, Bfs!IsInjective, IsInjective

LEMMA BfsEdgesIs ==
  ASSUME NEW g, NEW s \in Seq(Vertices)
  PROVE  Bfs!FlattenSeq([i \in DOMAIN s |-> g[s[i]]]) = EdgesOf(g, s)
  <1>1. DOMAIN s = 1..Len(s)
    BY LenProperties
  <1>2. \A t : Bfs!FlattenSeq(t) = FlattenSeq(t)
    BY DEF Bfs!FlattenSeq, FlattenSeq
  <1> QED
    BY <1>1, <1>2 DEF EdgesOf

LEMMA BfsRootedIs ==
  ASSUME NEW p \in Seq(Vertices), p = Bfs!Initialized
  PROVE  Bfs!Rooted = RootedAt(graph, p)
  <1>1. Bfs!ToSet(p) = ToSet(p)
    BY DEF Bfs!ToSet, ToSet
  <1>2. ToSet(p) = {v \in Vertices : Listed(p, v)}
    BY SeenIs
  <1>3. Bfs!Successors(graph) = Successors(graph)
    BY DEF Bfs!Successors, Successors
  <1> QED
    BY <1>1, <1>2, <1>3 DEF Bfs!Rooted, RootedAt

\* The vertices examined are the first of those discovered, the vertices finished are these but
\* perhaps for the last, and the edges examined are the first of theirs.
LEMMA BfsPrefixes ==
  ASSUME NEW g \in Adjacency, NEW s, NEW q, NEW m, NEW a, NEW n, NEW p, NEW d \in Seq(Vertices),
         NEW x \in Seq(Vertices), NEW f \in Seq(Vertices), NEW e \in Seq(Vertices),
         BfsAt(g, s, q, m, a, n, p, d, x, f, e)
  PROVE  /\ IsPrefix(x, d) /\ IsPrefix(f, x) /\ Len(x) <= Len(f) + 1
         /\ IsPrefix(e, EdgesOf(g, x))
         /\ a = N => f = x /\ e = EdgesOf(g, f)
         /\ q = <<>> => x = d
  <1>1. QueueBehind(q, d, x) /\ Examined(g, a, n, x, f, e)
    BY DEF BfsAt
  <1>2. PICK k \in Nat, l \in Nat, h \in Nat, c \in Nat : k = Len(x) /\ l = Len(q) /\ h = Len(f) /\ c = Len(d)
    BY <1>1, LenProperties DEF QueueBehind
  <1>3. c = k + l /\ \A i \in 1..k : x[i] = d[i]
    BY <1>1, <1>2 DEF QueueBehind
  <1>4. IsPrefix(x, d) /\ (k = c => x = d)
    <2>1. Len(x) <= Len(d)
      BY <1>2, <1>3
    <2>2. \A i \in 1..Len(x) : x[i] = d[i]
      BY <1>2, <1>3
    <2>3. IsPrefix(x, d) /\ (Len(x) = Len(d) => x = d)
      BY <2>1, <2>2, BeginningIs
    <2> QED
      BY <1>2, <2>3
  <1>5. q = <<>> => x = d
    <2>1. q = <<>> => l = 0
      BY <1>2, EmptySeq
    <2>2. l = 0 => k = c
      BY <1>3
    <2> QED
      BY <1>4, <2>1, <2>2
  <1>6. CASE a = N
    <2>1. f = x /\ e = EdgesOf(g, f)
      BY <1>1, <1>6 DEF Examined
    <2>2. IsPrefix(f, x)
      BY <1>2, <2>1, BeginningIs
    <2>3. IsPrefix(e, EdgesOf(g, x))
      <3>1. Len(e) \in Nat
        BY LenProperties
      <3>2. IsPrefix(e, e)
        BY <3>1, BeginningIs
      <3> QED
        BY <2>1, <3>2
    <2>4. k <= h + 1
      BY <1>2, <2>1
    <2> QED
      BY <1>2, <1>4, <1>5, <2>1, <2>2, <2>3, <2>4
  <1>7. CASE a # N
    <2>1. a \in Vertices /\ x = Append(f, a) /\ EdgesTold(e, EdgesOf(g, f), g[a], n - 1)
      BY <1>1, <1>7 DEF Examined
    <2>2. Lengthens(x, f, h, a)
      BY <1>2, <2>1, LengthensIs
    <2>3. k = h + 1 /\ \A i \in 1..h : f[i] = x[i]
      BY <1>2, <2>2 DEF Lengthens
    <2>4. h <= k
      BY <2>3
    <2>5. IsPrefix(f, x)
      BY <1>2, <2>3, <2>4, BeginningIs
    <2>6. IsPrefix(e, EdgesOf(g, f) \o g[a])
      BY <2>1, EdgesToldPrefix
    <2>7. EdgesOf(g, x) = EdgesOf(g, f) \o g[a]
      BY <2>1, EdgesOfMore
    <2>8. k <= h + 1
      BY <2>3
    <2> QED
      BY <1>2, <1>4, <1>5, <1>7, <2>5, <2>6, <2>7, <2>8
  <1> QED
    BY <1>6, <1>7

\* When nothing is left to be done, everything reached has been discovered.
LEMMA BfsReaches ==
  ASSUME NEW g, NEW s, NEW q, NEW m, NEW a, NEW n, NEW p \in Seq(Vertices), NEW d \in Seq(Vertices),
         NEW x \in Seq(Vertices), NEW f, NEW e, BfsAt(g, s, q, m, a, n, p, d, x, f, e), x = d, a = N
  PROVE  ToSet(d) = Reached(RootedAt(g, p), N) \ {N}
  <1>1. PICK D : D = FromRoot(d)
    OBVIOUS
  <1>2. PICK succ : succ = RootedAt(g, p)
    OBVIOUS
  <1>3. PICK k \in Nat : k = Len(d)
    BY LenProperties
  <1>4. /\ D \in Seq(0..N) /\ Len(D) = k + 1 /\ D[1] = N
        /\ \A v : Listed(D, v) <=> v = N \/ Listed(d, v)
        /\ \A v : Listed(d, v) => v \in Vertices
    BY <1>1, <1>3, FromRootIs
  <1>5. PICK j \in Nat \ {0} : j = k + 1 /\ j + 1 = k + 2
    <2>1. k + 1 \in Nat \ {0} /\ (k + 1) + 1 = k + 2
      OBVIOUS
    <2> QED
      BY <2>1
  <1>6. InLayers(succ, D, k) /\ ClosedTo(succ, D, j + 1)
    BY <1>1, <1>2, <1>3, <1>5 DEF BfsAt, SearchedTo
  <1>7. DOMAIN succ = 0..N
    BY <1>2 DEF RootedAt
  <1>8. \A v : Listed(D, v) <=> v \in Reached(succ, N)
    BY <1>4, <1>5, <1>6, <1>7, ClosedLayersReached
  <1>9. ToSet(d) = {v \in Vertices : Listed(d, v)}
    BY SeenIs
  <1>10. N \notin Vertices
    BY RootApart
  <1> QED
    BY <1>2, <1>4, <1>8, <1>9, <1>10

LEMMA BfsExact ==
  ASSUME BfsInv
  PROVE  Bfs!CallsInOrder /\ Bfs!AllReached
  <1>1. graph \in Adjacency
    BY DEF BfsInv
  <1>2. PICK p, d, x, f, e : BfsTold(calls, p, d, x, f, e)
                              /\ BfsAt(graph, sources, queue, visited, at, next, p, d, x, f, e)
    BY DEF BfsInv
  <1>3. p \in Seq(Vertices) /\ d \in Seq(Vertices) /\ x \in Seq(Vertices) /\ f \in Seq(Vertices) /\ e \in Seq(Vertices)
    BY <1>2 DEF BfsTold
  <1>4. /\ Bfs!Told("initialize_vertex") = p /\ Bfs!Told("discover_vertex") = d /\ Bfs!Told("examine_vertex") = x
        /\ Bfs!Told("finish_vertex") = f /\ Bfs!Told("examine_edge") = e
    BY <1>2, BfsToldIs DEF BfsTold
  <1>5. PICK succ : succ = RootedAt(graph, p)
    OBVIOUS
  <1>6. Bfs!Rooted = succ
    <2>1. p = Bfs!Initialized
      BY <1>4 DEF Bfs!Initialized
    <2> QED
      BY <1>3, <1>5, <2>1, BfsRootedIs
  <1>7. PICK D : D = FromRoot(d)
    OBVIOUS
  <1>8. Bfs!BreadthFirst(succ, D)
    <2>1. PICK n \in Nat : n = Len(d)
      BY <1>3, LenProperties
    <2>2. D \in Seq(0..N)
      BY <1>3, <1>7, <2>1, FromRootIs
    <2>3. Len(D) \in Nat /\ DOMAIN D = 1..Len(D)
      BY <2>2, LenProperties
    <2>4. InLayers(succ, D, Len(x))
      BY <1>2, <1>5, <1>7 DEF BfsAt
    <2>5. PICK L, w : Layered(succ, D, L, w)
      BY <2>4 DEF InLayers
    <2>6. Len(D) <= Len(D) /\ \A i \in 1..Len(D) : D[i] = D[i]
      BY <2>3
    <2>7. BreadthFirst(succ, D)
      BY <2>3, <2>5, <2>6, LayersAreOrder
    <2> QED
      BY <2>7, BfsOrderIs
  <1>9. /\ IsPrefix(x, d) /\ IsPrefix(f, x) /\ Len(x) <= Len(f) + 1
        /\ IsPrefix(e, EdgesOf(graph, x))
        /\ at = N => f = x /\ e = EdgesOf(graph, f)
        /\ queue = <<>> => x = d
    BY <1>1, <1>2, <1>3, BfsPrefixes
  <1>10. \A v, w : Bfs!IsPrefix(v, w) <=> IsPrefix(v, w)
    BY DEF Bfs!IsPrefix, IsPrefix
  <1>11. /\ Bfs!FlattenSeq([i \in DOMAIN x |-> graph[x[i]]]) = EdgesOf(graph, x)
         /\ Bfs!FlattenSeq([i \in DOMAIN f |-> graph[f[i]]]) = EdgesOf(graph, f)
    BY <1>3, BfsEdgesIs
  <1>12. Bfs!CallsInOrder
    BY <1>4, <1>6, <1>7, <1>8, <1>9, <1>10, <1>11 DEF Bfs!CallsInOrder, FromRoot
  <1>13. ASSUME Bfs!Returned
         PROVE  Bfs!ToSet(d) = Bfs!Reached(succ, N) \ {N} /\ f = d /\ e = EdgesOf(graph, f)
    <2>1. at = N /\ queue = <<>>
      BY <1>13 DEF Bfs!Returned, Bfs!None
    <2>2. x = d /\ f = x /\ e = EdgesOf(graph, f)
      BY <1>9, <2>1
    <2>3. ToSet(d) = Reached(succ, N) \ {N}
      BY <1>2, <1>3, <1>5, <2>1, <2>2, BfsReaches
    <2>4. Bfs!ToSet(d) = ToSet(d)
      BY DEF Bfs!ToSet, ToSet
    <2>5. Bfs!Reached(succ, N) = Reached(succ, N)
      BY BfsReachedIs
    <2> QED
      BY <2>2, <2>3, <2>4, <2>5
  <1>14. Bfs!AllReached
    BY <1>4, <1>6, <1>11, <1>13 DEF Bfs!AllReached
  <1> QED
    BY <1>12, <1>14

LEMMA BfsSearchBegins ==
  ASSUME Init
  PROVE  BfsSearchInv
  BY BfsBegins DEF BfsSearchInv

\* The visitor of breadth_first_search sees a search from all sources at once: the vertices in
\* breadth-first order, each examined and finished in the order it was discovered, with its
\* out-edges; when it returns, all that the sources lead to has been.
THEOREM BreadthFirstInOrder ==
  Spec => [](search = "breadth_first_search" => Bfs!CallsInOrder /\ Bfs!AllReached)
  <1>1. BfsSearchInv => (search = "breadth_first_search" => Bfs!CallsInOrder /\ Bfs!AllReached)
    BY BfsExact DEF BfsSearchInv
  <1>2. Init => BfsSearchInv
    BY BfsSearchBegins
  <1>3. BfsSearchInv /\ [Next]_vars => BfsSearchInv'
    BY BfsSearchSteps
  <1> QED
    BY <1>1, <1>2, <1>3, PTL DEF Spec

\* The searches and their views visit in their order what the caller has left to be searched.
\* A branch may not be cancelled twice before it is skipped.
THEOREM SearchStaysInOrder == (Spec /\ CancelTwice = FALSE) => []SearchInOrder
  <1>1. /\ search = "breadth_first_search" => Bfs!CallsInOrder /\ Bfs!AllReached
        /\ search = "depth_first_search" => Dfs!DiscoveredInOrder /\ Dfs!WhitePaths
        /\ search = "bfs_views" => BfsView!VisitsInOrder
        /\ search = "dfs_views" => DfsView!VisitsInOrder
        => SearchInOrder
    BY DEF SearchInOrder
  <1> QED
    BY <1>1, BreadthFirstInOrder, DiscoveryStaysInOrder, BfsViewsStayInOrder, DfsViewsStayInOrder, PTL

=============================================================================
