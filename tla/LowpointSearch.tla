--------------------------- MODULE LowpointSearch ---------------------------
(***************************************************************************)
(* The depth-first search that tarjan_scc, articulation_points and         *)
(* biconnected_components are built around: an explicit stack of frames,   *)
(* each with the position in its vertex's edges, discovery times and       *)
(* low-links.  A step is one iteration of the inner while loop.  Iterators *)
(* are positions; a mapped graph behaves like an indexed one.              *)
(***************************************************************************)
EXTENDS Naturals, Sequences, SequencesExt

CONSTANT N   \* num_vertices(g)

VARIABLES graph,   \* the adjacency list: the targets of each vertex's edges
          start,   \* the vertex the outer loop has come to
          frames,  \* the stack of the search
          disc,    \* discovery times
          low,     \* low-links
          timer

search == <<graph, start, frames, disc, low, timer>>

Vertices == 0..(N - 1)

\* UNVISITED: greater than every discovery time.
Unvisited == N

SearchInit == /\ start = 0
              /\ frames = <<>>
              /\ disc = [v \in Vertices |-> Unvisited]
              /\ low = [v \in Vertices |-> Unvisited]
              /\ timer = 0

Top       == Last(frames)
Exhausted == Top.it > Len(graph[Top.uid])
Target    == graph[Top.uid][Top.it]

\* The next iteration looks at an edge of the top frame.
AtEdge == frames # <<>> /\ ~Exhausted

\* The next iteration finds the top frame exhausted.
AtEnd == frames # <<>> /\ Exhausted

AtRoot == frames = <<>> /\ start < N

\* Mutant of Resumed: the position is not stored.
ResumedSame == frames

\* The frames after ++it.
Resumed == [frames EXCEPT ![Len(frames)].it = @ + 1]

Discover(v) == /\ disc' = [disc EXCEPT ![v] = timer]
               /\ low' = [low EXCEPT ![v] = timer]
               /\ timer' = timer + 1

\* The low-links once u has seen a vertex or an edge with x.
Lowered(u, x) == [low EXCEPT ![u] = IF x < @ THEN x ELSE @]

\* Mutant of Pop: the low-link of the child is not handed to its parent.
PopKeepsLow == /\ frames' = Front(frames)
               /\ start' = IF Len(frames) = 1 THEN start + 1 ELSE start
               /\ UNCHANGED low

\* The top frame is popped and its low-link handed to its parent; without a parent
\* the inner loop ends and the outer one goes on.
Pop == /\ frames' = Front(frames)
       /\ IF Len(frames) = 1
          THEN start' = start + 1 /\ UNCHANGED low
          ELSE UNCHANGED start /\ low' = Lowered(Last(Front(frames)).uid, low[Top.uid])

\* The outer loop passes a vertex an earlier tree has visited.
SkipVisited == /\ AtRoot
               /\ disc[start] # Unvisited
               /\ start' = start + 1
               /\ UNCHANGED <<graph, frames, disc, low, timer>>

SearchReturned == start = N
=============================================================================
