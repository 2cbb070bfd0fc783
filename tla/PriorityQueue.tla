--------------------------- MODULE PriorityQueue ---------------------------
(***************************************************************************)
(* What the indexed heap promises its client, Dijkstra's main loop: a set  *)
(* of keys, each with a distance that may only improve while the key is in *)
(* the queue, from which a key of least distance is taken.                 *)
(***************************************************************************)
EXTENDS Naturals

CONSTANTS Key,          \* the keys, vertex ids in Dijkstra
          MaxDistance   \* bound: the greatest distance

VARIABLES queued,    \* the keys in the queue
          distance   \* the distance of every key, which the client keeps

Distances == 0..MaxDistance

Init == /\ queued = {}
        /\ distance \in [Key -> Distances]

Insert(k, d) ==
  /\ k \notin queued
  /\ queued' = queued \cup {k}
  /\ distance' = [distance EXCEPT ![k] = d]

Improve(k, d) ==
  /\ k \in queued
  /\ d <= distance[k]
  /\ distance' = [distance EXCEPT ![k] = d]
  /\ UNCHANGED queued

\* Which of several keys of least distance is taken is left open.
TakeLeast ==
  \E k \in queued : /\ \A x \in queued : distance[k] <= distance[x]
                    /\ queued' = queued \ {k}
                    /\ UNCHANGED distance

Empty == queued' = {} /\ UNCHANGED distance

Next == \/ \E k \in Key, d \in Distances : Insert(k, d) \/ Improve(k, d)
        \/ TakeLeast
        \/ Empty

Spec == Init /\ [][Next]_<<queued, distance>>
=============================================================================
