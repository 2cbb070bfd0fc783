-------------------------- MODULE IndexedDaryHeap --------------------------
(***************************************************************************)
(* indexed_dary_heap: an array of keys in heap order and a map from each   *)
(* key to its place in the array.  The sift loops are "hole-style": the    *)
(* key that moves is kept aside while other keys are copied into the hole  *)
(* it leaves, so that between two iterations one slot holds a copy and one *)
(* position is out of date.  Each iteration is a step of its own.          *)
(*                                                                         *)
(* The distances belong to the client, who lowers one and then calls       *)
(* decrease.  Its comparison is taken to be the order of the numbers.      *)
(***************************************************************************)
EXTENDS Integers, FiniteSets

CONSTANTS Key,          \* the keys
          Arity,        \* children of a slot
          MaxDistance   \* bound: the greatest distance

ASSUME HeapAssumption == /\ IsFiniteSet(Key) /\ Key # {}
                         /\ Arity \in Nat /\ Arity >= 2
                         /\ MaxDistance \in Nat

VARIABLES size,      \* heap_.size()
          heap,      \* heap_, a function on 0..(size - 1)
          position,  \* position_: the slot of each key, npos if it has none
          distance,  \* what distance_ returns for each key
          sift       \* the sift loop in progress: its i and its k

vars == <<size, heap, position, distance, sift>>

npos      == -1
Distances == 0..MaxDistance
Slots     == 0..(size - 1)
NoSift    == [loop |-> "none", i |-> 0, k |-> CHOOSE k \in Key : TRUE]

-----------------------------------------------------------------------------
(* Heap topology *)

\* Mutant of Parent: the formula for slots numbered from one.
ParentFromOne(i) == i \div Arity

Parent(i) == (i - 1) \div Arity

\* Mutant of Children: the range of the scan is one short.
ChildrenOneShort(i) == (Arity * i + 1)..(Arity * i + Arity - 1) \cap Slots

\* The slots [first, last) that sift_down_ scans.
Children(i) == (Arity * i + 1)..(Arity * i + Arity) \cap Slots

Less(a, b) == distance[a] < distance[b]

\* The scan keeps the first of the least children.
Best(i) ==
  CHOOSE c \in Children(i) :
    \A x \in Children(i) : Less(heap[c], heap[x]) \/ (~Less(heap[x], heap[c]) /\ c <= x)

-----------------------------------------------------------------------------
(* Operations *)

Idle == sift.loop = "none"

Init == /\ size = 0
        /\ heap = [j \in {} |-> npos]
        /\ position = [k \in Key |-> npos]
        /\ distance \in [Key -> Distances]
        /\ sift = NoSift

\* Mutant of Place: the map is not told.
PlaceUnrecorded(i, k) ==
  /\ heap' = [heap EXCEPT ![i] = k]
  /\ UNCHANGED position

\* place_, the single point where a key is stored in an existing slot.
Place(i, k) ==
  /\ heap' = [heap EXCEPT ![i] = k]
  /\ position' = [position EXCEPT ![k] = i]

\* push(k) up to its sift_up_.  The client calls it only for absent keys.
Push(k, d) ==
  /\ Idle
  /\ position[k] = npos
  /\ distance' = [distance EXCEPT ![k] = d]
  /\ size' = size + 1
  /\ heap' = [j \in 0..size |-> IF j = size THEN k ELSE heap[j]]
  /\ position' = [position EXCEPT ![k] = size]
  /\ sift' = [loop |-> "up", i |-> size, k |-> k]

\* The client lowers the distance of k and calls decrease(k).
Decrease(k, d) ==
  /\ Idle
  /\ position[k] # npos
  /\ d <= distance[k]
  /\ distance' = [distance EXCEPT ![k] = d]
  /\ sift' = [loop |-> "up", i |-> position[k], k |-> k]
  /\ UNCHANGED <<size, heap, position>>

\* push_or_decrease(k) is either of them, as the map says.
PushOrDecrease(k, d) == IF position[k] = npos THEN Push(k, d) ELSE Decrease(k, d)

\* pop() up to its sift_down_: the last key takes the place of the first.
Pop ==
  /\ Idle
  /\ size > 0
  /\ size' = size - 1
  /\ IF size = 1
     THEN /\ heap' = [j \in {} |-> npos]
          /\ position' = [position EXCEPT ![heap[0]] = npos]
          /\ UNCHANGED sift
     ELSE LET k == heap[size - 1]
          IN  /\ heap' = [j \in 0..(size - 2) |-> IF j = 0 THEN k ELSE heap[j]]
              /\ position' = [position EXCEPT ![heap[0]] = npos, ![k] = 0]
              /\ sift' = [loop |-> "down", i |-> 0, k |-> k]
  /\ UNCHANGED distance

Clear ==
  /\ Idle
  /\ size' = 0
  /\ heap' = [j \in {} |-> npos]
  /\ position' = [k \in Key |-> IF \E j \in Slots : heap[j] = k THEN npos ELSE position[k]]
  /\ UNCHANGED <<distance, sift>>

\* Mutant of SiftUpStep: the hole does not move with the parent.
SiftUpStays ==
  /\ sift.loop = "up"
  /\ sift.i > 0
  /\ Less(sift.k, heap[Parent(sift.i)])
  /\ Place(sift.i, heap[Parent(sift.i)])
  /\ UNCHANGED <<size, distance, sift>>

\* An iteration of sift_up_: the parent moves down into the hole.
SiftUpStep ==
  /\ sift.loop = "up"
  /\ sift.i > 0
  /\ Less(sift.k, heap[Parent(sift.i)])
  /\ Place(sift.i, heap[Parent(sift.i)])
  /\ sift' = [sift EXCEPT !.i = Parent(sift.i)]
  /\ UNCHANGED <<size, distance>>

SiftUpEnd ==
  /\ sift.loop = "up"
  /\ sift.i > 0 => ~Less(sift.k, heap[Parent(sift.i)])
  /\ Place(sift.i, sift.k)
  /\ sift' = NoSift
  /\ UNCHANGED <<size, distance>>

\* An iteration of sift_down_: the least child moves up into the hole.
SiftDownStep ==
  /\ sift.loop = "down"
  /\ Children(sift.i) # {}
  /\ Less(heap[Best(sift.i)], sift.k)
  /\ Place(sift.i, heap[Best(sift.i)])
  /\ sift' = [sift EXCEPT !.i = Best(sift.i)]
  /\ UNCHANGED <<size, distance>>

SiftDownEnd ==
  /\ sift.loop = "down"
  /\ Children(sift.i) # {} => ~Less(heap[Best(sift.i)], sift.k)
  /\ Place(sift.i, sift.k)
  /\ sift' = NoSift
  /\ UNCHANGED <<size, distance>>

Sift == SiftUpStep \/ SiftUpEnd \/ SiftDownStep \/ SiftDownEnd

Next == \/ \E k \in Key, d \in Distances :
             Push(k, d) \/ Decrease(k, d) \/ PushOrDecrease(k, d)
        \/ Pop
        \/ Clear
        \/ Sift

Spec == Init /\ [][Next]_vars

\* A sift loop runs on: one thread executes it without waiting.
FairSpec == Spec /\ WF_vars(Sift)

-----------------------------------------------------------------------------
(* Properties *)

TypeOK ==
  /\ size \in Nat
  /\ heap \in [Slots -> Key]
  /\ position \in [Key -> Slots \cup {npos}]
  /\ distance \in [Key -> Distances]
  /\ sift \in [loop : {"none", "up", "down"}, i : Nat, k : Key]
  /\ sift.loop # "none" => sift.i \in Slots

\* The key in slot j, once the moving key is dropped into the hole.
KeyAt(j) == IF sift.loop # "none" /\ j = sift.i THEN sift.k ELSE heap[j]

\* The position map and the array are inverse to each other: contains, decrease
\* and the map's size can be trusted.  Only the key that a sift loop holds aside
\* has a position that may be out of date, never npos.
PositionsExact ==
  /\ \A j \in Slots : /\ position[KeyAt(j)] # npos
                      /\ sift.loop = "none" \/ j # sift.i => position[KeyAt(j)] = j
  /\ \A k \in Key : position[k] # npos => \E j \in Slots : KeyAt(j) = k
  /\ \A i, j \in Slots : KeyAt(i) = KeyAt(j) => i = j

\* Between two iterations the heap order is broken only next to the hole: above
\* it in sift_up_, below it in sift_down_; and a parent of the hole is already
\* not greater than the hole's children.
HeapOrdered ==
  /\ \A j \in Slots \ {0} :
       \/ distance[KeyAt(Parent(j))] <= distance[KeyAt(j)]
       \/ sift.loop = "up" /\ j = sift.i
       \/ sift.loop = "down" /\ Parent(j) = sift.i
  /\ sift.loop # "none" /\ sift.i # 0 =>
       \A j \in Children(sift.i) :
         distance[KeyAt(Parent(sift.i))] <= distance[KeyAt(j)]

\* top() is "the key with the smallest distance".
TopIsLeast ==
  Idle => \A j \in Slots : distance[heap[0]] <= distance[heap[j]]

\* The heap is a priority queue: pop takes a key of least distance, and nothing
\* is lost or duplicated by the copies that the sift loops make.
Queue == INSTANCE PriorityQueue WITH queued <- {KeyAt(j) : j \in Slots}

ImplementsQueue == Queue!Spec

\* Every sift loop ends.
SiftsEnd == (sift.loop # "none") ~> (sift.loop = "none")
=============================================================================
