---------------------- MODULE IndexedDaryHeap_proofs -----------------------
(***************************************************************************)
(* The indexed heap is well formed between any two iterations of its sift  *)
(* loops, and implements a priority queue, for every set of keys, every    *)
(* arity from two on and every range of distances.                         *)
(*                                                                         *)
(* The invariant is TypeOK /\ PositionsExact /\ HeapOrdered, inductive as  *)
(* it stands.  All three are stated with KeyAt, the array as it would be   *)
(* with the moving key dropped into the hole: a sift iteration then only   *)
(* swaps two keys, which PositionsExact does not notice and HeapOrdered    *)
(* notices next to the hole only.                                          *)
(***************************************************************************)
EXTENDS IndexedDaryHeap, GraphLemmas

-----------------------------------------------------------------------------
(* The topology of the heap *)

LEMMA Division ==
  ASSUME NEW n \in Nat, NEW d \in Nat, d >= 2
  PROVE  /\ n \div d \in Nat
         /\ d * (n \div d) <= n
         /\ n < d * (n \div d) + d
  BY SMT

LEMMA ParentBelow ==
  ASSUME NEW i \in Nat, i > 0
  PROVE  Parent(i) \in Nat /\ Parent(i) < i
  BY Division, HeapAssumption, SMT DEF Parent

LEMMA ChildIff ==
  ASSUME NEW i \in Nat, NEW j \in Nat, j > 0
  PROVE  Parent(j) = i <=> j \in (Arity * i + 1)..(Arity * i + Arity)
  BY Division, HeapAssumption, SMT DEF Parent

LEMMA ChildAbove ==
  ASSUME NEW i \in Nat, NEW j \in (Arity * i + 1)..(Arity * i + Arity)
  PROVE  j \in Nat /\ j > i /\ j > 0
  <1>1. Arity * i \in Nat /\ Arity * i >= i
    BY HeapAssumption, SMT
  <1> QED
    BY <1>1, HeapAssumption, SMT

\* The slots below a slot are those that have it as their parent.
LEMMA ChildrenAre ==
  ASSUME TypeOK, NEW i \in Nat
  PROVE  /\ Children(i) = {j \in Slots : j > 0 /\ Parent(j) = i}
         /\ \A j \in Children(i) : j \in Slots /\ j > i /\ j > 0
  <1> USE DEF TypeOK, Slots
  <1>1. ASSUME NEW j \in Slots, j > 0
        PROVE  Parent(j) = i <=> j \in Children(i)
    BY <1>1, ChildIff DEF Children
  <1>2. ASSUME NEW j \in Children(i)
        PROVE  j \in Slots /\ j > i /\ j > 0
    BY <1>2, ChildAbove DEF Children
  <1> QED
    BY <1>1, <1>2

-----------------------------------------------------------------------------
(* What an iteration of a sift loop does *)

\* The key in slot c moves into the hole, and the hole to c.
MovesHole(c) ==
  /\ sift.loop # "none"
  /\ c \in Slots /\ c # sift.i
  /\ Place(sift.i, heap[c])
  /\ sift' = [loop |-> sift.loop, i |-> c, k |-> sift.k]
  /\ UNCHANGED <<size, distance>>

\* The moving key is dropped into the hole.
DropsKey ==
  /\ sift.loop # "none"
  /\ Place(sift.i, sift.k)
  /\ sift' = NoSift
  /\ UNCHANGED <<size, distance>>

LEMMA BestChild ==
  ASSUME TypeOK, NEW i \in Nat, Children(i) # {}
  PROVE  /\ Best(i) \in Children(i)
         /\ \A j \in Children(i) : distance[heap[Best(i)]] <= distance[heap[j]]
  <1> DEFINE D(c) == distance[heap[c]]
             Better(c) == \A x \in Children(i) : D(c) < D(x) \/ (~(D(x) < D(c)) /\ c <= x)
             Values == {D(c) : c \in Children(i)}
  <1>1. \A c \in Children(i) : c \in Slots /\ c \in Nat /\ D(c) \in Nat
    BY ChildrenAre, HeapAssumption DEF TypeOK, Slots, Distances
  <1>2. PICK v \in Values : \A w \in Values : v <= w
    <2>1. Values \subseteq Nat /\ Values # {}
      BY <1>1
    <2> HIDE DEF Values
    <2> QED
      BY <2>1, LeastNatural
  <1> DEFINE Least == {c \in Children(i) : D(c) = v}
  <1>3. Least \subseteq Nat /\ Least # {}
    BY <1>1, <1>2
  <1>4. PICK c \in Least : \A x \in Least : c <= x
    <2> HIDE DEF Least
    <2> QED
      BY <1>3, LeastNatural
  <1>5. c \in Children(i) /\ Better(c)
    <2>1. ASSUME NEW x \in Children(i)
          PROVE  D(c) < D(x) \/ (~(D(x) < D(c)) /\ c <= x)
      <3>1. D(c) = v /\ v <= D(x) /\ D(x) \in Nat /\ D(c) \in Nat
        BY <1>1, <1>2, <1>4
      <3>2. D(x) = v => c <= x
        BY <1>4
      <3> HIDE DEF D
      <3> QED
        BY <3>1, <3>2, SMT
    <2> QED
      BY <2>1, <1>4
  <1>6. Best(i) = CHOOSE x \in Children(i) : Better(x)
    BY DEF Best, Less
  <1>7. Best(i) \in Children(i) /\ Better(Best(i))
    <2> HIDE DEF Better
    <2> QED
      BY <1>5, <1>6
  <1>8. ASSUME NEW j \in Children(i)
        PROVE  D(Best(i)) <= D(j)
    <2>1. D(Best(i)) < D(j) \/ ~(D(j) < D(Best(i)))
      BY <1>7
    <2>2. D(Best(i)) \in Nat /\ D(j) \in Nat
      BY <1>1, <1>7
    <2> HIDE DEF D
    <2> QED
      BY <2>1, <2>2, SMT
  <1> QED
    BY <1>7, <1>8

LEMMA UpMovesHole ==
  ASSUME TypeOK, SiftUpStep
  PROVE  /\ MovesHole(Parent(sift.i))
         /\ sift.loop = "up" /\ sift.i > 0
         /\ distance[sift.k] < distance[heap[Parent(sift.i)]]
  <1> USE DEF TypeOK, Slots
  <1>1. sift.loop = "up" /\ sift.i > 0 /\ sift.i \in Slots /\ sift.i \in Nat
    BY DEF SiftUpStep
  <1>2. Parent(sift.i) \in Slots /\ Parent(sift.i) # sift.i
    BY <1>1, ParentBelow, SMT
  <1>3. sift' = [loop |-> sift.loop, i |-> Parent(sift.i), k |-> sift.k]
    BY SiftUpStep DEF SiftUpStep
  <1> QED
    BY <1>1, <1>2, <1>3 DEF SiftUpStep, MovesHole, Less

LEMMA DownMovesHole ==
  ASSUME TypeOK, SiftDownStep
  PROVE  /\ MovesHole(Best(sift.i))
         /\ sift.loop = "down" /\ Best(sift.i) \in Children(sift.i)
         /\ distance[heap[Best(sift.i)]] < distance[sift.k]
         /\ \A j \in Children(sift.i) : distance[heap[Best(sift.i)]] <= distance[heap[j]]
  <1>1. sift.loop = "down" /\ sift.i \in Nat /\ Children(sift.i) # {}
    BY DEF SiftDownStep, TypeOK
  <1>2. /\ Best(sift.i) \in Children(sift.i)
        /\ \A j \in Children(sift.i) : distance[heap[Best(sift.i)]] <= distance[heap[j]]
    BY <1>1, BestChild
  <1>3. Best(sift.i) \in Slots /\ Best(sift.i) > sift.i
    BY <1>1, <1>2, ChildrenAre
  <1>4. Best(sift.i) # sift.i
    BY <1>1, <1>3, SMT DEF Slots
  <1>5. sift' = [loop |-> sift.loop, i |-> Best(sift.i), k |-> sift.k]
    BY SiftDownStep DEF SiftDownStep, TypeOK
  <1> QED
    BY <1>1, <1>2, <1>3, <1>4, <1>5 DEF SiftDownStep, MovesHole, Less

LEMMA EndsDropKey ==
  ASSUME SiftUpEnd \/ SiftDownEnd
  PROVE  DropsKey
  BY DEF SiftUpEnd, SiftDownEnd, DropsKey


LEMMA KeysAre ==
  ASSUME TypeOK
  PROVE  \A j \in Slots : KeyAt(j) \in Key
  BY DEF TypeOK, KeyAt

\* Moving the hole swaps the keys of two slots.
LEMMA HoleMoved ==
  ASSUME TypeOK, NEW c, MovesHole(c)
  PROVE  /\ Slots' = Slots /\ sift.i \in Slots /\ c \in Slots /\ c # sift.i
         /\ distance' = distance
         /\ sift'.i = c /\ sift'.loop = sift.loop /\ sift.loop # "none"
         /\ \A j \in Slots : KeyAt(j)' = IF j = sift.i THEN KeyAt(c)
                                         ELSE IF j = c THEN KeyAt(sift.i) ELSE KeyAt(j)
         /\ position' = [position EXCEPT ![KeyAt(c)] = sift.i]
  <1> USE DEF MovesHole, Place, TypeOK
  <1>1. Slots' = Slots
    BY DEF Slots
  <1>2. sift.i \in Slots
    OBVIOUS
  <1>3. KeyAt(c) = heap[c] /\ KeyAt(sift.i) = sift.k
    BY DEF KeyAt
  <1>4. \A j \in Slots : KeyAt(j)' = IF j = sift.i THEN KeyAt(c)
                                     ELSE IF j = c THEN KeyAt(sift.i) ELSE KeyAt(j)
    BY <1>1, <1>2, <1>3 DEF KeyAt
  <1> QED
    BY <1>1, <1>2, <1>3, <1>4

\* Dropping the moving key leaves every key where it is.
LEMMA KeyDropped ==
  ASSUME TypeOK, DropsKey
  PROVE  /\ Slots' = Slots /\ sift.i \in Slots /\ sift.loop # "none"
         /\ distance' = distance
         /\ sift'.loop = "none"
         /\ \A j \in Slots : KeyAt(j)' = KeyAt(j)
         /\ position' = [position EXCEPT ![KeyAt(sift.i)] = sift.i]
  <1> USE DEF DropsKey, Place, TypeOK
  <1>1. Slots' = Slots
    BY DEF Slots
  <1>2. sift.i \in Slots
    OBVIOUS
  <1>3. sift'.loop = "none"
    BY DEF NoSift
  <1>4. \A j \in Slots : KeyAt(j)' = KeyAt(j)
    BY <1>2, <1>3 DEF KeyAt
  <1>5. KeyAt(sift.i) = sift.k
    BY DEF KeyAt
  <1> QED
    BY <1>1, <1>2, <1>3, <1>4, <1>5

\* A step of a loop is one or the other.
LEMMA SiftSteps ==
  ASSUME TypeOK, Sift
  PROVE  DropsKey \/ \E c \in Slots : MovesHole(c)
  <1>1. CASE SiftUpStep
    BY <1>1, UpMovesHole DEF MovesHole
  <1>2. CASE SiftDownStep
    BY <1>2, DownMovesHole DEF MovesHole
  <1>3. CASE SiftUpEnd \/ SiftDownEnd
    BY <1>3, EndsDropKey
  <1> QED
    BY <1>1, <1>2, <1>3 DEF Sift

-----------------------------------------------------------------------------
(* Types *)

LEMMA NoSiftType == NoSift \in [loop : {"none", "up", "down"}, i : Nat, k : Key]
                    /\ NoSift.loop = "none"
  <1>1. (CHOOSE k \in Key : TRUE) \in Key
    BY HeapAssumption
  <1> QED
    BY <1>1 DEF NoSift

LEMMA InitInvariant ==
  ASSUME Init
  PROVE  TypeOK /\ PositionsExact /\ HeapOrdered
  <1> USE DEF Init
  <1>1. Slots = {} /\ sift.loop = "none"
    BY NoSiftType, SMT DEF Slots
  <1>2. TypeOK
    BY <1>1, NoSiftType DEF TypeOK
  <1>3. PositionsExact
    BY <1>1 DEF PositionsExact
  <1>4. HeapOrdered
    BY <1>1 DEF HeapOrdered
  <1> QED
    BY <1>2, <1>3, <1>4

LEMMA PushType ==
  ASSUME TypeOK, NEW k \in Key, NEW d \in Distances, Push(k, d)
  PROVE  TypeOK'
  <1> USE DEF TypeOK, Push
  <1>1. size \in Nat /\ size' = size + 1 /\ size' \in Nat
    BY SMT
  <1>2. Slots' = 0..size /\ Slots \subseteq Slots' /\ size \in Slots'
        /\ \A j \in Slots' : j = size \/ j \in Slots
    BY <1>1, SMT DEF Slots
  <1>3. heap' \in [Slots' -> Key]
    BY <1>2
  <1>4. position' \in [Key -> Slots' \cup {npos}]
    BY <1>2
  <1>5. distance' \in [Key -> Distances]
    OBVIOUS
  <1>6. sift' \in [loop : {"none", "up", "down"}, i : Nat, k : Key] /\ sift'.i \in Slots'
    BY <1>2
  <1> QED
    BY <1>1, <1>3, <1>4, <1>5, <1>6

LEMMA DecreaseType ==
  ASSUME TypeOK, NEW k \in Key, NEW d \in Distances, Decrease(k, d)
  PROVE  TypeOK'
  <1> USE DEF TypeOK, Decrease
  <1>1. Slots' = Slots
    BY DEF Slots
  <1>2. position[k] \in Slots /\ position[k] \in Nat
    BY DEF Slots
  <1> QED
    BY <1>1, <1>2

LEMMA PopType ==
  ASSUME TypeOK, PositionsExact, Pop
  PROVE  TypeOK'
  <1> USE DEF TypeOK, Pop, Idle
  <1>1. size \in Nat /\ size > 0 /\ size' = size - 1 /\ size' \in Nat /\ distance' = distance
    BY SMT
  <1>2. size - 1 \in Slots /\ 0 \in Slots /\ heap[0] \in Key /\ heap[size - 1] \in Key
    BY <1>1, SMT DEF Slots
  <1>3. Slots' = 0..(size - 2) /\ \A j \in Slots : j \in Slots' \/ j = size - 1
    BY <1>1, SMT DEF Slots
  <1>4. \A x \in Key : position[x] = size - 1 => x = heap[size - 1]
    <2>1. ASSUME NEW x \in Key, position[x] = size - 1
          PROVE  x = heap[size - 1]
      <3>1. position[x] # npos
        BY <1>1, <2>1, SMT DEF npos
      <3>2. PICK j \in Slots : KeyAt(j) = x
        BY <3>1 DEF PositionsExact
      <3>3. KeyAt(j) = heap[j] /\ position[KeyAt(j)] = j
        BY DEF PositionsExact, KeyAt
      <3> QED
        BY <2>1, <3>2, <3>3
    <2> QED
      BY <2>1
  <1>5. CASE size = 1
    <2>1. Slots' = {}
      BY <1>3, <1>5, SMT
    <2>2. \A x \in Key : position[x] = 0 => x = heap[0]
      BY <1>4, <1>5
    <2>3. position' \in [Key -> Slots' \cup {npos}]
      BY <1>2, <1>3, <1>5, <2>1, <2>2
    <2>4. heap' \in [Slots' -> Key]
      BY <2>1, <1>5
    <2> QED
      BY <1>1, <1>5, <2>3, <2>4
  <1>6. CASE size # 1
    <2>1. 0 \in Slots'
      BY <1>1, <1>3, <1>6, SMT
    <2>2. position' \in [Key -> Slots' \cup {npos}]
      BY <1>2, <1>3, <1>4, <1>6, <2>1
    <2>3. \A j \in 0..(size - 2) : j = 0 \/ j \in Slots
      BY <1>1, SMT DEF Slots
    <2>4. heap' = [j \in Slots' |-> IF j = 0 THEN heap[size - 1] ELSE heap[j]]
      BY <1>3, <1>6
    <2>5. heap' \in [Slots' -> Key]
      BY <1>2, <1>3, <2>3, <2>4
    <2>6. sift' = [loop |-> "down", i |-> 0, k |-> heap[size - 1]]
      BY <1>6
    <2> QED
      BY <1>1, <1>2, <2>1, <2>2, <2>5, <2>6
  <1> QED
    BY <1>5, <1>6

LEMMA ClearKeys ==
  ASSUME TypeOK, PositionsExact, Clear
  PROVE  /\ TypeOK' /\ Slots' = {} /\ sift'.loop = "none" /\ distance' = distance
         /\ \A k \in Key : position'[k] = npos
  <1> USE DEF TypeOK, Clear, Idle
  <1>1. Slots' = {}
    BY SMT DEF Slots
  <1>2. \A k \in Key : position[k] # npos => \E j \in Slots : heap[j] = k
    BY DEF PositionsExact, KeyAt
  <1>3. \A k \in Key : position'[k] = npos
    BY <1>2
  <1> QED
    BY <1>1, <1>3

LEMMA SiftType ==
  ASSUME TypeOK, Sift
  PROVE  TypeOK'
  <1> USE DEF TypeOK
  <1>1. CASE DropsKey
    BY <1>1, NoSiftType DEF DropsKey, Place, Slots
  <1>2. ASSUME NEW c \in Slots, MovesHole(c)
        PROVE  TypeOK'
    <2>1. Slots' = Slots /\ c \in Nat
      BY <1>2 DEF MovesHole, Slots
    <2> QED
      BY <1>2, <2>1 DEF MovesHole, Place
  <1> QED
    BY <1>1, <1>2, SiftSteps


-----------------------------------------------------------------------------
(* What push, decrease and pop do to the keys *)

LEMMA PushKeys ==
  ASSUME TypeOK, PositionsExact, NEW k \in Key, NEW d \in Distances, Push(k, d),
         NEW n, n = size
  PROVE  /\ Slots' = Slots \cup {n} /\ n \notin Slots /\ n \in Nat
         /\ \A j \in Slots : j < n
         /\ sift.loop = "none" /\ sift' = [loop |-> "up", i |-> n, k |-> k]
         /\ \A j \in Slots : KeyAt(j)' = KeyAt(j) /\ KeyAt(j) # k
         /\ KeyAt(n)' = k
         /\ position[k] = npos
         /\ position' = [position EXCEPT ![k] = n]
         /\ distance' = [distance EXCEPT ![k] = d]
  <1> USE DEF TypeOK, Push, Idle
  <1>1. Slots' = Slots \cup {n} /\ n \notin Slots /\ \A j \in Slots : j < n
    BY SMT DEF Slots
  <1>2. ASSUME NEW j \in Slots
        PROVE  KeyAt(j)' = KeyAt(j) /\ KeyAt(j) # k
    <2>1. heap'[j] = heap[j]
      BY <1>1, SMT DEF Slots
    <2>2. KeyAt(j)' = heap[j] /\ KeyAt(j) = heap[j]
      BY <1>1, <2>1 DEF KeyAt
    <2> QED
      BY <2>2 DEF PositionsExact
  <1>3. KeyAt(n)' = k
    BY DEF KeyAt
  <1> QED
    BY <1>1, <1>2, <1>3

LEMMA DecreaseKeys ==
  ASSUME TypeOK, PositionsExact, NEW k \in Key, NEW d \in Distances, Decrease(k, d)
  PROVE  /\ Slots' = Slots /\ position[k] \in Slots
         /\ sift.loop = "none" /\ sift' = [loop |-> "up", i |-> position[k], k |-> k]
         /\ \A j \in Slots : KeyAt(j)' = KeyAt(j)
         /\ KeyAt(position[k]) = k
         /\ \A j \in Slots : KeyAt(j) = k => j = position[k]
         /\ position' = position
         /\ distance' = [distance EXCEPT ![k] = d] /\ d <= distance[k]
  <1> USE DEF TypeOK, Decrease, Idle
  <1>1. Slots' = Slots
    BY DEF Slots
  <1>2. PICK j \in Slots : KeyAt(j) = k
    BY DEF PositionsExact
  <1>3. position[k] = j
    BY <1>2 DEF PositionsExact
  <1>4. \A i \in Slots : KeyAt(i) = k => i = position[k]
    BY <1>2, <1>3 DEF PositionsExact
  <1>5. \A i \in Slots : KeyAt(i)' = KeyAt(i)
    BY <1>1, <1>2, <1>3 DEF KeyAt
  <1> QED
    BY <1>1, <1>2, <1>3, <1>4, <1>5

\* The last key replaces the first; if there is one key only, none is left.
LEMMA PopKeys ==
  ASSUME TypeOK, PositionsExact, Pop
  PROVE  /\ sift.loop = "none" /\ 0 \in Slots /\ distance' = distance
         /\ size = 1 => /\ Slots = {0} /\ Slots' = {} /\ sift'.loop = "none"
                        /\ position' = [position EXCEPT ![KeyAt(0)] = npos]
         /\ size # 1 =>
              /\ 0 \in Slots' /\ size - 1 \in Slots /\ size - 1 # 0
              /\ Slots' = Slots \ {size - 1}
              /\ sift' = [loop |-> "down", i |-> 0, k |-> KeyAt(size - 1)]
              /\ KeyAt(0)' = KeyAt(size - 1)
              /\ \A j \in Slots' : j # 0 => KeyAt(j)' = KeyAt(j)
              /\ KeyAt(0) # KeyAt(size - 1)
              /\ position' = [position EXCEPT ![KeyAt(0)] = npos, ![KeyAt(size - 1)] = 0]
  <1> USE DEF TypeOK, Pop, Idle
  <1>1. size \in Nat /\ size > 0 /\ size' = size - 1 /\ size' \in Nat /\ distance' = distance
    BY SMT
  <1>2. size - 1 \in Slots /\ 0 \in Slots /\ sift.loop = "none"
    BY <1>1, SMT DEF Slots
  <1>3. KeyAt(0) = heap[0] /\ KeyAt(size - 1) = heap[size - 1]
    BY <1>2 DEF KeyAt
  <1>4. CASE size = 1
    <2>1. Slots = {0} /\ Slots' = {}
      BY <1>1, <1>4, SMT DEF Slots
    <2>2. sift'.loop = "none" /\ position' = [position EXCEPT ![KeyAt(0)] = npos]
      BY <1>2, <1>3, <1>4
    <2> QED
      BY <1>1, <1>2, <1>4, <2>1, <2>2
  <1>5. CASE size # 1
    <2>1. 0 \in Slots' /\ size - 1 # 0 /\ Slots' = Slots \ {size - 1}
      BY <1>1, <1>5, SMT DEF Slots
    <2>2. sift' = [loop |-> "down", i |-> 0, k |-> KeyAt(size - 1)]
      BY <1>3, <1>5
    <2>3. KeyAt(0) # KeyAt(size - 1)
      BY <1>2, <2>1 DEF PositionsExact
    <2>4. position' = [position EXCEPT ![KeyAt(0)] = npos, ![KeyAt(size - 1)] = 0]
      BY <1>3, <1>5
    <2>5. ASSUME NEW j \in Slots', j # 0
          PROVE  KeyAt(j)' = KeyAt(j)
      <3>1. j \in 0..(size - 2)
        BY <1>1, SMT DEF Slots
      <3>2. heap'[j] = heap[j]
        BY <1>5, <2>5, <3>1
      <3>3. KeyAt(j)' = heap'[j]
        BY <2>2, <2>5 DEF KeyAt
      <3>4. KeyAt(j) = heap[j]
        BY <1>2 DEF KeyAt
      <3> QED
        BY <3>2, <3>3, <3>4
    <2>6. KeyAt(0)' = KeyAt(size - 1)
      BY <2>2 DEF KeyAt
    <2> QED
      BY <1>1, <1>2, <1>5, <2>1, <2>2, <2>3, <2>4, <2>5, <2>6
  <1> QED
    BY <1>4, <1>5

-----------------------------------------------------------------------------
(* The position map *)

\* PositionsExact in terms of its parts, for any assignment of keys to slots: P
\* is the map, A the keys, S the slots and h the hole.
Exact(S, A, P, h) ==
  /\ \A j \in S : P[A[j]] # npos /\ (j # h => P[A[j]] = j)
  /\ \A k \in Key : P[k] # npos => \E j \in S : A[j] = k
  /\ \A i, j \in S : A[i] = A[j] => i = j

Assigned == [j \in Slots |-> KeyAt(j)]
Hole     == IF sift.loop = "none" THEN npos ELSE sift.i

LEMMA ExactIs ==
  ASSUME TypeOK
  PROVE  PositionsExact <=> Exact(Slots, Assigned, position, Hole)
  <1>1. \A j \in Slots : (sift.loop = "none" \/ j # sift.i) <=> j # Hole
    BY SMT DEF TypeOK, Hole, Slots, npos
  <1> QED
    BY <1>1 DEF PositionsExact, Exact, Assigned

LEMMA ExactWillBe ==
  ASSUME TypeOK'
  PROVE  PositionsExact' <=> Exact(Slots', Assigned', position', Hole')
  <1>1. \A j \in Slots' : (sift'.loop = "none" \/ j # sift'.i) <=> j # Hole'
    BY SMT DEF TypeOK, Hole, Slots, npos
  <1> QED
    BY <1>1 DEF PositionsExact, Exact, Assigned

LEMMA PushExact ==
  ASSUME TypeOK, PositionsExact, NEW k \in Key, NEW d \in Distances, Push(k, d),
         NEW n, n = size
  PROVE  PositionsExact'
  <1> DEFINE S == Slots
             A == Assigned
             P == position
  <1>1. TypeOK'
    BY PushType
  <1>2. Exact(S, A, P, Hole) /\ A \in [S -> Key] /\ P \in [Key -> S \cup {npos}]
    BY ExactIs, KeysAre DEF Assigned, TypeOK
  <1>3. /\ S' = S \cup {n} /\ n \notin S /\ n # npos /\ Hole = npos
        /\ \A j \in S : j # npos
        /\ P[k] = npos /\ P' = [P EXCEPT ![k] = n]
        /\ Hole' = n
        /\ A' = [j \in S \cup {n} |-> IF j = n THEN k ELSE A[j]]
        /\ \A j \in S : A[j] # k
    <2>1. n # npos /\ \A j \in S : j # npos
      BY SMT DEF npos, TypeOK, Slots
    <2>2. Hole = npos /\ Hole' = n
      BY PushKeys DEF Hole
    <2>3. S' = S \cup {n} /\ \A j \in S : KeyAt(j)' = A[j] /\ A[j] # k
      BY PushKeys DEF Assigned
    <2>4. A' = [j \in S \cup {n} |-> IF j = n THEN k ELSE A[j]]
      BY <2>3, PushKeys DEF Assigned
    <2> QED
      BY <2>1, <2>2, <2>3, <2>4, PushKeys
  <1> HIDE DEF S, A, P
  <1>4. Exact(S \cup {n}, A', P', n)
    <2>1. ASSUME NEW j \in S
          PROVE  A'[j] = A[j] /\ A[j] \in Key /\ A[j] # k /\ P'[A[j]] = P[A[j]] /\ P[A[j]] = j /\ j # npos
      BY <1>2, <1>3 DEF Exact
    <2>2. A'[n] = k /\ P'[k] = n
      BY <1>2, <1>3
    <2>3. \A x \in Key : P'[x] # npos => \E j \in S \cup {n} : A'[j] = x
      BY <1>2, <2>1, <2>2, <1>3 DEF Exact
    <2> QED
      BY <1>3, <2>1, <2>2, <2>3 DEF Exact
  <1> QED
    BY <1>1, <1>3, <1>4, ExactWillBe DEF S, A, P


LEMMA DecreaseExact ==
  ASSUME TypeOK, PositionsExact, NEW k \in Key, NEW d \in Distances, Decrease(k, d)
  PROVE  PositionsExact'
  <1>1. TypeOK'
    BY DecreaseType
  <1>2. Exact(Slots, Assigned, position, Hole) /\ Hole = npos
    BY ExactIs, DecreaseKeys DEF Hole
  <1>3. Slots' = Slots /\ position' = position /\ Assigned' = Assigned
    BY DecreaseKeys DEF Assigned
  <1>4. \A j \in Slots : j # npos
    BY SMT DEF Slots, npos
  <1>5. Exact(Slots, Assigned, position, Hole')
    BY <1>2, <1>4 DEF Exact
  <1> QED
    BY <1>1, <1>3, <1>5, ExactWillBe

LEMMA PopExact ==
  ASSUME TypeOK, PositionsExact, Pop, NEW n, n = size - 1
  PROVE  PositionsExact'
  <1> DEFINE S == Slots
             A == Assigned
             P == position
  <1>1. TypeOK'
    BY PopType
  <1>2. /\ Exact(S, A, P, npos) /\ A \in [S -> Key] /\ P \in [Key -> S \cup {npos}]
        /\ \A j \in S : j # npos
        /\ 0 \in S /\ 0 # npos
    <2>1. Hole = npos /\ 0 \in S
      BY PopKeys DEF Hole
    <2>2. \A j \in S : j # npos
      BY SMT DEF Slots, npos
    <2> QED
      BY <2>1, <2>2, ExactIs, KeysAre DEF Assigned, TypeOK
  <1>3. ASSUME NEW j \in S
        PROVE  A[j] \in Key /\ P[A[j]] = j /\ j # npos
    BY <1>2 DEF Exact
  <1>4. CASE size = 1
    <2>1. S = {0} /\ S' = {} /\ P' = [P EXCEPT ![A[0]] = npos]
      BY <1>4, PopKeys DEF Assigned
    <2>2. \A x \in Key : P'[x] = npos
      <3> HIDE DEF S, A, P
      <3> QED
        BY <1>2, <1>3, <2>1 DEF Exact
    <2>3. Exact(S', A', P', Hole')
      BY <2>1, <2>2 DEF Exact
    <2> QED
      BY <1>1, <2>3, ExactWillBe
  <1>5. CASE size # 1
    <2>1. /\ 0 \in S' /\ n \in S /\ n # 0 /\ S' = S \ {n} /\ Hole' = 0
          /\ A' = [j \in S \ {n} |-> IF j = 0 THEN A[n] ELSE A[j]]
          /\ P' = [P EXCEPT ![A[0]] = npos, ![A[n]] = 0]
      <3>1. 0 \in S' /\ n \in S /\ n # 0 /\ S' = S \ {n} /\ Hole' = 0
        BY <1>5, PopKeys DEF Hole
      <3>2. \A j \in S' : KeyAt(j)' = IF j = 0 THEN A[n] ELSE A[j]
        BY <1>5, <3>1, PopKeys DEF Assigned
      <3>3. A' = [j \in S \ {n} |-> IF j = 0 THEN A[n] ELSE A[j]]
        BY <3>1, <3>2 DEF Assigned
      <3>4. P' = [P EXCEPT ![A[0]] = npos, ![A[n]] = 0]
        BY <1>5, <3>1, PopKeys DEF Assigned
      <3> QED
        BY <3>1, <3>3, <3>4
    <2> HIDE DEF S, A, P
    <2>2. A[0] # A[n] /\ A[0] \in Key /\ A[n] \in Key
      BY <1>2, <1>3, <2>1
    <2>3. P'[A[0]] = npos /\ P'[A[n]] = 0
      BY <1>2, <2>1, <2>2
    <2>4. ASSUME NEW j \in S, j # 0, j # n
          PROVE  A'[j] = A[j] /\ P'[A[j]] = j /\ A[j] # A[n] /\ A[j] # A[0]
      <3>1. A[j] # A[n] /\ A[j] # A[0]
        BY <1>2, <1>3, <2>1, <2>4
      <3> QED
        BY <1>2, <1>3, <2>1, <2>4, <3>1
    <2>5. ASSUME NEW x \in Key, P'[x] # npos
          PROVE  \E j \in S \ {n} : A'[j] = x
      <3>1. CASE x = A[n]
        BY <2>1, <3>1
      <3>2. CASE x # A[n]
        <4>1. x # A[0] /\ P[x] # npos
          BY <1>2, <2>1, <2>3, <2>5, <3>2
        <4>2. PICK j \in S : A[j] = x
          BY <1>2, <4>1 DEF Exact
        <4> QED
          BY <2>4, <3>2, <4>1, <4>2
      <3> QED
        BY <3>1, <3>2
    <2>6. A'[0] = A[n]
      BY <2>1
    <2>7. Exact(S \ {n}, A', P', 0)
      <3>1. \A j \in S \ {n} : P'[A'[j]] # npos /\ (j # 0 => P'[A'[j]] = j)
        BY <1>2, <1>3, <2>3, <2>4, <2>6
      <3>2. \A i, j \in S \ {n} : A'[i] = A'[j] => i = j
        BY <1>3, <2>4, <2>6
      <3> QED
        BY <2>5, <3>1, <3>2 DEF Exact
    <2> QED
      BY <1>1, <2>1, <2>7, ExactWillBe DEF S, A, P
  <1> QED
    BY <1>4, <1>5

LEMMA MoveExact ==
  ASSUME TypeOK, PositionsExact, TypeOK', NEW c, MovesHole(c), NEW h, h = sift.i
  PROVE  PositionsExact'
  <1> DEFINE S == Slots
             A == Assigned
             P == position
  <1>1. /\ Exact(S, A, P, h) /\ A \in [S -> Key] /\ P \in [Key -> S \cup {npos}]
        /\ h \in S /\ c \in S /\ c # h /\ h # npos
        /\ S' = S /\ Hole' = c
        /\ A' = [j \in S |-> IF j = h THEN A[c] ELSE IF j = c THEN A[h] ELSE A[j]]
        /\ P' = [P EXCEPT ![A[c]] = h]
    <2>1. h \in S /\ c \in S /\ c # h /\ S' = S /\ Hole = h /\ Hole' = c
      BY HoleMoved DEF Hole
    <2>2. h # npos
      BY <2>1, SMT DEF Slots, npos
    <2>3. \A j \in S : KeyAt(j)' = IF j = h THEN A[c] ELSE IF j = c THEN A[h] ELSE A[j]
      BY <2>1, HoleMoved DEF Assigned
    <2>4. A' = [j \in S |-> IF j = h THEN A[c] ELSE IF j = c THEN A[h] ELSE A[j]]
      BY <2>1, <2>3 DEF Assigned
    <2>5. P' = [P EXCEPT ![A[c]] = h]
      BY <2>1, HoleMoved DEF Assigned
    <2> QED
      BY <2>1, <2>2, <2>4, <2>5, ExactIs, KeysAre DEF Assigned, TypeOK
  <1> HIDE DEF S, A, P
  <1>2. \A j \in S : A[j] \in Key /\ (j # c => A[j] # A[c])
    BY <1>1 DEF Exact
  <1>3. A'[h] = A[c] /\ A'[c] = A[h] /\ \A j \in S : j # h /\ j # c => A'[j] = A[j]
    BY <1>1
  <1>4. P'[A[c]] = h /\ \A x \in Key : x # A[c] => P'[x] = P[x]
    BY <1>1, <1>2
  <1>5. \A j \in S : P'[A'[j]] # npos /\ (j # c => P'[A'[j]] = j)
    BY <1>1, <1>2, <1>3, <1>4 DEF Exact
  <1>6. \A x \in Key : P'[x] # npos => \E j \in S : A'[j] = x
    BY <1>1, <1>2, <1>3, <1>4 DEF Exact
  <1>7. \A i, j \in S : A'[i] = A'[j] => i = j
    BY <1>1, <1>3 DEF Exact
  <1>8. Exact(S, A', P', c)
    BY <1>5, <1>6, <1>7 DEF Exact
  <1> QED
    BY <1>1, <1>8, ExactWillBe DEF S, A, P

LEMMA DropExact ==
  ASSUME TypeOK, PositionsExact, TypeOK', DropsKey, NEW h, h = sift.i
  PROVE  PositionsExact'
  <1> DEFINE S == Slots
             A == Assigned
             P == position
  <1>1. /\ Exact(S, A, P, h) /\ A \in [S -> Key] /\ P \in [Key -> S \cup {npos}]
        /\ h \in S /\ h # npos
        /\ S' = S /\ Hole' = npos
        /\ A' = A
        /\ P' = [P EXCEPT ![A[h]] = h]
    <2>1. h \in S /\ S' = S /\ Hole = h /\ Hole' = npos
      BY KeyDropped DEF Hole
    <2>2. h # npos
      BY <2>1, SMT DEF Slots, npos
    <2>3. A' = A
      BY <2>1, KeyDropped DEF Assigned
    <2>4. P' = [P EXCEPT ![A[h]] = h]
      BY <2>1, KeyDropped DEF Assigned
    <2> QED
      BY <2>1, <2>2, <2>3, <2>4, ExactIs, KeysAre DEF Assigned, TypeOK
  <1> HIDE DEF S, A, P
  <1>2. \A j \in S : A[j] \in Key /\ (j # h => A[j] # A[h])
    BY <1>1 DEF Exact
  <1>3. P'[A[h]] = h /\ \A x \in Key : x # A[h] => P'[x] = P[x]
    BY <1>1, <1>2
  <1>4. Exact(S, A, P', npos)
    BY <1>1, <1>2, <1>3 DEF Exact
  <1> QED
    BY <1>1, <1>4, ExactWillBe DEF S, A, P

LEMMA ClearExact ==
  ASSUME TypeOK, PositionsExact, Clear
  PROVE  PositionsExact'
  <1>1. Slots' = {} /\ \A k \in Key : position'[k] = npos
    BY ClearKeys
  <1> QED
    BY <1>1 DEF PositionsExact


-----------------------------------------------------------------------------
(* The heap order *)

\* HeapOrdered for any assignment W of distances to the slots S.
Heaped(S, W, loop, h) ==
  /\ \A j \in S \ {0} : \/ W[Parent(j)] <= W[j]
                        \/ loop = "up" /\ j = h
                        \/ loop = "down" /\ Parent(j) = h
  /\ loop # "none" /\ h # 0 =>
       \A j \in S \ {0} : Parent(j) = h => W[Parent(h)] <= W[j]

\* With a slot, S contains all those above it.
Closed(S) == /\ S \subseteq Nat
             /\ \A j \in S \ {0} : Parent(j) \in S /\ Parent(j) < j /\ Parent(j) # j

Weight == [j \in Slots |-> distance[KeyAt(j)]]

LEMMA SlotsClosed ==
  ASSUME NEW n \in Nat
  PROVE  Closed(0..(n - 1))
  <1>1. ASSUME NEW j \in (0..(n - 1)) \ {0}
        PROVE  Parent(j) \in 0..(n - 1) /\ Parent(j) < j /\ Parent(j) # j
    BY ParentBelow, SMT
  <1> QED
    BY <1>1 DEF Closed

LEMMA HeapedIs ==
  ASSUME TypeOK
  PROVE  /\ HeapOrdered <=> Heaped(Slots, Weight, sift.loop, sift.i)
         /\ Closed(Slots) /\ Weight \in [Slots -> Nat]
  <1> USE DEF TypeOK
  <1>1. Closed(Slots)
    BY SlotsClosed DEF Slots
  <1>2. Children(sift.i) = {j \in Slots \ {0} : Parent(j) = sift.i}
    <2>1. \A j \in Slots : j > 0 <=> j # 0
      BY SMT DEF Slots
    <2> QED
      BY <2>1, ChildrenAre
  <1>3. Weight \in [Slots -> Nat]
    BY KeysAre, HeapAssumption DEF Weight, Distances
  <1>4. \A j \in Slots \ {0} : Parent(j) \in Slots /\ Weight[j] = distance[KeyAt(j)]
                               /\ Weight[Parent(j)] = distance[KeyAt(Parent(j))]
    BY <1>1 DEF Closed, Weight
  <1> QED
    BY <1>1, <1>2, <1>3, <1>4 DEF HeapOrdered, Heaped

LEMMA HeapedWillBe ==
  ASSUME TypeOK'
  PROVE  HeapOrdered' <=> Heaped(Slots', Weight', sift'.loop, sift'.i)
  <1> USE DEF TypeOK
  <1>1. Closed(Slots')
    BY SlotsClosed DEF Slots
  <1>2. Children(sift.i)' = {j \in Slots' \ {0} : Parent(j) = sift'.i}
    <2> DEFINE h == sift'.i
    <2>0. h \in Nat /\ Slots' \subseteq Nat
          /\ Children(sift.i)' = ((Arity * h + 1)..(Arity * h + Arity)) \cap Slots'
      <3>1. h \in Nat
        OBVIOUS
      <3>2. Slots' \subseteq Nat
        BY <1>1 DEF Closed
      <3> QED
        BY <3>1, <3>2 DEF Children
    <2> HIDE DEF h
    <2>1. ASSUME NEW j \in Slots', j > 0
          PROVE  Parent(j) = h <=> j \in Children(sift.i)'
      BY <2>0, <2>1, ChildIff
    <2>2. ASSUME NEW j \in Children(sift.i)'
          PROVE  j \in Slots' /\ j # 0
      BY <2>0, <2>2, ChildAbove
    <2>3. \A j \in Slots' : j > 0 <=> j # 0
      BY SMT DEF Slots
    <2> QED
      BY <2>1, <2>2, <2>3 DEF h
  <1>3. \A j \in Slots' \ {0} : Parent(j) \in Slots' /\ Weight'[j] = distance'[KeyAt(j)']
                               /\ Weight'[Parent(j)] = distance'[KeyAt(Parent(j))']
    BY <1>1 DEF Closed, Weight
  <1> QED
    BY <1>1, <1>2, <1>3 DEF HeapOrdered, Heaped

LEMMA UpOrdered ==
  ASSUME NEW S, Closed(S), NEW W \in [S -> Nat], NEW V, NEW h \in S \ {0}, NEW p, p = Parent(h),
         V = [j \in S |-> IF j = h THEN W[p] ELSE IF j = p THEN W[h] ELSE W[j]],
         W[h] < W[p], Heaped(S, W, "up", h)
  PROVE  Heaped(S, V, "up", p)
  <1>1. p \in S /\ p # h /\ p \in Nat /\ h \in Nat /\ p < h
    BY DEF Closed
  <1>2. ASSUME NEW j \in S \ {0}, j # h
        PROVE  /\ Parent(j) \in S /\ Parent(j) # j /\ W[Parent(j)] <= W[j]
               /\ Parent(j) = h /\ h # 0 => W[p] <= W[j]
    BY <1>2 DEF Heaped, Closed
  <1>3. V[h] = W[p] /\ V[p] = W[h] /\ \A j \in S : j # h /\ j # p => V[j] = W[j]
    BY <1>1
  <1>4. \A j \in S : W[j] \in Nat
    OBVIOUS
  <1>5. ASSUME NEW j \in S \ {0}, j # p
        PROVE  V[Parent(j)] <= V[j]
    <2>1. CASE j = h
      BY <1>1, <1>3, <1>4, <2>1
    <2>2. CASE j # h /\ Parent(j) = h
      BY <1>1, <1>2, <1>3, <1>4, <1>5, <2>2
    <2>3. CASE j # h /\ Parent(j) = p
      BY <1>1, <1>2, <1>3, <1>4, <1>5, <2>3
    <2>4. CASE j # h /\ Parent(j) # h /\ Parent(j) # p
      BY <1>1, <1>2, <1>3, <1>4, <1>5, <2>4
    <2> QED
      BY <2>1, <2>2, <2>3, <2>4
  <1>6. ASSUME p # 0, NEW j \in S \ {0}, Parent(j) = p
        PROVE  V[Parent(p)] <= V[j]
    <2>1. Parent(p) \in S /\ Parent(p) # p /\ Parent(p) # h /\ W[Parent(p)] <= W[p]
      BY <1>1, <1>2, <1>6 DEF Closed
    <2>2. CASE j = h
      <3>1. V[Parent(p)] = W[Parent(p)] /\ V[j] = W[p]
        BY <1>3, <2>1, <2>2
      <3> QED
        BY <2>1, <3>1
    <2>3. CASE j # h
      <3>1. j # p /\ W[p] <= W[j]
        BY <1>2, <1>6, <2>3
      <3>2. V[Parent(p)] = W[Parent(p)] /\ V[j] = W[j]
        BY <1>3, <2>1, <2>3, <3>1
      <3>3. W[Parent(p)] \in Nat /\ W[p] \in Nat /\ W[j] \in Nat
        BY <1>1, <1>4, <2>1
      <3> QED
        BY <2>1, <3>1, <3>2, <3>3
    <2> QED
      BY <2>2, <2>3
  <1> QED
    BY <1>5, <1>6 DEF Heaped

LEMMA DownOrdered ==
  ASSUME NEW S, Closed(S), NEW W \in [S -> Nat], NEW V, NEW h \in S, NEW c \in S \ {0}, Parent(c) = h,
         V = [j \in S |-> IF j = h THEN W[c] ELSE IF j = c THEN W[h] ELSE W[j]],
         W[c] < W[h], \A j \in S \ {0} : Parent(j) = h => W[c] <= W[j],
         Heaped(S, W, "down", h)
  PROVE  Heaped(S, V, "down", c)
  <1>1. c # h /\ c \in Nat /\ h \in Nat /\ h < c
    BY DEF Closed
  <1>2. V[h] = W[c] /\ V[c] = W[h] /\ \A j \in S : j # h /\ j # c => V[j] = W[j]
    BY <1>1
  <1>3. \A j \in S : W[j] \in Nat
    OBVIOUS
  <1>4. ASSUME NEW j \in S \ {0}, Parent(j) # c
        PROVE  V[Parent(j)] <= V[j]
    <2>1. Parent(j) \in S /\ Parent(j) # j
      BY DEF Closed
    <2>2. CASE j = c
      BY <1>1, <1>2, <1>3, <2>2
    <2>3. CASE j # c /\ Parent(j) = h
      BY <1>1, <1>2, <1>3, <2>1, <2>3
    <2>4. CASE j = h
      <3>1. W[Parent(h)] <= W[c]
        BY <2>4 DEF Heaped
      <3> QED
        BY <1>1, <1>2, <1>3, <1>4, <2>1, <2>4, <3>1
    <2>5. CASE j # c /\ j # h /\ Parent(j) # h
      <3>1. W[Parent(j)] <= W[j]
        BY <2>5 DEF Heaped
      <3> QED
        BY <1>1, <1>2, <1>3, <1>4, <2>1, <2>5, <3>1
    <2> QED
      BY <2>2, <2>3, <2>4, <2>5
  <1>5. ASSUME NEW j \in S \ {0}, Parent(j) = c
        PROVE  V[Parent(c)] <= V[j]
    <2>1. W[c] <= W[j] /\ j # c /\ j # h
      BY <1>1, <1>5 DEF Heaped, Closed
    <2> QED
      BY <1>2, <1>3, <2>1
  <1> QED
    BY <1>4, <1>5 DEF Heaped


LEMMA PushOrdered ==
  ASSUME TypeOK, PositionsExact, HeapOrdered,
         NEW k \in Key, NEW d \in Distances, Push(k, d), NEW n, n = size
  PROVE  HeapOrdered'
  <1> DEFINE S == Slots
             W == Weight
  <1>1. TypeOK'
    BY PushType
  <1>2. Heaped(S, W, "none", sift.i) /\ Closed(S) /\ W \in [S -> Nat]
    BY HeapedIs, PushKeys
  <1>3. /\ S' = S \cup {n} /\ n \notin S /\ n \in Nat /\ \A j \in S : j < n
        /\ sift'.loop = "up" /\ sift'.i = n
        /\ W' = [j \in S \cup {n} |-> IF j = n THEN d ELSE W[j]]
    <2>1. S' = S \cup {n} /\ n \notin S /\ n \in Nat /\ \A j \in S : j < n
      BY PushKeys
    <2>2. sift'.loop = "up" /\ sift'.i = n
      BY PushKeys
    <2>3. ASSUME NEW j \in S
          PROVE  distance'[KeyAt(j)'] = W[j]
      BY PushKeys, KeysAre DEF Weight, TypeOK
    <2>4. distance'[KeyAt(n)'] = d
      BY PushKeys DEF TypeOK
    <2>5. W' = [j \in S' |-> distance'[KeyAt(j)']]
      BY DEF Weight
    <2> QED
      BY <2>1, <2>2, <2>3, <2>4, <2>5
  <1> HIDE DEF S, W
  <1>4. ASSUME NEW j \in S \ {0}
        PROVE  Parent(j) \in S /\ Parent(j) # n /\ W[Parent(j)] <= W[j]
    BY <1>2, <1>3 DEF Closed, Heaped
  <1>5. ASSUME n # 0
        PROVE  Parent(n) # n
    BY <1>3, <1>5, ParentBelow
  <1>6. Heaped(S \cup {n}, W', "up", n)
    BY <1>3, <1>4, <1>5 DEF Heaped
  <1> QED
    BY <1>1, <1>3, <1>6, HeapedWillBe DEF S, W

LEMMA DecreaseOrdered ==
  ASSUME TypeOK, PositionsExact, HeapOrdered,
         NEW k \in Key, NEW d \in Distances, Decrease(k, d), NEW n, n = position[k]
  PROVE  HeapOrdered'
  <1> DEFINE S == Slots
             W == Weight
  <1>1. TypeOK'
    BY DecreaseType
  <1>2. Heaped(S, W, "none", sift.i) /\ Closed(S) /\ W \in [S -> Nat]
    BY HeapedIs, DecreaseKeys
  <1>3. /\ S' = S /\ n \in S /\ d \in Nat /\ d <= W[n]
        /\ sift'.loop = "up" /\ sift'.i = n
        /\ W' = [j \in S |-> IF j = n THEN d ELSE W[j]]
    <2>1. S' = S /\ n \in S /\ sift'.loop = "up" /\ sift'.i = n
      BY DecreaseKeys
    <2>2. ASSUME NEW j \in S
          PROVE  distance'[KeyAt(j)'] = IF j = n THEN d ELSE W[j]
      BY DecreaseKeys, KeysAre DEF Weight, TypeOK
    <2>3. W' = [j \in S' |-> distance'[KeyAt(j)']]
      BY DEF Weight
    <2>4. d \in Nat /\ d <= W[n]
      BY <2>1, DecreaseKeys, HeapAssumption DEF Weight, Distances
    <2> QED
      BY <2>1, <2>2, <2>3, <2>4
  <1> HIDE DEF S, W
  <1>4. ASSUME NEW j \in S \ {0}
        PROVE  Parent(j) \in S /\ Parent(j) # j /\ W[Parent(j)] <= W[j] /\ W[j] \in Nat
               /\ W[Parent(j)] \in Nat
    BY <1>2 DEF Closed, Heaped
  <1>5. ASSUME NEW j \in S \ {0}, j # n
        PROVE  W'[Parent(j)] <= W'[j]
    <2>1. W'[j] = W[j] /\ W[Parent(j)] <= W[j] /\ W[j] \in Nat /\ Parent(j) \in S
      BY <1>3, <1>4, <1>5
    <2>2. CASE Parent(j) = n
      BY <1>2, <1>3, <2>1, <2>2
    <2>3. CASE Parent(j) # n
      BY <1>3, <2>1, <2>3
    <2> QED
      BY <2>2, <2>3
  <1>6. ASSUME n # 0, NEW j \in S \ {0}, Parent(j) = n
        PROVE  W'[Parent(n)] <= W'[j]
    <2>1. W[Parent(n)] <= W[n] /\ W[n] <= W[j] /\ Parent(n) \in S /\ Parent(n) # n /\ j # n
      BY <1>3, <1>4, <1>6
    <2>2. W'[Parent(n)] = W[Parent(n)] /\ W'[j] = W[j]
      BY <1>3, <2>1
    <2>3. W[Parent(n)] \in Nat /\ W[n] \in Nat /\ W[j] \in Nat
      BY <1>2, <1>3, <2>1
    <2> QED
      BY <2>1, <2>2, <2>3
  <1>7. Heaped(S, W', "up", n)
    BY <1>5, <1>6 DEF Heaped
  <1> QED
    BY <1>1, <1>3, <1>7, HeapedWillBe DEF S, W

LEMMA PopOrdered ==
  ASSUME TypeOK, PositionsExact, HeapOrdered, Pop, NEW n, n = size - 1
  PROVE  HeapOrdered'
  <1> DEFINE S == Slots
             W == Weight
  <1>1. TypeOK'
    BY PopType
  <1>2. Heaped(S, W, "none", sift.i) /\ Closed(S) /\ W \in [S -> Nat]
    BY HeapedIs, PopKeys
  <1>3. CASE size = 1
    BY <1>1, <1>3, PopKeys, HeapedWillBe DEF Heaped
  <1>4. CASE size # 1
    <2>1. /\ S' = S \ {n}
          /\ sift'.loop = "down" /\ sift'.i = 0
          /\ \A j \in S \ {n} : j # 0 => W'[j] = W[j]
      <3>1. S' = S \ {n} /\ sift'.loop = "down" /\ sift'.i = 0
        BY <1>4, PopKeys
      <3>2. W' = [j \in S' |-> distance'[KeyAt(j)']]
        BY DEF Weight
      <3>3. \A j \in S' : j # 0 => distance'[KeyAt(j)'] = W[j]
        BY <1>4, <3>1, PopKeys DEF Weight
      <3> QED
        BY <3>1, <3>2, <3>3
    <2>2. Closed(S \ {n})
      <3>1. size - 1 \in Nat /\ S' = 0..((size - 1) - 1)
        BY <1>4, PopKeys, SMT DEF Slots, TypeOK, Pop
      <3>2. Closed(0..((size - 1) - 1))
        BY <3>1, SlotsClosed
      <3> QED
        BY <2>1, <3>1, <3>2
    <2> HIDE DEF S, W
    <2>3. ASSUME NEW j \in (S \ {n}) \ {0}, Parent(j) # 0
          PROVE  W'[Parent(j)] <= W'[j]
      <3>1. Parent(j) \in S \ {n}
        BY <2>2 DEF Closed
      <3>2. W[Parent(j)] <= W[j]
        BY <1>2 DEF Heaped
      <3> QED
        BY <2>1, <2>3, <3>1, <3>2
    <2>4. Heaped(S \ {n}, W', "down", 0)
      BY <2>3 DEF Heaped
    <2> QED
      BY <1>1, <2>1, <2>4, HeapedWillBe DEF S, W
  <1> QED
    BY <1>3, <1>4

\* The distances that moving the hole swaps.
LEMMA HoleMovedWeight ==
  ASSUME TypeOK, NEW c, MovesHole(c), NEW h, h = sift.i
  PROVE  Weight' = [j \in Slots |-> IF j = h THEN Weight[c]
                                    ELSE IF j = c THEN Weight[h] ELSE Weight[j]]
  <1>1. Slots' = Slots /\ distance' = distance /\ c \in Slots /\ h \in Slots
    BY HoleMoved
  <1>2. Weight' = [j \in Slots' |-> distance'[KeyAt(j)']]
    BY DEF Weight
  <1>3. \A j \in Slots : KeyAt(j)' = IF j = h THEN KeyAt(c)
                                     ELSE IF j = c THEN KeyAt(h) ELSE KeyAt(j)
    BY HoleMoved
  <1> QED
    BY <1>1, <1>2, <1>3 DEF Weight

LEMMA SiftUpOrdered ==
  ASSUME TypeOK, HeapOrdered, SiftUpStep
  PROVE  HeapOrdered'
  <1> DEFINE h == sift.i
             p == Parent(sift.i)
  <1>1. TypeOK' /\ MovesHole(p) /\ sift.loop = "up"
    BY SiftType, UpMovesHole DEF Sift
  <1>2. h \in Slots \ {0} /\ Slots' = Slots /\ sift'.loop = "up" /\ sift'.i = p
        /\ p \in Slots /\ p # h
    BY <1>1, UpMovesHole, HoleMoved
  <1>3. Weight[h] < Weight[p]
    <2>1. KeyAt(h) = sift.k /\ KeyAt(p) = heap[p]
      BY <1>1, <1>2 DEF KeyAt
    <2> QED
      BY <1>2, <2>1, UpMovesHole DEF Weight
  <1>4. Weight' = [j \in Slots |-> IF j = h THEN Weight[p] ELSE IF j = p THEN Weight[h] ELSE Weight[j]]
    BY <1>1, HoleMovedWeight
  <1>5. Heaped(Slots, Weight, "up", h) /\ Closed(Slots) /\ Weight \in [Slots -> Nat]
    BY <1>1, HeapedIs
  <1>6. p = Parent(h)
    OBVIOUS
  <1> HIDE DEF h, p
  <1>7. Heaped(Slots, Weight', "up", p)
    BY <1>2, <1>3, <1>4, <1>5, <1>6, UpOrdered
  <1> QED
    BY <1>1, <1>2, <1>7, HeapedWillBe

LEMMA SiftDownOrdered ==
  ASSUME TypeOK, HeapOrdered, SiftDownStep
  PROVE  HeapOrdered'
  <1> DEFINE h == sift.i
             c == Best(sift.i)
  <1>1. TypeOK' /\ MovesHole(c) /\ sift.loop = "down" /\ c \in Children(h)
    BY SiftType, DownMovesHole DEF Sift
  <1>2. h \in Slots /\ Slots' = Slots /\ sift'.loop = "down" /\ sift'.i = c
        /\ c \in Slots /\ c # h
    BY <1>1, HoleMoved
  <1>3. Children(h) = {j \in Slots \ {0} : Parent(j) = h} /\ \A j \in Children(h) : j # h
    <2>1. h \in Nat /\ \A j \in Slots : j > 0 <=> j # 0
      BY <1>2, SMT DEF Slots
    <2>2. /\ Children(h) = {j \in Slots : j > 0 /\ Parent(j) = h}
          /\ \A j \in Children(h) : j \in Slots /\ j > h /\ j > 0
      BY <2>1, ChildrenAre
    <2>3. \A j \in Children(h) : j # h
      BY <2>1, <2>2, SMT DEF Slots
    <2> QED
      BY <2>1, <2>2, <2>3
  <1>4. Weight[c] < Weight[h] /\ \A j \in Slots \ {0} : Parent(j) = h => Weight[c] <= Weight[j]
    <2>1. KeyAt(h) = sift.k /\ \A j \in Slots : j # h => KeyAt(j) = heap[j]
      BY <1>1 DEF KeyAt
    <2>2. Weight[c] = distance[heap[c]] /\ Weight[h] = distance[sift.k]
          /\ \A j \in Slots : j # h => Weight[j] = distance[heap[j]]
      BY <1>2, <2>1 DEF Weight
    <2> QED
      BY <1>3, <2>2, DownMovesHole
  <1>5. Weight' = [j \in Slots |-> IF j = h THEN Weight[c] ELSE IF j = c THEN Weight[h] ELSE Weight[j]]
    BY <1>1, HoleMovedWeight
  <1>6. Heaped(Slots, Weight, "down", h) /\ Closed(Slots) /\ Weight \in [Slots -> Nat]
    BY <1>1, HeapedIs
  <1>7. c \in Slots \ {0} /\ Parent(c) = h
    BY <1>1, <1>3
  <1> HIDE DEF h, c
  <1>8. Heaped(Slots, Weight', "down", c)
    <2> DEFINE S == Slots
               W == Weight
               V == Weight'
    <2>1. /\ Closed(S) /\ W \in [S -> Nat] /\ h \in S /\ c \in S \ {0} /\ Parent(c) = h
          /\ V = [j \in S |-> IF j = h THEN W[c] ELSE IF j = c THEN W[h] ELSE W[j]]
          /\ W[c] < W[h] /\ Heaped(S, W, "down", h)
      BY <1>2, <1>4, <1>5, <1>6, <1>7
    <2>2. \A j \in S \ {0} : Parent(j) = h => W[c] <= W[j]
      BY <1>4
    <2> HIDE DEF S, W, V
    <2>3. Heaped(S, V, "down", c)
      BY <2>1, <2>2, DownOrdered
    <2> QED
      BY <2>3 DEF S, V
  <1> QED
    BY <1>1, <1>2, <1>8, HeapedWillBe


LEMMA KeyDroppedWeight ==
  ASSUME TypeOK, DropsKey
  PROVE  Slots' = Slots /\ Weight' = Weight /\ sift'.loop = "none"
  <1>1. Slots' = Slots /\ distance' = distance /\ \A j \in Slots : KeyAt(j)' = KeyAt(j)
    BY KeyDropped
  <1>2. Weight' = [j \in Slots' |-> distance'[KeyAt(j)']]
    BY DEF Weight
  <1> QED
    BY <1>1, <1>2, KeyDropped DEF Weight

LEMMA SiftUpEndOrdered ==
  ASSUME TypeOK, HeapOrdered, SiftUpEnd
  PROVE  HeapOrdered'
  <1> DEFINE h == sift.i
  <1>1. TypeOK' /\ DropsKey /\ sift.loop = "up" /\ h \in Slots
    BY SiftType, EndsDropKey, KeyDropped DEF Sift, SiftUpEnd
  <1>2. Heaped(Slots, Weight, "up", h) /\ Closed(Slots) /\ Weight \in [Slots -> Nat]
    BY <1>1, HeapedIs
  <1>3. ASSUME h # 0
        PROVE  Weight[Parent(h)] <= Weight[h]
    <2>1. h > 0 /\ Parent(h) \in Slots /\ Parent(h) # h
      <3>1. h > 0
        BY <1>1, <1>3, SMT DEF Slots
      <3>2. h \in Slots \ {0}
        BY <1>1, <1>3
      <3> QED
        BY <1>2, <3>1, <3>2 DEF Closed
    <2>2. ~(distance[sift.k] < distance[heap[Parent(h)]])
      BY <2>1 DEF SiftUpEnd, Less
    <2>3. Weight[h] = distance[sift.k] /\ Weight[Parent(h)] = distance[heap[Parent(h)]]
      BY <1>1, <2>1 DEF Weight, KeyAt
    <2>4. Weight[h] \in Nat /\ Weight[Parent(h)] \in Nat
      BY <1>1, <1>2, <2>1
    <2> QED
      BY <2>2, <2>3, <2>4
  <1>4. Heaped(Slots, Weight, "none", sift'.i)
    BY <1>2, <1>3 DEF Heaped
  <1> QED
    BY <1>1, <1>4, KeyDroppedWeight, HeapedWillBe

LEMMA SiftDownEndOrdered ==
  ASSUME TypeOK, HeapOrdered, SiftDownEnd
  PROVE  HeapOrdered'
  <1> DEFINE h == sift.i
             b == Best(sift.i)
  <1>1. TypeOK' /\ DropsKey /\ sift.loop = "down" /\ h \in Slots /\ h \in Nat
    BY SiftType, EndsDropKey, KeyDropped DEF Sift, SiftDownEnd, TypeOK
  <1>2. Heaped(Slots, Weight, "down", h) /\ Closed(Slots) /\ Weight \in [Slots -> Nat]
    BY <1>1, HeapedIs
  <1>3. ASSUME NEW j \in Slots \ {0}, Parent(j) = h
        PROVE  Weight[h] <= Weight[j]
    <2>1. j \in Children(h)
      <3>1. j > 0
        BY SMT DEF Slots
      <3> QED
        BY <1>1, <1>3, <3>1, ChildrenAre
    <2>2. b \in Children(h) /\ distance[heap[b]] <= distance[heap[j]]
      BY <1>1, <2>1, BestChild
    <2>3. ~(distance[heap[b]] < distance[sift.k])
      BY <2>1 DEF SiftDownEnd, Less
    <2>4. b \in Slots /\ b # h /\ j # h
      BY <1>1, <2>1, <2>2, ChildrenAre DEF Slots
    <2>5. Weight[h] = distance[sift.k] /\ Weight[b] = distance[heap[b]]
          /\ Weight[j] = distance[heap[j]]
      BY <1>1, <2>4 DEF Weight, KeyAt
    <2>6. Weight[h] \in Nat /\ Weight[b] \in Nat /\ Weight[j] \in Nat
      BY <1>1, <1>2, <2>4
    <2> QED
      BY <2>2, <2>3, <2>5, <2>6
  <1>4. Heaped(Slots, Weight, "none", sift'.i)
    BY <1>2, <1>3 DEF Heaped
  <1> QED
    BY <1>1, <1>4, KeyDroppedWeight, HeapedWillBe

-----------------------------------------------------------------------------
(* The invariant *)

IInv == TypeOK /\ PositionsExact /\ HeapOrdered

LEMMA StepInvariant ==
  ASSUME IInv, [Next]_vars
  PROVE  IInv'
  <1> USE DEF IInv
  <1>1. CASE UNCHANGED vars
    <2>1. TypeOK'
      BY <1>1 DEF vars, TypeOK, Slots
    <2>2. PositionsExact'
      BY <1>1 DEF vars, PositionsExact, Slots, KeyAt
    <2>3. Slots' = Slots /\ Weight' = Weight /\ sift' = sift
      BY <1>1 DEF vars, Slots, Weight, KeyAt
    <2>4. HeapOrdered'
      BY <2>1, <2>3, HeapedIs, HeapedWillBe
    <2> QED
      BY <2>1, <2>2, <2>4
  <1>2. ASSUME NEW k \in Key, NEW d \in Distances, Push(k, d)
        PROVE  IInv'
    BY <1>2, PushType, PushExact, PushOrdered
  <1>3. ASSUME NEW k \in Key, NEW d \in Distances, Decrease(k, d)
        PROVE  IInv'
    BY <1>3, DecreaseType, DecreaseExact, DecreaseOrdered
  <1>4. ASSUME NEW k \in Key, NEW d \in Distances, PushOrDecrease(k, d)
        PROVE  IInv'
    BY <1>2, <1>3, <1>4 DEF PushOrDecrease
  <1>5. CASE Pop
    BY <1>5, PopType, PopExact, PopOrdered
  <1>6. CASE Clear
    <2>1. HeapOrdered'
      <3>1. TypeOK' /\ Slots' = {} /\ sift'.loop = "none"
        BY <1>6, ClearKeys
      <3>2. Heaped(Slots', Weight', sift'.loop, sift'.i)
        BY <3>1 DEF Heaped
      <3> QED
        BY <3>1, <3>2, HeapedWillBe
    <2> QED
      BY <1>6, <2>1, ClearKeys, ClearExact
  <1>7. CASE Sift
    <2>1. TypeOK'
      BY <1>7, SiftType
    <2>2. PositionsExact'
      BY <1>7, <2>1, SiftSteps, DropExact, MoveExact
    <2>3. HeapOrdered'
      BY <1>7, SiftUpOrdered, SiftDownOrdered, SiftUpEndOrdered, SiftDownEndOrdered DEF Sift
    <2> QED
      BY <2>1, <2>2, <2>3
  <1> QED
    BY <1>1, <1>2, <1>3, <1>4, <1>5, <1>6, <1>7 DEF Next

\* In any reachable state of indexed_dary_heap, also between two iterations of a
\* sift loop, the types, the position map and the heap order are as they should be.
THEOREM Invariant == Spec => [](TypeOK /\ PositionsExact /\ HeapOrdered)
  <1>1. Init => IInv
    BY InitInvariant DEF IInv
  <1>2. IInv /\ [Next]_vars => IInv'
    BY StepInvariant
  <1>3. IInv => TypeOK /\ PositionsExact /\ HeapOrdered
    BY DEF IInv
  <1> QED
    BY <1>1, <1>2, <1>3, PTL DEF Spec

\* The position map and the array stay inverse to each other.
THEOREM PositionsStayExact == Spec => []PositionsExact
  BY Invariant, PTL

\* The heap order is never broken away from the hole.
THEOREM HeapStaysOrdered == Spec => []HeapOrdered
  BY Invariant, PTL

-----------------------------------------------------------------------------
(* The least key is at the root *)

LEMMA RootIsLeast ==
  ASSUME NEW S, Closed(S), NEW W \in [S -> Nat], NEW h, Heaped(S, W, "none", h)
  PROVE  \A j \in S : 0 \in S /\ W[0] <= W[j]
  <1> DEFINE Bad == {j \in S : ~(0 \in S /\ W[0] <= W[j])}
  <1>1. SUFFICES ASSUME Bad # {}
                 PROVE  FALSE
    OBVIOUS
  <1>2. PICK m \in Bad : \A x \in Bad : m <= x
    <2>1. Bad \subseteq Nat
      BY DEF Closed
    <2> HIDE DEF Bad
    <2> QED
      BY <1>1, <2>1, LeastNatural
  <1>3. m \in S /\ m # 0 /\ W[m] \in Nat
    OBVIOUS
  <1>4. Parent(m) \in S /\ Parent(m) \in Nat /\ m \in Nat /\ Parent(m) < m
    BY <1>3 DEF Closed
  <1>5. Parent(m) \notin Bad
    BY <1>2, <1>4
  <1>6. W[Parent(m)] <= W[m]
    BY <1>3 DEF Heaped
  <1>7. 0 \in S /\ W[0] <= W[Parent(m)] /\ W[0] \in Nat /\ W[Parent(m)] \in Nat
    BY <1>4, <1>5
  <1>8. W[0] <= W[m]
    BY <1>3, <1>6, <1>7
  <1> QED
    BY <1>7, <1>8

LEMMA LeastOnTop ==
  ASSUME IInv, sift.loop = "none"
  PROVE  /\ \A j \in Slots : 0 \in Slots /\ distance[KeyAt(0)] <= distance[KeyAt(j)]
         /\ \A j \in Slots : KeyAt(j) = heap[j]
  <1>1. Heaped(Slots, Weight, "none", sift.i) /\ Closed(Slots) /\ Weight \in [Slots -> Nat]
    BY HeapedIs DEF IInv
  <1>2. \A j \in Slots : 0 \in Slots /\ Weight[0] <= Weight[j]
    BY <1>1, RootIsLeast
  <1> QED
    BY <1>2 DEF Weight, KeyAt

\* Whenever no operation is in progress, top() is a key of least distance.
THEOREM TopStaysLeast == Spec => []TopIsLeast
  <1>1. IInv => TopIsLeast
    BY LeastOnTop DEF TopIsLeast, Idle
  <1>2. Spec => []IInv
    BY Invariant, PTL DEF IInv
  <1> QED
    BY <1>1, <1>2, PTL

-----------------------------------------------------------------------------
(* The heap implements a priority queue *)

Queued == {KeyAt(j) : j \in Slots}

LEMMA QueueSteps ==
  ASSUME IInv, IInv', [Next]_vars
  PROVE  [Queue!Next]_<<Queued, distance>>
  <1> USE DEF IInv
  <1>1. CASE UNCHANGED vars
    BY <1>1 DEF vars, Queued, Slots, KeyAt
  <1>2. ASSUME NEW k \in Key, NEW d \in Distances, Push(k, d)
        PROVE  Queue!Insert(k, d)
    <2> DEFINE n == size
    <2>1. Slots' = Slots \cup {n} /\ \A j \in Slots : KeyAt(j)' = KeyAt(j) /\ KeyAt(j) # k
      BY <1>2, PushKeys
    <2>2. ASSUME NEW j, j = n
          PROVE  KeyAt(j)' = k
      BY <1>2, <2>2, PushKeys
    <2>3. distance' = [distance EXCEPT ![k] = d]
      BY <1>2, PushKeys
    <2>4. Queued' = {KeyAt(j)' : j \in Slots'}
      BY DEF Queued
    <2> HIDE DEF n
    <2>5. Queued' = Queued \cup {k} /\ k \notin Queued
      BY <2>1, <2>2, <2>4 DEF Queued
    <2> QED
      BY <2>3, <2>5 DEF Queue!Insert, Queued
  <1>3. ASSUME NEW k \in Key, NEW d \in Distances, Decrease(k, d)
        PROVE  Queue!Improve(k, d)
    <2>1. Slots' = Slots /\ \A j \in Slots : KeyAt(j)' = KeyAt(j)
      BY <1>3, DecreaseKeys
    <2>2. Queued' = {KeyAt(j)' : j \in Slots'}
      BY DEF Queued
    <2>3. Queued' = Queued /\ k \in Queued
      BY <1>3, <2>1, <2>2, DecreaseKeys DEF Queued
    <2> QED
      BY <1>3, <2>3, DecreaseKeys DEF Queue!Improve, Queued
  <1>4. CASE Pop
    <2> DEFINE n == size - 1
    <2>1. sift.loop = "none" /\ 0 \in Slots /\ distance' = distance
      BY <1>4, PopKeys
    <2>2. Queued' = {KeyAt(j)' : j \in Slots'}
      BY DEF Queued
    <2>3. \A j \in Slots : j # 0 => KeyAt(j) # KeyAt(0)
      BY <2>1 DEF PositionsExact
    <2>4. Queued' = Queued \ {KeyAt(0)}
      <3>1. CASE size = 1
        BY <1>4, <2>2, <3>1, PopKeys DEF Queued
      <3>2. CASE size # 1
        <4>1. /\ 0 \in Slots' /\ n \in Slots /\ n # 0 /\ Slots' = Slots \ {n}
              /\ KeyAt(0)' = KeyAt(n)
              /\ \A j \in Slots' : j # 0 => KeyAt(j)' = KeyAt(j)
          BY <1>4, <3>2, PopKeys
        <4> HIDE DEF n
        <4> QED
          BY <2>1, <2>2, <2>3, <4>1 DEF Queued
      <3> QED
        BY <3>1, <3>2
    <2>5. KeyAt(0) \in Queued /\ \A x \in Queued : distance[KeyAt(0)] <= distance[x]
      BY <2>1, LeastOnTop DEF Queued
    <2> QED
      BY <2>1, <2>4, <2>5 DEF Queue!Next, Queue!TakeLeast, Queued
  <1>5. CASE Clear
    <2>1. Slots' = {} /\ distance' = distance
      BY <1>5, ClearKeys
    <2>2. Queued' = {}
      BY <2>1 DEF Queued
    <2> QED
      BY <2>1, <2>2 DEF Queue!Next, Queue!Empty, Queued
  <1>6. CASE Sift
    <2>1. Queued' = {KeyAt(j)' : j \in Slots'}
      BY DEF Queued
    <2>2. ASSUME NEW c \in Slots, MovesHole(c)
          PROVE  Queued' = Queued /\ distance' = distance
      BY <2>1, <2>2, HoleMoved DEF Queued
    <2>3. CASE DropsKey
      BY <2>1, <2>3, KeyDropped DEF Queued
    <2> QED
      BY <1>6, <2>2, <2>3, SiftSteps
  <1>7. ASSUME NEW k \in Key, NEW d \in Distances,
               Push(k, d) \/ Decrease(k, d) \/ PushOrDecrease(k, d)
        PROVE  Queue!Next
    <2>1. Queue!Insert(k, d) \/ Queue!Improve(k, d)
      BY <1>2, <1>3, <1>7 DEF PushOrDecrease
    <2>2. d \in Queue!Distances
      BY DEF Distances, Queue!Distances
    <2> QED
      BY <2>1, <2>2 DEF Queue!Next
  <1> QED
    BY <1>1, <1>4, <1>5, <1>6, <1>7 DEF Next

\* indexed_dary_heap is a priority queue: whatever the sift loops copy, no key is
\* lost or doubled, and pop removes a key of least distance.
THEOREM Refinement == Spec => ImplementsQueue
  <1>1. Init => Queue!Init
    <2>1. ASSUME Init
          PROVE  Queue!Init
      <3>1. Slots = {} /\ distance \in [Key -> Queue!Distances]
        BY <2>1, SMT DEF Init, Slots, Distances, Queue!Distances
      <3> QED
        BY <3>1 DEF Queue!Init
    <2> QED
      BY <2>1
  <1>2. IInv /\ IInv' /\ [Next]_vars => [Queue!Next]_<<Queued, distance>>
    BY QueueSteps
  <1>3. Spec => []IInv
    BY Invariant, PTL DEF IInv
  <1> QED
    BY <1>1, <1>2, <1>3, PTL DEF Spec, ImplementsQueue, Queue!Spec, Queued

=============================================================================
