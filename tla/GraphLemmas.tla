---------------------------- MODULE GraphLemmas ----------------------------
(***************************************************************************)
(* Facts the proofs of several components need: least elements, iteration  *)
(* of a function, and induction over the naturals in the form of a least   *)
(* counterexample; reachability, and the adjacency lists of the runs; the  *)
(* calls a visitor has received, the orders and layers of searches, and    *)
(* FlattenSeq.                                                             *)
(***************************************************************************)
EXTENDS Digraphs, FiniteSetTheorems, SequenceTheorems, WellFoundedInduction, TLAPS

\* A nonempty set of naturals has a least element.
LEMMA LeastNatural ==
  ASSUME NEW S, S \subseteq Nat, S # {}
  PROVE  \E m \in S : \A x \in S : m <= x
  <1>1. IsWellFoundedOn(OpToRel(<, Nat), Nat)
    BY NatLessThanWellFounded
  <1>2. PICK m \in S : \A x \in S : ~(<<x, m>> \in OpToRel(<, Nat))
    BY <1>1, WFMin
  <1>3. \A x \in S : ~(x < m)
    BY <1>2 DEF OpToRel
  <1> QED
    BY <1>3

\* Induction, for a set instead of a predicate: a set of naturals that contains 0 and
\* the successor of each of its members contains all.
LEMMA InductiveSet ==
  ASSUME NEW S, 0 \in S, \A n \in Nat : n \in S => n + 1 \in S
  PROVE  Nat \subseteq S
  <1> DEFINE Missing == Nat \ S
  <1>1. SUFFICES ASSUME Missing # {} PROVE FALSE
    OBVIOUS
  <1>2. PICK m \in Missing : \A x \in Missing : m <= x
    <2> HIDE DEF Missing
    <2>1. Missing \subseteq Nat
      BY DEF Missing
    <2> QED
      BY <1>1, <2>1, LeastNatural
  <1>3. m \in Nat /\ m # 0
    OBVIOUS
  <1>4. m - 1 \in Nat /\ m - 1 \notin Missing
    BY <1>2, <1>3
  <1>5. (m - 1) + 1 \in S
    BY <1>4
  <1> QED
    BY <1>3, <1>5

LEMMA FiniteImage ==
  ASSUME NEW S, IsFiniteSet(S), NEW f, DOMAIN f = S
  PROVE  IsFiniteSet({f[x] : x \in S})
  <1> DEFINE T == {f[x] : x \in S}
             g == [x \in S |-> f[x]]
  <1>1. g \in Surjection(S, T)
    BY DEF Surjection
  <1> QED
    BY <1>1, FS_Surjection

-----------------------------------------------------------------------------
(* Least elements of finite sets of integers *)

LEMMA MinIs ==
  ASSUME NEW S \in SUBSET Int, NEW m \in S, \A x \in S : m <= x
  PROVE  Min(S) = m
  <1>1. \E x \in S : \A y \in S : x <= y
    OBVIOUS
  <1>2. Min(S) \in S /\ \A y \in S : Min(S) <= y
    BY <1>1 DEF Min
  <1>3. Min(S) \in Int /\ m \in Int /\ Min(S) <= m /\ m <= Min(S)
    BY <1>2
  <1> QED
    BY <1>2, <1>3

LEMMA MinExists ==
  ASSUME NEW S \in SUBSET Int, IsFiniteSet(S), S # {}
  PROVE  \E m \in S : \A x \in S : m <= x
  <1>1. PICK n \in Nat : ExistsSurjection(1..n, S)
    BY FS_NatSurjection
  <1>2. PICK f : f \in Surjection(1..n, S)
    BY <1>1 DEF ExistsSurjection
  <1>3. /\ f \in [1..n -> S]
        /\ \A x \in S : \E i \in 1..n : f[i] = x
        /\ \A i \in 1..n : f[i] \in S
    BY <1>2 DEF Surjection
  <1>4. \A i \in 1..n : f[i] \in Int
    BY <1>3
  <1>5. n > 0
    <2>1. PICK x \in S : TRUE
      OBVIOUS
    <2>2. PICK i \in 1..n : f[i] = x
      BY <1>3, <2>1
    <2> QED
      BY <2>2
  <1> DEFINE Good == {k \in Nat : k + 1 <= n => \E m \in 1..(k + 1) : \A i \in 1..(k + 1) : f[m] <= f[i]}
  <1>6. 0 \in Good
    <2>1. 1 \in 1..1 /\ \A i \in 1..1 : f[1] <= f[i]
      BY <1>4, <1>5
    <2> QED
      BY <2>1
  <1>7. ASSUME NEW k \in Nat, k \in Good PROVE k + 1 \in Good
    <2>1. SUFFICES ASSUME k + 2 <= n
                   PROVE  \E m \in 1..(k + 2) : \A i \in 1..(k + 2) : f[m] <= f[i]
      OBVIOUS
    <2>2. PICK m \in 1..(k + 1) : \A i \in 1..(k + 1) : f[m] <= f[i]
      BY <1>7, <2>1
    <2>3. f[m] \in Int /\ f[k + 2] \in Int
      BY <1>4, <2>1
    <2>4. CASE f[m] <= f[k + 2]
      BY <2>2, <2>4
    <2>5. CASE f[k + 2] < f[m]
      <3>1. ASSUME NEW i \in 1..(k + 1) PROVE f[k + 2] <= f[i]
        <4>1. f[i] \in Int
          BY <1>4, <2>1
        <4> QED
          BY <2>2, <2>3, <2>5, <4>1
      <3>2. \A i \in 1..(k + 2) : f[k + 2] <= f[i]
        BY <2>3, <3>1
      <3> QED
        BY <3>2
    <2> QED
      BY <2>3, <2>4, <2>5
  <1>8. n - 1 \in Good
    <2> HIDE DEF Good
    <2> QED
      BY <1>5, <1>6, <1>7, InductiveSet
  <1>9. PICK m \in 1..n : \A i \in 1..n : f[m] <= f[i]
    BY <1>5, <1>8
  <1>10. ASSUME NEW x \in S PROVE f[m] <= x
    BY <1>3, <1>9
  <1> QED
    BY <1>3, <1>10

LEMMA MinOf ==
  ASSUME NEW S \in SUBSET Int, IsFiniteSet(S), S # {}
  PROVE  Min(S) \in S /\ \A x \in S : Min(S) <= x
  BY MinExists DEF Min

\* The greatest element of a bounded set of naturals.
LEMMA MaxOf ==
  ASSUME NEW n \in Nat, NEW S \in SUBSET (0..n), S # {}
  PROVE  Max(S) \in S /\ \A x \in S : Max(S) >= x
  <1> DEFINE Bounds == {b \in Nat : \A x \in S : x <= b}
  <1>1. n \in Bounds
    OBVIOUS
  <1>2. PICK m \in Bounds : \A b \in Bounds : m <= b
    <2>1. Bounds \subseteq Nat /\ Bounds # {}
      BY <1>1
    <2> HIDE DEF Bounds
    <2> QED
      BY <2>1, LeastNatural
  <1>3. m \in S
    <2>1. SUFFICES ASSUME m \notin S PROVE FALSE
      OBVIOUS
    <2>2. m \in Nat /\ \A x \in S : x \in Nat /\ x <= m - 1
      BY <2>1
    <2>3. m - 1 \in Nat
      <3>1. PICK x \in S : TRUE
        OBVIOUS
      <3>2. x \in Nat /\ x <= m - 1
        BY <2>2
      <3> QED
        BY <2>2, <3>2
    <2>4. m - 1 \in Bounds
      BY <2>2, <2>3
    <2> QED
      BY <1>2, <2>2, <2>4
  <1>4. \E x \in S : \A y \in S : x >= y
    BY <1>3
  <1> QED
    BY <1>4 DEF Max

-----------------------------------------------------------------------------
(* Iteration of a function *)

\* f begins at b, and each value is that of F for the one before.
Repeats(f, b, F) == f[0] = b /\ \A n \in Nat : f[n + 1] = F[f[n]]

LEMMA Iteration ==
  ASSUME NEW T, NEW b \in T, NEW F \in [T -> T]
  PROVE  \E f \in [Nat -> T] : Repeats(f, b, F)
  <1> DEFINE Runs(n) == {g \in [0..n -> T] : g[0] = b /\ \A i \in 0..(n - 1) : g[i + 1] = F[g[i]]}
             Some == {n \in Nat : Runs(n) # {}}
  <1>1. 0 \in Some
    <2>1. [i \in 0..0 |-> b] \in Runs(0)
      OBVIOUS
    <2> QED
      BY <2>1
  <1>2. ASSUME NEW n \in Nat, n \in Some PROVE n + 1 \in Some
    <2>1. PICK g : g \in Runs(n)
      BY <1>2
    <2> DEFINE h == [i \in 0..(n + 1) |-> IF i = n + 1 THEN F[g[n]] ELSE g[i]]
    <2>2. h \in [0..(n + 1) -> T]
      BY <2>1
    <2>3. h[0] = b
      BY <2>1
    <2>4. ASSUME NEW i \in 0..n PROVE h[i + 1] = F[h[i]]
      BY <2>1
    <2>5. (n + 1) - 1 = n
      OBVIOUS
    <2>6. h \in Runs(n + 1)
      BY <2>2, <2>3, <2>4, <2>5
    <2> QED
      BY <2>6
  <1>3. \A n \in Nat : Runs(n) # {}
    <2> HIDE DEF Runs
    <2>1. 0 \in Some /\ \A n \in Nat : n \in Some => n + 1 \in Some
      BY <1>1, <1>2
    <2> HIDE DEF Some
    <2>2. Nat \subseteq Some
      BY <2>1, InductiveSet
    <2> QED
      BY <2>2 DEF Some
  \* Two runs agree where both are defined.
  <1>4. ASSUME NEW m \in Nat, NEW n \in Nat, m <= n, NEW g \in Runs(m), NEW h \in Runs(n)
        PROVE  \A i \in 0..m : g[i] = h[i]
    <2> DEFINE Agree == {i \in Nat : i <= m => g[i] = h[i]}
    <2>1. 0 \in Agree
      OBVIOUS
    <2>2. ASSUME NEW i \in Nat, i \in Agree PROVE i + 1 \in Agree
      <3>1. SUFFICES ASSUME i + 1 <= m PROVE g[i + 1] = h[i + 1]
        OBVIOUS
      <3>2. i \in 0..(m - 1) /\ i \in 0..(n - 1)
        BY <1>4, <3>1
      <3>3. g[i] = h[i]
        BY <2>2, <3>1
      <3> QED
        BY <3>2, <3>3
    <2>3. Nat \subseteq Agree
      <3> HIDE DEF Agree
      <3> QED
        BY <2>1, <2>2, InductiveSet
    <2> QED
      BY <2>3
  <1> DEFINE run == [n \in Nat |-> CHOOSE g : g \in Runs(n)]
             f   == [n \in Nat |-> run[n][n]]
  <1>5. \A n \in Nat : run[n] \in Runs(n)
    <2> HIDE DEF Runs
    <2> QED
      BY <1>3
  <1>6. f \in [Nat -> T]
    <2> HIDE DEF run
    <2> QED
      BY <1>5
  <1>7. f[0] = b
    <2> HIDE DEF run
    <2> QED
      BY <1>5
  <1>8. ASSUME NEW n \in Nat PROVE f[n + 1] = F[f[n]]
    <2> HIDE DEF run
    <2>1. run[n] \in Runs(n) /\ run[n + 1] \in Runs(n + 1)
      BY <1>5
    <2>2. run[n][n] = run[n + 1][n]
      <3> HIDE DEF Runs
      <3>1. \A i \in 0..n : run[n][i] = run[n + 1][i]
        BY <1>4, <2>1
      <3> QED
        BY <3>1
    <2>3. n \in 0..((n + 1) - 1)
      OBVIOUS
    <2>4. run[n + 1][n + 1] = F[run[n + 1][n]]
      BY <2>1, <2>3
    <2> QED
      BY <2>2, <2>4
  <1> HIDE DEF f
  <1>9. Repeats(f, b, F)
    BY <1>7, <1>8 DEF Repeats
  <1> QED
    BY <1>6, <1>9

\* f begins at a, and step[n] gives its value for n + 1 from that for n.
Iterates(f, a, step) == f[0] = a /\ \A n \in Nat : f[n + 1] = step[n][f[n]]

\* The same when the step depends on how many were made.
LEMMA IndexedIteration ==
  ASSUME NEW S, NEW a \in S, NEW step \in [Nat -> [S -> S]]
  PROVE  \E f \in [Nat -> S] : Iterates(f, a, step)
  <1> DEFINE P == Nat \X S
             c == <<0, a>>
             G == [p \in P |-> <<p[1] + 1, step[p[1]][p[2]]>>]
  <1>1. c \in P
    OBVIOUS
  <1>2. G \in [P -> P]
    OBVIOUS
  <1>3. PICK h \in [Nat -> P] : h[0] = c /\ \A n \in Nat : h[n + 1] = G[h[n]]
    <2> HIDE DEF P, c, G
    <2>1. \E h \in [Nat -> P] : Repeats(h, c, G)
      BY <1>1, <1>2, Iteration
    <2> QED
      BY <2>1 DEF Repeats
  <1>4. \A n \in Nat : /\ h[n] \in P
                       /\ h[n + 1] = <<h[n][1] + 1, step[h[n][1]][h[n][2]]>>
    BY <1>3
  <1> DEFINE Counts == {n \in Nat : h[n][1] = n}
             f == [n \in Nat |-> h[n][2]]
  <1>5. 0 \in Counts
    BY <1>3
  <1>6. \A n \in Nat : n \in Counts => n + 1 \in Counts
    BY <1>4
  <1>7. Nat \subseteq Counts
    <2> HIDE DEF Counts
    <2> QED
      BY <1>5, <1>6, InductiveSet
  <1>8. \A n \in Nat : h[n][1] = n
    BY <1>7
  <1>9. f \in [Nat -> S] /\ f[0] = a
    BY <1>3, <1>4
  <1>10. \A n \in Nat : f[n + 1] = step[n][f[n]]
    BY <1>4, <1>8
  <1>11. Iterates(f, a, step)
    BY <1>9, <1>10 DEF Iterates
  <1> QED
    BY <1>9, <1>11

\* f takes k steps from a.
IteratesTo(f, a, step, k) == f[0] = a /\ \A i \in 1..k : f[i] = step[f[i - 1]]

\* The iteration up to k.
LEMMA BoundedIteration ==
  ASSUME NEW S, NEW a \in S, NEW step \in [S -> S], NEW k \in Nat
  PROVE  \E f \in [0..k -> S] : IteratesTo(f, a, step, k)
  <1>1. PICK h \in [Nat -> S] : h[0] = a /\ \A n \in Nat : h[n + 1] = step[h[n]]
    BY Iteration DEF Repeats
  <1> DEFINE f == [i \in 0..k |-> h[i]]
  <1>2. f \in [0..k -> S] /\ f[0] = a
    BY <1>1
  <1>3. ASSUME NEW i \in 1..k PROVE f[i] = step[f[i - 1]]
    <2>1. i \in 0..k /\ i - 1 \in 0..k /\ i - 1 \in Nat /\ (i - 1) + 1 = i
      OBVIOUS
    <2>2. h[i] = step[h[i - 1]]
      BY <1>1, <2>1
    <2> QED
      BY <2>1, <2>2
  <1>4. IteratesTo(f, a, step, k)
    BY <1>2, <1>3 DEF IteratesTo
  <1> QED
    BY <1>2, <1>4

-----------------------------------------------------------------------------
(* Reachability *)

\* No edge within V leaves S.
ClosedWithin(V, succ, S) == \A v \in S : V \cap succ[v] \subseteq S

\* R is the least closed set that contains u.
LeastClosed(V, succ, u, R) ==
  /\ R \subseteq V
  /\ u \in R
  /\ ClosedWithin(V, succ, R)
  /\ \A S \in SUBSET V : u \in S /\ ClosedWithin(V, succ, S) => R \subseteq S

\* One round of ReachedWithin.
Wider(V, succ, A) == A \cup (V \cap UNION {succ[v] : v \in A})

LEMMA WiderClosed ==
  ASSUME NEW V, NEW succ, NEW A \in SUBSET V
  PROVE  /\ Wider(V, succ, A) \in SUBSET V
         /\ A \subseteq Wider(V, succ, A)
         /\ ClosedWithin(V, succ, A) <=> Wider(V, succ, A) = A
         /\ \A S \in SUBSET V : A \subseteq S /\ ClosedWithin(V, succ, S) => Wider(V, succ, A) \subseteq S
  <1>1. Wider(V, succ, A) \in SUBSET V /\ A \subseteq Wider(V, succ, A)
    BY DEF Wider
  <1>2. \A v \in A : V \cap succ[v] \subseteq Wider(V, succ, A)
    BY DEF Wider
  <1>3. \A S : A \subseteq S /\ ClosedWithin(V, succ, S) => Wider(V, succ, A) \subseteq S
    BY DEF Wider, ClosedWithin
  <1> QED
    BY <1>1, <1>2, <1>3 DEF Wider, ClosedWithin

\* The rounds of ReachedWithin, as the recursion defines them.
Rounds(V, succ, u) ==
  CHOOSE steps : steps = [k \in Nat |-> IF k = 0 THEN {u} ELSE Wider(V, succ, steps[k - 1])]

LEMMA RoundsUnfold ==
  ASSUME NEW V, NEW succ, NEW u \in V
  PROVE  /\ Rounds(V, succ, u)[0] = {u}
         /\ \A k \in Nat : Rounds(V, succ, u)[k + 1] = Wider(V, succ, Rounds(V, succ, u)[k])
         /\ Rounds(V, succ, u) \in [Nat -> SUBSET V]
  <1> DEFINE T == SUBSET V
             b == {u}
             F == [A \in T |-> Wider(V, succ, A)]
             R == Rounds(V, succ, u)
  <1>1. b \in T /\ F \in [T -> T]
    BY WiderClosed
  <1>2. PICK f \in [Nat -> SUBSET V] : f[0] = {u} /\ \A n \in Nat : f[n + 1] = F[f[n]]
    <2>1. \E f \in [Nat -> T] : Repeats(f, b, F)
      <3> HIDE DEF T, b, F
      <3> QED
        BY <1>1, Iteration
    <2> QED
      BY <2>1 DEF Repeats
  <1>3. ASSUME NEW k \in Nat PROVE f[k] = IF k = 0 THEN {u} ELSE Wider(V, succ, f[k - 1])
    <2>1. CASE k = 0
      BY <1>2, <2>1
    <2>2. CASE k # 0
      <3>1. k - 1 \in Nat /\ (k - 1) + 1 = k
        BY <2>2
      <3>2. f[k] = F[f[k - 1]]
        BY <1>2, <3>1
      <3>3. f[k - 1] \in SUBSET V
        BY <3>1
      <3> QED
        BY <2>2, <3>2, <3>3
    <2> QED
      BY <2>1, <2>2
  <1>4. f = [k \in Nat |-> IF k = 0 THEN {u} ELSE Wider(V, succ, f[k - 1])]
    BY <1>3
  <1>5. R = [k \in Nat |-> IF k = 0 THEN {u} ELSE Wider(V, succ, R[k - 1])]
    BY <1>4 DEF Rounds
  <1> HIDE DEF R
  <1>6. R[0] = {u}
    BY <1>5
  <1>7. \A k \in Nat : R[k + 1] = Wider(V, succ, R[k])
    <2> TAKE k \in Nat
    <2>1. k + 1 \in Nat /\ k + 1 # 0 /\ (k + 1) - 1 = k
      OBVIOUS
    <2>2. R[k + 1] = IF k + 1 = 0 THEN {u} ELSE Wider(V, succ, R[(k + 1) - 1])
      BY <1>5, <2>1
    <2> QED
      BY <2>1, <2>2
  <1>8. \A k \in Nat : R[k] \in SUBSET V
    <2> DEFINE Good == {k \in Nat : R[k] \in SUBSET V}
    <2>1. 0 \in Good
      BY <1>6
    <2>2. \A k \in Nat : k \in Good => k + 1 \in Good
      BY <1>7, WiderClosed
    <2>3. Nat \subseteq Good
      <3> HIDE DEF Good
      <3> QED
        BY <2>1, <2>2, InductiveSet
    <2> QED
      BY <2>3
  <1>9. R \in [Nat -> SUBSET V]
    <2>1. R = [k \in Nat |-> R[k]]
      BY <1>5
    <2> QED
      BY <1>8, <2>1
  <1> QED
    BY <1>6, <1>7, <1>9 DEF R

\* Each round adds a vertex until nothing is left to add; after as many rounds as
\* there are vertices nothing is.
LEMMA RoundsClose ==
  ASSUME NEW V, IsFiniteSet(V), NEW succ, NEW u \in V
  PROVE  ClosedWithin(V, succ, Rounds(V, succ, u)[Cardinality(V)])
  <1> DEFINE R == Rounds(V, succ, u)
             Done(k) == ClosedWithin(V, succ, R[k])
             Grown == {k \in Nat : Done(k) \/ Cardinality(R[k]) >= k + 1}
  <1>1. /\ R[0] = {u}
        /\ \A k \in Nat : R[k + 1] = Wider(V, succ, R[k])
        /\ R \in [Nat -> SUBSET V]
    BY RoundsUnfold
  <1> HIDE DEF R
  <1>2. 0 \in Grown
    <2>1. Cardinality({u}) = 1
      BY FS_Singleton
    <2>2. R[0] = {u}
      BY <1>1
    <2>3. Cardinality(R[0]) >= 0 + 1
      BY <2>1, <2>2
    <2> QED
      BY <2>3
  <1>3. ASSUME NEW k \in Nat, k \in Grown PROVE k + 1 \in Grown
    <2>1. R[k] \in SUBSET V /\ R[k + 1] \in SUBSET V /\ R[k + 1] = Wider(V, succ, R[k])
      BY <1>1
    <2>2. CASE Done(k)
      BY <2>1, <2>2, WiderClosed
    <2>3. CASE ~Done(k)
      <3>1. R[k] \subseteq R[k + 1] /\ R[k] # R[k + 1]
        BY <2>1, <2>3, WiderClosed
      <3>2. IsFiniteSet(R[k + 1])
        BY <2>1, FS_Subset
      <3>3. PICK x : x \in R[k + 1] /\ x \notin R[k]
        BY <3>1
      <3>4. /\ IsFiniteSet(R[k])
            /\ Cardinality(R[k] \cup {x}) = Cardinality(R[k]) + 1
            /\ IsFiniteSet(R[k] \cup {x})
        BY <3>1, <3>2, <3>3, FS_Subset, FS_AddElement
      <3>5. Cardinality(R[k] \cup {x}) <= Cardinality(R[k + 1])
        BY <3>1, <3>2, <3>3, FS_Subset
      <3>6. Cardinality(R[k]) \in Nat /\ Cardinality(R[k + 1]) \in Nat
        BY <3>2, <3>4, FS_CardinalityType
      <3>7. Cardinality(R[k]) >= k + 1
        BY <1>3, <2>3
      <3> QED
        BY <3>4, <3>5, <3>6, <3>7
    <2> QED
      BY <2>2, <2>3
  <1>4. Nat \subseteq Grown
    <2> HIDE DEF Grown
    <2> QED
      BY <1>2, <1>3, InductiveSet
  <1> DEFINE n == Cardinality(V)
  <1>5. n \in Nat /\ R[n] \in SUBSET V
    BY <1>1, FS_CardinalityType
  <1>6. Cardinality(R[n]) <= n /\ Cardinality(R[n]) \in Nat
    BY <1>5, FS_Subset, FS_CardinalityType
  <1>7. n \in Grown
    BY <1>4, <1>5
  <1>8. Done(n)
    BY <1>5, <1>6, <1>7
  <1> QED
    BY <1>8 DEF R

\* ReachedWithin gives what paths lead to: the least closed set.
LEMMA ReachedIsLeast ==
  ASSUME NEW V, IsFiniteSet(V), NEW succ, NEW u \in V
  PROVE  LeastClosed(V, succ, u, ReachedWithin(succ, V, u))
  <1> DEFINE R == Rounds(V, succ, u)
             n == Cardinality(V)
  <1>1. ReachedWithin(succ, V, u) = R[n]
    BY DEF ReachedWithin, Rounds, Wider
  <1>2. /\ R[0] = {u}
        /\ \A k \in Nat : R[k + 1] = Wider(V, succ, R[k])
        /\ R \in [Nat -> SUBSET V]
    BY RoundsUnfold
  <1>3. n \in Nat
    BY FS_CardinalityType
  <1>4. ClosedWithin(V, succ, R[n])
    BY RoundsClose
  <1> HIDE DEF R, n
  <1>5. R[n] \subseteq V
    BY <1>2, <1>3
  <1>6. u \in R[n]
    <2> DEFINE Has == {k \in Nat : u \in R[k]}
    <2>1. 0 \in Has
      BY <1>2
    <2>2. \A k \in Nat : k \in Has => k + 1 \in Has
      BY <1>2, WiderClosed
    <2>3. Nat \subseteq Has
      <3> HIDE DEF Has
      <3> QED
        BY <2>1, <2>2, InductiveSet
    <2> QED
      BY <1>3, <2>3
  <1>7. ASSUME NEW S \in SUBSET V, u \in S, ClosedWithin(V, succ, S) PROVE R[n] \subseteq S
    <2> DEFINE In == {k \in Nat : R[k] \subseteq S}
    <2>1. 0 \in In
      BY <1>2, <1>7
    <2>2. \A k \in Nat : k \in In => k + 1 \in In
      BY <1>2, <1>7, WiderClosed
    <2>3. Nat \subseteq In
      <3> HIDE DEF In
      <3> QED
        BY <2>1, <2>2, InductiveSet
    <2> QED
      BY <1>3, <2>3
  <1>8. LeastClosed(V, succ, u, R[n])
    BY <1>4, <1>5, <1>6, <1>7 DEF LeastClosed
  <1> QED
    BY <1>1, <1>8

\* The vertices reached in the adjacency list g, and the sets its edges do not leave.
ReachedFrom(g, v) == Reached(Successors(g), v)
ClosedIn(g, S)    == \A x \in S : \A i \in 1..Len(g[x]) : g[x][i] \in S

Adjacencies(V) == [V -> Seq(V)]

ReachesOnwards(V, g, v) ==
  /\ ReachedFrom(g, v) \subseteq V
  /\ v \in ReachedFrom(g, v)
  /\ \A w \in ReachedFrom(g, v) : ReachedFrom(g, w) \subseteq ReachedFrom(g, v)
  /\ \A w \in ReachedFrom(g, v) : \A i \in 1..Len(g[w]) : g[w][i] \in ReachedFrom(g, v)
  /\ \A S \in SUBSET V : v \in S /\ ClosedIn(g, S) => ReachedFrom(g, v) \subseteq S

LEMMA SuccessorsOf ==
  ASSUME NEW V, NEW g \in Adjacencies(V)
  PROVE  /\ Successors(g) \in [V -> SUBSET V]
         /\ \A v \in V : /\ g[v] \in Seq(V)
                         /\ Len(g[v]) \in Nat
                         /\ \A i \in 1..Len(g[v]) : g[v][i] \in V
                         /\ Successors(g)[v] = {g[v][i] : i \in 1..Len(g[v])}
  <1>1. \A v \in V : /\ g[v] \in Seq(V)
                     /\ DOMAIN g[v] = 1..Len(g[v])
                     /\ Len(g[v]) \in Nat
                     /\ \A i \in 1..Len(g[v]) : g[v][i] \in V
    <2> TAKE v \in V
    <2>1. g[v] \in Seq(V)
      BY DEF Adjacencies
    <2> QED
      BY <2>1, LenProperties, ElementOfSeq
  <1>2. DOMAIN g = V
    BY DEF Adjacencies
  <1>3. Successors(g) = [v \in V |-> {g[v][i] : i \in DOMAIN g[v]}]
    BY <1>2 DEF Successors
  <1> QED
    BY <1>1, <1>3

\* What the proofs use of reachability: it is reflexive, transitive, follows edges and
\* stays in closed sets.
LEMMA Reachability ==
  ASSUME NEW V, IsFiniteSet(V), NEW g \in Adjacencies(V)
  PROVE  \A v \in V : ReachesOnwards(V, g, v)
  <1> DEFINE succ == Successors(g)
             RF(v) == ReachedFrom(g, v)
  <1>1. /\ succ \in [V -> SUBSET V]
        /\ \A v \in V : succ[v] = {g[v][i] : i \in 1..Len(g[v])}
    BY SuccessorsOf
  <1> HIDE DEF succ
  <1>3. \A S \in SUBSET V : ClosedIn(g, S) <=> ClosedWithin(V, succ, S)
    BY <1>1 DEF ClosedIn, ClosedWithin
  <1>4. \A v \in V : LeastClosed(V, succ, v, RF(v))
    <2> TAKE v \in V
    <2>0. DOMAIN succ = V
      BY <1>1
    <2>1. RF(v) = ReachedWithin(succ, V, v)
      BY <2>0 DEF ReachedFrom, succ, Reached
    <2>2. LeastClosed(V, succ, v, ReachedWithin(succ, V, v))
      BY ReachedIsLeast
    <2> QED
      BY <2>1, <2>2
  <1> SUFFICES ASSUME NEW v \in V PROVE ReachesOnwards(V, g, v)
    OBVIOUS
  <1> HIDE DEF RF
  <1>5. /\ RF(v) \subseteq V
        /\ v \in RF(v)
        /\ ClosedWithin(V, succ, RF(v))
        /\ \A S \in SUBSET V : v \in S /\ ClosedWithin(V, succ, S) => RF(v) \subseteq S
    BY <1>4 DEF LeastClosed
  <1>6. \A w \in RF(v) : RF(w) \subseteq RF(v)
    <2> TAKE w \in RF(v)
    <2>1. \A S \in SUBSET V : w \in S /\ ClosedWithin(V, succ, S) => RF(w) \subseteq S
      BY <1>4, <1>5 DEF LeastClosed
    <2> QED
      BY <1>5, <2>1
  <1>7. \A w \in RF(v) : \A i \in 1..Len(g[w]) : g[w][i] \in RF(v)
    BY <1>3, <1>5 DEF ClosedIn
  <1> QED
    BY <1>3, <1>5, <1>6, <1>7 DEF ReachesOnwards, RF

-----------------------------------------------------------------------------
(* Adjacency lists *)

\* v is in the sequence s.
Listed(s, v) == \E i \in 1..Len(s) : s[i] = v

\* An edge is appended to the list of u.
LEMMA AppendEdge ==
  ASSUME NEW V, NEW a \in Adjacencies(V), NEW u \in V, NEW v \in V
  PROVE  /\ [a EXCEPT ![u] = Append(@, v)] \in Adjacencies(V)
         /\ \A x \in V : \A y : Listed([a EXCEPT ![u] = Append(@, v)][x], y)
                                         <=> Listed(a[x], y) \/ (x = u /\ y = v)
  <1> DEFINE b == [a EXCEPT ![u] = Append(@, v)]
             s == a[u]
  <1>1. s \in Seq(V) /\ DOMAIN a = V
    BY DEF Adjacencies
  <1>2. /\ Append(s, v) \in Seq(V) /\ Len(Append(s, v)) = Len(s) + 1
        /\ \A i \in 1..Len(s) : Append(s, v)[i] = s[i]
        /\ Append(s, v)[Len(s) + 1] = v
        /\ Len(s) \in Nat
    BY <1>1, AppendProperties, LenProperties
  <1>3. b \in Adjacencies(V)
    BY <1>2 DEF Adjacencies
  <1>4. \A x \in V : b[x] = IF x = u THEN Append(s, v) ELSE a[x]
    BY <1>1
  <1>5. \A y : Listed(Append(s, v), y) <=> Listed(s, y) \/ y = v
    <2> TAKE y
    <2>1. ASSUME NEW i \in 1..(Len(s) + 1), Append(s, v)[i] = y PROVE Listed(s, y) \/ y = v
      <3>1. i \in 1..Len(s) \/ i = Len(s) + 1
        BY <1>2
      <3> QED
        BY <1>2, <2>1, <3>1 DEF Listed
    <2>2. ASSUME NEW i \in 1..Len(s), s[i] = y PROVE i \in 1..(Len(s) + 1) /\ Append(s, v)[i] = y
      BY <1>2, <2>2
    <2>3. Len(s) + 1 \in 1..(Len(s) + 1)
      BY <1>2
    <2> QED
      BY <1>2, <2>1, <2>2, <2>3 DEF Listed
  <1>6. \A x \in V : \A y : Listed(b[x], y) <=> Listed(a[x], y) \/ (x = u /\ y = v)
    BY <1>4, <1>5
  <1> QED
    BY <1>3, <1>6

NoEdges(V) == [v \in V |-> <<>>]

LEMMA NoEdgesAre ==
  ASSUME NEW V
  PROVE  NoEdges(V) \in Adjacencies(V) /\ \A v \in V : NoEdges(V)[v] = <<>> /\ Len(NoEdges(V)[v]) = 0
  BY EmptySeq DEF NoEdges, Adjacencies

LEMMA ListsAreAdjacencies ==
  ASSUME NEW V, NEW k \in Nat
  PROVE  AdjacencyLists(V, k) \subseteq Adjacencies(V)
  <1> DEFINE T == SUBSET Adjacencies(V)
             b == {NoEdges(V)}
             Grow(L) == L \cup {[g[1] EXCEPT ![g[2]] = Append(@, g[3])] : g \in L \X V \X V}
             F == [L \in T |-> Grow(L)]
             Eq(f) == f = [i \in 0..k |-> IF i = 0 THEN b ELSE Grow(f[i - 1])]
             D == CHOOSE f : Eq(f)
  <1>1. ASSUME NEW L \in T PROVE Grow(L) \in T
    <2> SUFFICES ASSUME NEW g \in L \X V \X V
                 PROVE  [g[1] EXCEPT ![g[2]] = Append(@, g[3])] \in Adjacencies(V)
      OBVIOUS
    <2> DEFINE a == g[1]
               u == g[2]
               v == g[3]
    <2>1. a \in Adjacencies(V) /\ u \in V /\ v \in V
      OBVIOUS
    <2> HIDE DEF a, u, v
    <2>2. [a EXCEPT ![u] = Append(@, v)] \in Adjacencies(V)
      BY <2>1, AppendEdge
    <2> QED
      BY <2>2 DEF a, u, v
  <1>2. b \in T /\ F \in [T -> T]
    BY <1>1, NoEdgesAre
  <1> HIDE DEF Grow
  <1>3. PICK f : f \in [0..k -> T] /\ f[0] = b /\ \A i \in 1..k : f[i] = F[f[i - 1]]
    <2> HIDE DEF T, b, F
    <2>1. \E f \in [0..k -> T] : IteratesTo(f, b, F, k)
      BY <1>2, BoundedIteration
    <2> QED
      BY <2>1 DEF IteratesTo
  <1>4. Eq(f)
    <2>1. ASSUME NEW i \in 0..k, i # 0 PROVE f[i] = Grow(f[i - 1])
      <3>1. i \in 1..k /\ i - 1 \in 0..k
        BY <2>1
      <3>2. f[i - 1] \in T
        BY <1>3, <3>1
      <3>3. f[i] = F[f[i - 1]]
        BY <1>3, <3>1
      <3> QED
        BY <3>2, <3>3
    <2> HIDE DEF T, b
    <2>2. \A i \in 0..k : f[i] = IF i = 0 THEN b ELSE Grow(f[i - 1])
      BY <1>3, <2>1
    <2> QED
      BY <1>3, <2>2
  <1>5. Eq(D)
    <2> HIDE DEF Eq
    <2> QED
      BY <1>4
  <1> HIDE DEF D
  <1>6. \A i \in 0..k : D[i] = IF i = 0 THEN b ELSE Grow(D[i - 1])
    BY <1>5
  <1> DEFINE Good == {i \in Nat : i <= k => D[i] \in T}
  <1>7. 0 \in Good
    BY <1>2, <1>6
  <1>8. ASSUME NEW i \in Nat, i \in Good PROVE i + 1 \in Good
    <2> HIDE DEF T
    <2> SUFFICES ASSUME i + 1 <= k PROVE D[i + 1] \in T
      OBVIOUS
    <2>1. i + 1 \in 0..k /\ i + 1 # 0 /\ (i + 1) - 1 = i /\ i <= k
      OBVIOUS
    <2>2. D[i] \in T
      BY <1>8, <2>1
    <2>3. D[i + 1] = Grow(D[i])
      BY <1>6, <2>1
    <2> QED
      BY <1>1, <2>2, <2>3
  <1>9. Nat \subseteq Good
    <2> HIDE DEF Good
    <2> QED
      BY <1>7, <1>8, InductiveSet
  <1>10. D[k] \in T
    BY <1>9
  <1>11. AdjacencyLists(V, k) = D[k]
    BY DEF AdjacencyLists, D, Grow, NoEdges
  <1> QED
    BY <1>10, <1>11

\* No two places of s hold the same.
Distinct(s) == \A i, j \in 1..Len(s) : s[i] = s[j] => i = j

\* Discoveries lists the targets that were not seen, each once.
LEMMA DiscoveriesIs ==
  ASSUME NEW V, NEW targets \in Seq(V), NEW seen
  PROVE  /\ Discoveries(targets, seen) \in Seq(V)
         /\ Distinct(Discoveries(targets, seen))
         /\ \A w : Listed(Discoveries(targets, seen), w) <=> w \notin seen /\ Listed(targets, w)
  <1> DEFINE n == Len(targets)
             T == Seq(V)
             b == <<>>
             Next1(s, w) == IF w \in seen \cup ToSet(s) THEN s ELSE Append(s, w)
             F == [k \in Nat |-> [s \in T |-> IF k < n THEN Next1(s, targets[k + 1]) ELSE s]]
             Eq(f) == f = [k \in 0..n |-> IF k = 0 THEN <<>> ELSE Next1(f[k - 1], targets[k])]
             D == CHOOSE f : Eq(f)
             Has(s, w) == \E i \in 1..Len(s) : s[i] = w
  <1>1. n \in Nat /\ \A k \in 1..n : targets[k] \in V
    BY LenProperties, ElementOfSeq
  <1>2. ASSUME NEW s \in T, NEW w \in V
        PROVE  /\ Next1(s, w) \in T
               /\ Distinct(s) => Distinct(Next1(s, w))
               /\ \A x : Has(Next1(s, w), x) <=> Has(s, x) \/ (x = w /\ w \notin seen)
    <2>1. /\ Len(s) \in Nat /\ DOMAIN s = 1..Len(s)
          /\ Append(s, w) \in T /\ Len(Append(s, w)) = Len(s) + 1
          /\ \A i \in 1..Len(s) : Append(s, w)[i] = s[i]
          /\ Append(s, w)[Len(s) + 1] = w
      BY LenProperties, AppendProperties
    <2>2. ToSet(s) = {s[i] : i \in 1..Len(s)}
      BY <2>1 DEF ToSet
    <2>3. w \in ToSet(s) <=> Has(s, w)
      BY <2>2
    <2>4. \A x : Has(Append(s, w), x) <=> Has(s, x) \/ x = w
      <3> TAKE x
      <3>1. ASSUME NEW i \in 1..(Len(s) + 1), Append(s, w)[i] = x PROVE Has(s, x) \/ x = w
        <4>1. i \in 1..Len(s) \/ i = Len(s) + 1
          BY <2>1
        <4> QED
          BY <2>1, <3>1, <4>1
      <3>2. ASSUME NEW i \in 1..Len(s), s[i] = x PROVE i \in 1..(Len(s) + 1) /\ Append(s, w)[i] = x
        BY <2>1, <3>2
      <3>3. Len(s) + 1 \in 1..(Len(s) + 1)
        BY <2>1
      <3> QED
        BY <2>1, <3>1, <3>2, <3>3
    <2>5. ASSUME Distinct(s), ~Has(s, w) PROVE Distinct(Append(s, w))
      <3>1. \A i \in 1..Len(s) : s[i] # w
        BY <2>5
      <3>2. \A i \in 1..(Len(s) + 1) : i \in 1..Len(s) \/ i = Len(s) + 1
        BY <2>1
      <3> QED
        BY <2>1, <2>5, <3>1, <3>2 DEF Distinct
    <2> HIDE DEF Has
    <2> QED
      BY <2>1, <2>3, <2>4, <2>5
  <1> HIDE DEF Next1
  <1>3. b \in T /\ F \in [Nat -> [T -> T]]
    <2>1. ASSUME NEW k \in Nat, NEW s \in T
          PROVE  (IF k < n THEN Next1(s, targets[k + 1]) ELSE s) \in T
      <3>1. k < n => k + 1 \in 1..n
        BY <1>1
      <3> QED
        BY <1>1, <1>2, <3>1
    <2>2. b \in T
      BY EmptySeq
    <2> HIDE DEF T
    <2> QED
      BY <2>1, <2>2
  <1>4. PICK f \in [Nat -> T] : f[0] = b /\ \A k \in Nat : f[k + 1] = F[k][f[k]]
    <2>1. \E f \in [Nat -> T] : Iterates(f, b, F)
      <3> HIDE DEF T, b, F
      <3> QED
        BY <1>3, IndexedIteration
    <2> QED
      BY <2>1 DEF Iterates
  <1>5. Eq([k \in 0..n |-> f[k]])
    <2> DEFINE h == [k \in 0..n |-> f[k]]
    <2>1. ASSUME NEW k \in 0..n PROVE h[k] = IF k = 0 THEN <<>> ELSE Next1(h[k - 1], targets[k])
      <3>1. CASE k = 0
        BY <1>4, <3>1
      <3>2. CASE k # 0
        <4>1. /\ k - 1 \in Nat /\ (k - 1) + 1 = k /\ k - 1 < n
              /\ k - 1 \in 0..n
          BY <1>1, <3>2
        <4>2. f[k] = F[k - 1][f[k - 1]] /\ f[k - 1] \in T
          BY <1>4, <4>1
        <4>3. f[k] = Next1(f[k - 1], targets[k])
          BY <4>1, <4>2
        <4> QED
          BY <3>2, <4>1, <4>3
      <3> QED
        BY <3>1, <3>2
    <2> QED
      BY <2>1
  <1>6. Eq(D)
    BY <1>5
  <1> HIDE DEF D
  <1>7. D[0] = <<>> /\ \A k \in 0..n : k # n => D[k + 1] = Next1(D[k], targets[k + 1])
    <2>1. D = [k \in 0..n |-> IF k = 0 THEN <<>> ELSE Next1(D[k - 1], targets[k])]
      BY <1>6
    <2>2. ASSUME NEW k \in 0..n, k # n PROVE D[k + 1] = Next1(D[k], targets[k + 1])
      <3>1. k + 1 \in 0..n /\ k + 1 # 0 /\ (k + 1) - 1 = k
        BY <1>1, <2>2
      <3>2. D[k + 1] = IF k + 1 = 0 THEN <<>> ELSE Next1(D[(k + 1) - 1], targets[k + 1])
        BY <2>1, <3>1
      <3> QED
        BY <3>1, <3>2
    <2>3. 0 \in 0..n
      BY <1>1
    <2> QED
      BY <2>1, <2>2, <2>3
  <1> DEFINE Right(k) == /\ D[k] \in T
                         /\ Distinct(D[k])
                         /\ \A w : Has(D[k], w) <=> w \notin seen /\ \E i \in 1..k : targets[i] = w
             Good == {k \in Nat : k <= n => Right(k)}
  <1>8. 0 \in Good
    <2>1. \A w : ~ \E i \in 1..0 : targets[i] = w
      OBVIOUS
    <2>2. \A w : ~ Has(<<>>, w)
      <3>1. Len(<<>>) = 0
        BY EmptySeq
      <3> QED
        BY <3>1
    <2>3. D[0] \in T /\ D[0] = <<>>
      BY <1>3, <1>7
    <2>5. Distinct(<<>>)
      <3>1. Len(<<>>) = 0
        BY EmptySeq
      <3> QED
        BY <3>1 DEF Distinct
    <2> HIDE DEF Has, T
    <2>4. Right(0)
      BY <2>1, <2>2, <2>3, <2>5
    <2> QED
      BY <2>4
  <1>9. ASSUME NEW k \in Nat, k \in Good PROVE k + 1 \in Good
    <2> SUFFICES ASSUME k + 1 <= n PROVE Right(k + 1)
      OBVIOUS
    <2>1. k \in 0..n /\ k # n /\ k <= n /\ k + 1 \in 1..n
      BY <1>1
    <2>0. Right(k)
      <3> HIDE DEF Right
      <3> QED
        BY <1>9, <2>1
    <2>2. D[k + 1] = Next1(D[k], targets[k + 1]) /\ targets[k + 1] \in V
      BY <1>1, <1>7, <2>1
    <2>3. D[k] \in T /\ Distinct(D[k]) /\ \A w : Has(D[k], w) <=> w \notin seen /\ \E i \in 1..k : targets[i] = w
      BY <2>0
    <2> HIDE DEF Has, T
    <2>4. /\ D[k + 1] \in T /\ Distinct(D[k + 1])
          /\ \A w : Has(D[k + 1], w) <=> Has(D[k], w) \/ (w = targets[k + 1] /\ targets[k + 1] \notin seen)
      BY <1>2, <2>2, <2>3
    <2>5. \A w : (\E i \in 1..(k + 1) : targets[i] = w) <=> (\E i \in 1..k : targets[i] = w) \/ targets[k + 1] = w
      <3>1. \A i \in 1..(k + 1) : i \in 1..k \/ i = k + 1
        OBVIOUS
      <3>2. k + 1 \in 1..(k + 1) /\ \A i \in 1..k : i \in 1..(k + 1)
        OBVIOUS
      <3> QED
        BY <3>1, <3>2
    <2> QED
      BY <2>3, <2>4, <2>5
  <1>10. Nat \subseteq Good
    <2> HIDE DEF Good
    <2> QED
      BY <1>8, <1>9, InductiveSet
  <1>11. Right(n)
    <2>1. n \in Good
      <3> HIDE DEF Good
      <3> QED
        BY <1>1, <1>10
    <2> HIDE DEF Right
    <2> QED
      BY <1>1, <2>1
  <1>12. Discoveries(targets, seen) = D[n]
    BY DEF Discoveries, D, Next1
  <1> QED
    BY <1>11, <1>12 DEF Listed

-----------------------------------------------------------------------------
(* The calls of a visitor *)

LEMMA TailListed ==
  ASSUME NEW V, NEW s \in Seq(V), s # <<>>
  PROVE  /\ Head(s) \in V /\ Tail(s) \in Seq(V)
         /\ \A w : Listed(s, w) <=> w = Head(s) \/ Listed(Tail(s), w)
  <1>1. /\ Tail(s) \in Seq(V) /\ Len(s) \in Nat /\ Len(s) # 0
        /\ Len(Tail(s)) = Len(s) - 1
        /\ \A i \in 1..(Len(s) - 1) : Tail(s)[i] = s[i + 1]
        /\ Head(s) = s[1]
    BY HeadTailProperties, LenProperties, EmptySeq
  <1>2. PICK n \in Nat \ {0} : n = Len(s)
    BY <1>1
  <1>3. s[1] \in V
    BY <1>1, <1>2, ElementOfSeq
  <1>4. PICK t : t = Tail(s) /\ Len(t) = n - 1 /\ \A i \in 1..(n - 1) : t[i] = s[i + 1]
    BY <1>1, <1>2
  <1>5. ASSUME NEW w, NEW i \in 1..n, s[i] = w PROVE w = s[1] \/ \E j \in 1..(n - 1) : t[j] = w
    <2>1. CASE i = 1
      BY <1>5, <2>1
    <2>2. CASE i # 1
      <3>1. PICK j \in 1..(n - 1) : j + 1 = i
        <4>1. i - 1 \in 1..(n - 1) /\ (i - 1) + 1 = i
          BY <2>2
        <4> QED
          BY <4>1
      <3> QED
        BY <1>4, <1>5, <3>1
    <2> QED
      BY <2>1, <2>2
  <1>6. ASSUME NEW w, NEW j \in 1..(n - 1), t[j] = w PROVE \E i \in 1..n : s[i] = w
    <2>1. j + 1 \in 1..n
      OBVIOUS
    <2> QED
      BY <1>4, <1>6, <2>1
  <1>7. 1 \in 1..n
    OBVIOUS
  <1>8. \A w : Listed(s, w) <=> w = s[1] \/ Listed(t, w)
    BY <1>2, <1>4, <1>5, <1>6, <1>7 DEF Listed
  <1> QED
    BY <1>1, <1>3, <1>4, <1>8

Kept(before, c, event) == IF c.on = event THEN Append(before, c) ELSE before

\* h[k] is the calls of one kind among the first k of s.
Keeps(h, s, n, event) == h[0] = <<>> /\ \A k \in 0..(n - 1) : h[k + 1] = Kept(h[k], s[k + 1], event)

LEMMA KeptIs ==
  ASSUME NEW U, NEW s \in Seq(U), NEW c \in U, NEW event
  PROVE  Kept(s, c, event) \in Seq(U)
  BY AppendProperties DEF Kept

\* There is one such h.
LEMMA KeepsOnce ==
  ASSUME NEW n \in Nat, NEW s, NEW event, NEW g, Keeps(g, s, n, event), NEW h, Keeps(h, s, n, event)
  PROVE  g[n] = h[n]
  <1> DEFINE Same == {k \in Nat : k <= n => g[k] = h[k]}
  <1>1. 0 \in Same
    BY DEF Keeps
  <1>2. ASSUME NEW k \in Nat, k \in Same PROVE k + 1 \in Same
    <2>1. k + 1 <= n => k \in 0..(n - 1) /\ k <= n
      OBVIOUS
    <2> QED
      BY <1>2, <2>1 DEF Keeps
  <1>3. Nat \subseteq Same
    <2> HIDE DEF Same
    <2> QED
      BY <1>1, <1>2, InductiveSet
  <1> QED
    BY <1>3

IsKept(of, s, n, event, U) == \E h \in [0..n -> Seq(U)] : Keeps(h, s, n, event) /\ of = h[n]

LEMMA OfKindKeeps ==
  ASSUME NEW U, NEW s \in Seq(U), NEW event, NEW n, n = Len(s)
  PROVE  IsKept(OfKind(s, event), s, n, event, U)
  <1> DEFINE T == Seq(U)
             b == <<>>
             F == [k \in Nat |-> [x \in T |-> IF k < n THEN Kept(x, s[k + 1], event) ELSE x]]
             Eq(f) == f = [i \in 0..n |-> IF i = 0 THEN <<>> ELSE Kept(f[i - 1], s[i], event)]
             D == CHOOSE f : Eq(f)
  <1>1. n \in Nat /\ \A k \in 1..n : s[k] \in U
    BY LenProperties, ElementOfSeq
  <1>2. b \in T /\ F \in [Nat -> [T -> T]]
    <2>1. ASSUME NEW k \in Nat, NEW x \in T PROVE (IF k < n THEN Kept(x, s[k + 1], event) ELSE x) \in T
      <3>1. k < n => k + 1 \in 1..n
        BY <1>1
      <3> QED
        BY <1>1, <3>1, KeptIs
    <2>2. b \in T
      BY EmptySeq
    <2> HIDE DEF T
    <2> QED
      BY <2>1, <2>2
  <1>3. PICK f \in [Nat -> T] : f[0] = b /\ \A k \in Nat : f[k + 1] = F[k][f[k]]
    <2>1. \E f \in [Nat -> T] : Iterates(f, b, F)
      <3> HIDE DEF T, b, F
      <3> QED
        BY <1>2, IndexedIteration
    <2> QED
      BY <2>1 DEF Iterates
  <1>4. PICK h : h = [i \in 0..n |-> f[i]]
    OBVIOUS
  <1>5. h \in [0..n -> T] /\ Keeps(h, s, n, event)
    <2>1. ASSUME NEW k \in 0..(n - 1) PROVE h[k + 1] = Kept(h[k], s[k + 1], event)
      <3>1. k \in Nat /\ k < n /\ k \in 0..n /\ k + 1 \in 0..n
        BY <1>1
      <3>2. f[k + 1] = F[k][f[k]] /\ f[k] \in T
        BY <1>3, <3>1
      <3>3. f[k + 1] = Kept(f[k], s[k + 1], event)
        BY <3>1, <3>2
      <3> QED
        BY <1>4, <3>1, <3>3
    <2>2. h[0] = <<>>
      BY <1>1, <1>3, <1>4
    <2>3. h \in [0..n -> T]
      <3> HIDE DEF T
      <3> QED
        BY <1>1, <1>3, <1>4
    <2> QED
      BY <2>1, <2>2, <2>3 DEF Keeps
  <1>6. Eq(h)
    <2>1. ASSUME NEW i \in 0..n PROVE h[i] = IF i = 0 THEN <<>> ELSE Kept(h[i - 1], s[i], event)
      <3>1. CASE i = 0
        BY <1>5, <3>1 DEF Keeps
      <3>2. CASE i # 0
        <4>1. i - 1 \in 0..(n - 1) /\ (i - 1) + 1 = i
          BY <1>1, <3>2
        <4>2. h[(i - 1) + 1] = Kept(h[i - 1], s[(i - 1) + 1], event)
          BY <1>5, <4>1 DEF Keeps
        <4> QED
          BY <3>2, <4>1, <4>2
      <3> QED
        BY <3>1, <3>2
    <2> QED
      BY <1>4, <2>1
  <1>7. Eq(D)
    <2> HIDE DEF Eq
    <2> QED
      BY <1>6
  <1> HIDE DEF D
  <1>8. Keeps(D, s, n, event)
    <2>1. D = [i \in 0..n |-> IF i = 0 THEN <<>> ELSE Kept(D[i - 1], s[i], event)]
      BY <1>7
    <2>2. ASSUME NEW k \in 0..(n - 1) PROVE D[k + 1] = Kept(D[k], s[k + 1], event)
      <3>1. k + 1 \in 0..n /\ k + 1 # 0 /\ (k + 1) - 1 = k
        BY <1>1
      <3>2. D[k + 1] = IF k + 1 = 0 THEN <<>> ELSE Kept(D[(k + 1) - 1], s[k + 1], event)
        BY <2>1, <3>1
      <3> QED
        BY <3>1, <3>2
    <2>3. 0 \in 0..n
      BY <1>1
    <2> QED
      BY <2>1, <2>2, <2>3 DEF Keeps
  <1>9. OfKind(s, event) = D[n]
    BY DEF OfKind, D, Kept
  <1> QED
    BY <1>1, <1>5, <1>8, <1>9, KeepsOnce DEF IsKept

\* One call more.
LEMMA OfKindAppend ==
  ASSUME NEW U, NEW s \in Seq(U), NEW c \in U, NEW event
  PROVE  /\ OfKind(s, event) \in Seq(U)
         /\ OfKind(Append(s, c), event) = Kept(OfKind(s, event), c, event)
  <1>1. PICK n \in Nat : n = Len(s)
    BY LenProperties
  <1>2. PICK r : r = Append(s, c)
    OBVIOUS
  <1>3. r \in Seq(U) /\ Len(r) = n + 1 /\ (\A k \in 1..n : r[k] = s[k]) /\ r[n + 1] = c
    BY <1>1, <1>2, AppendProperties
  <1>4. PICK h \in [0..n -> Seq(U)] : Keeps(h, s, n, event) /\ OfKind(s, event) = h[n]
    <2>1. IsKept(OfKind(s, event), s, n, event, U)
      BY <1>1, OfKindKeeps
    <2> QED
      BY <2>1 DEF IsKept
  <1>5. PICK g \in [0..(n + 1) -> Seq(U)] : Keeps(g, r, n + 1, event) /\ OfKind(r, event) = g[n + 1]
    <2>1. IsKept(OfKind(r, event), r, n + 1, event, U)
      BY <1>3, OfKindKeeps
    <2> QED
      BY <2>1 DEF IsKept
  <1>6. Keeps(g, s, n, event)
    <2>1. ASSUME NEW k \in 0..(n - 1) PROVE g[k + 1] = Kept(g[k], s[k + 1], event)
      <3>1. k \in 0..((n + 1) - 1) /\ k + 1 \in 1..n
        OBVIOUS
      <3> QED
        BY <1>3, <1>5, <3>1 DEF Keeps
    <2> QED
      BY <1>5, <2>1 DEF Keeps
  <1>7. g[n] = h[n]
    BY <1>4, <1>6, KeepsOnce
  <1>8. n \in 0..((n + 1) - 1) /\ n \in 0..n
    OBVIOUS
  <1>9. g[n + 1] = Kept(g[n], c, event)
    BY <1>3, <1>5, <1>8 DEF Keeps
  <1> QED
    BY <1>2, <1>4, <1>5, <1>7, <1>8, <1>9

LEMMA OfKindNone ==
  ASSUME NEW event
  PROVE  OfKind(<<>>, event) = <<>>
  <1>1. <<>> \in Seq({}) /\ Len(<<>>) = 0
    BY EmptySeq
  <1>2. IsKept(OfKind(<<>>, event), <<>>, 0, event, {})
    BY <1>1, OfKindKeeps
  <1> QED
    BY <1>2 DEF IsKept, Keeps

VerticesIn(s, event) == [i \in DOMAIN OfKind(s, event) |-> OfKind(s, event)[i].vertex]

\* What r has of a kind of call, if it is s and one call more.
VerticesAfter(r, s, c, event) ==
  VerticesIn(r, event) = IF c.on = event THEN Append(VerticesIn(s, event), c.vertex) ELSE VerticesIn(s, event)

CountAfter(r, s, c, event) ==
  Len(OfKind(r, event)) = IF c.on = event THEN Len(OfKind(s, event)) + 1 ELSE Len(OfKind(s, event))

LEMMA VerticesAppended ==
  ASSUME NEW U, NEW V, \A c \in U : c.vertex \in V, NEW s \in Seq(U), NEW c \in U, NEW r, r = Append(s, c),
         NEW event
  PROVE  VerticesIn(s, event) \in Seq(V) /\ VerticesAfter(r, s, c, event) /\ CountAfter(r, s, c, event)
  <1>1. PICK k : k = OfKind(s, event)
    OBVIOUS
  <1>2. k \in Seq(U) /\ OfKind(r, event) = Kept(k, c, event)
    BY <1>1, OfKindAppend
  <1>3. PICK n \in Nat : n = Len(k)
    BY <1>2, LenProperties
  <1>4. /\ DOMAIN k = 1..n /\ \A i \in 1..n : k[i] \in U
    BY <1>2, <1>3, LenProperties, ElementOfSeq
  <1>5. PICK v : v = VerticesIn(s, event)
    OBVIOUS
  <1>6. v = [i \in 1..n |-> k[i].vertex] /\ v \in [1..n -> V]
    BY <1>1, <1>4, <1>5 DEF VerticesIn
  <1>7. v \in Seq(V) /\ Len(v) = n
    BY <1>6, IsASeq, LenProperties
  <1>8. CASE c.on # event
    <2>1. OfKind(r, event) = k
      BY <1>2, <1>8 DEF Kept
    <2> QED
      BY <1>1, <1>5, <1>7, <1>8, <2>1 DEF VerticesAfter, CountAfter, VerticesIn
  <1>9. CASE c.on = event
    <2>1. PICK q : q = Append(k, c) /\ OfKind(r, event) = q
      BY <1>2, <1>9 DEF Kept
    <2>2. q \in Seq(U) /\ Len(q) = n + 1 /\ (\A i \in 1..n : q[i] = k[i]) /\ q[n + 1] = c
      BY <1>2, <1>3, <2>1, AppendProperties
    <2>3. PICK w : w = VerticesIn(r, event)
      OBVIOUS
    <2>4. DOMAIN q = 1..(n + 1)
      BY <2>2, LenProperties
    <2>5. w = [i \in 1..(n + 1) |-> q[i].vertex]
      BY <2>1, <2>3, <2>4 DEF VerticesIn
    <2>6. PICK x \in V : x = c.vertex
      OBVIOUS
    <2>7. PICK a : a = Append(v, x)
      OBVIOUS
    <2>8. a \in Seq(V) /\ Len(a) = n + 1 /\ (\A i \in 1..n : a[i] = v[i]) /\ a[n + 1] = x
      BY <1>7, <2>7, AppendProperties
    <2>9. \A i \in 1..(n + 1) : i \in 1..n \/ i = n + 1
      OBVIOUS
    <2>10. \A i \in 1..(n + 1) : a[i] = q[i].vertex
      <3> TAKE i \in 1..(n + 1)
      <3>1. CASE i \in 1..n
        BY <1>6, <2>2, <2>8, <3>1
      <3>2. CASE i = n + 1
        BY <2>2, <2>6, <2>8, <3>2
      <3> QED
        BY <2>9, <3>1, <3>2
    <2>11. a = w
      <3>1. a = [i \in 1..(n + 1) |-> a[i]]
        BY <2>8, LenProperties
      <3> QED
        BY <2>5, <2>10, <3>1
    <2>12. CountAfter(r, s, c, event)
      BY <1>1, <1>3, <1>9, <2>1, <2>2 DEF CountAfter
    <2>13. VerticesAfter(r, s, c, event)
      BY <1>5, <1>9, <2>3, <2>6, <2>7, <2>11 DEF VerticesAfter
    <2> QED
      BY <1>5, <1>7, <2>12, <2>13
  <1> QED
    BY <1>8, <1>9

\* Three calls at once.
LEMMA ThreeAppended ==
  ASSUME NEW U, NEW s \in Seq(U), NEW a \in U, NEW b \in U, NEW c \in U
  PROVE  s \o <<a, b, c>> = Append(Append(Append(s, a), b), c)
  <1>1. PICK n \in Nat : n = Len(s)
    BY LenProperties
  <1>2. PICK t : t = <<a, b, c>>
    OBVIOUS
  <1>3. t \in Seq(U) /\ Len(t) = 3 /\ t[1] = a /\ t[2] = b /\ t[3] = c
    BY <1>2
  <1>4. PICK q : q = s \o t
    OBVIOUS
  <1>5. /\ q \in Seq(U) /\ Len(q) = n + 3
        /\ \A i \in 1..(n + 3) : q[i] = IF i <= n THEN s[i] ELSE t[i - n]
    BY <1>1, <1>3, <1>4, ConcatProperties
  <1>6. PICK x : x = Append(s, a)
    OBVIOUS
  <1>7. x \in Seq(U) /\ Len(x) = n + 1 /\ (\A i \in 1..n : x[i] = s[i]) /\ x[n + 1] = a
    BY <1>1, <1>6, AppendProperties
  <1>8. PICK y : y = Append(x, b)
    OBVIOUS
  <1>9. y \in Seq(U) /\ Len(y) = n + 2 /\ (\A i \in 1..(n + 1) : y[i] = x[i]) /\ y[n + 2] = b
    BY <1>7, <1>8, AppendProperties
  <1>10. PICK z : z = Append(y, c)
    OBVIOUS
  <1>11. z \in Seq(U) /\ Len(z) = n + 3 /\ (\A i \in 1..(n + 2) : z[i] = y[i]) /\ z[n + 3] = c
    BY <1>9, <1>10, AppendProperties
  <1>12. \A i \in 1..(n + 3) : q[i] = z[i]
    <2> TAKE i \in 1..(n + 3)
    <2>1. CASE i <= n
      <3>1. i \in 1..n /\ i \in 1..(n + 1) /\ i \in 1..(n + 2)
        BY <2>1
      <3> QED
        BY <1>5, <1>7, <1>9, <1>11, <2>1, <3>1
    <2>2. CASE i = n + 1
      <3>1. ~(i <= n) /\ i - n = 1 /\ i \in 1..(n + 1) /\ i \in 1..(n + 2)
        BY <2>2
      <3> QED
        BY <1>3, <1>5, <1>7, <1>9, <1>11, <2>2, <3>1
    <2>3. CASE i = n + 2
      <3>1. ~(i <= n) /\ i - n = 2 /\ i \in 1..(n + 2)
        BY <2>3
      <3> QED
        BY <1>3, <1>5, <1>9, <1>11, <2>3, <3>1
    <2>4. CASE i = n + 3
      <3>1. ~(i <= n) /\ i - n = 3
        BY <2>4
      <3> QED
        BY <1>3, <1>5, <1>11, <2>4, <3>1
    <2>5. i <= n \/ i = n + 1 \/ i = n + 2 \/ i = n + 3
      OBVIOUS
    <2> QED
      BY <2>1, <2>2, <2>3, <2>4, <2>5
  <1>13. q = z
    <2>1. q = [i \in 1..(n + 3) |-> q[i]] /\ z = [i \in 1..(n + 3) |-> z[i]]
      BY <1>5, <1>11, LenProperties
    <2> QED
      BY <1>12, <2>1
  <1> QED
    BY <1>2, <1>4, <1>6, <1>8, <1>10, <1>13

-----------------------------------------------------------------------------
(* Stacks, queues and orders of a search *)

\* r is d with t appended.
HasAppended(r, d, t, U) ==
  /\ r \in Seq(U) /\ Len(d) \in Nat /\ Len(r) = Len(d) + 1
  /\ (\A i \in 1..Len(d) : r[i] = d[i] /\ i \in 1..Len(r)) /\ r[Len(d) + 1] = t
  /\ \A i \in 1..Len(r) : i \in 1..Len(d) \/ i = Len(d) + 1
  /\ \A w : Listed(r, w) <=> Listed(d, w) \/ w = t
  /\ Distinct(d) /\ ~Listed(d, t) => Distinct(r)

LEMMA AppendListed ==
  ASSUME NEW U, NEW d \in Seq(U), NEW t \in U, NEW r, r = Append(d, t)
  PROVE  HasAppended(r, d, t, U)
  <1>1. PICK n \in Nat : n = Len(d)
    BY LenProperties
  <1>2. r \in Seq(U) /\ Len(r) = n + 1 /\ (\A i \in 1..n : r[i] = d[i]) /\ r[n + 1] = t
    BY <1>1, AppendProperties
  <1>3. /\ \A i \in 1..(n + 1) : i \in 1..n \/ i = n + 1
        /\ \A i \in 1..n : i \in 1..(n + 1)
        /\ n + 1 \in 1..(n + 1)
    OBVIOUS
  <1>4. \A w : Listed(r, w) <=> Listed(d, w) \/ w = t
    <2> TAKE w
    <2>1. ASSUME NEW i \in 1..(n + 1), r[i] = w PROVE (\E j \in 1..n : d[j] = w) \/ w = t
      <3>1. CASE i \in 1..n
        BY <1>2, <2>1, <3>1
      <3> QED
        BY <1>2, <1>3, <2>1, <3>1
    <2>2. ASSUME NEW i \in 1..n, d[i] = w PROVE \E j \in 1..(n + 1) : r[j] = w
      BY <1>2, <1>3, <2>2
    <2>3. \E j \in 1..(n + 1) : r[j] = t
      BY <1>2, <1>3
    <2> QED
      BY <1>1, <1>2, <2>1, <2>2, <2>3 DEF Listed
  <1>5. ASSUME Distinct(d), ~Listed(d, t) PROVE Distinct(r)
    <2>1. \A i, j \in 1..n : d[i] = d[j] => i = j
      BY <1>1, <1>5 DEF Distinct
    <2>2. \A i \in 1..n : d[i] # t
      BY <1>1, <1>5 DEF Listed
    <2> SUFFICES ASSUME NEW i \in 1..(n + 1), NEW j \in 1..(n + 1), r[i] = r[j] PROVE i = j
      BY <1>2 DEF Distinct
    <2>3. CASE i \in 1..n /\ j \in 1..n
      BY <1>2, <2>1, <2>3
    <2>4. CASE i = n + 1 /\ j \in 1..n
      BY <1>2, <2>2, <2>4
    <2>5. CASE i \in 1..n /\ j = n + 1
      BY <1>2, <2>2, <2>5
    <2> QED
      BY <1>3, <2>3, <2>4, <2>5
  <1> QED
    BY <1>1, <1>2, <1>3, <1>4, <1>5 DEF HasAppended

\* Each edge of X leads to a vertex that finished earlier, or from the stack to a finished
\* one or to the next entry.
OrderedBy(X, s, f) ==
  \A e \in X :
    \/ \E j \in 1..Len(f) : f[j] = e[1] /\ \E i \in 1..(j - 1) : f[i] = e[2]
    \/ \E k \in 1..Len(s) : /\ s[k].vertex = e[1]
                            /\ Listed(f, e[2]) \/ (k < Len(s) /\ s[k + 1].vertex = e[2])

\* r has the same vertices as s.
SameVertices(r, s) == Len(r) = Len(s) /\ \A i \in 1..Len(s) : r[i].vertex = s[i].vertex

LEMMA SameOrder ==
  ASSUME NEW s, Len(s) \in Nat, NEW r, SameVertices(r, s), NEW f, NEW X, OrderedBy(X, s, f)
  PROVE  OrderedBy(X, r, f)
  <1>1. \A k \in 1..Len(s) : k < Len(s) => k + 1 \in 1..Len(s)
    OBVIOUS
  <1> SUFFICES ASSUME NEW e \in X, NEW k \in 1..Len(s), s[k].vertex = e[1],
                      Listed(f, e[2]) \/ (k < Len(s) /\ s[k + 1].vertex = e[2])
               PROVE  /\ r[k].vertex = e[1]
                      /\ Listed(f, e[2]) \/ (k < Len(s) /\ r[k + 1].vertex = e[2])
    BY DEF SameVertices, OrderedBy
  <1> QED
    BY <1>1 DEF SameVertices

GrownBy(r, s, t)  == /\ Len(r) = Len(s) + 1 /\ r[Len(s) + 1].vertex = t
                     /\ \A i \in 1..Len(s) : r[i].vertex = s[i].vertex

LEMMA OrderGrows ==
  ASSUME NEW s, NEW n \in Nat \ {0}, n = Len(s), NEW u, u = s[n].vertex, NEW t, NEW r, GrownBy(r, s, t),
         NEW f, NEW X, OrderedBy(X, s, f)
  PROVE  OrderedBy(X \cup {<<u, t>>}, r, f)
  <1>1. \A k \in 1..n : /\ k \in 1..(n + 1) /\ k < n + 1 /\ r[k].vertex = s[k].vertex
                        /\ k < n => k + 1 \in 1..n /\ r[k + 1].vertex = s[k + 1].vertex
    BY DEF GrownBy
  <1>2. n \in 1..n /\ r[n + 1].vertex = t /\ Len(r) = n + 1
    BY DEF GrownBy
  <1> SUFFICES ASSUME NEW e \in X \cup {<<u, t>>}, ~ \E j \in 1..Len(f) : f[j] = e[1] /\ \E i \in 1..(j - 1) : f[i] = e[2]
               PROVE  \E k \in 1..(n + 1) : /\ r[k].vertex = e[1]
                                            /\ Listed(f, e[2]) \/ (k < n + 1 /\ r[k + 1].vertex = e[2])
    BY <1>2 DEF OrderedBy
  <1>3. CASE e = <<u, t>>
    BY <1>1, <1>2, <1>3
  <1>4. CASE e \in X
    <2>1. PICK k \in 1..n : /\ s[k].vertex = e[1]
                            /\ Listed(f, e[2]) \/ (k < n /\ s[k + 1].vertex = e[2])
      BY <1>4 DEF OrderedBy
    <2> QED
      BY <1>1, <2>1
  <1> QED
    BY <1>3, <1>4

LEMMA OrderPassed ==
  ASSUME NEW s, NEW n \in Nat \ {0}, n = Len(s), NEW u, u = s[n].vertex, NEW f, NEW t, Listed(f, t),
         NEW X, OrderedBy(X, s, f)
  PROVE  OrderedBy(X \cup {<<u, t>>}, s, f)
  <1> SUFFICES ASSUME NEW e, e = <<u, t>>
               PROVE  \E k \in 1..n : s[k].vertex = e[1] /\ Listed(f, e[2])
    BY DEF OrderedBy
  <1>1. n \in 1..n
    OBVIOUS
  <1> QED
    BY <1>1

\* The vertices of d are in the order of a depth-first search of the graph with these successors.
Depthwise(succ, d) ==
  /\ Distinct(d)
  /\ \A b \in 2..Len(d) : \E c \in 1..(b - 1) : d[b] \in succ[d[c]]
  /\ \A a, b \in 1..Len(d) : \A w \in succ[d[a]] :
       a < b /\ (\A i \in 1..b : d[i] # w) => \E c \in a..(b - 1) : d[b] \in succ[d[c]]

\* The entries of s are in the order of c.
Nested(s, c) ==
  \A k, l \in 1..Len(s) : \A i, j \in 1..Len(c) :
    k < l /\ c[i] = s[k].vertex /\ c[j] = s[l].vertex => i < j

\* r is the lower part of s.
LowerPart(r, s) == Len(r) \in Nat /\ Len(s) \in Nat /\ Len(r) <= Len(s) /\ \A i \in 1..Len(r) : r[i].vertex = s[i].vertex

LEMMA NestedBelow ==
  ASSUME NEW s, NEW r, LowerPart(r, s), NEW c, Nested(s, c)
  PROVE  Nested(r, c)
  <1> SUFFICES ASSUME NEW k \in 1..Len(r), NEW l \in 1..Len(r), NEW i \in 1..Len(c), NEW j \in 1..Len(c),
                      k < l, c[i] = r[k].vertex, c[j] = r[l].vertex
               PROVE  i < j
    BY DEF Nested
  <1>1. k \in 1..Len(s) /\ l \in 1..Len(s)
    BY DEF LowerPart
  <1>2. r[k].vertex = s[k].vertex /\ r[l].vertex = s[l].vertex
    BY DEF LowerPart
  <1> QED
    BY <1>1, <1>2 DEF Nested

LEMMA QueueAfter ==
  ASSUME NEW T, NEW q \in Seq(T), q # <<>>, NEW r \in Seq(T)
  PROVE  /\ Tail(q) \o r \in Seq(T)
         /\ Len(q) \in Nat \ {0} /\ Len(r) \in Nat
         /\ Len(Tail(q) \o r) = Len(q) - 1 + Len(r)
         /\ \A i \in 1..(Len(q) - 1) : (Tail(q) \o r)[i] = q[i + 1]
         /\ \A i \in 1..Len(r) : (Tail(q) \o r)[Len(q) - 1 + i] = r[i]
  <1>1. /\ Tail(q) \in Seq(T) /\ Len(q) \in Nat /\ Len(q) # 0 /\ Len(r) \in Nat
        /\ Len(Tail(q)) = Len(q) - 1
        /\ \A i \in 1..(Len(q) - 1) : Tail(q)[i] = q[i + 1]
    BY HeadTailProperties, LenProperties, EmptySeq
  <1>2. /\ Tail(q) \o r \in Seq(T) /\ Len(Tail(q) \o r) = Len(Tail(q)) + Len(r)
        /\ \A i \in 1..(Len(Tail(q)) + Len(r)) :
             (Tail(q) \o r)[i] = IF i <= Len(Tail(q)) THEN Tail(q)[i] ELSE r[i - Len(Tail(q))]
    BY <1>1, ConcatProperties
  <1>3. \A i \in 1..(Len(q) - 1) : (Tail(q) \o r)[i] = q[i + 1]
    BY <1>1, <1>2
  <1>4. ASSUME NEW i \in 1..Len(r) PROVE (Tail(q) \o r)[Len(q) - 1 + i] = r[i]
    <2>1. Len(q) - 1 + i \in 1..(Len(Tail(q)) + Len(r)) /\ ~(Len(q) - 1 + i <= Len(Tail(q)))
          /\ (Len(q) - 1 + i) - Len(Tail(q)) = i
      BY <1>1
    <2> QED
      BY <1>2, <2>1
  <1> QED
    BY <1>1, <1>2, <1>3, <1>4

IsCut(r, q, n, k, a, b) == r = <<a>> \o SubSeq(q, k + 1, n) \o <<b>>

\* r has the entries of q from k on, but a instead of the k-th, and then b.
CutInto(r, T, q, n, k, a, b) == /\ r \in Seq(T) /\ Len(r) = n - k + 2
                                /\ r[1] = a /\ r[n - k + 2] = b
                                /\ \A j \in 2..(n - k + 1) : r[j] = q[j + k - 1]

\* The queue without its first k - 1 entries, with another first entry and one at the end.
LEMMA CutQueue ==
  ASSUME NEW T, NEW q \in Seq(T), NEW n \in Nat, n = Len(q), NEW k \in 1..n, NEW a \in T, NEW b \in T
  PROVE  \A r : IsCut(r, q, n, k, a, b) => CutInto(r, T, q, n, k, a, b)
  <1>0. PICK l \in Nat : l = n - k
    <2>1. n - k \in Nat
      OBVIOUS
    <2> QED
      BY <2>1
  <1>1. PICK m : m = SubSeq(q, k + 1, n)
    OBVIOUS
  <1>2. m \in Seq(T) /\ Len(m) = l /\ \A i \in 1..l : m[i] = q[k + i]
    <2>1. \A i \in (k + 1)..n : q[i] \in T
      BY ElementOfSeq
    <2>2. /\ m \in Seq(T) /\ Len(m) = IF k + 1 <= n THEN n - (k + 1) + 1 ELSE 0
          /\ \A i \in 1..(n - (k + 1) + 1) : m[i] = q[(k + 1) + i - 1]
      BY <1>1, <2>1, SubSeqProperties
    <2>3. Len(m) = l
      BY <1>0, <2>2
    <2>4. ASSUME NEW i \in 1..l PROVE m[i] = q[k + i]
      <3>1. i \in 1..(n - (k + 1) + 1) /\ (k + 1) + i - 1 = k + i
        BY <1>0
      <3>2. m[i] = q[(k + 1) + i - 1]
        BY <2>2, <3>1
      <3> QED
        BY <3>1, <3>2
    <2> QED
      BY <2>2, <2>3, <2>4
  <1>3. <<a>> \in Seq(T) /\ Len(<<a>>) = 1 /\ <<a>>[1] = a /\ <<b>> \in Seq(T) /\ Len(<<b>>) = 1 /\ <<b>>[1] = b
    OBVIOUS
  <1>4. PICK s : s = <<a>> \o m
    OBVIOUS
  <1>5. /\ s \in Seq(T) /\ Len(s) = 1 + l
        /\ \A i \in 1..(1 + l) : s[i] = IF i <= 1 THEN <<a>>[i] ELSE m[i - 1]
    <2>1. /\ s \in Seq(T) /\ Len(s) = Len(<<a>>) + Len(m)
          /\ \A i \in 1..(Len(<<a>>) + Len(m)) : s[i] = IF i <= Len(<<a>>) THEN <<a>>[i] ELSE m[i - Len(<<a>>)]
      BY <1>2, <1>3, <1>4, ConcatProperties
    <2> QED
      BY <1>2, <1>3, <2>1
  <1>6. SUFFICES ASSUME NEW r, r = s \o <<b>>
                 PROVE  /\ r \in Seq(T) /\ Len(r) = n - k + 2
                        /\ r[1] = a /\ r[n - k + 2] = b
                        /\ \A j \in 2..(n - k + 1) : r[j] = q[j + k - 1]
    BY <1>1, <1>4 DEF IsCut, CutInto
  <1>7. /\ r \in Seq(T) /\ Len(r) = (1 + l) + 1
        /\ \A i \in 1..((1 + l) + 1) : r[i] = IF i <= 1 + l THEN s[i] ELSE <<b>>[i - (1 + l)]
    <2>1. /\ r \in Seq(T) /\ Len(r) = Len(s) + Len(<<b>>)
          /\ \A i \in 1..(Len(s) + Len(<<b>>)) : r[i] = IF i <= Len(s) THEN s[i] ELSE <<b>>[i - Len(s)]
      BY <1>3, <1>5, <1>6, ConcatProperties
    <2> QED
      BY <1>3, <1>5, <2>1
  <1>8. r[1] = a
    <2>1. 1 \in 1..((1 + l) + 1) /\ 1 <= 1 + l /\ 1 \in 1..(1 + l)
      OBVIOUS
    <2>2. r[1] = s[1]
      BY <1>7, <2>1
    <2>3. s[1] = <<a>>[1]
      BY <1>5, <2>1
    <2> QED
      BY <1>3, <2>2, <2>3
  <1>9. r[l + 2] = b
    <2>1. l + 2 \in 1..((1 + l) + 1) /\ ~(l + 2 <= 1 + l) /\ (l + 2) - (1 + l) = 1
      OBVIOUS
    <2> QED
      BY <1>3, <1>7, <2>1
  <1>10. ASSUME NEW j \in 2..(l + 1) PROVE r[j] = q[j + k - 1]
    <2>1. j \in 1..((1 + l) + 1) /\ j <= 1 + l /\ j \in 1..(1 + l) /\ ~(j <= 1) /\ j - 1 \in 1..l /\ k + (j - 1) = j + k - 1
      OBVIOUS
    <2>2. r[j] = s[j] /\ s[j] = m[j - 1] /\ m[j - 1] = q[k + (j - 1)]
      BY <1>2, <1>5, <1>7, <2>1
    <2> QED
      BY <2>1, <2>2
  <1>11. l + 2 = n - k + 2 /\ l + 1 = n - k + 1
    BY <1>0
  <1> QED
    BY <1>7, <1>8, <1>9, <1>10, <1>11

\* r has the entries of q below the k-th, then a and b.
TopsOff(r, T, q, k, a, b) == /\ r \in Seq(T) /\ Len(r) = k + 1 /\ r[k] = a /\ r[k + 1] = b
                             /\ \A j \in 1..(k - 1) : r[j] = q[j]

LEMMA TopOff ==
  ASSUME NEW T, NEW q \in Seq(T), NEW n \in Nat, n = Len(q), NEW k \in 1..n, NEW a \in T, NEW b \in T
  PROVE  \A r : r = SubSeq(q, 1, k - 1) \o <<a, b>> => TopsOff(r, T, q, k, a, b)
  <1>1. PICK m : m = SubSeq(q, 1, k - 1)
    OBVIOUS
  <1>2. m \in Seq(T) /\ Len(m) = k - 1 /\ \A i \in 1..(k - 1) : m[i] = q[i]
    <2>1. \A i \in 1..(k - 1) : q[i] \in T
      BY ElementOfSeq
    <2>2. /\ m \in Seq(T) /\ Len(m) = IF 1 <= k - 1 THEN (k - 1) - 1 + 1 ELSE 0
          /\ \A i \in 1..((k - 1) - 1 + 1) : m[i] = q[1 + i - 1]
      BY <1>1, <2>1, SubSeqProperties
    <2>3. (k - 1) - 1 + 1 = k - 1 /\ \A i \in 1..(k - 1) : 1 + i - 1 = i
      OBVIOUS
    <2> QED
      BY <2>2, <2>3
  <1>3. <<a, b>> \in Seq(T) /\ Len(<<a, b>>) = 2 /\ <<a, b>>[1] = a /\ <<a, b>>[2] = b
    OBVIOUS
  <1>4. SUFFICES ASSUME NEW r, r = m \o <<a, b>> PROVE TopsOff(r, T, q, k, a, b)
    BY <1>1
  <1>5. /\ r \in Seq(T) /\ Len(r) = (k - 1) + 2
        /\ \A i \in 1..((k - 1) + 2) : r[i] = IF i <= k - 1 THEN m[i] ELSE <<a, b>>[i - (k - 1)]
    <2>1. /\ r \in Seq(T) /\ Len(r) = Len(m) + Len(<<a, b>>)
          /\ \A i \in 1..(Len(m) + Len(<<a, b>>)) : r[i] = IF i <= Len(m) THEN m[i] ELSE <<a, b>>[i - Len(m)]
      BY <1>2, <1>3, <1>4, ConcatProperties
    <2> QED
      BY <1>2, <1>3, <2>1
  <1>6. r[k] = a
    <2>1. k \in 1..((k - 1) + 2) /\ ~(k <= k - 1) /\ k - (k - 1) = 1
      OBVIOUS
    <2> QED
      BY <1>3, <1>5, <2>1
  <1>7. r[k + 1] = b
    <2>1. k + 1 \in 1..((k - 1) + 2) /\ ~(k + 1 <= k - 1) /\ (k + 1) - (k - 1) = 2
      OBVIOUS
    <2> QED
      BY <1>3, <1>5, <2>1
  <1>8. ASSUME NEW j \in 1..(k - 1) PROVE r[j] = q[j]
    <2>1. j \in 1..((k - 1) + 2) /\ j <= k - 1
      OBVIOUS
    <2>2. r[j] = m[j]
      BY <1>5, <2>1
    <2> QED
      BY <1>2, <2>2
  <1>9. (k - 1) + 2 = k + 1
    OBVIOUS
  <1> QED
    BY <1>5, <1>6, <1>7, <1>8, <1>9 DEF TopsOff

LEMMA Extremes ==
  /\ \A S : S \subseteq Nat /\ S # {} =>
       /\ (CHOOSE i \in S : \A j \in S : i <= j) \in S
       /\ \A j \in S : (CHOOSE i \in S : \A m \in S : i <= m) <= j
  /\ \A n \in Nat : \A S \in SUBSET (0..n) : S # {} =>
       /\ (CHOOSE i \in S : \A j \in S : j <= i) \in S
       /\ \A j \in S : j <= (CHOOSE i \in S : \A m \in S : m <= i)
  <1>1. ASSUME NEW S, S \subseteq Nat, S # {}
        PROVE  /\ (CHOOSE i \in S : \A j \in S : i <= j) \in S
               /\ \A j \in S : (CHOOSE i \in S : \A m \in S : i <= m) <= j
    <2>1. \E m \in S : \A x \in S : m <= x
      BY <1>1, LeastNatural
    <2> QED
      BY <2>1
  <1>2. ASSUME NEW n \in Nat, NEW S \in SUBSET (0..n), S # {}
        PROVE  /\ (CHOOSE i \in S : \A j \in S : j <= i) \in S
               /\ \A j \in S : j <= (CHOOSE i \in S : \A m \in S : m <= i)
    <2>1. Max(S) \in S /\ \A x \in S : Max(S) >= x
      BY <1>2, MaxOf
    <2>2. \E m \in S : \A x \in S : x <= m
      <3>1. \A x \in S : x <= Max(S)
        BY <2>1
      <3> QED
        BY <2>1, <3>1
    <2> QED
      BY <2>2
  <1> QED
    BY <1>1, <1>2

\* Cancelling at the last vertex changes nothing: it has not led to any yet.
LEMMA DepthwiseCut ==
  ASSUME NEW succ, NEW less, NEW d, Len(d) \in Nat, Depthwise(succ, d),
         \A a \in 1..(Len(d) - 1) : less[d[a]] = succ[d[a]]
  PROVE  Depthwise(less, d)
  <1>1. PICK n \in Nat : n = Len(d)
    OBVIOUS
  <1>2. ASSUME NEW b \in 2..n PROVE \E c \in 1..(b - 1) : d[b] \in less[d[c]]
    <2>1. PICK c \in 1..(b - 1) : d[b] \in succ[d[c]]
      BY <1>1 DEF Depthwise
    <2>2. c \in 1..(n - 1)
      BY <1>1
    <2> QED
      BY <1>1, <2>1, <2>2
  <1>3. ASSUME NEW a \in 1..n, NEW b \in 1..n, NEW w \in less[d[a]], a < b, \A i \in 1..b : d[i] # w
        PROVE  \E c \in a..(b - 1) : d[b] \in less[d[c]]
    <2>1. a \in 1..(n - 1)
      BY <1>3
    <2>2. w \in succ[d[a]]
      BY <1>1, <2>1
    <2>3. PICK c \in a..(b - 1) : d[b] \in succ[d[c]]
      <3>1. \A i, j \in 1..n : \A x \in succ[d[i]] :
              i < j /\ (\A l \in 1..j : d[l] # x) => \E c \in i..(j - 1) : d[j] \in succ[d[c]]
        BY <1>1 DEF Depthwise
      <3> QED
        BY <1>3, <2>2, <3>1
    <2>4. c \in 1..(n - 1)
      BY <1>1
    <2> QED
      BY <1>1, <2>3, <2>4
  <1>4. Distinct(d)
    BY DEF Depthwise
  <1>5. \A b \in 2..Len(d) : \E c \in 1..(b - 1) : d[b] \in less[d[c]]
    BY <1>1, <1>2
  <1>6. \A a, b \in 1..Len(d) : \A w \in less[d[a]] :
          a < b /\ (\A i \in 1..b : d[i] # w) => \E c \in a..(b - 1) : d[b] \in less[d[c]]
    BY <1>1, <1>3
  <1> QED
    BY <1>4, <1>5, <1>6 DEF Depthwise

-----------------------------------------------------------------------------
(* Layers of a breadth-first search *)

\* d[c] is the first vertex of d that leads to d[b]: those before it lead only to vertices before d[b].
FirstTo(succ, d, c, b) ==
  /\ d[b] \in succ[d[c]]
  /\ \A a \in 1..(c - 1) : \A x \in succ[d[a]] : \E i \in 1..(b - 1) : d[i] = x

\* The vertices of d in layers L, each but the first one layer below the first vertex that leads
\* to it, which is one of the first w.
Layered(succ, d, L, w) ==
  /\ Distinct(d)
  /\ L \in [1..Len(d) -> Nat] /\ \A a \in 1..Len(d) : a = 1 => L[a] = 0
  /\ \A b \in 2..Len(d) : \E c \in 1..(b - 1) : c <= w /\ FirstTo(succ, d, c, b) /\ L[b] = L[c] + 1
  /\ \A a, b \in 1..Len(d) : a <= b => L[a] <= L[b]

\* The vertices of d before the m-th lead only to vertices of d.
ClosedTo(succ, d, m) == \A a \in 1..Len(d) : a < m => \A x \in succ[d[a]] : Listed(d, x)

\* Cancelling at a vertex that none of d was reached from changes nothing.
LEMMA LayeredCut ==
  ASSUME NEW succ, NEW less, NEW d, NEW n \in Nat, n = Len(d), NEW L, NEW w \in Nat, Layered(succ, d, L, w),
         \A a \in 1..n : less[d[a]] \subseteq succ[d[a]],
         \A a \in 1..(n - 1) : a <= w => less[d[a]] = succ[d[a]]
  PROVE  Layered(less, d, L, w) /\ \A m : ClosedTo(succ, d, m) => ClosedTo(less, d, m)
  <1>1. ASSUME NEW b \in 2..n
        PROVE  \E c \in 1..(b - 1) : c <= w /\ FirstTo(less, d, c, b) /\ L[b] = L[c] + 1
    <2>1. PICK c \in 1..(b - 1) : c <= w /\ FirstTo(succ, d, c, b) /\ L[b] = L[c] + 1
      BY DEF Layered
    <2>2. c \in 1..(n - 1) /\ \A a \in 1..(c - 1) : a \in 1..n
      BY <2>1
    <2>3. FirstTo(less, d, c, b)
      <3>1. d[b] \in less[d[c]]
        BY <2>1, <2>2 DEF FirstTo
      <3>2. \A a \in 1..(c - 1) : \A x \in less[d[a]] : \E i \in 1..(b - 1) : d[i] = x
        BY <2>1, <2>2 DEF FirstTo
      <3> QED
        BY <3>1, <3>2 DEF FirstTo
    <2> QED
      BY <2>1, <2>3
  <1>2. Layered(less, d, L, w)
    BY <1>1 DEF Layered
  <1>3. \A m : ClosedTo(succ, d, m) => ClosedTo(less, d, m)
    BY DEF ClosedTo
  <1> QED
    BY <1>2, <1>3

\* e is d, and after it vertices that the p-th leads to.
Extends(succ, e, d, p) ==
  /\ Len(e) \in Nat /\ Len(e) >= Len(d) /\ Distinct(e)
  /\ \A i \in 1..Len(d) : e[i] = d[i]
  /\ \A i \in 1..Len(e) : i > Len(d) => e[i] \in succ[d[p]]

\* M continues the layers L, those after the first n being one below the p-th.
Deepens(succ, e, M, L, n, p) ==
  /\ Layered(succ, e, M, p)
  /\ \A i \in 1..n : M[i] = L[i]
  /\ \A i \in 1..Len(e) : i > n => M[i] = L[p] + 1 /\ FirstTo(succ, e, p, i)

LEMMA LayeredGrows ==
  ASSUME NEW succ, NEW d, NEW n \in Nat, n = Len(d), NEW L, NEW w \in Nat, Layered(succ, d, L, w),
         NEW p \in 1..n, w <= p, ClosedTo(succ, d, p), NEW e, Extends(succ, e, d, p)
  PROVE  \E M : Deepens(succ, e, M, L, n, p)
  <1>1. PICK k \in Nat : k = Len(e)
    BY DEF Extends
  <1>2. /\ k >= n /\ Distinct(e)
        /\ \A i \in 1..n : e[i] = d[i] /\ i \in 1..k
        /\ \A i \in 1..k : i > n => e[i] \in succ[d[p]]
    BY <1>1 DEF Extends
  <1>3. /\ \A i \in 1..n : L[i] \in Nat /\ (i = 1 => L[i] = 0)
        /\ \A a, b \in 1..n : a <= b => L[a] <= L[b]
    BY DEF Layered
  <1>4. PICK M : M = [i \in 1..k |-> IF i <= n THEN L[i] ELSE L[p] + 1]
    OBVIOUS
  <1>5. /\ M \in [1..k -> Nat]
        /\ \A i \in 1..n : M[i] = L[i]
        /\ \A i \in 1..k : i > n => M[i] = L[p] + 1
    <2>1. \A i \in 1..k : (i <= n => i \in 1..n) /\ (i > n <=> ~(i <= n))
      OBVIOUS
    <2>2. \A i \in 1..k : M[i] = IF i <= n THEN L[i] ELSE L[p] + 1
      BY <1>4
    <2>3. L[p] + 1 \in Nat /\ \A i \in 1..k : M[i] \in Nat
      BY <1>3, <2>1, <2>2
    <2>4. \A i \in 1..n : i \in 1..k /\ i <= n
      BY <1>2
    <2> QED
      BY <1>4, <2>1, <2>2, <2>3, <2>4
  <1>6. ASSUME NEW b \in 2..n
        PROVE  \E c \in 1..(b - 1) : c <= w /\ FirstTo(succ, e, c, b) /\ L[b] = L[c] + 1 /\ c \in 1..n
    <2>1. PICK c \in 1..(b - 1) : c <= w /\ FirstTo(succ, d, c, b) /\ L[b] = L[c] + 1
      BY DEF Layered
    <2>2. c \in 1..n /\ b \in 1..n /\ (\A a \in 1..(c - 1) : a \in 1..n) /\ \A i \in 1..(b - 1) : i \in 1..n
      BY <2>1
    <2>3. FirstTo(succ, e, c, b)
      BY <1>2, <2>1, <2>2 DEF FirstTo
    <2> QED
      BY <2>1, <2>2, <2>3
  <1>7. ASSUME NEW i \in 1..k, i > n PROVE FirstTo(succ, e, p, i)
    <2>1. e[i] \in succ[e[p]]
      BY <1>2, <1>7
    <2>2. ASSUME NEW a \in 1..(p - 1), NEW x \in succ[e[a]] PROVE \E j \in 1..(i - 1) : e[j] = x
      <3>1. a \in 1..n /\ a < p
        OBVIOUS
      <3>2. e[a] = d[a]
        BY <1>2, <3>1
      <3>3. Listed(d, x)
        BY <2>2, <3>1, <3>2 DEF ClosedTo
      <3>4. PICK j \in 1..n : d[j] = x
        BY <3>3 DEF Listed
      <3>5. j \in 1..(i - 1) /\ e[j] = x
        BY <1>2, <1>7, <3>4
      <3> QED
        BY <3>5
    <2> QED
      BY <2>1, <2>2 DEF FirstTo
  <1>8. \A b \in 1..n : L[b] <= L[p] + 1
    <2> TAKE b \in 1..n
    <2>1. CASE b = 1
      BY <1>3, <2>1
    <2>2. CASE b \in 2..n
      <3>1. PICK c \in 1..n : c <= w /\ L[b] = L[c] + 1
        BY <1>6, <2>2
      <3>2. L[c] <= L[p]
        BY <1>3, <3>1
      <3> QED
        BY <1>3, <3>1, <3>2
    <2> QED
      BY <2>1, <2>2
  <1>9. ASSUME NEW b \in 2..k
        PROVE  \E c \in 1..(b - 1) : c <= p /\ FirstTo(succ, e, c, b) /\ M[b] = M[c] + 1
    <2>1. CASE b <= n
      <3>1. b \in 2..n /\ b \in 1..n
        BY <2>1
      <3>2. PICK c \in 1..(b - 1) : c <= w /\ FirstTo(succ, e, c, b) /\ L[b] = L[c] + 1 /\ c \in 1..n
        BY <1>6, <3>1
      <3>3. c <= p /\ M[b] = M[c] + 1
        BY <1>5, <3>1, <3>2
      <3> QED
        BY <3>2, <3>3
    <2>2. CASE b > n
      <3>1. p \in 1..(b - 1) /\ b \in 1..k
        BY <2>2
      <3>2. M[b] = M[p] + 1 /\ FirstTo(succ, e, p, b)
        BY <1>5, <1>7, <2>2, <3>1
      <3> QED
        BY <3>1, <3>2
    <2> QED
      BY <2>1, <2>2
  <1>10. ASSUME NEW a \in 1..k, NEW b \in 1..k, a <= b PROVE M[a] <= M[b]
    <2>1. CASE b <= n
      <3>1. a \in 1..n /\ b \in 1..n
        BY <1>10, <2>1
      <3> QED
        BY <1>3, <1>5, <1>10, <3>1
    <2>2. CASE b > n /\ a <= n
      <3>1. a \in 1..n
        BY <2>2
      <3> QED
        BY <1>5, <1>8, <2>2, <3>1
    <2>3. CASE a > n
      <3>1. b > n
        BY <1>10, <2>3
      <3>2. L[p] \in Nat
        BY <1>3
      <3> QED
        BY <1>5, <2>3, <3>1, <3>2
    <2> QED
      BY <2>1, <2>2, <2>3
  <1>11. \A a \in 1..k : a = 1 => M[a] = 0
    <2>1. 1 \in 1..n
      OBVIOUS
    <2> QED
      BY <1>3, <1>5, <2>1
  <1>12. Layered(succ, e, M, p)
    BY <1>1, <1>2, <1>5, <1>9, <1>10, <1>11 DEF Layered
  <1>13. Deepens(succ, e, M, L, n, p)
    BY <1>1, <1>5, <1>7, <1>12 DEF Deepens
  <1> QED
    BY <1>13

\* Vertices in layers, and those of them at the beginning, are in breadth-first order.
LEMMA LayersAreOrder ==
  ASSUME NEW succ, NEW d, Len(d) \in Nat, NEW L, NEW w, Layered(succ, d, L, w),
         NEW v, Len(v) \in Nat, DOMAIN v = 1..Len(v), Len(v) <= Len(d), \A i \in 1..Len(v) : v[i] = d[i]
  PROVE  BreadthFirst(succ, v)
  <1>1. PICK n \in Nat : n = Len(v) /\ DOMAIN v = 1..n
    OBVIOUS
  <1>2. \A i \in 1..n : i \in 1..Len(d) /\ v[i] = d[i]
    BY <1>1
  <1>3. IsInjective(v)
    BY <1>1, <1>2 DEF IsInjective, Layered, Distinct
  <1>4. ASSUME NEW b \in 2..n
        PROVE  \E c \in 1..(b - 1) :
                 /\ v[b] \in succ[v[c]]
                 /\ \A a \in 1..(c - 1) : \A x \in succ[v[a]] : \E i \in 1..(b - 1) : v[i] = x
    <2>1. b \in 2..Len(d)
      BY <1>1
    <2>2. PICK c \in 1..(b - 1) : FirstTo(succ, d, c, b)
      BY <2>1 DEF Layered
    <2>3. b \in 1..n /\ c \in 1..n /\ (\A a \in 1..(c - 1) : a \in 1..n) /\ \A i \in 1..(b - 1) : i \in 1..n
      OBVIOUS
    <2>4. v[b] \in succ[v[c]]
      BY <1>2, <2>2, <2>3 DEF FirstTo
    <2>5. \A a \in 1..(c - 1) : \A x \in succ[v[a]] : \E i \in 1..(b - 1) : v[i] = x
      BY <1>2, <2>2, <2>3 DEF FirstTo
    <2> QED
      BY <2>4, <2>5
  <1>5. Connects(succ, v)
    <2> SUFFICES ASSUME NEW b \in 1..n, b # 1
                 PROVE  \E c \in 1..n : v[b] \in succ[v[c]] /\ c < b
      BY <1>1, <1>3 DEF Connects, PositionsTo
    <2>1. b \in 2..n
      OBVIOUS
    <2>2. PICK c \in 1..(b - 1) : v[b] \in succ[v[c]]
      BY <1>4, <2>1
    <2>3. c \in 1..n /\ c < b
      OBVIOUS
    <2> QED
      BY <2>2, <2>3
  <1>6. ASSUME NEW a \in 1..n, NEW b \in 1..n, NEW x \in succ[v[a]], a < b, \A i \in 1..b : v[i] # x
        PROVE  \E c \in 1..n : v[b] \in succ[v[c]] /\ c <= a
    <2>1. b \in 2..n
      BY <1>6
    <2>2. PICK c \in 1..(b - 1) :
                 /\ v[b] \in succ[v[c]]
                 /\ \A y \in 1..(c - 1) : \A z \in succ[v[y]] : \E i \in 1..(b - 1) : v[i] = z
      BY <1>4, <2>1
    <2>3. c <= a
      <3> SUFFICES ASSUME a \in 1..(c - 1) PROVE FALSE
        OBVIOUS
      <3>1. PICK i \in 1..(b - 1) : v[i] = x
        BY <1>6, <2>2
      <3>2. i \in 1..b
        OBVIOUS
      <3> QED
        BY <1>6, <3>1, <3>2
    <2>4. c \in 1..n
      BY <2>1
    <2> QED
      BY <2>2, <2>3, <2>4
  <1>7. ASSUME NEW p \in Overtaken(succ, v) PROVE \E c \in PositionsTo(succ, v, v[p[2]]) : c <= p[1]
    <2>1. /\ p[1] \in 1..n /\ p[2] \in 1..n /\ p[1] < p[2]
          /\ \E x \in succ[v[p[1]]] : \A i \in 1..p[2] : v[i] # x
      BY <1>1 DEF Overtaken
    <2>2. PICK c \in 1..n : v[p[2]] \in succ[v[c]] /\ c <= p[1]
      BY <1>6, <2>1
    <2> QED
      BY <1>1, <2>2 DEF PositionsTo
  <1> QED
    BY <1>5, <1>7 DEF BreadthFirst

\* The vertices of A and those they lead to.
Ball(succ, A) == A \cup UNION {succ[x] : x \in A}

\* The steps of Distance, as the recursion defines them.
Balls(succ, u) ==
  CHOOSE within : within = [k \in Nat |-> IF k = 0 THEN {u} ELSE Ball(succ, within[k - 1])]

LEMMA BallsUnfold ==
  ASSUME NEW V, NEW succ \in [V -> SUBSET V], NEW u \in V
  PROVE  /\ Balls(succ, u)[0] = {u}
         /\ \A k \in Nat : Balls(succ, u)[k + 1] = Ball(succ, Balls(succ, u)[k])
  <1> DEFINE T == SUBSET V
             b == {u}
             F == [A \in T |-> Ball(succ, A)]
  <1>1. b \in T /\ F \in [T -> T]
    <2>1. \A A \in T : Ball(succ, A) \in T
      BY DEF Ball
    <2> QED
      BY <2>1
  <1>2. PICK f \in [Nat -> SUBSET V] : f[0] = {u} /\ \A n \in Nat : f[n + 1] = F[f[n]]
    <2>1. \E f \in [Nat -> T] : Repeats(f, b, F)
      <3> HIDE DEF T, b, F
      <3> QED
        BY <1>1, Iteration
    <2> QED
      BY <2>1 DEF Repeats
  <1>3. ASSUME NEW k \in Nat PROVE f[k] = IF k = 0 THEN {u} ELSE Ball(succ, f[k - 1])
    <2>1. CASE k = 0
      BY <1>2, <2>1
    <2>2. CASE k # 0
      <3>1. k - 1 \in Nat /\ (k - 1) + 1 = k
        BY <2>2
      <3>2. f[k] = F[f[k - 1]]
        BY <1>2, <3>1
      <3>3. f[k - 1] \in SUBSET V
        BY <1>2, <3>1
      <3> QED
        BY <2>2, <3>2, <3>3
    <2> QED
      BY <2>1, <2>2
  <1>4. f = [k \in Nat |-> IF k = 0 THEN {u} ELSE Ball(succ, f[k - 1])]
    BY <1>2, <1>3
  <1>5. PICK R : R = Balls(succ, u)
    OBVIOUS
  <1>6. R = [k \in Nat |-> IF k = 0 THEN {u} ELSE Ball(succ, R[k - 1])]
    BY <1>4, <1>5 DEF Balls
  <1>7. R[0] = {u}
    BY <1>6
  <1>8. \A k \in Nat : R[k + 1] = Ball(succ, R[k])
    <2> TAKE k \in Nat
    <2>1. k + 1 \in Nat /\ k + 1 # 0 /\ (k + 1) - 1 = k
      OBVIOUS
    <2>2. R[k + 1] = IF k + 1 = 0 THEN {u} ELSE Ball(succ, R[(k + 1) - 1])
      BY <1>6, <2>1
    <2> QED
      BY <2>1, <2>2
  <1> QED
    BY <1>5, <1>7, <1>8

\* An edge leads at most one layer down.
LEMMA OneLayer ==
  ASSUME NEW succ, NEW d, NEW n \in Nat, n = Len(d), NEW L, NEW w, Layered(succ, d, L, w),
         NEW a \in 1..n, NEW b \in 1..n, d[b] \in succ[d[a]]
  PROVE  L[b] <= L[a] + 1
  <1>1. /\ \A i \in 1..n : L[i] \in Nat /\ (i = 1 => L[i] = 0)
        /\ \A i, j \in 1..n : i <= j => L[i] <= L[j]
        /\ \A i, j \in 1..n : d[i] = d[j] => i = j
    BY DEF Layered, Distinct
  <1>2. CASE b = 1
    BY <1>1, <1>2
  <1>3. CASE b \in 2..n
    <2>1. PICK c \in 1..(b - 1) : FirstTo(succ, d, c, b) /\ L[b] = L[c] + 1
      BY <1>3 DEF Layered
    <2>2. c <= a
      <3> SUFFICES ASSUME a \in 1..(c - 1) PROVE FALSE
        BY <2>1
      <3>1. PICK i \in 1..(b - 1) : d[i] = d[b]
        BY <2>1 DEF FirstTo
      <3>2. i \in 1..n /\ i # b
        BY <3>1
      <3> QED
        BY <1>1, <3>1, <3>2
    <2>3. c \in 1..n
      BY <2>1
    <2>4. L[c] <= L[a]
      BY <1>1, <2>2, <2>3
    <2> QED
      BY <1>1, <2>1, <2>3, <2>4
  <1> QED
    BY <1>2, <1>3

LEMMA LayersShallow ==
  ASSUME NEW succ, NEW d, NEW n \in Nat, n = Len(d), NEW L, NEW w, Layered(succ, d, L, w)
  PROVE  \A a \in 1..n : L[a] < a
  <1>1. /\ \A i \in 1..n : L[i] \in Nat /\ (i = 1 => L[i] = 0)
        /\ \A i, j \in 1..n : i <= j => L[i] <= L[j]
    BY DEF Layered
  <1> DEFINE Good == {k \in Nat : k + 1 \in 1..n => L[k + 1] < k + 1}
  <1>2. 0 \in Good
    BY <1>1
  <1>3. ASSUME NEW k \in Nat, k \in Good PROVE k + 1 \in Good
    <2> SUFFICES ASSUME (k + 1) + 1 \in 1..n PROVE L[(k + 1) + 1] < (k + 1) + 1
      OBVIOUS
    <2>1. PICK b \in 2..n : b = (k + 1) + 1
      OBVIOUS
    <2>2. k + 1 \in 1..n /\ k + 1 = b - 1
      BY <2>1
    <2>3. L[k + 1] < k + 1
      BY <1>3, <2>2
    <2>4. PICK c \in 1..(b - 1) : L[b] = L[c] + 1
      BY DEF Layered
    <2>5. L[c] <= L[k + 1] /\ L[c] \in Nat /\ L[k + 1] \in Nat
      BY <1>1, <2>2, <2>4
    <2>6. L[b] < b
      BY <2>1, <2>2, <2>3, <2>4, <2>5
    <2> QED
      BY <2>1, <2>6
  <1> HIDE DEF Good
  <1>4. Nat \subseteq Good
    BY <1>2, <1>3, InductiveSet
  <1>5. ASSUME NEW a \in 1..n PROVE L[a] < a
    <2>1. a - 1 \in Nat /\ (a - 1) + 1 = a
      OBVIOUS
    <2>2. a - 1 \in Good
      BY <1>4, <2>1
    <2> QED
      BY <2>1, <2>2 DEF Good
  <1> QED
    BY <1>5

\* A sequence with an element appended is not empty.
LEMMA NotEmptied ==
  ASSUME NEW S, NEW s \in Seq(S), NEW x
  PROVE  Append(s, x) # <<>>
  <1>1. s \in Seq(S \cup {x}) /\ x \in S \cup {x}
    BY SeqMonotonic
  <1>2. PICK q \in Seq(S \cup {x}) : q = Append(s, x) /\ Len(q) = Len(s) + 1
    BY <1>1, AppendProperties
  <1>3. Len(s) \in Nat
    BY LenProperties
  <1>4. Len(q) # 0
    BY <1>2, <1>3
  <1>5. q # <<>>
    BY <1>2, <1>4, EmptySeq
  <1> QED
    BY <1>2, <1>5

-----------------------------------------------------------------------------
(* FlattenSeq *)

\* f[i] is the concatenation of the first i of the n sequences in seqs.
Unfolds(f, seqs, n) ==
  /\ f[1] = seqs[1]
  /\ \A i \in 1..n : i # n => f[i + 1] = f[i] \o seqs[i + 1]

LEMMA FlattenUnfolds ==
  ASSUME NEW U, NEW n \in Nat \ {0}, NEW seqs \in Seq(Seq(U)), Len(seqs) = n
  PROVE  \E f \in [1..n -> Seq(U)] : Unfolds(f, seqs, n) /\ FlattenSeq(seqs) = f[n]
  <1> DEFINE T == Seq(U)
             b == seqs[1]
             F == [k \in Nat |-> [s \in T |-> IF k + 2 <= n THEN s \o seqs[k + 2] ELSE s]]
             Eq(f) == f = [i \in 1..n |-> IF i = 1 THEN seqs[i] ELSE f[i - 1] \o seqs[i]]
             D == CHOOSE f : Eq(f)
  <1>1. \A i \in 1..n : seqs[i] \in T /\ Len(seqs[i]) \in Nat
    BY ElementOfSeq, LenProperties
  <1>2. b \in T /\ F \in [Nat -> [T -> T]]
    <2>1. ASSUME NEW k \in Nat, NEW s \in T PROVE (IF k + 2 <= n THEN s \o seqs[k + 2] ELSE s) \in T
      <3>1. k + 2 <= n => k + 2 \in 1..n
        OBVIOUS
      <3>2. k + 2 <= n => s \o seqs[k + 2] \in T
        BY <1>1, <3>1, ConcatProperties
      <3> QED
        BY <3>2
    <2>2. 1 \in 1..n
      OBVIOUS
    <2>3. b \in T
      BY <1>1, <2>2
    <2> HIDE DEF T
    <2> QED
      BY <2>1, <2>3
  <1>3. PICK f \in [Nat -> T] : f[0] = b /\ \A k \in Nat : f[k + 1] = F[k][f[k]]
    <2>1. \E f \in [Nat -> T] : Iterates(f, b, F)
      <3> HIDE DEF T, b, F
      <3> QED
        BY <1>2, IndexedIteration
    <2> QED
      BY <2>1 DEF Iterates
  <1>4. PICK h : h = [i \in 1..n |-> f[i - 1]]
    OBVIOUS
  <1>5. Eq(h)
    <2>1. ASSUME NEW i \in 1..n PROVE h[i] = IF i = 1 THEN seqs[i] ELSE h[i - 1] \o seqs[i]
      <3>1. CASE i = 1
        BY <1>3, <1>4, <3>1
      <3>2. CASE i # 1
        <4>1. PICK k \in Nat : k = i - 2 /\ k + 1 = i - 1 /\ k + 2 = i /\ k + 2 <= n /\ (i - 1) - 1 = k /\ i - 1 \in 1..n
          <5>1. i - 2 \in Nat /\ (i - 2) + 1 = i - 1 /\ (i - 2) + 2 = i /\ (i - 2) + 2 <= n
                /\ (i - 1) - 1 = i - 2 /\ i - 1 \in 1..n
            BY <3>2
          <5> QED
            BY <5>1
        <4>2. f[k + 1] = F[k][f[k]] /\ f[k] \in T
          BY <1>3
        <4>3. f[k + 1] = f[k] \o seqs[k + 2]
          BY <4>1, <4>2
        <4>4. h[i] = f[k + 1] /\ h[i - 1] = f[k]
          BY <1>4, <4>1
        <4> QED
          BY <3>2, <4>1, <4>3, <4>4
      <3> QED
        BY <3>1, <3>2
    <2> QED
      BY <1>4, <2>1
  <1>6. Eq(D)
    <2> HIDE DEF Eq
    <2> QED
      BY <1>5
  <1> HIDE DEF D
  <1>7. /\ D[1] = seqs[1]
        /\ \A i \in 1..n : i # n => D[i + 1] = D[i] \o seqs[i + 1]
    <2>1. D = [i \in 1..n |-> IF i = 1 THEN seqs[i] ELSE D[i - 1] \o seqs[i]]
      BY <1>6
    <2>2. ASSUME NEW i \in 1..n, i # n PROVE D[i + 1] = D[i] \o seqs[i + 1]
      <3>1. i + 1 \in 1..n /\ i + 1 # 1 /\ (i + 1) - 1 = i
        BY <2>2
      <3>2. D[i + 1] = IF i + 1 = 1 THEN seqs[i + 1] ELSE D[(i + 1) - 1] \o seqs[i + 1]
        BY <2>1, <3>1
      <3> QED
        BY <3>1, <3>2
    <2>3. 1 \in 1..n
      OBVIOUS
    <2> QED
      BY <2>1, <2>2, <2>3
  <1> DEFINE Good == {k \in Nat : k + 1 <= n => D[k + 1] \in T}
  <1>8. 0 \in Good
    BY <1>2, <1>7
  <1>9. ASSUME NEW k \in Nat, k \in Good PROVE k + 1 \in Good
    <2> SUFFICES ASSUME (k + 1) + 1 <= n PROVE D[(k + 1) + 1] \in T
      OBVIOUS
    <2>1. PICK m \in 1..n : m = k + 1 /\ m # n /\ m + 1 \in 1..n /\ (k + 1) + 1 = m + 1
      OBVIOUS
    <2>2. D[m] \in T
      BY <1>9, <2>1
    <2>3. D[m] \o seqs[m + 1] \in T
      BY <1>1, <2>1, <2>2, ConcatProperties
    <2> QED
      BY <1>7, <2>1, <2>3
  <1>10. Nat \subseteq Good
    <2> HIDE DEF Good
    <2> QED
      BY <1>8, <1>9, InductiveSet
  <1>11. \A i \in 1..n : D[i] \in T
    <2> SUFFICES ASSUME NEW i \in 1..n PROVE D[i] \in T
      OBVIOUS
    <2>1. i - 1 \in Nat /\ (i - 1) + 1 = i /\ i <= n
      OBVIOUS
    <2>2. i - 1 \in Good
      <3> HIDE DEF Good
      <3> QED
        BY <1>10, <2>1
    <2> HIDE DEF T
    <2> QED
      BY <2>1, <2>2
  <1>12. D = [i \in 1..n |-> IF i = 1 THEN seqs[i] ELSE D[i - 1] \o seqs[i]]
    BY <1>6
  <1>13. D \in [1..n -> T]
    <2> HIDE DEF T
    <2> QED
      BY <1>11, <1>12
  <1>14. FlattenSeq(seqs) = D[n]
    BY DEF FlattenSeq, D
  <1> QED
    BY <1>7, <1>13, <1>14 DEF Unfolds

\* w is the concatenation of the n sequences in seqs; the i-th begins behind off[i - 1].
Flattened(off, w, seqs, n, U) ==
  /\ w \in Seq(U) /\ Len(w) = off[n] /\ off[0] = 0
  /\ \A i \in 1..n : off[i] = off[i - 1] + Len(seqs[i])
  /\ \A i \in 1..n : \A e \in 1..Len(seqs[i]) : off[i - 1] + e \in 1..off[n] /\ w[off[i - 1] + e] = seqs[i][e]

LEMMA WithinPart ==
  ASSUME NEW a \in Nat, NEW l \in Nat, NEW x \in Nat, NEW y \in Nat, a + l <= x, NEW e \in 1..l
  PROVE  a + e \in 1..x /\ a + e \in 1..(x + y) /\ a + e <= x
  OBVIOUS

LEMMA FlattenIs ==
  ASSUME NEW U, NEW n \in Nat \ {0}, NEW seqs \in Seq(Seq(U)), Len(seqs) = n
  PROVE  \E off \in [0..n -> Nat] : Flattened(off, FlattenSeq(seqs), seqs, n, U)
  <1> DEFINE T == Seq(U)
  <1>1. \A i \in 1..n : seqs[i] \in T /\ Len(seqs[i]) \in Nat
    BY ElementOfSeq, LenProperties
  <1>2. PICK D \in [1..n -> Seq(U)] : Unfolds(D, seqs, n) /\ FlattenSeq(seqs) = D[n]
    BY FlattenUnfolds
  <1>3. /\ D[1] = seqs[1]
        /\ \A i \in 1..n : i # n => D[i + 1] = D[i] \o seqs[i + 1]
    BY <1>2 DEF Unfolds
  <1>4. PICK off : off = [i \in 0..n |-> IF i = 0 THEN 0 ELSE Len(D[i])]
    OBVIOUS
  <1> DEFINE Right(k) == /\ D[k] \in T
                         /\ \A i \in 1..k : /\ off[i - 1] \in Nat /\ off[i] \in Nat
                                            /\ off[i] = off[i - 1] + Len(seqs[i]) /\ off[i] <= off[k]
                                            /\ \A e \in 1..Len(seqs[i]) : D[k][off[i - 1] + e] = seqs[i][e]
             Good == {k \in Nat : k + 1 <= n => Right(k + 1)}
  <1>5. 0 \in Good
    <2>1. off[0] = 0 /\ off[1] = Len(D[1]) /\ 1 \in 1..n
      BY <1>4
    <2>2. D[1] \in T /\ D[1] = seqs[1] /\ Len(seqs[1]) \in Nat
      BY <1>1, <1>3, <2>1
    <2>3. \A e \in 1..Len(seqs[1]) : 0 + e = e
      BY <2>2
    <2> HIDE DEF T
    <2>4. \A i \in 1..1 : i = 1 /\ i - 1 = 0
      OBVIOUS
    <2>5. Right(1)
      BY <2>1, <2>2, <2>3, <2>4
    <2> HIDE DEF Right
    <2> QED
      BY <2>5
  <1>6. ASSUME NEW k \in Nat, k \in Good PROVE k + 1 \in Good
    <2> SUFFICES ASSUME (k + 1) + 1 <= n PROVE Right((k + 1) + 1)
      <3> HIDE DEF Right
      <3> QED
        OBVIOUS
    <2>1. PICK m \in 1..n : m = k + 1 /\ m # n /\ m + 1 \in 1..n /\ (k + 1) + 1 = m + 1
      OBVIOUS
    <2>2. Right(m)
      <3> HIDE DEF Right
      <3> QED
        BY <1>6, <2>1
    <2>3. PICK p : p = D[m]
      OBVIOUS
    <2>4. PICK q : q = seqs[m + 1]
      OBVIOUS
    <2>5. p \in T /\ q \in T /\ D[m + 1] = p \o q
      BY <1>1, <1>3, <2>1, <2>2, <2>3, <2>4
    <2>6. PICK x \in Nat, y \in Nat : x = Len(p) /\ y = Len(q)
      BY <2>5, LenProperties
    <2>7. PICK r : r = p \o q
      OBVIOUS
    <2>8. /\ r \in T /\ Len(r) = x + y /\ D[m + 1] = r
          /\ \A z \in 1..(x + y) : r[z] = IF z <= x THEN p[z] ELSE q[z - x]
      BY <2>5, <2>6, <2>7, ConcatProperties
    <2>15. off[m] = x /\ off[m + 1] = x + y
      <3>1. m # 0 /\ m + 1 # 0 /\ m \in 0..n /\ m + 1 \in 0..n
        BY <2>1
      <3>2. off[m] = Len(D[m]) /\ off[m + 1] = Len(D[m + 1])
        BY <1>4, <3>1
      <3> QED
        BY <2>3, <2>6, <2>8, <3>2
    <2>16. ASSUME NEW i \in 1..m
          PROVE  /\ off[i - 1] \in Nat /\ off[i] \in Nat
                 /\ off[i] = off[i - 1] + Len(seqs[i]) /\ off[i] <= x + y
                 /\ \A e \in 1..Len(seqs[i]) : r[off[i - 1] + e] = seqs[i][e]
      <3>1. /\ off[i - 1] \in Nat /\ off[i] \in Nat
            /\ off[i] = off[i - 1] + Len(seqs[i]) /\ off[i] <= x
            /\ \A e \in 1..Len(seqs[i]) : p[off[i - 1] + e] = seqs[i][e]
        BY <2>2, <2>3, <2>15
      <3>2. PICK a \in Nat, l \in Nat : a = off[i - 1] /\ l = Len(seqs[i]) /\ a + l <= x
        <4>1. i \in 1..n
          BY <2>1
        <4>2. off[i - 1] \in Nat /\ Len(seqs[i]) \in Nat
          BY <1>1, <3>1, <4>1
        <4>3. off[i - 1] + Len(seqs[i]) <= x
          BY <3>1
        <4> QED
          BY <4>2, <4>3
      <3>3. ASSUME NEW e \in 1..l PROVE r[a + e] = seqs[i][e]
        <4>1. a + e \in 1..(x + y) /\ a + e <= x
          BY <3>2, WithinPart
        <4>2. r[a + e] = p[a + e]
          BY <2>8, <4>1
        <4>3. p[a + e] = seqs[i][e]
          BY <3>1, <3>2
        <4> QED
          BY <4>2, <4>3
      <3>4. off[i] <= x + y
        BY <3>1
      <3> QED
        BY <3>1, <3>2, <3>3, <3>4
    <2>9. /\ off[m] \in Nat /\ off[m + 1] \in Nat
          /\ off[m + 1] = off[m] + Len(q) /\ off[m + 1] <= x + y
          /\ \A e \in 1..Len(q) : r[off[m] + e] = q[e]
      <3>1. ASSUME NEW e \in 1..y PROVE r[x + e] = q[e]
        <4>1. x + e \in 1..(x + y) /\ ~(x + e <= x) /\ (x + e) - x = e
          OBVIOUS
        <4>2. r[x + e] = q[(x + e) - x]
          BY <2>8, <4>1
        <4> QED
          BY <4>1, <4>2
      <3>2. x + y \in Nat /\ x + y <= x + y
        OBVIOUS
      <3> QED
        BY <2>6, <2>15, <3>1, <3>2
    <2>10. \A i \in 1..(m + 1) : i \in 1..m \/ i = m + 1
      OBVIOUS
    <2>11. (m + 1) - 1 = m
      OBVIOUS
    <2>12. D[m + 1] \in T
      BY <2>8
    <2>13. ASSUME NEW i \in 1..(m + 1)
           PROVE  /\ off[i - 1] \in Nat /\ off[i] \in Nat
                  /\ off[i] = off[i - 1] + Len(seqs[i]) /\ off[i] <= off[m + 1]
                  /\ \A e \in 1..Len(seqs[i]) : D[m + 1][off[i - 1] + e] = seqs[i][e]
      <3>1. CASE i \in 1..m
        BY <2>8, <2>15, <2>16, <3>1
      <3>2. CASE i = m + 1
        BY <2>4, <2>8, <2>9, <2>11, <2>15, <3>2
      <3> QED
        BY <2>10, <3>1, <3>2
    <2>14. Right(m + 1)
      <3> HIDE DEF T
      <3> QED
        BY <2>12, <2>13
    <2> HIDE DEF Right
    <2> QED
      BY <2>1, <2>14
  <1>7. Right(n)
    <2>1. Nat \subseteq Good
      <3> HIDE DEF Good
      <3> QED
        BY <1>5, <1>6, InductiveSet
    <2>2. n - 1 \in Nat /\ (n - 1) + 1 = n
      OBVIOUS
    <2>3. n - 1 \in Good
      <3> HIDE DEF Good
      <3> QED
        BY <2>1, <2>2
    <2>4. n - 1 + 1 <= n
      BY <2>2
    <2> HIDE DEF Right
    <2>5. Right(n - 1 + 1)
      BY <2>3, <2>4
    <2> QED
      BY <2>2, <2>5
  <1>8. off[0] = 0 /\ off[n] = Len(D[n])
    BY <1>4
  <1>9. off \in [0..n -> Nat]
    <2>1. ASSUME NEW i \in 0..n PROVE off[i] \in Nat
      <3>1. i = 0 \/ i \in 1..n
        OBVIOUS
      <3>2. off[0] \in Nat
        BY <1>8
      <3>3. \A k \in 1..n : off[k] \in Nat
        BY <1>7
      <3> QED
        BY <3>1, <3>2, <3>3
    <2> QED
      BY <1>4, <2>1
  <1>10. ASSUME NEW i \in 1..n, NEW e \in 1..Len(seqs[i])
         PROVE  off[i - 1] + e \in 1..off[n] /\ D[n][off[i - 1] + e] = seqs[i][e]
    <2>1. PICK a \in Nat, l \in Nat, z \in Nat : a = off[i - 1] /\ l = Len(seqs[i]) /\ z = off[n] /\ a + l <= z
      <3>1. off[n] \in Nat
        <4>1. n \in 0..n
          OBVIOUS
        <4> QED
          BY <1>9, <4>1
      <3>2. off[i - 1] \in Nat /\ off[i] = off[i - 1] + Len(seqs[i]) /\ off[i] <= off[n]
        BY <1>7
      <3>3. Len(seqs[i]) \in Nat
        BY <1>1
      <3>4. off[i - 1] + Len(seqs[i]) <= off[n]
        BY <3>2
      <3> HIDE DEF Right
      <3> QED
        BY <3>1, <3>2, <3>3, <3>4
    <2>2. a + e \in 1..z
      BY <2>1, WithinPart
    <2> QED
      BY <1>7, <2>1, <2>2
  <1>11. Flattened(off, D[n], seqs, n, U)
    BY <1>7, <1>8, <1>10 DEF Flattened
  <1> QED
    BY <1>2, <1>9, <1>11

\* Where the sequences behind the i-th are empty, they all begin at the same place.
LEMMA NoneBetween ==
  ASSUME NEW n \in Nat, NEW off \in [0..n -> Nat], NEW i \in 0..n, NEW m \in i..n,
         \A j \in (i + 1)..m : off[j] = off[j - 1]
  PROVE  off[m] = off[i]
  <1> DEFINE Same == {k \in Nat : i + k <= m => off[i + k] = off[i]}
  <1>1. 0 \in Same
    OBVIOUS
  <1>2. ASSUME NEW k \in Nat, k \in Same PROVE k + 1 \in Same
    <2> SUFFICES ASSUME i + (k + 1) <= m PROVE off[i + (k + 1)] = off[i]
      OBVIOUS
    <2>1. i + (k + 1) \in (i + 1)..m /\ (i + (k + 1)) - 1 = i + k /\ i + k <= m
      OBVIOUS
    <2>2. off[i + (k + 1)] = off[i + k]
      BY <2>1
    <2> QED
      BY <1>2, <2>1, <2>2
  <1>3. Nat \subseteq Same
    <2> HIDE DEF Same
    <2> QED
      BY <1>1, <1>2, InductiveSet
  <1>4. PICK k \in Nat : i + k = m
    <2>1. m - i \in Nat /\ i + (m - i) = m
      OBVIOUS
    <2> QED
      BY <2>1
  <1>5. k \in Same
    <2> HIDE DEF Same
    <2> QED
      BY <1>3
  <1>6. i + k <= m
    BY <1>4
  <1>7. off[i + k] = off[i]
    BY <1>5, <1>6
  <1> QED
    BY <1>4, <1>7

\* The first elements of a walk are a beginning of it.
LEMMA BeginningIs ==
  ASSUME NEW U, NEW w \in Seq(U), NEW W \in Seq(U), Len(w) <= Len(W), \A j \in 1..Len(w) : w[j] = W[j]
  PROVE  IsPrefix(w, W) /\ (Len(w) = Len(W) => w = W)
  <1>1. PICK l \in Nat : l = Len(w) /\ l <= Len(W) /\ Len(W) \in Nat
    BY LenProperties
  <1>2. SubSeq(w, 1, l) = [j \in 1..l |-> w[j]] /\ SubSeq(W, 1, l) = [j \in 1..l |-> W[j]]
    <2>1. \A j \in 1..l : w[1 + j - 1] = w[j] /\ W[1 + j - 1] = W[j]
      OBVIOUS
    <2>2. SubSeq(w, 1, l) = [j \in 1..l |-> w[1 + j - 1]] /\ SubSeq(W, 1, l) = [j \in 1..l |-> W[1 + j - 1]]
      BY <1>1
    <2> QED
      BY <2>1, <2>2
  <1>3. SubSeq(w, 1, l) = SubSeq(W, 1, l)
    BY <1>1, <1>2
  <1>4. Len(w) = Len(W) => w = W
    BY <1>1, SeqEqual
  <1> QED
    BY <1>1, <1>3, <1>4 DEF IsPrefix

\* The first n of more are those of s.
SameUpTo(n, s, more) == \A i \in 1..n : more[i] = s[i]

\* There is one such f.
LEMMA UnfoldsOnce ==
  ASSUME NEW n \in Nat \ {0}, NEW m \in Nat, n <= m, NEW seqs, NEW more, SameUpTo(n, seqs, more)
  PROVE  \A f, g : Unfolds(f, seqs, n) /\ Unfolds(g, more, m) => f[n] = g[n]
  <1> SUFFICES ASSUME NEW f, Unfolds(f, seqs, n), NEW g, Unfolds(g, more, m)
               PROVE  f[n] = g[n]
    OBVIOUS
  <1> DEFINE Same == {k \in Nat : k + 1 <= n => f[k + 1] = g[k + 1]}
  <1>1. 0 \in Same
    <2>1. 1 \in 1..n
      OBVIOUS
    <2> QED
      BY <2>1 DEF Unfolds, SameUpTo
  <1>2. ASSUME NEW k \in Nat, k \in Same PROVE k + 1 \in Same
    <2> SUFFICES ASSUME (k + 1) + 1 <= n PROVE f[(k + 1) + 1] = g[(k + 1) + 1]
      OBVIOUS
    <2>1. k + 1 \in 1..n /\ k + 1 # n /\ k + 1 \in 1..m /\ k + 1 # m /\ (k + 1) + 1 \in 1..n
      OBVIOUS
    <2>2. f[k + 1] = g[k + 1]
      BY <1>2, <2>1
    <2>3. f[(k + 1) + 1] = f[k + 1] \o seqs[(k + 1) + 1] /\ g[(k + 1) + 1] = g[k + 1] \o more[(k + 1) + 1]
      BY <2>1 DEF Unfolds, SameUpTo
    <2> QED
      BY <2>1, <2>2, <2>3 DEF SameUpTo
  <1>3. Nat \subseteq Same
    <2> HIDE DEF Same
    <2> QED
      BY <1>1, <1>2, InductiveSet
  <1>4. n - 1 \in Nat /\ (n - 1) + 1 = n /\ n <= n
    OBVIOUS
  <1>5. n - 1 \in Same
    <2> HIDE DEF Same
    <2> QED
      BY <1>3, <1>4
  <1> QED
    BY <1>4, <1>5

LEMMA FlattenNone == FlattenSeq(<<>>) = <<>>
  BY EmptySeq DEF FlattenSeq

\* One sequence more.
LEMMA FlattenAppended ==
  ASSUME NEW U, NEW seqs \in Seq(Seq(U)), NEW t \in Seq(U), NEW more, more = Append(seqs, t)
  PROVE  FlattenSeq(seqs) \in Seq(U) /\ FlattenSeq(more) = FlattenSeq(seqs) \o t
  <1>1. PICK n \in Nat : n = Len(seqs)
    BY LenProperties
  <1>2. more \in Seq(Seq(U)) /\ Len(more) = n + 1 /\ (\A i \in 1..n : more[i] = seqs[i]) /\ more[n + 1] = t
    BY <1>1, AppendProperties
  <1>3. PICK m \in Nat \ {0} : m = n + 1
    OBVIOUS
  <1>4. PICK g \in [1..m -> Seq(U)] : Unfolds(g, more, m) /\ FlattenSeq(more) = g[m]
    <2>1. ASSUME NEW z \in Seq(Seq(U)), Len(z) = m
          PROVE  \E g \in [1..m -> Seq(U)] : Unfolds(g, z, m) /\ FlattenSeq(z) = g[m]
      BY <2>1, FlattenUnfolds
    <2>2. more \in Seq(Seq(U)) /\ Len(more) = m
      BY <1>2, <1>3
    <2> QED
      BY <2>1, <2>2
  <1>5. CASE n = 0
    <2>1. seqs = <<>> /\ FlattenSeq(seqs) = <<>>
      BY <1>1, <1>5, EmptySeq, FlattenNone
    <2>2. g[m] = t
      BY <1>2, <1>3, <1>4, <1>5 DEF Unfolds
    <2>3. <<>> \in Seq(U) /\ <<>> \o t = t
      BY EmptySeq, ConcatEmptySeq
    <2> QED
      BY <1>4, <2>1, <2>2, <2>3
  <1>6. CASE n # 0
    <2>1. n \in Nat \ {0} /\ n \in 1..m /\ n # m /\ n <= m /\ m \in Nat
      BY <1>3, <1>6
    <2>2. PICK f \in [1..n -> Seq(U)] : Unfolds(f, seqs, n) /\ FlattenSeq(seqs) = f[n]
      BY <1>1, <2>1, FlattenUnfolds
    <2>3. Unfolds(f, seqs, n) /\ Unfolds(g, more, m) /\ SameUpTo(n, seqs, more)
      BY <1>2, <1>4, <2>2 DEF SameUpTo
    <2>4. f[n] = g[n]
      <3>1. n \in Nat \ {0} /\ m \in Nat /\ n <= m
        BY <2>1
      <3>2. \A h, k : Unfolds(h, seqs, n) /\ Unfolds(k, more, m) => h[n] = k[n]
        BY <2>3, <3>1, UnfoldsOnce
      <3> QED
        BY <2>3, <3>2
    <2>5. g[m] = g[n] \o more[m]
      BY <1>3, <1>4, <2>1 DEF Unfolds
    <2> QED
      BY <1>2, <1>3, <1>4, <2>1, <2>2, <2>4, <2>5
  <1> QED
    BY <1>5, <1>6

\* The targets of the edges of the vertices of s, in their order.
EdgesOf(g, s) == FlattenSeq([i \in 1..Len(s) |-> g[s[i]]])

LEMMA EdgesOfNone ==
  ASSUME NEW g, NEW s, s = <<>>
  PROVE  EdgesOf(g, s) = <<>>
  <1>1. PICK a : a = [i \in 1..Len(s) |-> g[s[i]]]
    OBVIOUS
  <1>2. a = [i \in 1..0 |-> g[s[i]]] /\ <<>> \in Seq({})
    BY <1>1, EmptySeq
  <1>3. a \in [1..0 -> {}]
    BY <1>2
  <1>4. a \in Seq({}) /\ Len(a) = 0
    BY <1>3, IsASeq, LenProperties
  <1>5. a = <<>>
    BY <1>4, EmptySeq
  <1> QED
    BY <1>1, <1>5, FlattenNone DEF EdgesOf

-----------------------------------------------------------------------------
(* Layers of a search from several sources *)

\* D is in layers, no vertex reached from one after the k-th behind the root.
InLayers(succ, D, k) == \E L : \E w \in Nat : w <= k + 1 /\ Layered(succ, D, L, w)

\* e is d and v after it.
Lengthens(e, d, n, v) == Len(e) = n + 1 /\ (\A i \in 1..n : e[i] = d[i]) /\ e[n + 1] = v

LEMMA ListedMore ==
  ASSUME NEW d, NEW n \in Nat, n = Len(d), NEW e, NEW v, Lengthens(e, d, n, v)
  PROVE  \A x : Listed(e, x) <=> Listed(d, x) \/ x = v
  <1>1. \A i \in 1..(n + 1) : i \in 1..n \/ i = n + 1
    OBVIOUS
  <1>2. n + 1 \in 1..(n + 1) /\ \A i \in 1..n : i \in 1..(n + 1)
    OBVIOUS
  <1> QED
    BY <1>1, <1>2 DEF Lengthens, Listed

LEMMA DistinctMore ==
  ASSUME NEW d, NEW n \in Nat, n = Len(d), NEW e, NEW v, Lengthens(e, d, n, v), Distinct(d), ~Listed(d, v)
  PROVE  Distinct(e)
  <1>1. \A i \in 1..(n + 1) : i \in 1..n \/ i = n + 1
    OBVIOUS
  <1>2. \A i \in 1..n : d[i] # v
    BY DEF Listed
  <1>3. ASSUME NEW i \in 1..(n + 1), NEW j \in 1..(n + 1), e[i] = e[j] PROVE i = j
    <2>1. CASE i \in 1..n /\ j \in 1..n
      BY <1>3, <2>1 DEF Lengthens, Distinct
    <2>2. CASE i = n + 1 /\ j \in 1..n
      BY <1>2, <1>3, <2>2 DEF Lengthens
    <2>3. CASE i \in 1..n /\ j = n + 1
      BY <1>2, <1>3, <2>3 DEF Lengthens
    <2> QED
      BY <1>1, <2>1, <2>2, <2>3
  <1>4. Len(e) = n + 1
    BY DEF Lengthens
  <1> QED
    BY <1>3, <1>4 DEF Distinct

\* One vertex more that the one behind the k-th leads to.
LEMMA InLayersGrows ==
  ASSUME NEW succ, NEW D, NEW n \in Nat, n = Len(D), NEW k \in Nat, NEW p \in 1..n, p = k + 1,
         InLayers(succ, D, k), ClosedTo(succ, D, p), NEW v, v \in succ[D[p]], ~Listed(D, v),
         NEW E, Lengthens(E, D, n, v)
  PROVE  InLayers(succ, E, k)
  <1>1. PICK L : \E w \in Nat : w <= p /\ Layered(succ, D, L, w)
    BY DEF InLayers
  <1>2. PICK w \in Nat : w <= p /\ Layered(succ, D, L, w)
    BY <1>1
  <1>3. Distinct(E)
    BY <1>2, DistinctMore DEF Layered
  <1>4. Extends(succ, E, D, p)
    <2>1. Len(E) \in Nat /\ Len(E) >= n /\ \A i \in 1..Len(E) : i > n => i = n + 1
      BY DEF Lengthens
    <2> QED
      BY <1>3, <2>1 DEF Extends, Lengthens
  <1>5. PICK M : Deepens(succ, E, M, L, n, p)
    BY <1>2, <1>4, LayeredGrows
  <1>6. Layered(succ, E, M, p) /\ p \in Nat /\ p <= k + 1
    BY <1>5 DEF Deepens
  <1> QED
    BY <1>6 DEF InLayers

\* A source more leads to no vertex sooner than the root does.
LEMMA InLayersSeeded ==
  ASSUME NEW succ, NEW more, NEW D, NEW n \in Nat, n = Len(D), InLayers(succ, D, 0), succ[D[1]] \subseteq more[D[1]]
  PROVE  InLayers(more, D, 0)
  <1>1. PICK L : \E w \in Nat : w <= 1 /\ Layered(succ, D, L, w)
    BY DEF InLayers
  <1>2. PICK w \in Nat : w <= 1 /\ Layered(succ, D, L, w)
    BY <1>1
  <1>3. ASSUME NEW b \in 2..n
        PROVE  \E c \in 1..(b - 1) : c <= w /\ FirstTo(more, D, c, b) /\ L[b] = L[c] + 1
    <2>1. PICK c \in 1..(b - 1) : c <= w /\ FirstTo(succ, D, c, b) /\ L[b] = L[c] + 1
      BY <1>2 DEF Layered
    <2>2. c = 1
      BY <1>2, <2>1
    <2>3. FirstTo(more, D, c, b)
      BY <2>1, <2>2 DEF FirstTo
    <2> QED
      BY <2>1, <2>3
  <1>4. Layered(more, D, L, w)
    BY <1>2, <1>3 DEF Layered
  <1> QED
    BY <1>2, <1>4 DEF InLayers

LEMMA InLayersBegins ==
  ASSUME NEW succ, NEW D, Len(D) = 1
  PROVE  InLayers(succ, D, 0)
  <1>1. PICK L : L = [i \in 1..1 |-> 0]
    OBVIOUS
  <1>2. Distinct(D) /\ L \in [1..1 -> Nat] /\ \A a \in 1..1 : L[a] = 0
    BY <1>1 DEF Distinct
  <1>3. 2..1 = {} /\ 0 <= 0 + 1
    OBVIOUS
  <1>4. Layered(succ, D, L, 0)
    BY <1>2, <1>3 DEF Layered
  <1> QED
    BY <1>3, <1>4 DEF InLayers

\* A vertex more closes no less.
LEMMA ClosedMore ==
  ASSUME NEW succ, NEW D, NEW n \in Nat, n = Len(D), NEW m \in Int, m <= n + 1, ClosedTo(succ, D, m), NEW v,
         NEW E, Lengthens(E, D, n, v)
  PROVE  ClosedTo(succ, E, m)
  <1>1. \A x : Listed(E, x) <=> Listed(D, x) \/ x = v
    BY ListedMore
  <1>2. ASSUME NEW a \in 1..(n + 1), a < m PROVE a \in 1..n /\ E[a] = D[a]
    <2>1. a \in 1..n
      BY <1>2
    <2> QED
      BY <2>1 DEF Lengthens
  <1>3. Len(E) = n + 1
    BY DEF Lengthens
  <1> QED
    BY <1>1, <1>2, <1>3 DEF ClosedTo
=============================================================================
