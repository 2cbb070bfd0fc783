------------------- MODULE UndirectedAdjacencyList_proofs -------------------
(***************************************************************************)
(* Proofs about UndirectedAdjacencyList, for any number of edges and       *)
(* vertices: what unlink and link_back do to the lists, the inductive      *)
(* invariant and the properties it implies, and, from the sequences that   *)
(* iterations yield, that the pointers implement UndirectedMultigraph.     *)
(***************************************************************************)
EXTENDS UndirectedAdjacencyList, GraphLemmas

\* No edge of which an end is in L has both ends at one vertex.
NoLoop(i, L) == \A l \in L : i[<<l[1], "in">>] # i[<<l[1], "out">>]

\* The id comparison finds the right link of an edge that is not a loop.
LEMMA LinkOfEnd ==
  ASSUME NEW i \in [Link -> Nat], NEW L \in SUBSET Link, NoLoop(i, L)
  PROVE  \A l \in L : /\ l \in Link /\ l[1] \in Edge
                      /\ l = <<l[1], SideOf(i, l[1], i[l])>>
<1> SUFFICES ASSUME NEW l \in L
             PROVE  /\ l \in Link /\ l[1] \in Edge
                    /\ l = <<l[1], SideOf(i, l[1], i[l])>>
  OBVIOUS
<1>1. PICK f \in Edge, t \in Sides : l = <<f, t>>
  BY DEF Link
<1>2. i[<<f, "in">>] # i[<<f, "out">>]
  BY <1>1 DEF NoLoop
<1>3. CASE t = "in"
  BY <1>1, <1>3 DEF SideOf, Link
<1>4. CASE t = "out"
  BY <1>1, <1>2, <1>4 DEF SideOf, Link
<1> QED
  BY <1>1, <1>3, <1>4 DEF Sides

\* What unlink does to each pointer; m2 are the pointers after it.
Unlinked(V, m, i, e, s, m2) ==
  LET u == i[<<e, s>>]
      p == m.prev[<<e, s>>]
      x == m.next[<<e, s>>]
  IN  /\ m2.next \in [Link -> Pointer]
      /\ m2.prev \in [Link -> Pointer]
      /\ m2.head \in [V -> Pointer]
      /\ m2.tail \in [V -> Pointer]
      /\ m2.size = [m.size EXCEPT ![u] = @ - 1]
      /\ \A l \in Link : m2.next[l] =
           IF l = <<e, s>> THEN NULL
           ELSE IF p # NULL /\ l = <<p, SideOf(i, p, u)>> THEN x ELSE m.next[l]
      /\ \A l \in Link : m2.prev[l] =
           IF l = <<e, s>> THEN NULL
           ELSE IF x # NULL /\ l = <<x, SideOf(i, x, u)>> THEN p ELSE m.prev[l]
      /\ \A w \in V : m2.head[w] = IF w = u /\ m.head[w] = e THEN x ELSE m.head[w]
      /\ \A w \in V : m2.tail[w] = IF w = u /\ m.tail[w] = e THEN p ELSE m.tail[w]

LEMMA UnlinkFields ==
  ASSUME NEW V, NEW m \in Memory(V), NEW i \in [Link -> Nat],
         NEW e \in Edge, NEW s \in Sides, i[<<e, s>>] \in V
  PROVE  Unlinked(V, m, i, e, s, Unlink(m, i, e, s))
<1> DEFINE u  == i[<<e, s>>]
           p  == m.prev[<<e, s>>]
           x  == m.next[<<e, s>>]
           m2 == Unlink(m, i, e, s)
<1>1. /\ <<e, s>> \in Link
      /\ m.next \in [Link -> Pointer] /\ m.prev \in [Link -> Pointer]
      /\ m.head \in [V -> Pointer] /\ m.tail \in [V -> Pointer]
      /\ p \in Pointer /\ x \in Pointer /\ u \in V
  BY DEF Memory, Link
<1>2. m2.next \in [Link -> Pointer] /\ \A l \in Link : m2.next[l] =
        IF l = <<e, s>> THEN NULL
        ELSE IF p # NULL /\ l = <<p, SideOf(i, p, u)>> THEN x ELSE m.next[l]
  BY <1>1 DEF Unlink, Pointer
<1>3. m2.prev \in [Link -> Pointer] /\ \A l \in Link : m2.prev[l] =
        IF l = <<e, s>> THEN NULL
        ELSE IF x # NULL /\ l = <<x, SideOf(i, x, u)>> THEN p ELSE m.prev[l]
  BY <1>1 DEF Unlink, Pointer
<1>4. m2.head \in [V -> Pointer] /\ \A w \in V : m2.head[w] = IF w = u /\ m.head[w] = e THEN x ELSE m.head[w]
  BY <1>1 DEF Unlink
<1>5. m2.tail \in [V -> Pointer] /\ \A w \in V : m2.tail[w] = IF w = u /\ m.tail[w] = e THEN p ELSE m.tail[w]
  BY <1>1 DEF Unlink
<1>6. m2.size = [m.size EXCEPT ![u] = @ - 1]
  BY DEF Unlink
<1> QED
  BY <1>2, <1>3, <1>4, <1>5, <1>6 DEF Unlinked

\* Taking one link end out of its list leaves the lists linked through the others.
LEMMA UnlinkLinked ==
  ASSUME NEW V, NEW m \in Memory(V), NEW i \in [Link -> Nat], NEW L \in SUBSET Link,
         NEW e \in Edge, NEW s \in Sides, <<e, s>> \in L,
         \A l \in L : i[l] \in V,
         NoLoop(i, L), Linked(m, i, L, V)
  PROVE  Linked(Unlink(m, i, e, s), i, L \ {<<e, s>>}, V)
<1> DEFINE u  == i[<<e, s>>]
           p  == m.prev[<<e, s>>]
           x  == m.next[<<e, s>>]
           m2 == Unlink(m, i, e, s)
           pl == <<p, SideOf(i, p, u)>>
           xl == <<x, SideOf(i, x, u)>>
           M  == L \ {<<e, s>>}
<1> USE UALAssumption
<1>1. /\ u \in V
      /\ m.next \in [Link -> Pointer] /\ m.prev \in [Link -> Pointer]
      /\ m.head \in [V -> Pointer] /\ m.tail \in [V -> Pointer]
      /\ p \in Pointer /\ x \in Pointer
  BY DEF Memory
<1>2. /\ \A l \in Link : m2.next[l] =
           IF l = <<e, s>> THEN NULL ELSE IF p # NULL /\ l = pl THEN x ELSE m.next[l]
      /\ \A l \in Link : m2.prev[l] =
           IF l = <<e, s>> THEN NULL ELSE IF x # NULL /\ l = xl THEN p ELSE m.prev[l]
      /\ \A w \in V : m2.head[w] = IF w = u /\ m.head[w] = e THEN x ELSE m.head[w]
      /\ \A w \in V : m2.tail[w] = IF w = u /\ m.tail[w] = e THEN p ELSE m.tail[w]
  <2>1. Unlinked(V, m, i, e, s, m2)
    BY <1>1, UnlinkFields
  <2> QED
    BY <2>1 DEF Unlinked
<1>3. \A l \in L : /\ l \in Link /\ l[1] \in Edge /\ l = <<l[1], SideOf(i, l[1], i[l])>>
  BY LinkOfEnd
<1>4. /\ IF p = NULL THEN m.head[u] = e
         ELSE pl \in L /\ i[pl] = u /\ m.next[pl] = e
      /\ IF x = NULL THEN m.tail[u] = e
         ELSE xl \in L /\ i[xl] = u /\ m.prev[xl] = e
  BY DEF Linked, HasEnd
<1>5. ASSUME NEW l \in L, l # <<e, s>>
      PROVE  LET w == i[l]
                 q == m2.prev[l]
             IN  IF q = NULL THEN m2.head[w] = l[1]
                 ELSE HasEnd(i, M, q, w) /\ m2.next[<<q, SideOf(i, q, w)>>] = l[1]
  <2> DEFINE w == i[l]
             q == m.prev[l]
             ql == <<q, SideOf(i, q, w)>>
  <2>1. w \in V /\ l \in Link /\ q \in Pointer
    BY <1>1, <1>3
  <2>2. IF q = NULL THEN m.head[w] = l[1]
        ELSE ql \in L /\ i[ql] = w /\ m.next[ql] = l[1]
    BY DEF Linked, HasEnd
  <2>3. CASE x # NULL /\ l = xl
    <3>1. w = u /\ l[1] = x /\ m2.prev[l] = p
      BY <2>3, <1>2, <1>4, <2>1, <1>5
    <3>2. CASE p = NULL
      BY <3>1, <3>2, <1>2, <1>4, <2>1
    <3>3. CASE p # NULL
      <4>1. pl # <<e, s>>
        BY <3>1, <3>3, <1>4, <1>5, <2>3, <1>3
      <4>2. m2.next[pl] = x
        BY <4>1, <3>3, <1>2, <1>4, <1>3
      <4> QED
        BY <4>1, <4>2, <3>1, <3>3, <1>4 DEF HasEnd
    <3> QED
      BY <3>2, <3>3
  <2>4. CASE ~(x # NULL /\ l = xl)
    <3>1. m2.prev[l] = q
      BY <2>4, <1>2, <2>1, <1>5
    <3>2. q = e => w # u
      BY <2>2, <2>4, <1>3, <1>4, <1>5
    <3>3. CASE q = NULL
      <4>1. m.head[w] = l[1]
        BY <2>2, <3>3
      <4>2. w = u => l[1] # e
        BY <1>3, <1>5
      <4> QED
        BY <4>1, <4>2, <3>1, <3>3, <1>2, <2>1
    <3>4. CASE q # NULL
      <4>1. ql \in L /\ i[ql] = w /\ m.next[ql] = l[1] /\ ql \in Link
        BY <2>2, <3>4, <1>3
      <4>2. ql # <<e, s>>
        BY <3>2, <4>1
      <4>3. p # NULL => ql # pl
        BY <4>1, <1>3, <1>4, <1>5
      <4>4. m2.next[ql] = l[1]
        BY <4>1, <4>2, <4>3, <1>2
      <4> QED
        BY <4>1, <4>2, <4>4, <3>1, <3>4 DEF HasEnd
    <3> QED
      BY <3>3, <3>4
  <2> QED
    BY <2>3, <2>4
<1>6. ASSUME NEW l \in L, l # <<e, s>>
      PROVE  LET w == i[l]
                 q == m2.next[l]
             IN  IF q = NULL THEN m2.tail[w] = l[1]
                 ELSE HasEnd(i, M, q, w) /\ m2.prev[<<q, SideOf(i, q, w)>>] = l[1]
  <2> DEFINE w == i[l]
             q == m.next[l]
             ql == <<q, SideOf(i, q, w)>>
  <2>1. w \in V /\ l \in Link /\ q \in Pointer
    BY <1>1, <1>3
  <2>2. IF q = NULL THEN m.tail[w] = l[1]
        ELSE ql \in L /\ i[ql] = w /\ m.prev[ql] = l[1]
    BY DEF Linked, HasEnd
  <2>3. CASE p # NULL /\ l = pl
    <3>1. w = u /\ l[1] = p /\ m2.next[l] = x
      BY <2>3, <1>2, <1>4, <2>1, <1>6
    <3>2. CASE x = NULL
      BY <3>1, <3>2, <1>2, <1>4, <2>1
    <3>3. CASE x # NULL
      <4>1. xl # <<e, s>>
        BY <3>1, <3>3, <1>4, <1>6, <2>3, <1>3
      <4>2. m2.prev[xl] = p
        BY <4>1, <3>3, <1>2, <1>4, <1>3
      <4> QED
        BY <4>1, <4>2, <3>1, <3>3, <1>4 DEF HasEnd
    <3> QED
      BY <3>2, <3>3
  <2>4. CASE ~(p # NULL /\ l = pl)
    <3>1. m2.next[l] = q
      BY <2>4, <1>2, <2>1, <1>6
    <3>2. q = e => w # u
      BY <2>2, <2>4, <1>3, <1>4, <1>6
    <3>3. CASE q = NULL
      <4>1. m.tail[w] = l[1]
        BY <2>2, <3>3
      <4>2. w = u => l[1] # e
        BY <1>3, <1>6
      <4> QED
        BY <4>1, <4>2, <3>1, <3>3, <1>2, <2>1
    <3>4. CASE q # NULL
      <4>1. ql \in L /\ i[ql] = w /\ m.prev[ql] = l[1] /\ ql \in Link
        BY <2>2, <3>4, <1>3
      <4>2. ql # <<e, s>>
        BY <3>2, <4>1
      <4>3. x # NULL => ql # xl
        BY <4>1, <1>3, <1>4, <1>6
      <4>4. m2.prev[ql] = l[1]
        BY <4>1, <4>2, <4>3, <1>2
      <4> QED
        BY <4>1, <4>2, <4>4, <3>1, <3>4 DEF HasEnd
    <3> QED
      BY <3>3, <3>4
  <2> QED
    BY <2>3, <2>4
<1>7. ASSUME NEW w \in V
      PROVE  LET h == m2.head[w]
                 t == m2.tail[w]
             IN  /\ h = NULL <=> t = NULL
                 /\ h # NULL => HasEnd(i, M, h, w) /\ m2.prev[<<h, SideOf(i, h, w)>>] = NULL
                 /\ t # NULL => HasEnd(i, M, t, w) /\ m2.next[<<t, SideOf(i, t, w)>>] = NULL
  <2> DEFINE h == m.head[w]
             t == m.tail[w]
             hl == <<h, SideOf(i, h, w)>>
             tl == <<t, SideOf(i, t, w)>>
  <2>1. /\ h = NULL <=> t = NULL
        /\ h # NULL => hl \in L /\ i[hl] = w /\ m.prev[hl] = NULL
        /\ t # NULL => tl \in L /\ i[tl] = w /\ m.next[tl] = NULL
    BY DEF Linked, HasEnd
  <2>2. e \in Edge /\ e # NULL /\ SideOf(i, e, u) = s
    BY <1>3
  <2>3. w = u /\ h = e => p = NULL
    BY <2>1, <2>2
  <2>4. w = u /\ t = e => x = NULL
    BY <2>1, <2>2
  <2> QED
    BY <2>1, <2>2, <2>3, <2>4, <1>2, <1>3, <1>4 DEF HasEnd
<1> QED
  BY <1>5, <1>6, <1>7 DEF Linked

\* What link_back does to each pointer; m2 are the pointers after it.
LinkedBack(V, m, i, e, s, m2) ==
  LET u == i[<<e, s>>]
      t == m.tail[u]
  IN  /\ m2.next \in [Link -> Pointer]
      /\ m2.prev \in [Link -> Pointer]
      /\ m2.head \in [V -> Pointer]
      /\ m2.tail \in [V -> Pointer]
      /\ m2.size = [m.size EXCEPT ![u] = @ + 1]
      /\ \A l \in Link : m2.next[l] =
           IF t # NULL /\ l = <<t, SideOf(i, t, u)>> THEN e ELSE m.next[l]
      /\ \A l \in Link : m2.prev[l] = IF t # NULL /\ l = <<e, s>> THEN t ELSE m.prev[l]
      /\ \A w \in V : m2.head[w] = IF w = u /\ t = NULL THEN e ELSE m.head[w]
      /\ \A w \in V : m2.tail[w] = IF w = u THEN e ELSE m.tail[w]

LEMMA LinkBackFields ==
  ASSUME NEW V, NEW m \in Memory(V), NEW i \in [Link -> Nat],
         NEW e \in Edge, NEW s \in Sides, i[<<e, s>>] \in V
  PROVE  LinkedBack(V, m, i, e, s, LinkBack(m, i, e, s))
<1> DEFINE u  == i[<<e, s>>]
           t  == m.tail[u]
           m2 == LinkBack(m, i, e, s)
<1>1. /\ <<e, s>> \in Link
      /\ m.next \in [Link -> Pointer] /\ m.prev \in [Link -> Pointer]
      /\ m.head \in [V -> Pointer] /\ m.tail \in [V -> Pointer]
      /\ t \in Pointer /\ u \in V
  BY DEF Memory, Link
<1>2. m2.next \in [Link -> Pointer] /\ \A l \in Link : m2.next[l] =
        IF t # NULL /\ l = <<t, SideOf(i, t, u)>> THEN e ELSE m.next[l]
  BY <1>1 DEF LinkBack, Pointer
<1>3. m2.prev \in [Link -> Pointer] /\ \A l \in Link : m2.prev[l] =
        IF t # NULL /\ l = <<e, s>> THEN t ELSE m.prev[l]
  BY <1>1 DEF LinkBack, Pointer
<1>4. m2.head \in [V -> Pointer] /\ \A w \in V : m2.head[w] = IF w = u /\ t = NULL THEN e ELSE m.head[w]
  BY <1>1 DEF LinkBack, Pointer
<1>5. m2.tail \in [V -> Pointer] /\ \A w \in V : m2.tail[w] = IF w = u THEN e ELSE m.tail[w]
  BY <1>1 DEF LinkBack, Pointer
<1>6. m2.size = [m.size EXCEPT ![u] = @ + 1]
  BY DEF LinkBack
<1> QED
  BY <1>2, <1>3, <1>4, <1>5, <1>6 DEF LinkedBack

\* Appending a link end that is in no list and points nowhere.
LEMMA LinkBackLinked ==
  ASSUME NEW V, NEW m \in Memory(V), NEW i \in [Link -> Nat], NEW L \in SUBSET Link,
         NEW e \in Edge, NEW s \in Sides, <<e, s>> \notin L,
         m.next[<<e, s>>] = NULL, m.prev[<<e, s>>] = NULL,
         \A l \in L \cup {<<e, s>>} : i[l] \in V,
         NoLoop(i, L \cup {<<e, s>>}), Linked(m, i, L, V)
  PROVE  /\ Linked(LinkBack(m, i, e, s), i, L \cup {<<e, s>>}, V)
         /\ \A k \in Link \ (L \cup {<<e, s>>}) :
              /\ LinkBack(m, i, e, s).next[k] = m.next[k]
              /\ LinkBack(m, i, e, s).prev[k] = m.prev[k]
<1> DEFINE u  == i[<<e, s>>]
           t  == m.tail[u]
           m2 == LinkBack(m, i, e, s)
           tl == <<t, SideOf(i, t, u)>>
           M  == L \cup {<<e, s>>}
<1> USE UALAssumption
<1>1. /\ u \in V
      /\ <<e, s>> \in Link
      /\ m.next \in [Link -> Pointer] /\ m.prev \in [Link -> Pointer]
      /\ m.head \in [V -> Pointer] /\ m.tail \in [V -> Pointer]
      /\ t \in Pointer
  BY DEF Memory, Link
<1>2. /\ \A l \in Link : m2.next[l] = IF t # NULL /\ l = tl THEN e ELSE m.next[l]
      /\ \A l \in Link : m2.prev[l] = IF t # NULL /\ l = <<e, s>> THEN t ELSE m.prev[l]
      /\ \A w \in V : m2.head[w] = IF w = u /\ t = NULL THEN e ELSE m.head[w]
      /\ \A w \in V : m2.tail[w] = IF w = u THEN e ELSE m.tail[w]
  <2>1. LinkedBack(V, m, i, e, s, m2)
    BY <1>1, LinkBackFields
  <2> QED
    BY <2>1 DEF LinkedBack
<1>3. \A l \in M : /\ l \in Link /\ l[1] \in Edge /\ l = <<l[1], SideOf(i, l[1], i[l])>>
  BY <1>1, LinkOfEnd
<1>4. t # NULL => tl \in L /\ i[tl] = u /\ m.next[tl] = NULL /\ tl \in Link
  BY <1>1 DEF Linked, HasEnd
<1>5. t = NULL <=> m.head[u] = NULL
  BY <1>1 DEF Linked
<1>6. ASSUME NEW l \in M
      PROVE  LET w == i[l]
                 q == m2.prev[l]
             IN  IF q = NULL THEN m2.head[w] = l[1]
                 ELSE HasEnd(i, M, q, w) /\ m2.next[<<q, SideOf(i, q, w)>>] = l[1]
  <2>1. CASE l = <<e, s>>
    <3>1. CASE t = NULL
      BY <2>1, <3>1, <1>1, <1>2
    <3>2. CASE t # NULL
      BY <2>1, <3>2, <1>1, <1>2, <1>4 DEF HasEnd
    <3> QED
      BY <3>1, <3>2
  <2>2. CASE l # <<e, s>>
    <3> DEFINE w == i[l]
               q == m.prev[l]
               ql == <<q, SideOf(i, q, w)>>
    <3>1. l \in L /\ w \in V /\ l \in Link /\ l[1] \in Edge
      BY <2>2, <1>3
    <3>2. IF q = NULL THEN m.head[w] = l[1]
          ELSE ql \in L /\ i[ql] = w /\ m.next[ql] = l[1]
      BY <3>1 DEF Linked, HasEnd
    <3>3. m2.prev[l] = q
      BY <3>1, <1>2, <2>2
    <3>4. CASE q = NULL
      BY <3>1, <3>2, <3>3, <3>4, <1>2, <1>5
    <3>5. CASE q # NULL
      <4>1. t # NULL => ql # tl
        BY <3>1, <3>2, <3>5, <1>4
      <4>2. m2.next[ql] = l[1]
        BY <4>1, <3>2, <3>5, <1>2
      <4> QED
        BY <4>2, <3>2, <3>3, <3>5 DEF HasEnd
    <3> QED
      BY <3>4, <3>5
  <2> QED
    BY <2>1, <2>2
<1>7. ASSUME NEW l \in M
      PROVE  LET w == i[l]
                 q == m2.next[l]
             IN  IF q = NULL THEN m2.tail[w] = l[1]
                 ELSE HasEnd(i, M, q, w) /\ m2.prev[<<q, SideOf(i, q, w)>>] = l[1]
  <2>1. CASE l = <<e, s>>
    <3>1. m2.next[l] = NULL
      BY <2>1, <1>1, <1>2, <1>4
    <3> QED
      BY <2>1, <3>1, <1>1, <1>2
  <2>2. CASE t # NULL /\ l = tl
    <3>1. m2.next[l] = e /\ i[l] = u /\ e # NULL /\ SideOf(i, e, u) = s
      BY <2>2, <1>2, <1>3, <1>4
    <3>2. m2.prev[<<e, s>>] = t
      BY <2>2, <1>1, <1>2
    <3> QED
      BY <3>1, <3>2, <2>2 DEF HasEnd
  <2>3. CASE l # <<e, s>> /\ ~(t # NULL /\ l = tl)
    <3> DEFINE w == i[l]
               q == m.next[l]
               ql == <<q, SideOf(i, q, w)>>
    <3>1. l \in L /\ w \in V /\ l \in Link /\ l[1] \in Edge
      BY <2>3, <1>3
    <3>2. IF q = NULL THEN m.tail[w] = l[1]
          ELSE ql \in L /\ i[ql] = w /\ m.prev[ql] = l[1]
      BY <3>1 DEF Linked, HasEnd
    <3>3. m2.next[l] = q
      BY <3>1, <1>2, <2>3
    <3>4. CASE q = NULL
      <4>1. w # u
        BY <3>1, <3>2, <3>4, <2>3, <1>3
      <4> QED
        BY <4>1, <3>1, <3>2, <3>3, <3>4, <1>2
    <3>5. CASE q # NULL
      <4>1. m2.prev[ql] = l[1]
        BY <3>2, <3>5, <1>2
      <4> QED
        BY <4>1, <3>2, <3>3, <3>5 DEF HasEnd
    <3> QED
      BY <3>4, <3>5
  <2> QED
    BY <2>1, <2>2, <2>3
<1>8. ASSUME NEW w \in V
      PROVE  LET h == m2.head[w]
                 r == m2.tail[w]
             IN  /\ h = NULL <=> r = NULL
                 /\ h # NULL => HasEnd(i, M, h, w) /\ m2.prev[<<h, SideOf(i, h, w)>>] = NULL
                 /\ r # NULL => HasEnd(i, M, r, w) /\ m2.next[<<r, SideOf(i, r, w)>>] = NULL
  <2> DEFINE h == m.head[w]
             r == m.tail[w]
             hl == <<h, SideOf(i, h, w)>>
             rl == <<r, SideOf(i, r, w)>>
  <2>1. /\ h = NULL <=> r = NULL
        /\ h # NULL => hl \in L /\ i[hl] = w /\ m.prev[hl] = NULL
        /\ r # NULL => rl \in L /\ i[rl] = w /\ m.next[rl] = NULL
    BY DEF Linked, HasEnd
  <2>2. e \in Edge /\ e # NULL /\ SideOf(i, e, u) = s
    BY <1>3
  <2>3. <<e, s>> \in M /\ m2.next[<<e, s>>] = NULL
    BY <1>1, <1>2, <1>4
  <2>4. CASE w # u
    BY <2>1, <2>2, <2>4, <1>2, <1>3, <1>4 DEF HasEnd
  <2>5. CASE w = u
    BY <2>1, <2>2, <2>3, <2>5, <1>1, <1>2, <1>3, <1>4 DEF HasEnd
  <2> QED
    BY <2>4, <2>5
<1>9. \A k \in Link \ M : m2.next[k] = m.next[k] /\ m2.prev[k] = m.prev[k]
  BY <1>2, <1>4
<1> QED
  BY <1>6, <1>7, <1>8, <1>9 DEF Linked

\* The edges can be numbered so that every list is in increasing order: no list
\* runs in a circle.
Ordered(m, L) ==
  \E r \in [Edge -> Nat], b \in Nat :
    /\ \A f \in Edge : r[f] < b
    /\ \A l \in L : m.next[l] # NULL => r[l[1]] < r[m.next[l]]

LEMMA UnlinkOrdered ==
  ASSUME NEW V, NEW m \in Memory(V), NEW i \in [Link -> Nat], NEW L \in SUBSET Link,
         NEW e \in Edge, NEW s \in Sides, <<e, s>> \in L,
         \A l \in L : i[l] \in V,
         NoLoop(i, L), Linked(m, i, L, V), Ordered(m, L)
  PROVE  Ordered(Unlink(m, i, e, s), L \ {<<e, s>>})
<1> DEFINE u  == i[<<e, s>>]
           p  == m.prev[<<e, s>>]
           x  == m.next[<<e, s>>]
           m2 == Unlink(m, i, e, s)
<1>1. PICK r \in [Edge -> Nat], b \in Nat :
        /\ \A f \in Edge : r[f] < b
        /\ \A l \in L : m.next[l] # NULL => r[l[1]] < r[m.next[l]]
  BY DEF Ordered
<1>2. \A l \in Link : m2.next[l] =
        IF l = <<e, s>> THEN NULL
        ELSE IF p # NULL /\ l = <<p, SideOf(i, p, u)>> THEN x ELSE m.next[l]
  <2>1. Unlinked(V, m, i, e, s, m2)
    BY UnlinkFields
  <2> QED
    BY <2>1 DEF Unlinked
<1>3. p # NULL => /\ <<p, SideOf(i, p, u)>> \in L
                  /\ m.next[<<p, SideOf(i, p, u)>>] = e
  BY DEF Linked, HasEnd
<1>4. p \in Pointer /\ x \in Pointer /\ NULL \notin Edge
  BY UALAssumption DEF Memory, Link
<1>5. ASSUME NEW l \in L \ {<<e, s>>}, m2.next[l] # NULL
      PROVE  r[l[1]] < r[m2.next[l]]
  <2>1. CASE p # NULL /\ l = <<p, SideOf(i, p, u)>>
    <3>1. m2.next[l] = x /\ x \in Edge /\ p \in Edge /\ l[1] = p
      BY <2>1, <1>2, <1>4, <1>5 DEF Pointer
    <3>2. r[p] < r[e]
      BY <2>1, <1>1, <1>3, <1>4
    <3>3. r[e] < r[x]
      BY <3>1, <1>1, <1>4
    <3>4. r[p] \in Nat /\ r[e] \in Nat /\ r[x] \in Nat
      BY <3>1
    <3> QED
      BY <3>1, <3>2, <3>3, <3>4
  <2>2. CASE ~(p # NULL /\ l = <<p, SideOf(i, p, u)>>)
    BY <2>2, <1>1, <1>2, <1>5
  <2> QED
    BY <2>1, <2>2
<1> QED
  BY <1>1, <1>5 DEF Ordered

\* e gets a number above all others; nothing follows it in either list.
LEMMA LinkBackOrdered ==
  ASSUME NEW V, NEW m \in Memory(V), NEW i \in [Link -> Nat], NEW L \in SUBSET Link,
         NEW e \in Edge, NEW s \in Sides, <<e, s>> \notin L,
         i[<<e, s>>] \in V,
         \A k \in Sides : m.next[<<e, k>>] = NULL,
         Linked(m, i, L, V), Ordered(m, L),
         m.tail[i[<<e, s>>]] # e
  PROVE  /\ Ordered(LinkBack(m, i, e, s), L \cup {<<e, s>>})
         /\ \A k \in Sides : LinkBack(m, i, e, s).next[<<e, k>>] = NULL
<1> DEFINE u  == i[<<e, s>>]
           t  == m.tail[u]
           m2 == LinkBack(m, i, e, s)
<1>1. PICK r \in [Edge -> Nat], b \in Nat :
        /\ \A f \in Edge : r[f] < b
        /\ \A l \in L : m.next[l] # NULL => r[l[1]] < r[m.next[l]]
  BY DEF Ordered
<1>2. \A l \in Link : m2.next[l] = IF t # NULL /\ l = <<t, SideOf(i, t, u)>> THEN e ELSE m.next[l]
  <2>1. LinkedBack(V, m, i, e, s, m2)
    BY LinkBackFields
  <2> QED
    BY <2>1 DEF LinkedBack
<1>3. /\ t \in Pointer /\ NULL \notin Edge /\ m.next \in [Link -> Pointer]
      /\ \A k \in Sides : <<e, k>> \in Link
  BY UALAssumption DEF Memory, Link
<1>4. \A k \in Sides : m2.next[<<e, k>>] = NULL
  BY <1>2, <1>3
<1> DEFINE q == [r EXCEPT ![e] = b]
<1>5. q \in [Edge -> Nat] /\ b + 1 \in Nat /\ \A f \in Edge : q[f] < b + 1
  BY <1>1
<1>6. ASSUME NEW l \in L \cup {<<e, s>>}, m2.next[l] # NULL
      PROVE  q[l[1]] < q[m2.next[l]]
  <2>1. PICK f \in Edge, k \in Sides : l = <<f, k>>
    BY DEF Link
  <2>2. f # e /\ l \in Link /\ l \in L
    BY <2>1, <1>3, <1>4, <1>6
  <2>3. CASE m2.next[l] = e
    BY <2>1, <2>2, <2>3, <1>1
  <2>4. CASE m2.next[l] # e
    <3>1. m2.next[l] = m.next[l] /\ m.next[l] \in Edge
      BY <2>2, <2>4, <1>2, <1>3, <1>6 DEF Pointer
    <3>2. r[f] < r[m.next[l]]
      BY <2>1, <2>2, <3>1, <1>1, <1>3
    <3> QED
      BY <2>1, <2>2, <2>4, <3>1, <3>2
  <2> QED
    BY <2>3, <2>4
<1> HIDE DEF q
<1>7. Ordered(m2, L \cup {<<e, s>>})
  BY <1>5, <1>6 DEF Ordered
<1> QED
  BY <1>4, <1>7

\* The cached degree of each vertex counts its link ends.
Sized(m, i, L, V) == \A w \in V : m.size[w] = Cardinality({l \in L : i[l] = w})

LEMMA UnlinkSized ==
  ASSUME NEW V, NEW m \in Memory(V), NEW i \in [Link -> Nat],
         NEW L \in SUBSET Link, IsFiniteSet(L),
         NEW e \in Edge, NEW s \in Sides, <<e, s>> \in L, i[<<e, s>>] \in V,
         Sized(m, i, L, V)
  PROVE  /\ Sized(Unlink(m, i, e, s), i, L \ {<<e, s>>}, V)
         /\ Unlink(m, i, e, s) \in Memory(V)
<1> DEFINE u  == i[<<e, s>>]
           m2 == Unlink(m, i, e, s)
           E(w) == {l \in L : i[l] = w}
           E2(w) == {l \in L \ {<<e, s>>} : i[l] = w}
<1>1. Unlinked(V, m, i, e, s, m2)
  BY UnlinkFields
<1>2. m.size \in [V -> Nat] /\ m2.size = [m.size EXCEPT ![u] = @ - 1]
  BY <1>1 DEF Unlinked, Memory
<1>3. \A w \in V : IsFiniteSet(E(w))
  BY FS_Subset
<1>4. ASSUME NEW w \in V
      PROVE  m2.size[w] = Cardinality(E2(w)) /\ m2.size[w] \in Nat
  <2>1. CASE w = u
    <3>1. E2(w) = E(w) \ {<<e, s>>} /\ <<e, s>> \in E(w)
      BY <2>1
    <3>2. IsFiniteSet(E(w))
      BY <1>3
    <3> HIDE DEF E, E2
    <3>3. Cardinality(E2(w)) = Cardinality(E(w)) - 1 /\ Cardinality(E2(w)) \in Nat
      BY <3>1, <3>2, FS_RemoveElement, FS_CardinalityType
    <3>4. m.size[w] = Cardinality(E(w))
      BY DEF Sized, E
    <3> QED
      BY <2>1, <3>3, <3>4, <1>2
  <2>2. CASE w # u
    <3>1. E2(w) = E(w)
      BY <2>2
    <3> QED
      BY <2>2, <3>1, <1>2 DEF Sized
  <2> QED
    BY <2>1, <2>2
<1>5. m2.size \in [V -> Nat]
  BY <1>2, <1>4
<1>6. m2 \in Memory(V)
  BY <1>1, <1>5 DEF Unlinked, Memory, Unlink
<1> QED
  BY <1>4, <1>6 DEF Sized

LEMMA LinkBackSized ==
  ASSUME NEW V, NEW m \in Memory(V), NEW i \in [Link -> Nat],
         NEW L \in SUBSET Link, IsFiniteSet(L),
         NEW e \in Edge, NEW s \in Sides, <<e, s>> \notin L, i[<<e, s>>] \in V,
         Sized(m, i, L, V)
  PROVE  /\ Sized(LinkBack(m, i, e, s), i, L \cup {<<e, s>>}, V)
         /\ LinkBack(m, i, e, s) \in Memory(V)
<1> DEFINE u  == i[<<e, s>>]
           m2 == LinkBack(m, i, e, s)
           E(w) == {l \in L : i[l] = w}
           E2(w) == {l \in L \cup {<<e, s>>} : i[l] = w}
<1>1. LinkedBack(V, m, i, e, s, m2)
  BY LinkBackFields
<1>2. m.size \in [V -> Nat] /\ m2.size = [m.size EXCEPT ![u] = @ + 1]
  BY <1>1 DEF LinkedBack, Memory
<1>3. \A w \in V : IsFiniteSet(E(w))
  BY FS_Subset
<1>4. ASSUME NEW w \in V
      PROVE  m2.size[w] = Cardinality(E2(w))
  <2>1. CASE w = u
    <3>1. E2(w) = E(w) \cup {<<e, s>>} /\ <<e, s>> \notin E(w)
      BY <2>1
    <3>2. IsFiniteSet(E(w))
      BY <1>3
    <3> HIDE DEF E, E2
    <3>3. Cardinality(E2(w)) = Cardinality(E(w)) + 1
      BY <3>1, <3>2, FS_AddElement
    <3>4. m.size[w] = Cardinality(E(w))
      BY DEF Sized, E
    <3> QED
      BY <2>1, <3>3, <3>4, <1>2
  <2>2. CASE w # u
    <3>1. E2(w) = E(w)
      BY <2>2
    <3> QED
      BY <2>2, <3>1, <1>2 DEF Sized
  <2> QED
    BY <2>1, <2>2
<1>5. m2.size \in [V -> Nat]
  BY <1>2
<1>6. m2 \in Memory(V)
  BY <1>1, <1>5 DEF LinkedBack, Memory, LinkBack
<1> QED
  BY <1>4, <1>6 DEF Sized

\* The pointers of a graph with vertices V whose edges are D.
Good(m, i, D, V) ==
  /\ m \in Memory(V)
  /\ Linked(m, i, D \X Sides, V)
  /\ Ordered(m, D \X Sides)
  /\ Sized(m, i, D \X Sides, V)

\* The endpoints of the edges D are two different vertices of V.
Ends(i, D, V) == /\ \A l \in D \X Sides : i[l] \in V
                 /\ \A f \in D : i[<<f, "in">>] # i[<<f, "out">>]

LEMMA FiniteLinks ==
  ASSUME NEW D \in SUBSET Edge
  PROVE  IsFiniteSet(D) /\ IsFiniteSet(D \X Sides) /\ D \X Sides \in SUBSET Link
<1>1. IsFiniteSet(D)
  BY UALAssumption, FS_Subset
<1>2. IsFiniteSet(Sides)
  <2>1. Sides = ({} \cup {"in"}) \cup {"out"}
    BY DEF Sides
  <2> QED
    BY <2>1, FS_EmptySet, FS_AddElement
<1>3. IsFiniteSet(D \X Sides)
  BY <1>1, <1>2, FS_Product
<1> QED
  BY <1>1, <1>3 DEF Link

LEMMA UnlinkBothGood ==
  ASSUME NEW V, NEW D \in SUBSET Edge, NEW m, NEW i \in [Link -> Nat], NEW e \in D,
         Good(m, i, D, V), Ends(i, D, V)
  PROVE  /\ Good(UnlinkBoth(m, i, e), i, D \ {e}, V)
         /\ Followed(m, i, e) \subseteq D
<1> DEFINE L  == D \X Sides
           m1 == Unlink(m, i, e, "in")
           L1 == L \ {<<e, "in">>}
           L2 == L1 \ {<<e, "out">>}
<1>1. /\ L \in SUBSET Link /\ IsFiniteSet(L) /\ e \in Edge
      /\ "in" \in Sides /\ "out" \in Sides /\ <<e, "in">> \in L /\ <<e, "out">> \in L1
      /\ m \in Memory(V)
      /\ \A l \in L : i[l] \in V
      /\ NoLoop(i, L)
  BY FiniteLinks DEF Sides, Good, Ends, NoLoop
<1>2. L1 \in SUBSET Link /\ IsFiniteSet(L1) /\ NoLoop(i, L1) /\ \A l \in L1 : i[l] \in V
  BY <1>1, FS_RemoveElement DEF NoLoop
<1>3. L2 = (D \ {e}) \X Sides
  BY DEF Sides
<1>4. Linked(m, i, L, V) /\ Ordered(m, L) /\ Sized(m, i, L, V)
  BY DEF Good
<1> HIDE DEF L, L1, L2, m1
<1>5. /\ Linked(m1, i, L1, V) /\ Ordered(m1, L1) /\ Sized(m1, i, L1, V)
      /\ m1 \in Memory(V)
  BY <1>1, <1>4, UnlinkLinked, UnlinkOrdered, UnlinkSized DEF m1, L1
<1>6. LET m2 == Unlink(m1, i, e, "out")
      IN  /\ Linked(m2, i, L2, V) /\ Ordered(m2, L2) /\ Sized(m2, i, L2, V)
          /\ m2 \in Memory(V)
  BY <1>1, <1>2, <1>5, UnlinkLinked, UnlinkOrdered, UnlinkSized DEF L2
<1>7. Good(UnlinkBoth(m, i, e), i, D \ {e}, V)
  BY <1>3, <1>6 DEF Good, UnlinkBoth, m1
<1>8. m.prev[<<e, "in">>] \in D \cup {NULL} /\ m.next[<<e, "in">>] \in D \cup {NULL}
  BY <1>1, <1>4 DEF Linked, HasEnd, L
<1>9. m1.prev[<<e, "out">>] \in D \cup {NULL} /\ m1.next[<<e, "out">>] \in D \cup {NULL}
  BY <1>1, <1>5 DEF Linked, HasEnd, L, L1
<1> QED
  BY <1>7, <1>8, <1>9 DEF Followed, m1

\* Only the ids and pointers of the linked ends matter.
LEMMA GoodAgrees ==
  ASSUME NEW V, NEW D \in SUBSET Edge, NEW m, NEW m2 \in Memory(V),
         NEW i \in [Link -> Nat], NEW j \in [Link -> Nat],
         Good(m, i, D, V),
         \A l \in D \X Sides : j[l] = i[l] /\ m2.next[l] = m.next[l] /\ m2.prev[l] = m.prev[l],
         m2.head = m.head, m2.tail = m.tail, m2.size = m.size
  PROVE  Good(m2, j, D, V)
<1> DEFINE L == D \X Sides
<1>1. "in" \in Sides /\ "out" \in Sides
  BY DEF Sides
<1>2. \A f \in D : \A u : SideOf(j, f, u) = SideOf(i, f, u)
  BY <1>1 DEF SideOf
<1>3. \A f, u : HasEnd(i, L, f, u) => HasEnd(j, L, f, u) /\ f \in D /\ <<f, SideOf(i, f, u)>> \in L
  BY <1>2 DEF HasEnd
<1>4. Linked(m, i, L, V) /\ Ordered(m, L) /\ Sized(m, i, L, V)
  BY DEF Good
<1>5. Linked(m2, j, L, V)
  <2>1. ASSUME NEW l \in L
        PROVE  LET u == j[l]
                   p == m2.prev[l]
                   x == m2.next[l]
               IN  /\ IF p = NULL THEN m2.head[u] = l[1]
                      ELSE HasEnd(j, L, p, u) /\ m2.next[<<p, SideOf(j, p, u)>>] = l[1]
                   /\ IF x = NULL THEN m2.tail[u] = l[1]
                      ELSE HasEnd(j, L, x, u) /\ m2.prev[<<x, SideOf(j, x, u)>>] = l[1]
    <3> DEFINE u == i[l]
               p == m.prev[l]
               x == m.next[l]
    <3>1. /\ IF p = NULL THEN m.head[u] = l[1]
             ELSE HasEnd(i, L, p, u) /\ m.next[<<p, SideOf(i, p, u)>>] = l[1]
          /\ IF x = NULL THEN m.tail[u] = l[1]
             ELSE HasEnd(i, L, x, u) /\ m.prev[<<x, SideOf(i, x, u)>>] = l[1]
      BY <1>4 DEF Linked
    <3>2. u = j[l] /\ p = m2.prev[l] /\ x = m2.next[l]
      OBVIOUS
    <3> HIDE DEF u, p, x
    <3> QED
      BY <3>1, <3>2, <1>2, <1>3
  <2>2. ASSUME NEW u \in V
        PROVE  LET h == m2.head[u]
                   t == m2.tail[u]
               IN  /\ h = NULL <=> t = NULL
                   /\ h # NULL => HasEnd(j, L, h, u) /\ m2.prev[<<h, SideOf(j, h, u)>>] = NULL
                   /\ t # NULL => HasEnd(j, L, t, u) /\ m2.next[<<t, SideOf(j, t, u)>>] = NULL
    <3> DEFINE h == m.head[u]
               t == m.tail[u]
    <3>1. /\ h = NULL <=> t = NULL
          /\ h # NULL => HasEnd(i, L, h, u) /\ m.prev[<<h, SideOf(i, h, u)>>] = NULL
          /\ t # NULL => HasEnd(i, L, t, u) /\ m.next[<<t, SideOf(i, t, u)>>] = NULL
      BY <1>4 DEF Linked
    <3>2. h = m2.head[u] /\ t = m2.tail[u]
      OBVIOUS
    <3> HIDE DEF h, t
    <3>3. h # NULL => HasEnd(j, L, h, u) /\ m2.prev[<<h, SideOf(j, h, u)>>] = NULL
      BY <3>1, <1>2, <1>3
    <3>4. ASSUME t # NULL
          PROVE  HasEnd(j, L, t, u) /\ m2.next[<<t, SideOf(j, t, u)>>] = NULL
      <4>1. /\ HasEnd(j, L, t, u) /\ t \in D /\ <<t, SideOf(i, t, u)>> \in L
            /\ m.next[<<t, SideOf(i, t, u)>>] = NULL
        BY <3>1, <3>4, <1>3
      <4>2. SideOf(j, t, u) = SideOf(i, t, u)
        BY <4>1, <1>2
      <4> QED
        BY <4>1, <4>2
    <3> QED
      BY <3>1, <3>2, <3>3, <3>4
  <2> QED
    BY <2>1, <2>2 DEF Linked
<1>6. Ordered(m2, L)
  BY <1>4 DEF Ordered
<1>7. Sized(m2, j, L, V)
  <2>1. \A w \in V : {l \in L : j[l] = w} = {l \in L : i[l] = w}
    OBVIOUS
  <2> QED
    BY <2>1, <1>4 DEF Sized
<1> QED
  BY <1>5, <1>6, <1>7 DEF Good

LEMMA LinkBothGood ==
  ASSUME NEW V, NEW D \in SUBSET Edge, NEW m, NEW i \in [Link -> Nat], NEW e \in Edge \ D,
         Good(m, i, D, V), Ends(i, D \cup {e}, V),
         \A k \in Sides : m.next[<<e, k>>] = NULL /\ m.prev[<<e, k>>] = NULL
  PROVE  Good(LinkBoth(m, i, e), i, D \cup {e}, V)
<1> DEFINE L  == D \X Sides
           m1 == LinkBack(m, i, e, "in")
           L1 == L \cup {<<e, "in">>}
           L2 == L1 \cup {<<e, "out">>}
           m2 == LinkBack(m1, i, e, "out")
<1>1. /\ L \in SUBSET Link /\ IsFiniteSet(L) /\ e \in Edge /\ NULL \notin Edge
      /\ "in" \in Sides /\ "out" \in Sides /\ <<e, "in">> \notin L /\ <<e, "out">> \notin L1
      /\ L1 \in SUBSET Link
      /\ m \in Memory(V)
      /\ \A l \in L2 : i[l] \in V
      /\ NoLoop(i, L2)
  <2>1. L \in SUBSET Link /\ IsFiniteSet(L) /\ e \in Edge /\ NULL \notin Edge
    BY FiniteLinks, UALAssumption
  <2>2. "in" \in Sides /\ "out" \in Sides /\ <<e, "in">> \notin L /\ <<e, "out">> \notin L1
    BY DEF Sides
  <2>3. L1 \in SUBSET Link
    BY <2>1, <2>2 DEF Link
  <2>4. L2 = (D \cup {e}) \X Sides
    BY DEF Sides
  <2>5. (\A l \in L2 : i[l] \in V) /\ NoLoop(i, L2)
    BY <2>4 DEF Ends, NoLoop
  <2> QED
    BY <2>1, <2>2, <2>3, <2>5 DEF Good
<1>2. IsFiniteSet(L1) /\ NoLoop(i, L1) /\ \A l \in L1 : i[l] \in V
  BY <1>1, FS_AddElement DEF NoLoop
<1>3. L2 = (D \cup {e}) \X Sides
  BY DEF Sides
<1>4. Linked(m, i, L, V) /\ Ordered(m, L) /\ Sized(m, i, L, V)
  BY DEF Good
<1>5. i[<<e, "in">>] \in V /\ i[<<e, "out">>] \in V /\ i[<<e, "in">>] # i[<<e, "out">>]
  BY <1>1 DEF Ends
<1>6. m.tail[i[<<e, "in">>]] # e /\ m.tail[i[<<e, "out">>]] # e
  <2>1. ASSUME NEW w \in V, m.tail[w] # NULL
        PROVE  <<m.tail[w], SideOf(i, m.tail[w], w)>> \in L
    BY <2>1, <1>4 DEF Linked, HasEnd
  <2> QED
    BY <2>1, <1>1, <1>5
<1>7. <<e, "out">> \in Link \ (L \cup {<<e, "in">>})
  BY <1>1 DEF Link
<1> HIDE DEF L, L1, L2, m1, m2
<1>8. /\ Linked(m1, i, L1, V)
      /\ m1.next[<<e, "out">>] = NULL /\ m1.prev[<<e, "out">>] = NULL
  BY <1>1, <1>2, <1>4, <1>7, LinkBackLinked DEF m1, L1
<1>9. /\ Ordered(m1, L1)
      /\ \A k \in Sides : m1.next[<<e, k>>] = NULL
  BY <1>1, <1>4, <1>5, <1>6, LinkBackOrdered DEF m1, L1
<1>10. Sized(m1, i, L1, V) /\ m1 \in Memory(V)
  BY <1>1, <1>4, <1>5, LinkBackSized DEF m1, L1
<1>11. m1.tail[i[<<e, "out">>]] # e
  <2>1. LinkedBack(V, m, i, e, "in", m1)
    BY <1>1, <1>5, LinkBackFields DEF m1
  <2> QED
    BY <2>1, <1>5, <1>6 DEF LinkedBack
<1>12. Linked(m2, i, L2, V)
  BY <1>1, <1>8, <1>10, LinkBackLinked DEF m2, L2
<1>13. Ordered(m2, L2)
  BY <1>1, <1>5, <1>8, <1>9, <1>10, <1>11, LinkBackOrdered DEF m2, L2
<1>14. Sized(m2, i, L2, V) /\ m2 \in Memory(V)
  BY <1>1, <1>2, <1>5, <1>10, LinkBackSized DEF m2, L2
<1> QED
  BY <1>3, <1>12, <1>13, <1>14 DEF Good, LinkBoth, m1, m2

\* Every nonempty set of edges has one with the least number.
LEMMA LeastNumbered ==
  ASSUME NEW r \in [Edge -> Nat], NEW T \in SUBSET Edge, T # {}
  PROVE  \E x \in T : \A y \in T : r[x] <= r[y]
<1> DEFINE N == {r[f] : f \in T}
<1>1. N \subseteq Nat /\ N # {}
  OBVIOUS
<1>2. PICK k \in N : \A j \in N : k <= j
  <2> HIDE DEF N
  <2> QED
    BY <1>1, LeastNatural
<1> QED
  BY <1>2

\* Advancing in u's list leads to the next edge with an end at u, or to the end.
LEMMA AdvanceIncident ==
  ASSUME live \in SUBSET Edge, id \in [Link -> Nat],
         Good(mem, id, live, Vertices), Ends(id, live, Vertices),
         NEW u \in Vertices, NEW f, Incident(f, u)
  PROVE  /\ f \in live
         /\ <<f, SideOf(id, f, u)>> \in live \X Sides
         /\ id[<<f, SideOf(id, f, u)>>] = u
         /\ Advance(f, u) = mem.next[<<f, SideOf(id, f, u)>>]
         /\ Advance(f, u) # NULL => Incident(Advance(f, u), u)
<1> DEFINE l == <<f, SideOf(id, f, u)>>
           x == mem.next[l]
<1>1. f \in live /\ l \in live \X Sides /\ id[l] = u
  BY DEF Incident, SideOf, Sides
<1>2. PICK r \in [Edge -> Nat], b \in Nat :
        \A k \in live \X Sides : mem.next[k] # NULL => r[k[1]] < r[mem.next[k]]
  BY DEF Good, Ordered
<1>3. x # NULL => HasEnd(id, live \X Sides, x, u)
  BY <1>1 DEF Good, Linked
<1>4. x # NULL => Incident(x, u)
  BY <1>3 DEF HasEnd, Incident
<1>5. x # f
  <2> SUFFICES ASSUME x = f PROVE FALSE
    OBVIOUS
  <2>1. f # NULL /\ f \in Edge
    BY <1>1, UALAssumption
  <2>2. r[f] < r[f] /\ r[f] \in Nat
    BY <2>1, <1>1, <1>2
  <2> QED
    BY <2>2
<1> QED
  BY <1>1, <1>4, <1>5 DEF Advance

\* The iteration of a list misses no edge and meets no other.
LEMMA IteratedIncident ==
  ASSUME live \in SUBSET Edge, id \in [Link -> Nat],
         Good(mem, id, live, Vertices), Ends(id, live, Vertices),
         NEW u \in Vertices
  PROVE  Iterated(u) = {e \in live : Incident(e, u)}
<1> DEFINE I == {e \in live : Incident(e, u)}
           Closed(S) == /\ mem.head[u] \in S \cup {NULL}
                        /\ \A f \in S : Advance(f, u) \in S \cup {NULL}
<1>1. I \in SUBSET Edge /\ NULL \notin Edge
  BY UALAssumption
<1>2. Closed(I)
  <2>1. mem.head[u] \in I \cup {NULL}
    BY DEF Good, Linked, HasEnd, Incident
  <2>2. ASSUME NEW f \in I PROVE Advance(f, u) \in I \cup {NULL}
    BY <2>2, AdvanceIncident DEF Incident
  <2> QED
    BY <2>1, <2>2
<1>3. ASSUME NEW S \in SUBSET Edge, Closed(S) PROVE I \subseteq S
  <2> DEFINE T == I \ S
  <2> SUFFICES ASSUME T # {} PROVE FALSE
    OBVIOUS
  <2>1. PICK r \in [Edge -> Nat], b \in Nat :
          \A k \in live \X Sides : mem.next[k] # NULL => r[k[1]] < r[mem.next[k]]
    BY DEF Good, Ordered
  <2>2. PICK x \in T : \A y \in T : r[x] <= r[y]
    BY <1>1, LeastNumbered
  <2> DEFINE l == <<x, SideOf(id, x, u)>>
             p == mem.prev[l]
             pl == <<p, SideOf(id, p, u)>>
  <2>3. l \in live \X Sides /\ id[l] = u /\ x \in Edge /\ x \notin S
    BY AdvanceIncident
  <2>4. IF p = NULL THEN mem.head[u] = x
        ELSE HasEnd(id, live \X Sides, p, u) /\ mem.next[pl] = x
    <3>1. \A k \in live \X Sides :
            IF mem.prev[k] = NULL THEN mem.head[id[k]] = k[1]
            ELSE /\ HasEnd(id, live \X Sides, mem.prev[k], id[k])
                 /\ mem.next[<<mem.prev[k], SideOf(id, mem.prev[k], id[k])>>] = k[1]
      BY DEF Good, Linked
    <3>2. l[1] = x
      OBVIOUS
    <3> HIDE DEF l
    <3> QED
      BY <3>1, <3>2, <2>3
  <2>5. p # NULL
    BY <1>1, <1>3, <2>3, <2>4
  <2>6. pl \in live \X Sides /\ id[pl] = u /\ mem.next[pl] = x /\ p \in I
    BY <2>4, <2>5 DEF HasEnd, Incident
  <2>7. r[p] < r[x] /\ r[p] \in Nat /\ r[x] \in Nat
    BY <1>1, <2>1, <2>3, <2>6
  <2>8. p \in S
    BY <2>2, <2>6, <2>7
  <2>9. Advance(p, u) = x
    BY <2>6, AdvanceIncident
  <2> QED
    BY <1>1, <1>3, <2>3, <2>8, <2>9
<1>4. Iterated(u) = {e \in Edge : \A S \in SUBSET Edge : Closed(S) => e \in S}
  BY DEF Iterated, After
<1> HIDE DEF I, Closed
<1>5. Iterated(u) \subseteq I
  BY <1>1, <1>2, <1>4
<1>6. I \subseteq Iterated(u)
  BY <1>1, <1>3, <1>4
<1> QED
  BY <1>5, <1>6 DEF I

-----------------------------------------------------------------------------
(* The inductive invariant *)

\* The state of the graph.
GraphInv ==
  /\ live \in SUBSET Edge
  /\ id \in [Link -> Nat]
  /\ n \in 0..MaxVertices
  /\ Good(mem, id, live, Vertices)
  /\ Ends(id, live, Vertices)
  /\ EdgesCounted
  /\ fault = FALSE

CallType == [op : Ops, u : 0..MaxVertices, v : 0..MaxVertices, it : Pointer, last : Pointer]

\* What the calls in progress rely on: a loop stands on an edge of its vertex and
\* has not passed the end of its range; clear has emptied the lists behind it.
CallInv ==
  /\ call \in CallType
  /\ call.op = "idle" => call = Idle
  /\ call.op \in {"remove_edge", "erase_edges"} =>
       /\ call.u \in Vertices
       /\ call.it = NULL \/ Incident(call.it, call.u)
       /\ call.last = NULL \/ call.last \in After(call.it, call.u)
  /\ call.op \in {"remove_vertex", "clear"} => call.it = NULL /\ call.last = NULL
  /\ call.op = "remove_vertex" => call.u \in Vertices
  /\ call.op = "clear" => /\ call.u <= n
                          /\ \A l \in live \X Sides : id[l] >= call.u

CursorInv ==
  /\ cursor \in [kind : {"none", "vertex", "graph"}, u : Nat, uv : Pointer]
  /\ cursor.kind = "vertex" => cursor.uv \in live \cup {NULL}
  /\ call # Idle => cursor = NoCursor

IInv == GraphInv /\ CallInv /\ CursorInv

\* Only the pointers to e change when e is unlinked.
LEMMA UnlinkBothKeeps ==
  ASSUME NEW V, NEW D \in SUBSET Edge, NEW m, NEW i \in [Link -> Nat], NEW e \in D,
         Good(m, i, D, V), Ends(i, D, V),
         NEW l \in D \X Sides, l[1] # e, m.next[l] # e
  PROVE  UnlinkBoth(m, i, e).next[l] = m.next[l]
<1> DEFINE L  == D \X Sides
           m1 == Unlink(m, i, e, "in")
           L1 == L \ {<<e, "in">>}
           m2 == Unlink(m1, i, e, "out")
<1>1. /\ L \in SUBSET Link /\ IsFiniteSet(L) /\ e \in Edge
      /\ "in" \in Sides /\ "out" \in Sides /\ <<e, "in">> \in L /\ <<e, "out">> \in L1
      /\ m \in Memory(V)
      /\ \A k \in L : i[k] \in V
      /\ NoLoop(i, L)
  BY FiniteLinks DEF Sides, Good, Ends, NoLoop
<1>2. Linked(m, i, L, V) /\ Sized(m, i, L, V)
  BY DEF Good
<1>3. l \in Link /\ l # <<e, "in">> /\ l # <<e, "out">>
  BY <1>1
<1> HIDE DEF L, L1, m1, m2
<1>4. Linked(m1, i, L1, V) /\ m1 \in Memory(V)
  BY <1>1, <1>2, UnlinkLinked, UnlinkSized DEF m1, L1
<1>5. Unlinked(V, m, i, e, "in", m1) /\ Unlinked(V, m1, i, e, "out", m2)
  BY <1>1, <1>4, UnlinkFields DEF m1, m2, L1
<1>6. ~(/\ m.prev[<<e, "in">>] # NULL
        /\ l = <<m.prev[<<e, "in">>], SideOf(i, m.prev[<<e, "in">>], i[<<e, "in">>])>>)
  BY <1>1, <1>2 DEF Linked
<1>7. m1.next[l] = m.next[l]
  BY <1>3, <1>5, <1>6 DEF Unlinked
<1>8. ~(/\ m1.prev[<<e, "out">>] # NULL
        /\ l = <<m1.prev[<<e, "out">>], SideOf(i, m1.prev[<<e, "out">>], i[<<e, "out">>])>>)
  BY <1>1, <1>4, <1>7 DEF Linked
<1>9. m2.next[l] = m1.next[l]
  BY <1>3, <1>5, <1>8 DEF Unlinked
<1> QED
  BY <1>7, <1>9 DEF UnlinkBoth, m1, m2

\* Erasing an edge that exists.
LEMMA EraseGraph ==
  ASSUME GraphInv, NEW e \in live, Erase(e), n' = n
  PROVE  /\ GraphInv'
         /\ live' = live \ {e}
         /\ \A l \in live' \X Sides : id'[l] = id[l]
         /\ mem' = UnlinkBoth(mem, id, e)
<1>1. /\ mem' = UnlinkBoth(mem, id, e)
      /\ id' = [id EXCEPT ![<<e, "in">>] = 0, ![<<e, "out">>] = 0]
      /\ live' = live \ {e}
      /\ edges_size' = edges_size - 1
      /\ fault' = ~(Followed(mem, id, e) \subseteq live)
  BY DEF Erase
<1>2. /\ live \in SUBSET Edge /\ id \in [Link -> Nat] /\ n \in 0..MaxVertices
      /\ Good(mem, id, live, Vertices) /\ Ends(id, live, Vertices)
      /\ edges_size = Cardinality(live)
  BY DEF GraphInv, EdgesCounted
<1>3. /\ Good(mem', id, live', Vertices)
      /\ Followed(mem, id, e) \subseteq live
  BY <1>1, <1>2, UnlinkBothGood
<1>4. /\ id' \in [Link -> Nat]
      /\ \A l \in live' \X Sides : id'[l] = id[l]
  <2>1. id' \in [Link -> Nat]
    BY <1>1, <1>2
  <2>2. ASSUME NEW l \in live' \X Sides PROVE id'[l] = id[l]
    <3>1. PICK f \in live', s \in Sides : l = <<f, s>>
      OBVIOUS
    <3>2. f # e /\ l \in Link
      BY <3>1, <1>1, <1>2 DEF Link
    <3>3. l # <<e, "in">> /\ l # <<e, "out">>
      BY <3>1, <3>2
    <3> QED
      BY <3>2, <3>3, <1>1, <1>2
  <2> QED
    BY <2>1, <2>2
<1>5. mem' \in Memory(Vertices)
  BY <1>3 DEF Good
<1>6. Good(mem', id', live', Vertices)
  <2>1. live' \in SUBSET Edge
    BY <1>1, <1>2
  <2> QED
    BY <2>1, <1>2, <1>3, <1>4, <1>5, GoodAgrees
<1>7. Ends(id', live', Vertices)
  BY <1>1, <1>2, <1>4 DEF Ends, Sides
<1>8. edges_size' = Cardinality(live')
  BY <1>1, <1>2, FiniteLinks, FS_RemoveElement
<1>9. Vertices' = Vertices
  BY DEF Vertices
<1> QED
  BY <1>1, <1>2, <1>3, <1>4, <1>6, <1>7, <1>8, <1>9 DEF GraphInv, EdgesCounted, NoFault

\* An iteration that stands on f and has not reached last will reach it from the
\* edge after f, even if f is erased.
LEMMA AfterAdvance ==
  ASSUME GraphInv, NEW u \in Vertices, NEW f, Incident(f, u),
         NEW last \in After(f, u), last # f
  PROVE  last \in After(Advance(f, u), u)
<1>1. f \in Edge /\ Advance(f, u) # f
  <2>1. f \in Edge /\ NULL \notin Edge
    BY UALAssumption DEF GraphInv, Incident
  <2> QED
    BY <2>1 DEF Advance
<1>2. ASSUME NEW S \in SUBSET Edge,
             Advance(f, u) \in S \cup {NULL},
             \A g \in S : Advance(g, u) \in S \cup {NULL}
      PROVE  last \in S
  <2> DEFINE S2 == S \cup {f}
  <2>1. S2 \in SUBSET Edge /\ f \in S2 \cup {NULL}
    BY <1>1
  <2>2. \A g \in S2 : Advance(g, u) \in S2 \cup {NULL}
    BY <1>2
  <2>3. last \in S2
    BY <2>1, <2>2 DEF After
  <2> QED
    BY <2>3
<1> QED
  BY <1>2 DEF After

LEMMA AfterErase ==
  ASSUME GraphInv, NEW u \in Vertices, NEW f, Incident(f, u), Erase(f), n' = n,
         NEW last \in After(f, u), last # f, NEW y, y = Advance(f, u)
  PROVE  last \in After(y, u)'
<1>1. /\ live \in SUBSET Edge /\ id \in [Link -> Nat] /\ NULL \notin Edge
      /\ Good(mem, id, live, Vertices) /\ Ends(id, live, Vertices)
  BY UALAssumption DEF GraphInv
<1>2. f \in live /\ f \in Edge
  BY <1>1 DEF Incident
<1>3. /\ live' = live \ {f}
      /\ mem' = UnlinkBoth(mem, id, f)
      /\ \A l \in live' \X Sides : id'[l] = id[l]
  BY <1>2, EraseGraph
<1> DEFINE I == {g \in live : Incident(g, u)}
<1>4. ASSUME NEW S \in SUBSET Edge, y \in S \cup {NULL},
             \A g \in S : Advance(g, u)' \in S \cup {NULL}
      PROVE  last \in S
  <2> DEFINE S2 == (S \cap I) \cup {f}
  <2>1. S2 \in SUBSET Edge /\ f \in S2 \cup {NULL}
    BY <1>1, <1>2
  <2>2. ASSUME NEW g \in S2 PROVE Advance(g, u) \in S2 \cup {NULL}
    <3>1. Incident(g, u)
      BY <2>2
    <3> DEFINE gl == <<g, SideOf(id, g, u)>>
    <3>2. /\ gl \in live \X Sides
          /\ Advance(g, u) = mem.next[gl]
          /\ Advance(g, u) # NULL => Advance(g, u) \in I
      BY <3>1, <1>1, AdvanceIncident DEF Incident
    <3>3. CASE g = f
      BY <3>2, <3>3, <1>4
    <3>4. CASE g # f /\ mem.next[gl] = f
      BY <3>2, <3>4
    <3>5. CASE g # f /\ mem.next[gl] # f
      <4>1. mem'.next[gl] = mem.next[gl]
        BY <3>2, <3>5, <1>1, <1>2, <1>3, UnlinkBothKeeps
      <4>2. g \in live' /\ g \in S /\ "in" \in Sides
        BY <3>1, <3>5, <1>3 DEF Incident, Sides
      <4>3. SideOf(id', g, u) = SideOf(id, g, u)
        BY <4>2, <1>3 DEF SideOf
      <4>4. Advance(g, u)' = IF mem.next[gl] = g THEN NULL ELSE mem.next[gl]
        BY <4>1, <4>3 DEF Advance
      <4>5. mem.next[gl] \in S \cup {NULL}
        BY <4>2, <4>4, <3>2, <1>4 DEF Advance
      <4> QED
        BY <4>5, <3>2
    <3> QED
      BY <3>3, <3>4, <3>5
  <2>3. last \in S2
    BY <2>1, <2>2 DEF After
  <2> QED
    BY <2>3
<1> QED
  BY <1>4 DEF After

\* m2 is m without the list of vertex r.
Shifted(m, m2, k, r) ==
  /\ m2 \in Memory(0..(k - 2)) /\ m2.next = m.next /\ m2.prev = m.prev
  /\ \A w \in 0..(k - 2) : LET o == IF w < r THEN w ELSE w + 1
                           IN  /\ m2.head[w] = m.head[o]
                               /\ m2.tail[w] = m.tail[o]
                               /\ m2.size[w] = m.size[o]

\* A vertex without edges is removed and the others close the gap: the lists are
\* the same lists under the new numbers.
LEMMA RemoveVertexGood ==
  ASSUME NEW k \in Nat, NEW r \in 0..(k - 1), NEW D \in SUBSET Edge, NEW m, NEW m2,
         NEW i \in [Link -> Nat], NEW j \in [Link -> Nat],
         Good(m, i, D, 0..(k - 1)), Ends(i, D, 0..(k - 1)),
         \A l \in D \X Sides : i[l] # r /\ j[l] = Renumber(i[l], r),
         Shifted(m, m2, k, r)
  PROVE  Good(m2, j, D, 0..(k - 2)) /\ Ends(j, D, 0..(k - 2))
<1> USE DEF Shifted
<1> DEFINE L == D \X Sides
           O(w) == IF w < r THEN w ELSE w + 1
<1>1. /\ Linked(m, i, L, 0..(k - 1)) /\ Ordered(m, L) /\ Sized(m, i, L, 0..(k - 1))
      /\ L \in SUBSET Link
      /\ \A l \in L : i[l] \in 0..(k - 1) /\ i[l] # r
      /\ \A f \in D : /\ <<f, "in">> \in L /\ <<f, "out">> \in L
                      /\ i[<<f, "in">>] # i[<<f, "out">>]
  BY FiniteLinks DEF Good, Ends, Sides
<1>2. \A x \in 0..(k - 1) : x # r => Renumber(x, r) \in 0..(k - 2) /\ O(Renumber(x, r)) = x
  BY DEF Renumber
<1>3. \A w \in 0..(k - 2) : O(w) \in 0..(k - 1) /\ O(w) # r /\ Renumber(O(w), r) = w
  BY DEF Renumber
<1>4. \A l \in L : /\ j[l] \in 0..(k - 2) /\ O(j[l]) = i[l]
                   /\ \A w \in 0..(k - 2) : j[l] = w <=> i[l] = O(w)
  BY <1>1, <1>2, <1>3
<1> HIDE DEF O
<1>5. \A f \in D, w \in 0..(k - 2) : SideOf(j, f, w) = SideOf(i, f, O(w))
  BY <1>1, <1>4 DEF SideOf
<1>6. \A f, w : w \in 0..(k - 2) /\ HasEnd(i, L, f, O(w)) =>
                  /\ HasEnd(j, L, f, w) /\ f \in D
                  /\ SideOf(j, f, w) = SideOf(i, f, O(w))
  <2> SUFFICES ASSUME NEW f, NEW w \in 0..(k - 2), HasEnd(i, L, f, O(w))
               PROVE  /\ HasEnd(j, L, f, w) /\ f \in D
                      /\ SideOf(j, f, w) = SideOf(i, f, O(w))
    OBVIOUS
  <2>1. <<f, SideOf(i, f, O(w))>> \in L /\ i[<<f, SideOf(i, f, O(w))>>] = O(w) /\ f \in D
    BY DEF HasEnd
  <2>2. SideOf(j, f, w) = SideOf(i, f, O(w))
    BY <2>1, <1>5
  <2> QED
    BY <2>1, <2>2, <1>4 DEF HasEnd
<1>7. \A w \in 0..(k - 2) : /\ m2.head[w] = m.head[O(w)]
                            /\ m2.tail[w] = m.tail[O(w)]
                            /\ m2.size[w] = m.size[O(w)]
  BY DEF O
<1>8. Linked(m2, j, L, 0..(k - 2))
  <2>1. ASSUME NEW l \in L
        PROVE  LET u == j[l]
                   p == m2.prev[l]
                   x == m2.next[l]
               IN  /\ IF p = NULL THEN m2.head[u] = l[1]
                      ELSE HasEnd(j, L, p, u) /\ m2.next[<<p, SideOf(j, p, u)>>] = l[1]
                   /\ IF x = NULL THEN m2.tail[u] = l[1]
                      ELSE HasEnd(j, L, x, u) /\ m2.prev[<<x, SideOf(j, x, u)>>] = l[1]
    <3> DEFINE u == j[l]
               p == m.prev[l]
               x == m.next[l]
    <3>1. u \in 0..(k - 2) /\ O(u) = i[l]
      BY <1>4
    <3>2. /\ IF p = NULL THEN m.head[i[l]] = l[1]
             ELSE HasEnd(i, L, p, i[l]) /\ m.next[<<p, SideOf(i, p, i[l])>>] = l[1]
          /\ IF x = NULL THEN m.tail[i[l]] = l[1]
             ELSE HasEnd(i, L, x, i[l]) /\ m.prev[<<x, SideOf(i, x, i[l])>>] = l[1]
      BY <1>1 DEF Linked
    <3> HIDE DEF u, p, x
    <3>3. p = NULL => m2.head[u] = l[1]
      BY <3>1, <3>2, <1>7
    <3>4. ASSUME p # NULL
          PROVE  HasEnd(j, L, p, u) /\ m2.next[<<p, SideOf(j, p, u)>>] = l[1]
      <4>1. HasEnd(i, L, p, O(u)) /\ m.next[<<p, SideOf(i, p, O(u))>>] = l[1]
        BY <3>1, <3>2, <3>4
      <4>2. HasEnd(j, L, p, u) /\ SideOf(j, p, u) = SideOf(i, p, O(u))
        BY <4>1, <3>1, <1>6
      <4> QED
        BY <4>1, <4>2
    <3>5. x = NULL => m2.tail[u] = l[1]
      BY <3>1, <3>2, <1>7
    <3>6. ASSUME x # NULL
          PROVE  HasEnd(j, L, x, u) /\ m2.prev[<<x, SideOf(j, x, u)>>] = l[1]
      <4>1. HasEnd(i, L, x, O(u)) /\ m.prev[<<x, SideOf(i, x, O(u))>>] = l[1]
        BY <3>1, <3>2, <3>6
      <4>2. HasEnd(j, L, x, u) /\ SideOf(j, x, u) = SideOf(i, x, O(u))
        BY <4>1, <3>1, <1>6
      <4> QED
        BY <4>1, <4>2
    <3> QED
      BY <3>3, <3>4, <3>5, <3>6 DEF u, p, x
  <2>2. ASSUME NEW w \in 0..(k - 2)
        PROVE  LET h == m2.head[w]
                   t == m2.tail[w]
               IN  /\ h = NULL <=> t = NULL
                   /\ h # NULL => HasEnd(j, L, h, w) /\ m2.prev[<<h, SideOf(j, h, w)>>] = NULL
                   /\ t # NULL => HasEnd(j, L, t, w) /\ m2.next[<<t, SideOf(j, t, w)>>] = NULL
    <3> DEFINE h == m.head[O(w)]
               t == m.tail[O(w)]
    <3>1. /\ h = NULL <=> t = NULL
          /\ h # NULL => HasEnd(i, L, h, O(w)) /\ m.prev[<<h, SideOf(i, h, O(w))>>] = NULL
          /\ t # NULL => HasEnd(i, L, t, O(w)) /\ m.next[<<t, SideOf(i, t, O(w))>>] = NULL
      BY <1>1, <1>3 DEF Linked
    <3>2. h = m2.head[w] /\ t = m2.tail[w]
      BY <1>7
    <3> HIDE DEF h, t
    <3>3. h # NULL => HasEnd(j, L, h, w) /\ m2.prev[<<h, SideOf(j, h, w)>>] = NULL
      BY <3>1, <1>6
    <3>4. t # NULL => HasEnd(j, L, t, w) /\ m2.next[<<t, SideOf(j, t, w)>>] = NULL
      BY <3>1, <1>6
    <3> QED
      BY <3>1, <3>2, <3>3, <3>4
  <2> QED
    BY <2>1, <2>2 DEF Linked
<1>9. Ordered(m2, L)
  BY <1>1 DEF Ordered
<1>10. Sized(m2, j, L, 0..(k - 2))
  <2>1. ASSUME NEW w \in 0..(k - 2)
        PROVE  m2.size[w] = Cardinality({l \in L : j[l] = w})
    <3>1. {l \in L : j[l] = w} = {l \in L : i[l] = O(w)}
      BY <1>4
    <3> QED
      BY <3>1, <1>1, <1>3, <1>7 DEF Sized
  <2> QED
    BY <2>1 DEF Sized
<1>11. Ends(j, D, 0..(k - 2))
  BY <1>1, <1>4 DEF Ends
<1> QED
  BY <1>8, <1>9, <1>10, <1>11 DEF Good

\* m2 is m with one more vertex, whose list is empty.
Grown(m, m2, k) ==
  /\ m2 \in Memory(0..k) /\ m2.next = m.next /\ m2.prev = m.prev
  /\ \A w \in 0..k : /\ m2.head[w] = IF w < k THEN m.head[w] ELSE NULL
                     /\ m2.tail[w] = IF w < k THEN m.tail[w] ELSE NULL
                     /\ m2.size[w] = IF w < k THEN m.size[w] ELSE 0

\* A vertex with an empty list is added.
LEMMA AddVertexGood ==
  ASSUME NEW k \in Nat, NEW D \in SUBSET Edge, NEW m, NEW m2, NEW i \in [Link -> Nat],
         Good(m, i, D, 0..(k - 1)), Ends(i, D, 0..(k - 1)),
         Grown(m, m2, k)
  PROVE  Good(m2, i, D, 0..k) /\ Ends(i, D, 0..k)
<1> USE DEF Grown
<1> DEFINE L == D \X Sides
<1>1. /\ Linked(m, i, L, 0..(k - 1)) /\ Ordered(m, L) /\ Sized(m, i, L, 0..(k - 1))
      /\ \A l \in L : i[l] \in 0..(k - 1)
  BY DEF Good, Ends
<1>2. \A w : w \in 0..(k - 1) <=> w \in 0..k /\ w < k
  OBVIOUS
<1>3. Linked(m2, i, L, 0..k)
  <2>1. ASSUME NEW l \in L
        PROVE  LET u == i[l]
                   p == m2.prev[l]
                   x == m2.next[l]
               IN  /\ IF p = NULL THEN m2.head[u] = l[1]
                      ELSE HasEnd(i, L, p, u) /\ m2.next[<<p, SideOf(i, p, u)>>] = l[1]
                   /\ IF x = NULL THEN m2.tail[u] = l[1]
                      ELSE HasEnd(i, L, x, u) /\ m2.prev[<<x, SideOf(i, x, u)>>] = l[1]
    <3>1. m2.head[i[l]] = m.head[i[l]] /\ m2.tail[i[l]] = m.tail[i[l]]
      BY <1>1, <1>2
    <3> DEFINE u == i[l]
               p == m.prev[l]
               x == m.next[l]
    <3>2. /\ IF p = NULL THEN m.head[u] = l[1]
             ELSE HasEnd(i, L, p, u) /\ m.next[<<p, SideOf(i, p, u)>>] = l[1]
          /\ IF x = NULL THEN m.tail[u] = l[1]
             ELSE HasEnd(i, L, x, u) /\ m.prev[<<x, SideOf(i, x, u)>>] = l[1]
      BY <1>1 DEF Linked
    <3> QED
      BY <3>1, <3>2
  <2>2. ASSUME NEW w \in 0..k
        PROVE  LET h == m2.head[w]
                   t == m2.tail[w]
               IN  /\ h = NULL <=> t = NULL
                   /\ h # NULL => HasEnd(i, L, h, w) /\ m2.prev[<<h, SideOf(i, h, w)>>] = NULL
                   /\ t # NULL => HasEnd(i, L, t, w) /\ m2.next[<<t, SideOf(i, t, w)>>] = NULL
    <3>1. CASE w < k
      <4>1. m2.head[w] = m.head[w] /\ m2.tail[w] = m.tail[w] /\ w \in 0..(k - 1)
        BY <3>1
      <4> QED
        BY <4>1, <1>1 DEF Linked
    <3>2. CASE ~(w < k)
      BY <3>2
    <3> QED
      BY <3>1, <3>2
  <2> QED
    BY <2>1, <2>2 DEF Linked
<1>4. Ordered(m2, L)
  BY <1>1 DEF Ordered
<1>5. Sized(m2, i, L, 0..k)
  <2>1. ASSUME NEW w \in 0..k
        PROVE  m2.size[w] = Cardinality({l \in L : i[l] = w})
    <3>1. CASE w < k
      BY <3>1, <1>1, <1>2 DEF Sized
    <3>2. CASE ~(w < k)
      <4>1. {l \in L : i[l] = w} = {}
        BY <3>2, <1>1
      <4> QED
        BY <4>1, <3>2, FS_EmptySet
    <3> QED
      BY <3>1, <3>2
  <2> QED
    BY <2>1 DEF Sized
<1>6. Ends(i, D, 0..k)
  BY <1>1 DEF Ends
<1> QED
  BY <1>3, <1>4, <1>5, <1>6 DEF Good

-----------------------------------------------------------------------------
(* One lemma per action *)

LEMMA InitInv == Init => IInv
<1> SUFFICES ASSUME Init PROVE IInv
  OBVIOUS
<1>1. Vertices = {} /\ live \X Sides = {}
  BY DEF Init, Vertices
<1>2. mem \in Memory(Vertices)
  BY <1>1 DEF Init, Memory, Pointer
<1>3. Linked(mem, id, live \X Sides, Vertices) /\ Sized(mem, id, live \X Sides, Vertices)
  BY <1>1 DEF Linked, Sized
<1>4. Ordered(mem, live \X Sides)
  <2> DEFINE r == [f \in Edge |-> 0]
  <2>1. r \in [Edge -> Nat] /\ 1 \in Nat /\ \A f \in Edge : r[f] < 1
    OBVIOUS
  <2> HIDE DEF r
  <2> QED
    BY <1>1, <2>1 DEF Ordered
<1>5. Good(mem, id, live, Vertices) /\ Ends(id, live, Vertices)
  BY <1>1, <1>2, <1>3, <1>4 DEF Good, Ends, Init
<1>6. EdgesCounted
  BY FS_EmptySet DEF Init, EdgesCounted
<1>7. GraphInv
  BY <1>5, <1>6, UALAssumption DEF Init, GraphInv, NoFault
<1>8. CallInv
  BY <1>1, UALAssumption DEF Init, CallInv, CallType, Idle, Ops, Pointer
<1>9. CursorInv
  BY DEF Init, CursorInv, NoCursor, Pointer
<1> QED
  BY <1>7, <1>8, <1>9 DEF IInv

LEMMA AddVertexInv == IInv /\ AddVertex => IInv'
<1> SUFFICES ASSUME IInv, AddVertex PROVE IInv'
  OBVIOUS
<1>1. /\ n' = n + 1 /\ n < MaxVertices /\ n \in Nat /\ MaxVertices \in Nat
      /\ live' = live /\ id' = id /\ edges_size' = edges_size
      /\ call' = call /\ call = Idle /\ fault' = fault /\ cursor' = NoCursor
  BY UALAssumption DEF AddVertex, Ready, IInv, GraphInv
<1>2. Vertices = 0..(n - 1) /\ Vertices' = 0..n
  BY <1>1 DEF Vertices
<1>3. mem \in Memory(Vertices)
  BY DEF IInv, GraphInv, Good
<1> DEFINE H == [u \in 0..n |-> IF u < n THEN mem.head[u] ELSE NULL]
           T == [u \in 0..n |-> IF u < n THEN mem.tail[u] ELSE NULL]
           Z == [u \in 0..n |-> IF u < n THEN mem.size[u] ELSE 0]
<1>4. mem' = [next |-> mem.next, prev |-> mem.prev, head |-> H, tail |-> T, size |-> Z]
  BY DEF AddVertex
<1>5. Good(mem', id, live, 0..n) /\ Ends(id, live, 0..n)
  <2>1. \A w \in 0..n : w < n => w \in 0..(n - 1)
    BY <1>1
  <2>2. /\ mem.next \in [Link -> Pointer] /\ mem.prev \in [Link -> Pointer]
        /\ mem.head \in [0..(n - 1) -> Pointer] /\ mem.tail \in [0..(n - 1) -> Pointer]
        /\ mem.size \in [0..(n - 1) -> Nat]
    BY <1>2, <1>3 DEF Memory
  <2>3. /\ H \in [0..n -> Pointer] /\ T \in [0..n -> Pointer] /\ Z \in [0..n -> Nat]
    BY <2>1, <2>2 DEF Pointer
  <2>4. \A w \in 0..n : /\ H[w] = IF w < n THEN mem.head[w] ELSE NULL
                        /\ T[w] = IF w < n THEN mem.tail[w] ELSE NULL
                        /\ Z[w] = IF w < n THEN mem.size[w] ELSE 0
    OBVIOUS
  <2> HIDE DEF H, T, Z
  <2>5. /\ mem' \in Memory(0..n)
        /\ mem'.next = mem.next /\ mem'.prev = mem.prev
        /\ mem'.head = H /\ mem'.tail = T /\ mem'.size = Z
    BY <1>4, <2>2, <2>3 DEF Memory
  <2>6. /\ live \in SUBSET Edge /\ id \in [Link -> Nat]
        /\ Good(mem, id, live, 0..(n - 1)) /\ Ends(id, live, 0..(n - 1))
    BY <1>2 DEF IInv, GraphInv
  <2>7. Grown(mem, mem', n)
    BY <2>4, <2>5 DEF Grown
  <2> QED
    BY <1>1, <2>6, <2>7, AddVertexGood
<1>6. GraphInv'
  BY <1>1, <1>2, <1>5 DEF IInv, GraphInv, EdgesCounted, NoFault
<1>7. CallInv'
  BY <1>1 DEF IInv, CallInv, Idle
<1>8. CursorInv'
  BY <1>1 DEF CursorInv, NoCursor, Pointer
<1> QED
  BY <1>6, <1>7, <1>8 DEF IInv

\* What the graph invariant says of one vertex.
LEMMA GraphFacts ==
  ASSUME GraphInv
  PROVE  /\ live \in SUBSET Edge /\ id \in [Link -> Nat] /\ n \in Nat /\ NULL \notin Edge
         /\ n <= MaxVertices /\ MaxVertices \in Nat /\ NULL \notin live
         /\ Good(mem, id, live, Vertices) /\ Ends(id, live, Vertices)
         /\ mem \in Memory(Vertices)
         /\ Vertices = 0..(n - 1)
         /\ \A u \in Vertices : mem.head[u] # NULL => Incident(mem.head[u], u)
<1>1. /\ live \in SUBSET Edge /\ id \in [Link -> Nat] /\ n \in Nat /\ NULL \notin Edge
      /\ n <= MaxVertices /\ MaxVertices \in Nat
      /\ Good(mem, id, live, Vertices) /\ Ends(id, live, Vertices)
      /\ mem \in Memory(Vertices)
  BY UALAssumption DEF GraphInv, Good
<1>2. \A u \in Vertices : mem.head[u] # NULL => HasEnd(id, live \X Sides, mem.head[u], u)
  BY <1>1 DEF Good, Linked
<1>3. \A u \in Vertices : mem.head[u] # NULL => Incident(mem.head[u], u)
  BY <1>2 DEF HasEnd, Incident
<1> QED
  BY <1>1, <1>3 DEF Vertices

\* The ids after add_edge(u, v) has made e.
IdsWith(e, u, v) == [id EXCEPT ![<<e, "in">>] = u, ![<<e, "out">>] = v]

\* i and m are the ids and pointers of a graph to which e, an edge from u to v, has been
\* added but not linked yet.
Made(i, m, e, u, v) ==
  /\ i \in [Link -> Nat] /\ i[<<e, "in">>] = u /\ i[<<e, "out">>] = v
  /\ \A l \in live \X Sides : i[l] = id[l] /\ m.next[l] = mem.next[l]
  /\ Good(m, i, live, Vertices) /\ Ends(i, live \cup {e}, Vertices)
  /\ \A k \in Sides : m.next[<<e, k>>] = NULL /\ m.prev[<<e, k>>] = NULL
  /\ m.head = mem.head

LEMMA NewEdge ==
  ASSUME GraphInv, NEW e \in Edge \ live, NEW u \in Vertices, NEW v \in Vertices, u # v
  PROVE  Made(IdsWith(e, u, v), Construct(mem, e), e, u, v)
<1> DEFINE newId == IdsWith(e, u, v)
           m1 == Construct(mem, e)
<1>1. /\ live \in SUBSET Edge /\ id \in [Link -> Nat]
      /\ Good(mem, id, live, Vertices) /\ Ends(id, live, Vertices) /\ mem \in Memory(Vertices)
      /\ "in" \in Sides /\ "out" \in Sides /\ u \in Nat /\ v \in Nat
  BY GraphFacts DEF Sides, Vertices
<1>2. newId \in [Link -> Nat] /\ newId[<<e, "in">>] = u /\ newId[<<e, "out">>] = v
  BY <1>1 DEF Link, IdsWith
<1>3. \A l \in live \X Sides : newId[l] = id[l] /\ l[1] # e /\ l \in Link
  <2> SUFFICES ASSUME NEW l \in live \X Sides PROVE newId[l] = id[l] /\ l[1] # e /\ l \in Link
    OBVIOUS
  <2>1. PICK f \in live, s \in Sides : l = <<f, s>>
    OBVIOUS
  <2>2. f # e /\ l \in Link
    BY <2>1, <1>1 DEF Link
  <2>3. l # <<e, "in">> /\ l # <<e, "out">>
    BY <2>1, <2>2
  <2> QED
    BY <2>1, <2>2, <2>3, <1>1 DEF IdsWith
<1>4. /\ m1 \in Memory(Vertices)
      /\ m1.head = mem.head /\ m1.tail = mem.tail /\ m1.size = mem.size
      /\ \A l \in Link : /\ m1.next[l] = IF l[1] = e THEN NULL ELSE mem.next[l]
                         /\ m1.prev[l] = IF l[1] = e THEN NULL ELSE mem.prev[l]
  BY <1>1 DEF Construct, Memory, Pointer
<1> HIDE DEF newId, m1
<1>5. Good(m1, newId, live, Vertices)
  BY <1>1, <1>2, <1>3, <1>4, GoodAgrees
<1>6. Ends(newId, live \cup {e}, Vertices)
  <2>1. \A l \in (live \cup {e}) \X Sides : newId[l] \in Vertices
    BY <1>1, <1>2, <1>3 DEF Ends, Sides
  <2>2. \A f \in live \cup {e} : newId[<<f, "in">>] # newId[<<f, "out">>]
    BY <1>1, <1>2, <1>3 DEF Ends
  <2> QED
    BY <2>1, <2>2 DEF Ends
<1>7. \A k \in Sides : m1.next[<<e, k>>] = NULL /\ m1.prev[<<e, k>>] = NULL
  BY <1>4 DEF Link
<1>8. \A l \in live \X Sides : m1.next[l] = mem.next[l]
  BY <1>3, <1>4
<1>9. Made(newId, m1, e, u, v)
  BY <1>2, <1>3, <1>4, <1>5, <1>6, <1>7, <1>8 DEF Made
<1> QED
  BY <1>9 DEF newId, m1

LEMMA AddEdgeInv ==
  ASSUME SelfLoops = FALSE, IInv, NEW e \in Edge, NEW u \in Vertices, NEW v \in Vertices,
         AddEdge(e, u, v)
  PROVE  IInv'
<1> DEFINE newId == IdsWith(e, u, v)
           m1 == Construct(mem, e)
<1>1. /\ e \notin live /\ u # v
      /\ live' = live \cup {e} /\ id' = newId /\ mem' = LinkBoth(m1, newId, e)
      /\ edges_size' = edges_size + 1 /\ n' = n
      /\ call' = call /\ call = Idle /\ cursor' = NoCursor
      /\ fault' = ~({mem.tail[u], mem.tail[v]} \subseteq live \cup {NULL})
  BY DEF AddEdge, Ready, IdsWith
<1>2. /\ live \in SUBSET Edge /\ n \in 0..MaxVertices
      /\ Good(mem, id, live, Vertices) /\ edges_size = Cardinality(live)
      /\ Vertices' = Vertices /\ GraphInv
  BY <1>1 DEF IInv, GraphInv, EdgesCounted, Vertices
<1> HIDE DEF newId, m1
<1>3. Made(newId, m1, e, u, v)
  BY <1>1, <1>2, NewEdge DEF newId, m1
<1>4. /\ newId \in [Link -> Nat] /\ newId[<<e, "in">>] = u /\ newId[<<e, "out">>] = v
      /\ Good(m1, newId, live, Vertices) /\ Ends(newId, live \cup {e}, Vertices)
      /\ \A k \in Sides : m1.next[<<e, k>>] = NULL /\ m1.prev[<<e, k>>] = NULL
  BY <1>3 DEF Made
<1>5. Good(mem', id', live', Vertices)
  BY <1>1, <1>2, <1>4, LinkBothGood
<1>6. edges_size' = Cardinality(live')
  BY <1>1, <1>2, FiniteLinks, FS_AddElement
<1>7. fault' = FALSE
  <2>1. \A w \in Vertices : mem.tail[w] \in live \cup {NULL}
    BY <1>2 DEF Good, Linked, HasEnd
  <2> QED
    BY <2>1, <1>1
<1>8. GraphInv'
  BY <1>1, <1>2, <1>4, <1>5, <1>6, <1>7 DEF GraphInv, EdgesCounted, NoFault
<1>9. CallInv'
  BY <1>1 DEF IInv, CallInv, Idle
<1>10. CursorInv'
  BY <1>1 DEF CursorInv, NoCursor, Pointer
<1> QED
  BY <1>8, <1>9, <1>10 DEF IInv

LEMMA EraseEdgeInv ==
  ASSUME IInv, NEW e \in Edge, NEW u \in Vertices, EraseEdge(u, e)
  PROVE  IInv'
<1>1. /\ call = Idle /\ e \in Iterated(u) /\ Erase(e) /\ n' = n /\ call' = call
      /\ cursor' = [kind |-> "vertex", u |-> u, uv |-> Advance(e, u)]
  BY DEF EraseEdge, Ready
<1>2. GraphInv /\ CallInv
  BY DEF IInv
<1>3. Incident(e, u) /\ e \in live
  BY <1>1, <1>2, GraphFacts, IteratedIncident
<1>4. GraphInv' /\ live' = live \ {e}
  BY <1>1, <1>2, <1>3, EraseGraph
<1>5. CallInv'
  BY <1>1, <1>2 DEF CallInv, Idle
<1>6. Advance(e, u) # NULL => Advance(e, u) \in live
  BY <1>2, <1>3, GraphFacts, AdvanceIncident DEF Incident
<1>7. Advance(e, u) # e
  BY <1>2, <1>3, GraphFacts DEF Advance
<1>8. CursorInv'
  <2>1. Advance(e, u) \in live' \cup {NULL} /\ Advance(e, u) \in Pointer /\ u \in Nat
    BY <1>2, <1>4, <1>6, <1>7, GraphFacts DEF Pointer
  <2> QED
    BY <2>1, <1>1 DEF CursorInv
<1> QED
  BY <1>4, <1>5, <1>8 DEF IInv

LEMMA RemoveEdgeAtInv ==
  ASSUME IInv, NEW e \in Edge, NEW u \in Vertices, RemoveEdgeAt(u, e)
  PROVE  IInv'
<1>1. /\ call = Idle /\ e \in Iterated(u) /\ Erase(e) /\ n' = n /\ call' = call
      /\ cursor' = GraphAdvance(u, e)
  BY DEF RemoveEdgeAt, Ready
<1>2. GraphInv /\ CallInv
  BY DEF IInv
<1>3. Incident(e, u) /\ e \in live
  BY <1>1, <1>2, GraphFacts, IteratedIncident
<1>4. GraphInv' /\ live' = live \ {e}
  BY <1>1, <1>2, <1>3, EraseGraph
<1>5. CallInv'
  BY <1>1, <1>2 DEF CallInv, Idle
<1>6. Advance(e, u) # NULL => Advance(e, u) \in Pointer
  BY <1>2, <1>3, GraphFacts, AdvanceIncident DEF Incident, Pointer
<1>7. ASSUME NEW k \in Nat
      PROVE  FirstFrom(k) \in [kind : {"none", "vertex", "graph"}, u : Nat, uv : Pointer]
             /\ FirstFrom(k).kind = "graph"
  <2> DEFINE S == {w \in k..(n - 1) : mem.size[w] > 0}
             w0 == CHOOSE x \in S : \A y \in S : x <= y
  <2>1. CASE S = {}
    BY <2>1, <1>2, GraphFacts DEF FirstFrom, Pointer
  <2>2. CASE S # {}
    <3>1. S \in SUBSET Nat
      BY <1>2, GraphFacts
    <3>2. \E x \in S : \A y \in S : x <= y
      BY <3>1, <2>2, LeastNatural
    <3>3. w0 \in S
      BY <3>2
    <3>4. w0 \in Vertices /\ w0 \in Nat
      BY <3>3, <3>1, <1>2, GraphFacts
    <3>5. mem.head[w0] \in Pointer
      BY <3>4, <1>2, GraphFacts DEF Memory
    <3>6. FirstFrom(k) = [kind |-> "graph", u |-> w0, uv |-> mem.head[w0]]
      BY <2>2 DEF FirstFrom
    <3> QED
      BY <3>4, <3>5, <3>6
  <2> QED
    BY <2>1, <2>2
<1>8. CursorInv'
  <2>1. u \in Nat /\ u + 1 \in Nat
    BY <1>2, GraphFacts
  <2>2. GraphAdvance(u, e) \in [kind : {"none", "vertex", "graph"}, u : Nat, uv : Pointer]
        /\ GraphAdvance(u, e).kind = "graph"
    BY <2>1, <1>6, <1>7 DEF GraphAdvance
  <2> QED
    BY <2>2, <1>1 DEF CursorInv
<1> QED
  BY <1>4, <1>5, <1>8 DEF IInv

\* The calls that only begin a loop.
LEMMA BeginInv ==
  ASSUME IInv, Begin
  PROVE  IInv'
<1>1. GraphInv /\ CursorInv
  BY DEF IInv
<1>2. /\ live' = live /\ id' = id /\ mem' = mem /\ n' = n
      /\ edges_size' = edges_size /\ fault' = fault /\ cursor' = NoCursor
  BY DEF Begin, RemoveEdge, EraseEdges, RemoveVertex, Clear
<1>3. GraphInv'
  BY <1>1, <1>2 DEF GraphInv, EdgesCounted, NoFault, Vertices
<1>4. CursorInv'
  BY <1>2 DEF CursorInv, NoCursor, Pointer
<1>5. Vertices' = Vertices /\ \A f, u : Incident(f, u)' = Incident(f, u)
  BY <1>2 DEF Vertices, Incident
<1>6. \A u \in Vertices : u \in 0..MaxVertices
  BY <1>1, GraphFacts
<1>7. ASSUME NEW u \in Vertices, NEW v \in Vertices, RemoveEdge(u, v)
      PROVE  CallInv'
  <2>1. call' = [op |-> "remove_edge", u |-> u, v |-> v, it |-> mem.head[u], last |-> NULL]
    BY <1>7 DEF RemoveEdge, Idle
  <2>2. mem.head[u] \in Pointer /\ (mem.head[u] = NULL \/ Incident(mem.head[u], u))
    BY <1>1, GraphFacts DEF Memory
  <2>3. call' \in CallType
    BY <2>1, <2>2, <1>6 DEF CallType, Ops, Pointer
  <2> QED
    BY <2>1, <2>2, <2>3, <1>5 DEF CallInv
<1>8. ASSUME NEW u \in Vertices, NEW first \in Edge, NEW last \in Pointer,
             EraseEdges(u, first, last)
      PROVE  CallInv'
  <2>1. /\ call' = [op |-> "erase_edges", u |-> u, v |-> 0, it |-> first, last |-> last]
        /\ first \in Iterated(u)
        /\ last = NULL \/ last \in After(first, u)
    BY <1>8 DEF EraseEdges, Idle
  <2>2. Incident(first, u)
    BY <2>1, <1>1, GraphFacts, IteratedIncident
  <2>3. last = NULL \/ last \in After(first, u)
    BY <2>1
  <2>4. After(first, u)' = After(first, u)
    BY <1>2 DEF After, Advance, SideOf
  <2>5. last = NULL \/ last \in After(first, u)'
    BY <2>3, <2>4
  <2>6. call' \in CallType
    <3>1. first \in Pointer /\ u \in 0..MaxVertices /\ 0 \in 0..MaxVertices
      BY <1>1, <1>6, GraphFacts DEF Pointer
    <3> QED
      BY <2>1, <3>1 DEF CallType, Ops
  <2>7. call.it' = first /\ call.last' = last /\ call.u' = u /\ call.op' = "erase_edges"
    BY <2>1
  <2>8. call.last' = NULL \/ call.last' \in After(call.it, call.u)'
    BY <2>5, <2>7, <1>2 DEF After, Advance, SideOf
  <2> QED
    BY <2>2, <2>6, <2>7, <2>8, <1>5 DEF CallInv
<1>9. ASSUME NEW u \in Vertices, RemoveVertex(u)
      PROVE  CallInv'
  <2>1. call' = [op |-> "remove_vertex", u |-> u, v |-> 0, it |-> NULL, last |-> NULL]
    BY <1>9 DEF RemoveVertex, Idle
  <2>2. call' \in CallType
    BY <2>1, <1>1, <1>6, GraphFacts DEF CallType, Ops, Pointer
  <2> QED
    BY <2>1, <2>2, <1>5 DEF CallInv
<1>10. ASSUME Clear PROVE CallInv'
  <2>1. call' = [op |-> "clear", u |-> 0, v |-> 0, it |-> NULL, last |-> NULL]
    BY <1>10 DEF Clear, Idle
  <2>2. call' \in CallType
    BY <2>1, <1>1, GraphFacts DEF CallType, Ops, Pointer
  <2>3. \A l \in live \X Sides : id[l] >= 0
    BY <1>1, GraphFacts DEF Link
  <2> QED
    BY <2>1, <2>2, <2>3, <1>1, <1>2, GraphFacts DEF CallInv
<1> QED
  BY <1>3, <1>4, <1>7, <1>8, <1>9, <1>10 DEF Begin, IInv

\* An iteration that has come to its end passes no edge.
LEMMA NothingAfterNull ==
  ASSUME NEW u
  PROVE  After(NULL, u) = {}
<1>1. {} \in SUBSET Edge /\ NULL \in {} \cup {NULL}
      /\ \A g \in {} : Advance(g, u) \in {} \cup {NULL}
  OBVIOUS
<1> QED
  BY <1>1 DEF After

\* A loop whose end is not reached stands on an edge of its vertex.
LEMMA LoopStandsOnEdge ==
  ASSUME IInv, call.op \in {"remove_edge", "erase_edges"}, call.it # call.last
  PROVE  /\ call.u \in Vertices /\ Incident(call.it, call.u) /\ call.it \in live
         /\ call.last = NULL \/ call.last \in After(call.it, call.u)
<1>1. GraphInv /\ CallInv
  BY DEF IInv
<1>2. /\ call.u \in Vertices
      /\ call.it = NULL \/ Incident(call.it, call.u)
      /\ call.last = NULL \/ call.last \in After(call.it, call.u)
  BY <1>1 DEF CallInv
<1>3. After(NULL, call.u) = {}
  BY NothingAfterNull
<1>4. call.it # NULL
  BY <1>2, <1>3
<1> QED
  BY <1>2, <1>4 DEF Incident

LEMMA LoopStepInv ==
  ASSUME IInv, LoopStep
  PROVE  IInv'
<1> SUFFICES ASSUME NEW u, NEW f, NEW a, NEW last,
                    u = call.u, f = call.it, a = Advance(f, u), last = call.last
             PROVE  IInv'
  OBVIOUS
<1>1. GraphInv /\ CallInv /\ CursorInv
  BY DEF IInv
<1>2. /\ call.op \in {"remove_edge", "erase_edges"} /\ f # last
      /\ n' = n /\ cursor' = cursor
  BY DEF LoopStep
<1>3. /\ u \in Vertices /\ Incident(f, u) /\ f \in live
      /\ last = NULL \/ last \in After(f, u)
  BY <1>2, LoopStandsOnEdge
<1>4. /\ call' = [call EXCEPT !.it = a]
      /\ \/ Erase(f)
         \/ UNCHANGED <<mem, id, live, edges_size, fault>>
  BY <1>3 DEF LoopStep
<1>5. /\ call \in CallType /\ a \in Pointer
      /\ a # f /\ (a = NULL \/ Incident(a, u))
  <2>1. a # NULL => Incident(a, u)
    BY <1>1, <1>3, GraphFacts, AdvanceIncident
  <2>2. a # f
    BY <1>1, <1>3, GraphFacts DEF Advance
  <2> QED
    BY <2>1, <2>2, <1>1, GraphFacts DEF CallInv, Pointer, Incident
<1>6. /\ call' \in CallType
      /\ call.op' = call.op /\ call.u' = u /\ call.it' = a /\ call.last' = last
  BY <1>4, <1>5 DEF CallType
<1>7. Vertices' = Vertices
  BY <1>2 DEF Vertices
<1>8. GraphInv' /\ (a = NULL \/ Incident(a, u)') /\ (last = NULL \/ last \in After(a, u)')
  <2>1. CASE Erase(f)
    <3>1. /\ GraphInv' /\ live' = live \ {f}
          /\ \A l \in live' \X Sides : id'[l] = id[l]
      BY <1>1, <1>2, <1>3, <2>1, EraseGraph
    <3>2. a = NULL \/ Incident(a, u)'
      BY <3>1, <1>5 DEF Incident
    <3>3. last # NULL => last \in After(a, u)'
      BY <1>1, <1>2, <1>3, <2>1, AfterErase
    <3> QED
      BY <3>1, <3>2, <3>3
  <2>2. CASE UNCHANGED <<mem, id, live, edges_size, fault>>
    <3>1. GraphInv'
      BY <2>2, <1>1, <1>2 DEF GraphInv, EdgesCounted, NoFault, Vertices
    <3>2. a = NULL \/ Incident(a, u)'
      BY <2>2, <1>5 DEF Incident
    <3>3. last # NULL => last \in After(a, u)
      BY <1>1, <1>2, <1>3, AfterAdvance
    <3>4. After(a, u)' = After(a, u)
      BY <2>2 DEF After, Advance, SideOf
    <3> QED
      BY <3>1, <3>2, <3>3, <3>4
  <2> QED
    BY <2>1, <2>2, <1>4
<1>9. CallInv'
  <2>1. After(call.it, call.u)' = After(a, u)' /\ Incident(call.it, call.u)' = Incident(a, u)'
    BY <1>6 DEF After, Advance, Incident
  <2>2. call.it' = NULL \/ Incident(call.it, call.u)'
    BY <2>1, <1>6, <1>8
  <2>3. call.last' = NULL \/ call.last' \in After(call.it, call.u)'
    BY <2>1, <1>6, <1>8
  <2> QED
    BY <2>2, <2>3, <1>2, <1>3, <1>6, <1>7 DEF CallInv
<1>10. CursorInv'
  BY <1>1, <1>2 DEF CursorInv, Idle, NoCursor, Pointer
<1> QED
  BY <1>8, <1>9, <1>10 DEF IInv

LEMMA LoopReturnInv ==
  ASSUME IInv, LoopReturn
  PROVE  IInv'
<1>1. /\ GraphInv /\ CursorInv /\ call.op # "idle"
      /\ call' = Idle /\ UNCHANGED <<live, id, mem, n, edges_size, cursor, fault>>
  BY DEF IInv, LoopReturn
<1>2. GraphInv'
  BY <1>1 DEF GraphInv, EdgesCounted, NoFault, Vertices
<1>3. CallInv'
  BY <1>1, GraphFacts DEF CallInv, CallType, Idle, Ops, Pointer
<1>4. CursorInv'
  BY <1>1 DEF CursorInv
<1> QED
  BY <1>2, <1>3, <1>4 DEF IInv

\* A vertex whose degree is not zero has a first edge; one whose degree is zero
\* has no edge.
LEMMA DegreeFacts ==
  ASSUME GraphInv, NEW u \in Vertices
  PROVE  /\ mem.size[u] > 0 => mem.head[u] \in live
         /\ mem.size[u] = 0 => \A l \in live \X Sides : id[l] # u
<1> DEFINE E == {l \in live \X Sides : id[l] = u}
<1>1. /\ IsFiniteSet(E) /\ mem.size[u] = Cardinality(E) /\ mem.size[u] \in Nat
  <2>1. live \in SUBSET Edge /\ Sized(mem, id, live \X Sides, Vertices)
    BY GraphFacts DEF Good
  <2>2. IsFiniteSet(live \X Sides) /\ E \in SUBSET (live \X Sides)
    BY <2>1, FiniteLinks
  <2>3. mem.size[u] = Cardinality(E)
    BY <2>1 DEF Sized
  <2> HIDE DEF E
  <2> QED
    BY <2>2, <2>3, FS_Subset, FS_CardinalityType
<1>2. mem.size[u] = 0 => E = {}
  BY <1>1, FS_EmptySet
<1>3. ASSUME mem.size[u] > 0 PROVE mem.head[u] \in live
  <2>1. E # {}
    BY <1>1, <1>3, FS_EmptySet
  <2>2. PICK f \in live, s \in Sides : id[<<f, s>>] = u
    BY <2>1
  <2>3. Incident(f, u) /\ Iterated(u) = {e \in live : Incident(e, u)}
    BY <2>2, GraphFacts, IteratedIncident DEF Incident
  <2>4. f \in Iterated(u)
    BY <2>2, <2>3
  <2>5. mem.head[u] # NULL
    <3>1. ~({} \in SUBSET Edge /\ mem.head[u] \in {} \cup {NULL})
      BY <2>4 DEF Iterated, After
    <3> QED
      BY <3>1
  <2> QED
    BY <2>5, GraphFacts DEF Incident
<1> QED
  BY <1>2, <1>3

LEMMA ClearEdgesStepInv ==
  ASSUME IInv, ClearEdgesStep
  PROVE  IInv'
<1>1. GraphInv /\ CallInv /\ CursorInv
  BY DEF IInv
<1>2. /\ call.op \in {"remove_vertex", "clear"} /\ call.u < n /\ mem.size[call.u] > 0
      /\ Erase(mem.head[call.u])
      /\ n' = n /\ call' = call /\ cursor' = cursor
  BY DEF ClearEdgesStep
<1>3. call.u \in Vertices
  BY <1>1, <1>2, GraphFacts DEF CallInv, CallType
<1>4. mem.head[call.u] \in live
  BY <1>1, <1>2, <1>3, DegreeFacts
<1>5. /\ GraphInv' /\ live' \subseteq live
      /\ \A l \in live' \X Sides : id'[l] = id[l]
  BY <1>1, <1>2, <1>4, EraseGraph
<1>6. CallInv'
  <2>1. Vertices' = Vertices
    BY <1>2 DEF Vertices
  <2>2. call.op = "clear" => \A l \in live' \X Sides : id'[l] >= call.u
    BY <1>1, <1>5 DEF CallInv
  <2> QED
    BY <2>1, <2>2, <1>1, <1>2 DEF CallInv
<1>7. CursorInv'
  BY <1>1, <1>2 DEF CursorInv, Idle, NoCursor, Pointer
<1> QED
  BY <1>5, <1>6, <1>7 DEF IInv

LEMMA ClearNextVertexInv ==
  ASSUME IInv, ClearNextVertex
  PROVE  IInv'
<1>1. GraphInv /\ CallInv /\ CursorInv
  BY DEF IInv
<1>2. /\ call.op = "clear" /\ call.u < n /\ mem.size[call.u] = 0
      /\ call' = [call EXCEPT !.u = call.u + 1]
      /\ UNCHANGED <<live, id, mem, n, edges_size, cursor, fault>>
  BY DEF ClearNextVertex
<1>3. call \in CallType /\ call.u \in Nat /\ call.u \in Vertices
  BY <1>1, <1>2, GraphFacts DEF CallInv, CallType
<1>4. \A l \in live \X Sides : id[l] # call.u
  BY <1>1, <1>2, <1>3, DegreeFacts
<1>5. \A l \in live \X Sides : id[l] >= call.u + 1
  BY <1>1, <1>2, <1>3, <1>4, GraphFacts DEF CallInv, Ends
<1>6. GraphInv'
  BY <1>1, <1>2 DEF GraphInv, EdgesCounted, NoFault, Vertices
<1>7. CallInv'
  <2>1. call.u + 1 \in 0..MaxVertices /\ call.u + 1 <= n
    BY <1>1, <1>2, <1>3, GraphFacts
  <2>2. call' \in CallType /\ call.op' = "clear" /\ call.u' = call.u + 1
    BY <2>1, <1>2, <1>3 DEF CallType
  <2>3. call.it' = call.it /\ call.last' = call.last /\ call.it = NULL /\ call.last = NULL
    BY <1>1, <1>2, <1>3 DEF CallInv, CallType
  <2>4. \A l \in live' \X Sides : id'[l] >= call.u'
    BY <2>2, <1>2, <1>5
  <2> QED
    BY <2>1, <2>2, <2>3, <2>4, <1>2 DEF CallInv
<1>8. CursorInv'
  BY <1>1, <1>2 DEF CursorInv, Idle, NoCursor, Pointer
<1> QED
  BY <1>6, <1>7, <1>8 DEF IInv

\* clear leaves its loop when no edge is left.
LEMMA NothingLeft ==
  ASSUME GraphInv, CallInv, call.op = "clear", call.u = n
  PROVE  live = {}
<1>1. ASSUME NEW f \in live PROVE FALSE
  <2>1. <<f, "in">> \in live \X Sides
    BY DEF Sides
  <2>2. id[<<f, "in">>] >= n
    BY <2>1 DEF CallInv
  <2>3. id[<<f, "in">>] \in Vertices
    BY <2>1, GraphFacts DEF Ends
  <2> QED
    BY <2>2, <2>3, GraphFacts
<1> QED
  BY <1>1

LEMMA ClearReturnInv ==
  ASSUME IInv, ClearReturn
  PROVE  IInv'
<1>1. GraphInv /\ CallInv /\ CursorInv
  BY DEF IInv
<1> DEFINE H == [u \in {} |-> NULL]
           Z == [u \in {} |-> 0]
<1>2. /\ call.op = "clear" /\ call.u = n /\ n' = 0
      /\ mem' = [next |-> mem.next, prev |-> mem.prev, head |-> H, tail |-> H, size |-> Z]
      /\ call' = Idle
      /\ UNCHANGED <<live, id, edges_size, cursor, fault>>
  BY DEF ClearReturn
<1>3. live = {}
  BY <1>1, <1>2, NothingLeft
<1>4. Vertices' = {} /\ live' \X Sides = {} /\ live \X Sides = {}
  BY <1>2, <1>3 DEF Vertices
<1>5. /\ mem.next \in [Link -> Pointer] /\ mem.prev \in [Link -> Pointer]
  BY <1>1, GraphFacts DEF Memory
<1>6. mem' \in Memory({})
  <2>1. H \in [{} -> Pointer] /\ Z \in [{} -> Nat]
    OBVIOUS
  <2> HIDE DEF H, Z
  <2> QED
    BY <2>1, <1>2, <1>5 DEF Memory
<1>7. Linked(mem', id', {}, {}) /\ Sized(mem', id', {}, {})
  BY DEF Linked, Sized
<1>8. Ordered(mem', {})
  BY <1>1, <1>4, GraphFacts DEF Good, Ordered
<1>9. GraphInv'
  <2>1. Good(mem', id', live', Vertices') /\ Ends(id', live', Vertices')
    BY <1>2, <1>3, <1>4, <1>6, <1>7, <1>8 DEF Good, Ends
  <2> QED
    BY <2>1, <1>1, <1>2, UALAssumption DEF GraphInv, EdgesCounted, NoFault
<1>10. CallInv'
  BY <1>2, UALAssumption DEF CallInv, CallType, Idle, Ops, Pointer
<1>11. CursorInv'
  BY <1>1, <1>2 DEF CursorInv, Idle, NoCursor, Pointer
<1> QED
  BY <1>9, <1>10, <1>11 DEF IInv

\* An iteration of the whole graph passes every edge.
LEMMA GraphIteratedLive ==
  ASSUME GraphInv
  PROVE  GraphIterated = live
<1>1. ASSUME NEW u \in Vertices PROVE Iterated(u) \subseteq live
  BY GraphFacts, IteratedIncident
<1>2. ASSUME NEW f \in live PROVE f \in GraphIterated
  <2> DEFINE u == id[<<f, "in">>]
  <2>1. <<f, "in">> \in live \X Sides /\ u \in Vertices
    BY GraphFacts DEF Ends, Sides
  <2>2. mem.size[u] > 0
    <3>1. mem.size[u] \in Nat
      BY <2>1, GraphFacts DEF Memory
    <3>2. mem.size[u] # 0
      BY <2>1, DegreeFacts
    <3> QED
      BY <3>1, <3>2
  <2>3. Incident(f, u)
    BY <2>1 DEF Incident, Sides
  <2>4. f \in Iterated(u)
    BY <2>1, <2>3, GraphFacts, IteratedIncident
  <2> QED
    BY <2>1, <2>2, <2>4 DEF GraphIterated
<1> QED
  BY <1>1, <1>2 DEF GraphIterated

LEMMA RemoveVertexReturnInv ==
  ASSUME IInv, RemoveVertexReturn
  PROVE  IInv'
<1> SUFFICES ASSUME NEW r, r = call.u PROVE IInv'
  OBVIOUS
<1> DEFINE H == [u \in 0..(n - 2) |-> IF u < r THEN mem.head[u] ELSE mem.head[u + 1]]
           T == [u \in 0..(n - 2) |-> IF u < r THEN mem.tail[u] ELSE mem.tail[u + 1]]
           Z == [u \in 0..(n - 2) |-> IF u < r THEN mem.size[u] ELSE mem.size[u + 1]]
           J == [l \in Link |-> IF l[1] \in live THEN Renumber(id[l], r) ELSE id[l]]
<1>1. GraphInv /\ CallInv /\ CursorInv
  BY DEF IInv
<1>2. /\ call.op = "remove_vertex" /\ mem.size[r] = 0 /\ r \in Vertices
      /\ call' = Idle /\ UNCHANGED <<live, edges_size, cursor>>
  BY <1>1 DEF RemoveVertexReturn, CallInv
<1>3. /\ n' = n - 1 /\ id' = J /\ fault' = FALSE
      /\ mem' = [next |-> mem.next, prev |-> mem.prev, head |-> H, tail |-> T, size |-> Z]
  BY <1>1, GraphIteratedLive DEF RemoveVertexReturn
<1>4. /\ live \in SUBSET Edge /\ id \in [Link -> Nat] /\ n \in Nat /\ r \in 0..(n - 1)
      /\ Good(mem, id, live, 0..(n - 1)) /\ Ends(id, live, 0..(n - 1))
      /\ n <= MaxVertices /\ MaxVertices \in Nat
  BY <1>1, <1>2, GraphFacts
<1>5. /\ mem.next \in [Link -> Pointer] /\ mem.prev \in [Link -> Pointer]
      /\ mem.head \in [0..(n - 1) -> Pointer] /\ mem.tail \in [0..(n - 1) -> Pointer]
      /\ mem.size \in [0..(n - 1) -> Nat]
  BY <1>1, GraphFacts DEF Memory
<1>6. \A w \in 0..(n - 2) : w \in 0..(n - 1) /\ w + 1 \in 0..(n - 1)
  BY <1>4
<1>7. /\ H \in [0..(n - 2) -> Pointer] /\ T \in [0..(n - 2) -> Pointer]
      /\ Z \in [0..(n - 2) -> Nat]
  BY <1>5, <1>6
<1>8. \A w \in 0..(n - 2) : LET o == IF w < r THEN w ELSE w + 1
                            IN  H[w] = mem.head[o] /\ T[w] = mem.tail[o] /\ Z[w] = mem.size[o]
  OBVIOUS
<1>9. J \in [Link -> Nat]
  <2>1. \A x \in Nat : Renumber(x, r) \in Nat
    BY <1>4 DEF Renumber
  <2> QED
    BY <2>1, <1>4
<1>10. \A l \in live \X Sides : id[l] # r /\ J[l] = Renumber(id[l], r)
  <2>1. \A l \in live \X Sides : id[l] # r
    BY <1>1, <1>2, DegreeFacts
  <2>2. \A l \in live \X Sides : l \in Link /\ l[1] \in live
    BY <1>4 DEF Link
  <2> QED
    BY <2>1, <2>2
<1> HIDE DEF H, T, Z, J
<1>11. /\ mem' \in Memory(0..(n - 2))
       /\ mem'.next = mem.next /\ mem'.prev = mem.prev
       /\ mem'.head = H /\ mem'.tail = T /\ mem'.size = Z
  BY <1>3, <1>5, <1>7 DEF Memory
<1>12. Good(mem', J, live, 0..(n - 2)) /\ Ends(J, live, 0..(n - 2))
  <2>1. Shifted(mem, mem', n, r)
    BY <1>8, <1>11 DEF Shifted
  <2> QED
    BY <2>1, <1>4, <1>9, <1>10, RemoveVertexGood
<1>13. Vertices' = 0..(n - 2) /\ n' \in 0..MaxVertices
  BY <1>3, <1>4 DEF Vertices
<1>14. GraphInv'
  BY <1>1, <1>2, <1>3, <1>4, <1>9, <1>12, <1>13 DEF GraphInv, EdgesCounted, NoFault
<1>15. CallInv'
  BY <1>2, UALAssumption DEF CallInv, CallType, Idle, Ops, Pointer
<1>16. CursorInv'
  BY <1>1, <1>2 DEF CursorInv, Idle, NoCursor, Pointer
<1> QED
  BY <1>14, <1>15, <1>16 DEF IInv

LEMMA StutterInv == IInv /\ UNCHANGED vars => IInv'
<1> SUFFICES ASSUME IInv, UNCHANGED vars PROVE IInv'
  OBVIOUS
<1>1. UNCHANGED <<live, id, mem, n, edges_size, call, cursor, fault>>
  BY DEF vars
<1>2. GraphInv'
  BY <1>1 DEF IInv, GraphInv, EdgesCounted, NoFault, Vertices
<1>3. After(call.it, call.u)' = After(call.it, call.u)
  BY <1>1 DEF After, Advance, SideOf
<1>4. CallInv'
  BY <1>1, <1>3 DEF IInv, CallInv, Incident, Vertices
<1>5. CursorInv'
  BY <1>1 DEF IInv, CursorInv
<1> QED
  BY <1>2, <1>4, <1>5 DEF IInv

-----------------------------------------------------------------------------
(* Theorems *)

\* Without self-loops, every reachable state of the pointer structure satisfies
\* the inductive invariant, for every number of edges and vertices.
THEOREM InductiveInvariant ==
  ASSUME SelfLoops = FALSE
  PROVE  Spec => []IInv
<1>1. Init => IInv
  BY InitInv
<1>2. IInv /\ [Next]_vars => IInv'
  <2> SUFFICES ASSUME IInv, [Next]_vars PROVE IInv'
    OBVIOUS
  <2>1. CASE Update
    BY <2>1, AddVertexInv, AddEdgeInv, EraseEdgeInv, RemoveEdgeAtInv DEF Update
  <2>2. CASE Begin
    BY <2>2, BeginInv
  <2>3. CASE Continue
    BY <2>3, LoopStepInv, LoopReturnInv, ClearEdgesStepInv, ClearNextVertexInv,
       ClearReturnInv, RemoveVertexReturnInv DEF Continue
  <2>4. CASE UNCHANGED vars
    BY <2>4, StutterInv
  <2> QED
    BY <2>1, <2>2, <2>3, <2>4 DEF Next
<1> QED
  BY <1>1, <1>2, PTL DEF Spec

\* An iteration passes only edges that exist.
LEMMA AfterLive ==
  ASSUME GraphInv, NEW u \in Vertices, NEW f, Incident(f, u)
  PROVE  After(f, u) \subseteq live
<1> DEFINE I == {g \in live : Incident(g, u)}
<1>1. I \in SUBSET Edge /\ f \in I \cup {NULL}
  BY GraphFacts DEF Incident
<1>2. ASSUME NEW g \in I PROVE Advance(g, u) \in I \cup {NULL}
  <2>1. Incident(g, u)
    BY <1>2
  <2>2. Advance(g, u) # NULL => Incident(Advance(g, u), u)
    BY <2>1, GraphFacts, AdvanceIncident
  <2> QED
    BY <2>2 DEF Incident
<1> QED
  BY <1>1, <1>2 DEF After

\* What the inductive invariant means for the container.
LEMMA InvariantImplies ==
  ASSUME IInv
  PROVE  /\ TypeOK /\ EndpointsInRange /\ EdgesCounted /\ ListsLinked
         /\ ListsComplete /\ NoDanglingPointer /\ NoFault /\ NextIteratorLive
<1>1. GraphInv /\ CallInv /\ CursorInv
  BY DEF IInv
<1>2. TypeOK
  <2>1. edges_size \in Nat
    BY <1>1, GraphFacts, FiniteLinks, FS_CardinalityType DEF GraphInv, EdgesCounted
  <2>2. /\ live \subseteq Edge /\ id \in [Link -> Nat] /\ mem \in Memory(Vertices)
        /\ n \in 0..MaxVertices
    BY <1>1, GraphFacts
  <2>3. call \in [op : Ops, u : 0..MaxVertices, v : 0..MaxVertices, it : Pointer, last : Pointer]
    BY <1>1 DEF CallInv, CallType
  <2>4. cursor \in [kind : {"none", "vertex", "graph"}, u : Nat, uv : Pointer]
    BY <1>1 DEF CursorInv
  <2>5. fault \in BOOLEAN
    BY <1>1 DEF GraphInv
  <2> QED
    BY <2>1, <2>2, <2>3, <2>4, <2>5 DEF TypeOK
<1>3. EndpointsInRange
  <2>1. n \in Nat /\ \A l \in live \X Sides : id[l] \in 0..(n - 1)
    BY <1>1, GraphFacts DEF Ends
  <2>2. \A l \in live \X Sides : id[l] < n
    BY <2>1
  <2> QED
    BY <2>2 DEF EndpointsInRange
<1>4. ListsLinked
  BY <1>1 DEF GraphInv, Good, ListsLinked
<1>5. ListsComplete
  BY <1>1, GraphFacts, IteratedIncident DEF ListsComplete, Good, Sized
<1>6. NoDanglingPointer
  <2>1. ASSUME NEW l \in live \X Sides
        PROVE  mem.next[l] \in live \cup {NULL} /\ mem.prev[l] \in live \cup {NULL}
    BY <1>4 DEF ListsLinked, Linked, HasEnd
  <2>2. ASSUME NEW u \in Vertices PROVE {mem.head[u], mem.tail[u]} \subseteq live \cup {NULL}
    <3>1. /\ mem.head[u] # NULL => HasEnd(id, live \X Sides, mem.head[u], u)
          /\ mem.tail[u] # NULL => HasEnd(id, live \X Sides, mem.tail[u], u)
      BY <1>4 DEF ListsLinked, Linked
    <3> QED
      BY <3>1 DEF HasEnd
  <2> QED
    BY <2>1, <2>2 DEF NoDanglingPointer
<1>7. NextIteratorLive
  <2>1. CASE call.op \in {"remove_edge", "erase_edges"}
    <3>1. call.it \in live \cup {NULL}
      BY <2>1, <1>1 DEF CallInv, Incident
    <3>2. ASSUME call.it # call.last PROVE call.last \in live \cup {NULL}
      <4>1. /\ call.u \in Vertices /\ Incident(call.it, call.u)
            /\ call.last = NULL \/ call.last \in After(call.it, call.u)
        BY <2>1, <3>2, LoopStandsOnEdge
      <4>2. After(call.it, call.u) \subseteq live
        BY <4>1, <1>1, AfterLive
      <4> QED
        BY <4>1, <4>2
    <3> QED
      BY <3>1, <3>2, <1>1 DEF NextIteratorLive, CursorInv
  <2>2. CASE call.op \notin {"remove_edge", "erase_edges"}
    <3>1. call.it = NULL /\ call.last = NULL
      BY <2>2, <1>1 DEF CallInv, CallType, Ops, Idle
    <3> QED
      BY <3>1, <1>1 DEF NextIteratorLive, CursorInv
  <2> QED
    BY <2>1, <2>2
<1>8. NoFault
  BY <1>1 DEF GraphInv, NoFault
<1> QED
  BY <1>1, <1>2, <1>3, <1>4, <1>5, <1>6, <1>7, <1>8 DEF GraphInv

\* Every variable keeps its type.
THEOREM TypeCorrect ==
  ASSUME SelfLoops = FALSE
  PROVE  Spec => []TypeOK
  BY InductiveInvariant, InvariantImplies, PTL

\* The two doubly linked lists of every edge stay consistent in both directions.
THEOREM ListsStayLinked ==
  ASSUME SelfLoops = FALSE
  PROVE  Spec => []ListsLinked
  BY InductiveInvariant, InvariantImplies, PTL

\* An iteration of a vertex passes exactly its edges and its degree counts them.
THEOREM ListsStayComplete ==
  ASSUME SelfLoops = FALSE
  PROVE  Spec => []ListsComplete
  BY InductiveInvariant, InvariantImplies, PTL

\* The stored endpoints stay in range through all renumberings.
THEOREM EndpointsStayInRange ==
  ASSUME SelfLoops = FALSE
  PROVE  Spec => []EndpointsInRange
  BY InductiveInvariant, InvariantImplies, PTL

\* The edge count that four functions maintain by hand is right.
THEOREM EdgesStayCounted ==
  ASSUME SelfLoops = FALSE
  PROVE  Spec => []EdgesCounted
  BY InductiveInvariant, InvariantImplies, PTL

\* No operation follows a null pointer or one to a freed edge.
THEOREM MemorySafe ==
  ASSUME SelfLoops = FALSE
  PROVE  Spec => []NoFault
  BY InductiveInvariant, InvariantImplies, PTL

\* No list and no link of an edge leads to a freed edge.
THEOREM NoPointerDangles ==
  ASSUME SelfLoops = FALSE
  PROVE  Spec => []NoDanglingPointer
  BY InductiveInvariant, InvariantImplies, PTL

\* The iterators that erasing loops and erase_edge go on with are valid.
THEOREM IteratorsStayLive ==
  ASSUME SelfLoops = FALSE
  PROVE  Spec => []NextIteratorLive
  BY InductiveInvariant, InvariantImplies, PTL

-----------------------------------------------------------------------------
(* The sequences that the lists yield *)

\* Following w's list from its head passes the c edges q[1], ..., q[c], once each, and
\* these are the edges that have an end in L at w.
Yields(m, i, L, w, c, q) ==
  /\ c \in Nat
  /\ q \in [1..c -> Edge]
  /\ m.head[w] = IF c = 0 THEN NULL ELSE q[1]
  /\ \A k \in 1..c : /\ HasEnd(i, L, q[k], w)
                     /\ m.next[<<q[k], SideOf(i, q[k], w)>>] = IF k = c THEN NULL ELSE q[k + 1]
  /\ \A f : HasEnd(i, L, f, w) => \E k \in 1..c : q[k] = f
  /\ \A j, k \in 1..c : q[j] = q[k] => j = k

\* There is only one such sequence.
LEMMA YieldsPrefix ==
  ASSUME NEW m, NEW i, NEW L, NEW w, NEW c, NEW q, NEW d, NEW r,
         Yields(m, i, L, w, c, q), Yields(m, i, L, w, d, r)
  PROVE  c <= d /\ \A k \in 1..c : q[k] = r[k]
<1> USE UALAssumption
<1> DEFINE Same == {k \in Nat : k + 1 <= c => k + 1 <= d /\ q[k + 1] = r[k + 1]}
<1>1. 0 \in Same
  BY DEF Yields
<1>2. ASSUME NEW k \in Nat, k \in Same PROVE k + 1 \in Same
  <2>1. SUFFICES ASSUME k + 2 <= c PROVE k + 2 <= d /\ q[k + 2] = r[k + 2]
    OBVIOUS
  <2>2. k + 1 \in 1..c /\ k + 1 # c /\ k + 2 \in 1..c /\ k + 1 \in 1..d /\ q[k + 1] = r[k + 1]
    BY <1>2, <2>1 DEF Yields
  <2>3. m.next[<<q[k + 1], SideOf(i, q[k + 1], w)>>] = q[k + 2] /\ q[k + 2] \in Edge
    BY <2>2 DEF Yields
  <2>4. k + 1 # d /\ q[k + 2] = r[k + 2]
    BY <2>2, <2>3 DEF Yields
  <2> QED
    BY <2>2, <2>4 DEF Yields
<1>3. Nat \subseteq Same
  <2> HIDE DEF Same
  <2> QED
    BY <1>1, <1>2, InductiveSet
<1>4. ASSUME NEW k \in 1..c PROVE k <= d /\ q[k] = r[k]
  <2>1. k - 1 \in Same /\ (k - 1) + 1 = k
    BY <1>3
  <2> QED
    BY <2>1
<1>5. c \in Nat /\ d \in Nat
  BY DEF Yields
<1> QED
  BY <1>4, <1>5

LEMMA YieldsOne ==
  ASSUME NEW m, NEW i, NEW L, NEW w, NEW c, NEW q, NEW d, NEW r,
         Yields(m, i, L, w, c, q), Yields(m, i, L, w, d, r)
  PROVE  c = d /\ q = r
<1>1. c <= d /\ d <= c /\ \A k \in 1..c : q[k] = r[k]
  BY YieldsPrefix
<1> QED
  BY <1>1 DEF Yields

\* Edges are linked at both ends or not at all.
Paired(L) == \A f : <<f, "in">> \in L <=> <<f, "out">> \in L

\* v's list under m2 and j is threaded through the links w's list is threaded through.
SameList(m, m2, i, j, L, w, v) ==
  /\ m2.head[v] = m.head[w]
  /\ \A l \in L : m2.next[l] = m.next[l]
  /\ \A l \in L : j[l] = v <=> i[l] = w

\* Only the ids and pointers of the linked ends matter, and only the head of w.
LEMMA YieldsAgrees ==
  ASSUME NEW m, NEW m2, NEW i, NEW j, NEW L, Paired(L), NEW w, NEW v, NEW c, NEW q,
         Yields(m, i, L, w, c, q), SameList(m, m2, i, j, L, w, v)
  PROVE  Yields(m2, j, L, v, c, q)
<1> USE DEF SameList
<1>1. \A f : <<f, "in">> \in L => SideOf(j, f, v) = SideOf(i, f, w) /\ <<f, SideOf(i, f, w)>> \in L
  BY DEF SideOf, Paired
<1>2. \A f : HasEnd(i, L, f, w) <=> HasEnd(j, L, f, v)
  BY <1>1 DEF HasEnd, SideOf, Paired
<1>3. \A f : HasEnd(i, L, f, w) => m2.next[<<f, SideOf(j, f, v)>>] = m.next[<<f, SideOf(i, f, w)>>]
  BY <1>1 DEF HasEnd, SideOf, Paired
<1> QED
  BY <1>2, <1>3 DEF Yields

\* The sequence q of length c without its k-th member.
Skip(c, q, k) == [x \in 1..(c - 1) |-> IF x < k THEN q[x] ELSE q[x + 1]]

\* Unlinking takes the edge out of the list its end is in ...
LEMMA UnlinkYields ==
  ASSUME NEW V, NEW m \in Memory(V), NEW i \in [Link -> Nat], NEW L \in SUBSET Link,
         NEW e \in Edge, NEW s \in Sides, <<e, s>> \in L,
         \A l \in L : i[l] \in V,
         NoLoop(i, L), Linked(m, i, L, V),
         NEW c, NEW q, Yields(m, i, L, i[<<e, s>>], c, q), NEW k \in 1..c, q[k] = e
  PROVE  Yields(Unlink(m, i, e, s), i, L \ {<<e, s>>}, i[<<e, s>>], c - 1, Skip(c, q, k))
<1> DEFINE u  == i[<<e, s>>]
           p  == m.prev[<<e, s>>]
           y  == m.next[<<e, s>>]
           m2 == Unlink(m, i, e, s)
           pl == <<p, SideOf(i, p, u)>>
           M  == L \ {<<e, s>>}
           r  == Skip(c, q, k)
<1> USE UALAssumption
<1>1. /\ u \in V /\ c \in Nat /\ c >= 1 /\ k \in Nat /\ c - 1 \in Nat
      /\ m.next \in [Link -> Pointer] /\ m.prev \in [Link -> Pointer]
      /\ p \in Pointer /\ y \in Pointer
      /\ q \in [1..c -> Edge] /\ e # NULL
  BY DEF Memory, Yields
<1>2. /\ \A l \in Link : m2.next[l] =
           IF l = <<e, s>> THEN NULL ELSE IF p # NULL /\ l = pl THEN y ELSE m.next[l]
      /\ m2.head[u] = IF m.head[u] = e THEN y ELSE m.head[u]
  <2>1. Unlinked(V, m, i, e, s, m2)
    BY <1>1, UnlinkFields
  <2> QED
    BY <2>1, <1>1 DEF Unlinked
<1>3. \A l \in L : /\ l \in Link /\ l[1] \in Edge /\ l = <<l[1], SideOf(i, l[1], i[l])>>
  BY LinkOfEnd
<1>4. <<e, SideOf(i, e, u)>> = <<e, s>>
  BY <1>3
<1>5. IF p = NULL THEN m.head[u] = e ELSE HasEnd(i, L, p, u) /\ m.next[pl] = e
  BY DEF Linked
<1> HIDE DEF u, p, y, m2, pl
<1>6. /\ m.head[u] = q[1] /\ y = IF k = c THEN NULL ELSE q[k + 1]
      /\ \A x \in 1..c : /\ HasEnd(i, L, q[x], u) /\ q[x] \in Edge /\ q[x] # NULL
                         /\ m.next[<<q[x], SideOf(i, q[x], u)>>] = IF x = c THEN NULL ELSE q[x + 1]
      /\ \A f : HasEnd(i, L, f, u) => \E x \in 1..c : q[x] = f
      /\ \A a, b \in 1..c : q[a] = q[b] => a = b
  <2>1. Yields(m, i, L, u, c, q)
    BY DEF u
  <2>2. y = m.next[<<q[k], SideOf(i, q[k], u)>>]
    BY <1>4 DEF y
  <2> QED
    BY <2>1, <2>2, <1>1 DEF Yields
<1>7. IF k = 1 THEN p = NULL ELSE p = q[k - 1]
  <2>1. CASE p = NULL
    BY <2>1, <1>1, <1>5, <1>6
  <2>2. CASE p # NULL
    <3>1. HasEnd(i, L, p, u) /\ m.next[<<p, SideOf(i, p, u)>>] = e
      BY <2>2, <1>5 DEF pl
    <3>2. PICK x \in 1..c : q[x] = p
      BY <3>1, <1>6
    <3>3. (IF x = c THEN NULL ELSE q[x + 1]) = e
      BY <3>1, <3>2, <1>6
    <3>4. x # c /\ x + 1 \in 1..c /\ q[x + 1] = q[k]
      BY <3>3, <1>1
    <3>5. x + 1 = k
      BY <3>4, <1>6
    <3> QED
      BY <3>2, <3>5
  <2> QED
    BY <2>1, <2>2
<1>8. \A x \in 1..c : /\ <<q[x], SideOf(i, q[x], u)>> \in L
                      /\ <<q[x], SideOf(i, q[x], u)>> \in Link
                      /\ i[<<q[x], SideOf(i, q[x], u)>>] = u
  BY <1>3, <1>6 DEF HasEnd
<1>9. \A x \in 1..c : x # k =>
        /\ HasEnd(i, M, q[x], u)
        /\ m2.next[<<q[x], SideOf(i, q[x], u)>>] =
             IF x = k - 1 THEN y ELSE IF x = c THEN NULL ELSE q[x + 1]
  <2>1. SUFFICES ASSUME NEW x \in 1..c, x # k
                 PROVE  /\ HasEnd(i, M, q[x], u)
                        /\ m2.next[<<q[x], SideOf(i, q[x], u)>>] =
                             IF x = k - 1 THEN y ELSE IF x = c THEN NULL ELSE q[x + 1]
    OBVIOUS
  <2>2. q[x] # e
    BY <2>1, <1>6
  <2>3. <<q[x], SideOf(i, q[x], u)>> # <<e, s>>
    BY <2>2
  <2>4. HasEnd(i, M, q[x], u)
    BY <2>3, <1>8 DEF HasEnd
  <2>5. CASE x = k - 1
    <3>1. k # 1 /\ q[x] = q[k - 1]
      BY <2>5, <1>1
    <3>2. p = q[x] /\ p # NULL
      BY <3>1, <1>6, <1>7
    <3> QED
      BY <2>3, <2>4, <2>5, <3>2, <1>2, <1>8 DEF pl
  <2>6. CASE x # k - 1
    <3>1. k # 1 => k - 1 \in 1..c /\ q[x] # q[k - 1]
      BY <2>6, <1>1, <1>6
    <3>2. p # NULL => <<q[x], SideOf(i, q[x], u)>> # pl
      BY <3>1, <1>7 DEF pl
    <3> QED
      BY <2>3, <2>4, <2>6, <3>2, <1>2, <1>6, <1>8
  <2> QED
    BY <2>5, <2>6
<1>10. r \in [1..(c - 1) -> Edge] /\ \A x \in 1..(c - 1) : r[x] = IF x < k THEN q[x] ELSE q[x + 1]
  <2>1. \A x \in 1..(c - 1) : x \in 1..c /\ x + 1 \in 1..c
    BY <1>1
  <2> QED
    BY <2>1, <1>1 DEF Skip
<1> HIDE DEF r
<1>11. m2.head[u] = IF c - 1 = 0 THEN NULL ELSE r[1]
  <2>1. CASE k = 1
    BY <2>1, <1>1, <1>2, <1>6, <1>10
  <2>2. CASE k # 1
    <3>1. q[1] # q[k] /\ 1 \in 1..(c - 1)
      BY <2>2, <1>1, <1>6
    <3> QED
      BY <2>2, <3>1, <1>1, <1>2, <1>6, <1>10
  <2> QED
    BY <2>1, <2>2
<1>12. ASSUME NEW x \in 1..(c - 1)
       PROVE  /\ HasEnd(i, M, r[x], u)
              /\ m2.next[<<r[x], SideOf(i, r[x], u)>>] = IF x = c - 1 THEN NULL ELSE r[x + 1]
  <2>1. CASE x < k
    <3>1. r[x] = q[x] /\ x \in 1..c /\ x # k /\ x # c
      BY <2>1, <1>1, <1>10
    <3>2. HasEnd(i, M, q[x], u) /\ m2.next[<<q[x], SideOf(i, q[x], u)>>] =
             IF x = k - 1 THEN y ELSE q[x + 1]
      <4> HIDE DEF M
      <4> QED
        BY <3>1, <1>9
    <3>3. CASE x = k - 1
      <4>1. x = c - 1 <=> k = c
        BY <3>3, <1>1
      <4>2. x # c - 1 => x + 1 \in 1..(c - 1) /\ r[x + 1] = q[k + 1]
        BY <3>3, <1>1, <1>10
      <4> QED
        BY <3>1, <3>2, <3>3, <4>1, <4>2, <1>6
    <3>4. CASE x # k - 1
      <4>1. x # c - 1 /\ x + 1 \in 1..(c - 1) /\ x + 1 < k
        BY <2>1, <3>4, <1>1
      <4> QED
        BY <3>1, <3>2, <3>4, <4>1, <1>10
    <3> QED
      BY <3>3, <3>4
  <2>2. CASE ~(x < k)
    <3>1. r[x] = q[x + 1] /\ x + 1 \in 1..c /\ x + 1 # k /\ x + 1 # k - 1
      BY <2>2, <1>1, <1>10
    <3>2. HasEnd(i, M, q[x + 1], u) /\ m2.next[<<q[x + 1], SideOf(i, q[x + 1], u)>>] =
             IF x + 1 = c THEN NULL ELSE q[(x + 1) + 1]
      BY <3>1, <1>9
    <3>3. x # c - 1 => x + 1 \in 1..(c - 1) /\ ~(x + 1 < k) /\ r[x + 1] = q[(x + 1) + 1]
      BY <2>2, <1>1, <1>10
    <3>4. x + 1 = c <=> x = c - 1
      BY <1>1
    <3> QED
      BY <3>1, <3>2, <3>3, <3>4
  <2> QED
    BY <2>1, <2>2
<1>13. ASSUME NEW f, HasEnd(i, M, f, u)
       PROVE  \E x \in 1..(c - 1) : r[x] = f
  <2>1. HasEnd(i, L, f, u) /\ <<f, SideOf(i, f, u)>> # <<e, s>>
    BY <1>13 DEF HasEnd
  <2>2. PICK x \in 1..c : q[x] = f
    BY <2>1, <1>6
  <2>3. x # k
    BY <2>1, <2>2, <1>4 DEF u
  <2>4. CASE x < k
    <3>1. x \in 1..(c - 1) /\ r[x] = q[x]
      BY <2>4, <1>1, <1>10
    <3> QED
      BY <3>1, <2>2
  <2>5. CASE x > k
    <3>1. x - 1 \in 1..(c - 1) /\ ~(x - 1 < k) /\ (x - 1) + 1 = x
      BY <2>5, <1>1
    <3>2. r[x - 1] = q[x]
      BY <3>1, <1>10
    <3> QED
      BY <3>1, <3>2, <2>2
  <2> QED
    BY <2>3, <2>4, <2>5, <1>1
<1>14. ASSUME NEW a \in 1..(c - 1), NEW b \in 1..(c - 1), r[a] = r[b]
       PROVE  a = b
  <2> DEFINE O(x) == IF x < k THEN x ELSE x + 1
  <2>1. \A x \in 1..(c - 1) : O(x) \in 1..c /\ r[x] = q[O(x)]
    BY <1>1, <1>10
  <2>2. O(a) = O(b)
    <3> HIDE DEF O
    <3> QED
      BY <2>1, <1>14, <1>6
  <2> QED
    BY <2>2, <1>1
<1> HIDE DEF M
<1>15. Yields(m2, i, M, u, c - 1, r)
  BY <1>1, <1>10, <1>11, <1>12, <1>13, <1>14 DEF Yields
<1> QED
  BY <1>15 DEF m2, M, u, r

\* ... and leaves the others as they are.
LEMMA UnlinkOthersYield ==
  ASSUME NEW V, NEW m \in Memory(V), NEW i \in [Link -> Nat], NEW L \in SUBSET Link,
         NEW e \in Edge, NEW s \in Sides, <<e, s>> \in L,
         \A l \in L : i[l] \in V,
         NoLoop(i, L), Linked(m, i, L, V),
         NEW w \in V, w # i[<<e, s>>],
         NEW c, NEW q, Yields(m, i, L, w, c, q)
  PROVE  Yields(Unlink(m, i, e, s), i, L \ {<<e, s>>}, w, c, q)
<1> DEFINE u  == i[<<e, s>>]
           p  == m.prev[<<e, s>>]
           y  == m.next[<<e, s>>]
           m2 == Unlink(m, i, e, s)
           pl == <<p, SideOf(i, p, u)>>
           M  == L \ {<<e, s>>}
<1>1. /\ \A l \in Link : m2.next[l] =
           IF l = <<e, s>> THEN NULL ELSE IF p # NULL /\ l = pl THEN y ELSE m.next[l]
      /\ m2.head[w] = m.head[w]
  <2>1. Unlinked(V, m, i, e, s, m2)
    BY UnlinkFields
  <2> QED
    BY <2>1 DEF Unlinked
<1>2. p # NULL => i[pl] = u
  BY DEF Linked, HasEnd
<1> HIDE DEF p, y, m2, pl
<1>3. \A f : HasEnd(i, L, f, w) => /\ HasEnd(i, M, f, w)
                                   /\ m2.next[<<f, SideOf(i, f, w)>>] = m.next[<<f, SideOf(i, f, w)>>]
  <2>1. SUFFICES ASSUME NEW f, HasEnd(i, L, f, w)
                 PROVE  /\ HasEnd(i, M, f, w)
                        /\ m2.next[<<f, SideOf(i, f, w)>>] = m.next[<<f, SideOf(i, f, w)>>]
    OBVIOUS
  <2> DEFINE l == <<f, SideOf(i, f, w)>>
  <2>2. l \in L /\ l \in Link /\ i[l] = w
    BY <2>1 DEF HasEnd
  <2> HIDE DEF l
  <2>3. l # <<e, s>> /\ (p # NULL => l # pl)
    BY <2>2, <1>2
  <2>4. m2.next[l] = m.next[l] /\ l \in M
    BY <2>2, <2>3, <1>1
  <2> QED
    BY <2>2, <2>4 DEF HasEnd, l
<1>4. \A f : HasEnd(i, M, f, w) => HasEnd(i, L, f, w)
  BY DEF HasEnd
<1> HIDE DEF M
<1>5. Yields(m2, i, M, w, c, q)
  BY <1>1, <1>3, <1>4 DEF Yields
<1> QED
  BY <1>5 DEF m2, M

\* The sequence q of length c with e at its end.
Extended(c, q, e) == [x \in 1..(c + 1) |-> IF x = c + 1 THEN e ELSE q[x]]

\* Linking an end at the back appends the edge to the list of that end ...
LEMMA LinkBackYields ==
  ASSUME NEW V, NEW m \in Memory(V), NEW i \in [Link -> Nat], NEW L \in SUBSET Link,
         NEW e \in Edge, NEW s \in Sides, <<e, s>> \notin L,
         m.next[<<e, s>>] = NULL,
         i[<<e, s>>] \in V,
         NoLoop(i, L \cup {<<e, s>>}), Linked(m, i, L, V),
         NEW c, NEW q, Yields(m, i, L, i[<<e, s>>], c, q)
  PROVE  Yields(LinkBack(m, i, e, s), i, L \cup {<<e, s>>}, i[<<e, s>>], c + 1, Extended(c, q, e))
<1> DEFINE u  == i[<<e, s>>]
           t  == m.tail[u]
           m2 == LinkBack(m, i, e, s)
           tl == <<t, SideOf(i, t, u)>>
           M  == L \cup {<<e, s>>}
           r  == Extended(c, q, e)
<1> USE UALAssumption
<1>1. /\ u \in V /\ c \in Nat /\ <<e, s>> \in Link /\ e # NULL /\ M \in SUBSET Link
      /\ q \in [1..c -> Edge]
  BY DEF Link, Yields
<1>2. /\ \A l \in Link : m2.next[l] = IF t # NULL /\ l = tl THEN e ELSE m.next[l]
      /\ m2.head[u] = IF t = NULL THEN e ELSE m.head[u]
  <2>1. LinkedBack(V, m, i, e, s, m2)
    BY <1>1, LinkBackFields
  <2> QED
    BY <2>1, <1>1 DEF LinkedBack
<1>3. \A l \in M : /\ l \in Link /\ l[1] \in Edge /\ l = <<l[1], SideOf(i, l[1], i[l])>>
  <2> HIDE DEF M
  <2> QED
    BY <1>1, LinkOfEnd DEF M
<1>4. <<e, SideOf(i, e, u)>> = <<e, s>>
  BY <1>3
<1>5. /\ t = NULL <=> m.head[u] = NULL
      /\ t # NULL => HasEnd(i, L, t, u) /\ m.next[tl] = NULL
  BY <1>1 DEF Linked
<1> HIDE DEF u, t, m2, tl
<1>6. /\ m.head[u] = IF c = 0 THEN NULL ELSE q[1]
      /\ \A x \in 1..c : /\ HasEnd(i, L, q[x], u) /\ q[x] \in Edge /\ q[x] # NULL
                         /\ m.next[<<q[x], SideOf(i, q[x], u)>>] = IF x = c THEN NULL ELSE q[x + 1]
      /\ \A f : HasEnd(i, L, f, u) => \E x \in 1..c : q[x] = f
      /\ \A a, b \in 1..c : q[a] = q[b] => a = b
  <2>1. Yields(m, i, L, u, c, q)
    BY DEF u
  <2> QED
    BY <2>1, <1>1 DEF Yields
<1>7. IF c = 0 THEN t = NULL ELSE t = q[c] /\ t # NULL
  <2>1. CASE c = 0
    BY <2>1, <1>5, <1>6
  <2>2. CASE c # 0
    <3>1. 1 \in 1..c /\ t # NULL
      BY <2>2, <1>1, <1>5, <1>6
    <3>2. PICK x \in 1..c : q[x] = t
      BY <3>1, <1>5, <1>6
    <3>3. (IF x = c THEN NULL ELSE q[x + 1]) = NULL
      BY <3>1, <3>2, <1>5, <1>6 DEF tl
    <3>4. x = c
      <4>1. x # c => x + 1 \in 1..c
        BY <1>1
      <4> QED
        BY <3>3, <4>1, <1>6
    <3> QED
      BY <2>2, <3>1, <3>2, <3>4
  <2> QED
    BY <2>1, <2>2
<1>8. \A x \in 1..c : /\ q[x] # e /\ HasEnd(i, M, q[x], u)
                      /\ m2.next[<<q[x], SideOf(i, q[x], u)>>] = IF x = c THEN e ELSE q[x + 1]
  <2>1. SUFFICES ASSUME NEW x \in 1..c
                 PROVE  /\ q[x] # e /\ HasEnd(i, M, q[x], u)
                        /\ m2.next[<<q[x], SideOf(i, q[x], u)>>] = IF x = c THEN e ELSE q[x + 1]
    OBVIOUS
  <2> DEFINE l == <<q[x], SideOf(i, q[x], u)>>
  <2>2. l \in L /\ l \in Link /\ i[l] = u
    BY <1>6 DEF HasEnd
  <2>3. q[x] # e
    BY <2>2, <1>4
  <2>4. HasEnd(i, M, q[x], u)
    BY <2>2 DEF HasEnd
  <2>5. c # 0 /\ t = q[c] /\ t # NULL
    BY <1>1, <1>7
  <2>6. CASE x = c
    BY <2>2, <2>3, <2>4, <2>5, <2>6, <1>2 DEF tl
  <2>7. CASE x # c
    <3>1. c \in 1..c /\ q[x] # q[c]
      BY <2>7, <1>1, <1>6
    <3>2. l # tl
      BY <2>5, <3>1 DEF tl
    <3> QED
      BY <2>2, <2>3, <2>4, <2>7, <3>2, <1>2, <1>6
  <2> QED
    BY <2>6, <2>7
<1>9. r \in [1..(c + 1) -> Edge] /\ \A x \in 1..(c + 1) : r[x] = IF x = c + 1 THEN e ELSE q[x]
  BY <1>1 DEF Extended
<1> HIDE DEF r
<1>10. m2.head[u] = IF c + 1 = 0 THEN NULL ELSE r[1]
  BY <1>1, <1>2, <1>6, <1>7, <1>9
<1>11. ASSUME NEW x \in 1..(c + 1)
       PROVE  /\ HasEnd(i, M, r[x], u)
              /\ m2.next[<<r[x], SideOf(i, r[x], u)>>] = IF x = c + 1 THEN NULL ELSE r[x + 1]
  <2>1. CASE x = c + 1
    <3>1. r[x] = e /\ HasEnd(i, M, e, u)
      BY <2>1, <1>4, <1>9 DEF HasEnd, u
    <3>2. t # NULL => tl # <<e, s>>
      BY <1>5 DEF HasEnd, tl
    <3>3. m2.next[<<e, s>>] = NULL
      BY <3>2, <1>1, <1>2
    <3> QED
      BY <2>1, <3>1, <3>3, <1>4
  <2>2. CASE x # c + 1
    <3>1. x \in 1..c /\ r[x] = q[x] /\ x + 1 \in 1..(c + 1)
      BY <2>2, <1>1, <1>9
    <3>2. r[x + 1] = IF x = c THEN e ELSE q[x + 1]
      BY <3>1, <1>1, <1>9
    <3> QED
      BY <2>2, <3>1, <3>2, <1>8
  <2> QED
    BY <2>1, <2>2
<1>12. ASSUME NEW f, HasEnd(i, M, f, u)
       PROVE  \E x \in 1..(c + 1) : r[x] = f
  <2>1. CASE <<f, SideOf(i, f, u)>> = <<e, s>>
    BY <2>1, <1>1, <1>9
  <2>2. CASE <<f, SideOf(i, f, u)>> # <<e, s>>
    <3>1. HasEnd(i, L, f, u)
      BY <2>2, <1>12 DEF HasEnd
    <3>2. PICK x \in 1..c : q[x] = f
      BY <3>1, <1>6
    <3>3. x \in 1..(c + 1) /\ r[x] = q[x]
      BY <1>1, <1>9
    <3> QED
      BY <3>2, <3>3
  <2> QED
    BY <2>1, <2>2
<1>13. ASSUME NEW a \in 1..(c + 1), NEW b \in 1..(c + 1), r[a] = r[b]
       PROVE  a = b
  <2>1. \A x \in 1..(c + 1) : x # c + 1 => x \in 1..c
    BY <1>1
  <2>2. CASE a = c + 1
    BY <2>1, <2>2, <1>8, <1>9, <1>13
  <2>3. CASE b = c + 1
    BY <2>1, <2>3, <1>8, <1>9, <1>13
  <2>4. CASE a # c + 1 /\ b # c + 1
    BY <2>1, <2>4, <1>6, <1>9, <1>13
  <2> QED
    BY <2>2, <2>3, <2>4
<1> HIDE DEF M
<1>14. Yields(m2, i, M, u, c + 1, r)
  BY <1>1, <1>9, <1>10, <1>11, <1>12, <1>13 DEF Yields
<1> QED
  BY <1>14 DEF m2, M, u, r

\* ... and leaves the others as they are.
LEMMA LinkBackOthersYield ==
  ASSUME NEW V, NEW m \in Memory(V), NEW i \in [Link -> Nat], NEW L \in SUBSET Link,
         NEW e \in Edge, NEW s \in Sides, i[<<e, s>>] \in V,
         Linked(m, i, L, V),
         NEW w \in V, w # i[<<e, s>>],
         NEW c, NEW q, Yields(m, i, L, w, c, q)
  PROVE  Yields(LinkBack(m, i, e, s), i, L \cup {<<e, s>>}, w, c, q)
<1> DEFINE u  == i[<<e, s>>]
           t  == m.tail[u]
           m2 == LinkBack(m, i, e, s)
           tl == <<t, SideOf(i, t, u)>>
           M  == L \cup {<<e, s>>}
<1>1. /\ \A l \in Link : m2.next[l] = IF t # NULL /\ l = tl THEN e ELSE m.next[l]
      /\ m2.head[w] = m.head[w]
  <2>1. LinkedBack(V, m, i, e, s, m2)
    BY LinkBackFields
  <2> QED
    BY <2>1 DEF LinkedBack
<1>2. t # NULL => i[tl] = u
  BY DEF Linked, HasEnd
<1> HIDE DEF t, m2, tl
<1>3. \A f : HasEnd(i, L, f, w) => m2.next[<<f, SideOf(i, f, w)>>] = m.next[<<f, SideOf(i, f, w)>>]
  BY <1>1, <1>2 DEF HasEnd
<1>4. \A f : HasEnd(i, M, f, w) <=> HasEnd(i, L, f, w)
  <2>1. ASSUME NEW f, HasEnd(i, M, f, w) PROVE HasEnd(i, L, f, w)
    <3>1. <<f, SideOf(i, f, w)>> # <<e, s>>
      BY <2>1 DEF HasEnd
    <3> QED
      BY <3>1, <2>1 DEF HasEnd
  <2> QED
    BY <2>1 DEF HasEnd
<1> HIDE DEF M
<1>5. Yields(m2, i, M, w, c, q)
  BY <1>1, <1>3, <1>4 DEF Yields
<1> QED
  BY <1>5 DEF m2, M

\* An edge is in the list of each of its endpoints, at one position, and in no other.
LEMMA EndYielded ==
  ASSUME NEW i \in [Link -> Nat], NEW L \in SUBSET Link, NoLoop(i, L),
         NEW m, NEW w, NEW c, NEW q, Yields(m, i, L, w, c, q),
         NEW e \in Edge, NEW s \in Sides, <<e, s>> \in L, i[<<e, s>>] = w
  PROVE  \E k \in 1..c : q[k] = e
<1>1. <<e, s>>[1] = e /\ <<e, s>> = <<e, SideOf(i, e, w)>>
  BY LinkOfEnd
<1>2. HasEnd(i, L, e, w)
  BY <1>1 DEF HasEnd
<1> QED
  BY <1>2 DEF Yields

\* q without e, if it is in it.
Dropped(c, q, e, d, r) ==
  IF \A k \in 1..c : q[k] # e THEN d = c /\ r = q
  ELSE \E k \in 1..c : q[k] = e /\ d = c - 1 /\ r = Skip(c, q, k)

LEMMA UnlinkBothYields ==
  ASSUME NEW V, NEW D \in SUBSET Edge, NEW m, NEW i \in [Link -> Nat], NEW e \in D,
         Good(m, i, D, V), Ends(i, D, V),
         NEW w \in V, NEW c, NEW q, Yields(m, i, D \X Sides, w, c, q)
  PROVE  \E d, r : /\ Yields(UnlinkBoth(m, i, e), i, (D \ {e}) \X Sides, w, d, r)
                   /\ Dropped(c, q, e, d, r)
<1> DEFINE L  == D \X Sides
           m1 == Unlink(m, i, e, "in")
           L1 == L \ {<<e, "in">>}
           m2 == Unlink(m1, i, e, "out")
           L2 == L1 \ {<<e, "out">>}
<1>1. /\ L \in SUBSET Link /\ IsFiniteSet(L) /\ e \in Edge
      /\ "in" \in Sides /\ "out" \in Sides /\ <<e, "in">> \in L /\ <<e, "out">> \in L1
      /\ m \in Memory(V)
      /\ \A l \in L : i[l] \in V
      /\ NoLoop(i, L)
  BY FiniteLinks DEF Sides, Good, Ends, NoLoop
<1>2. L1 \in SUBSET Link /\ NoLoop(i, L1) /\ \A l \in L1 : i[l] \in V
  BY <1>1 DEF NoLoop
<1>3. L2 = (D \ {e}) \X Sides
  BY DEF Sides
<1>4. Linked(m, i, L, V) /\ Sized(m, i, L, V) /\ Yields(m, i, L, w, c, q)
  BY DEF Good
<1>5. i[<<e, "in">>] # i[<<e, "out">>]
  BY DEF Ends
<1>6. \A k \in 1..c : q[k] = e => i[<<e, "in">>] = w \/ i[<<e, "out">>] = w
  <2>1. \A k \in 1..c : HasEnd(i, L, q[k], w)
    BY <1>4 DEF Yields
  <2> QED
    BY <2>1 DEF HasEnd, SideOf
<1> HIDE DEF L, L1, L2, m1, m2
<1>7. Linked(m1, i, L1, V) /\ m1 \in Memory(V)
  BY <1>1, <1>4, UnlinkLinked, UnlinkSized DEF m1, L1
<1>8. CASE w = i[<<e, "in">>]
  <2>1. PICK k \in 1..c : q[k] = e
    BY <1>8, <1>1, <1>4, EndYielded
  <2>2. Yields(m1, i, L1, w, c - 1, Skip(c, q, k))
    BY <1>8, <2>1, <1>1, <1>4, UnlinkYields DEF m1, L1
  <2>3. Yields(m2, i, L2, w, c - 1, Skip(c, q, k))
    BY <1>8, <2>2, <1>1, <1>2, <1>5, <1>7, UnlinkOthersYield DEF m2, L2
  <2> QED
    BY <2>1, <2>3, <1>3 DEF m1, m2, UnlinkBoth, Dropped
<1>9. CASE w = i[<<e, "out">>]
  <2>1. Yields(m1, i, L1, w, c, q)
    BY <1>9, <1>1, <1>4, <1>5, UnlinkOthersYield DEF m1, L1
  <2>2. PICK k \in 1..c : q[k] = e
    BY <1>9, <2>1, <1>1, <1>2, EndYielded
  <2>3. Yields(m2, i, L2, w, c - 1, Skip(c, q, k))
    BY <1>9, <2>1, <2>2, <1>1, <1>2, <1>7, UnlinkYields DEF m2, L2
  <2> QED
    BY <2>2, <2>3, <1>3 DEF m1, m2, UnlinkBoth, Dropped
<1>10. CASE w # i[<<e, "in">>] /\ w # i[<<e, "out">>]
  <2>1. Yields(m1, i, L1, w, c, q)
    BY <1>10, <1>1, <1>4, UnlinkOthersYield DEF m1, L1
  <2>2. Yields(m2, i, L2, w, c, q)
    BY <1>10, <2>1, <1>1, <1>2, <1>7, UnlinkOthersYield DEF m2, L2
  <2>3. Dropped(c, q, e, c, q)
    BY <1>6, <1>10 DEF Dropped
  <2> QED
    BY <2>2, <2>3, <1>3 DEF m1, m2, UnlinkBoth
<1> QED
  BY <1>8, <1>9, <1>10

LEMMA LinkBothYields ==
  ASSUME NEW V, NEW D \in SUBSET Edge, NEW m, NEW i \in [Link -> Nat], NEW e \in Edge \ D,
         Good(m, i, D, V), Ends(i, D \cup {e}, V),
         \A k \in Sides : m.next[<<e, k>>] = NULL /\ m.prev[<<e, k>>] = NULL,
         NEW w \in V, NEW c, NEW q, Yields(m, i, D \X Sides, w, c, q)
  PROVE  IF w \in {i[<<e, "in">>], i[<<e, "out">>]}
         THEN Yields(LinkBoth(m, i, e), i, (D \cup {e}) \X Sides, w, c + 1, Extended(c, q, e))
         ELSE Yields(LinkBoth(m, i, e), i, (D \cup {e}) \X Sides, w, c, q)
<1> DEFINE L  == D \X Sides
           m1 == LinkBack(m, i, e, "in")
           L1 == L \cup {<<e, "in">>}
           m2 == LinkBack(m1, i, e, "out")
           L2 == L1 \cup {<<e, "out">>}
<1>1. /\ L \in SUBSET Link /\ IsFiniteSet(L) /\ e \in Edge
      /\ "in" \in Sides /\ "out" \in Sides /\ <<e, "in">> \notin L /\ <<e, "out">> \notin L1
      /\ m \in Memory(V)
  BY FiniteLinks DEF Sides, Good
<1>2. L1 \in SUBSET Link /\ <<e, "out">> \in Link \ (L \cup {<<e, "in">>})
  BY <1>1 DEF Link
<1>3. L2 = (D \cup {e}) \X Sides
  BY DEF Sides
<1>4. /\ \A l \in L2 : i[l] \in V
      /\ NoLoop(i, L2) /\ NoLoop(i, L1)
  <2>1. (\A l \in L2 : i[l] \in V) /\ NoLoop(i, L2)
    BY <1>3 DEF Ends, NoLoop
  <2> QED
    BY <2>1 DEF NoLoop
<1>5. /\ i[<<e, "in">>] \in V /\ i[<<e, "out">>] \in V /\ i[<<e, "in">>] # i[<<e, "out">>]
      /\ \A l \in L1 : i[l] \in V
  BY <1>4 DEF Ends
<1>6. Linked(m, i, L, V) /\ Sized(m, i, L, V) /\ Yields(m, i, L, w, c, q)
  BY DEF Good
<1> HIDE DEF L, L1, L2, m1, m2
<1>7. /\ Linked(m1, i, L1, V)
      /\ m1.next[<<e, "out">>] = NULL
  BY <1>1, <1>2, <1>4, <1>5, <1>6, LinkBackLinked DEF m1, L1
<1>8. m1 \in Memory(V)
  BY <1>1, <1>5, <1>6, LinkBackSized DEF m1
<1>9. CASE w = i[<<e, "in">>]
  <2>1. Yields(m1, i, L1, w, c + 1, Extended(c, q, e))
    BY <1>9, <1>1, <1>4, <1>5, <1>6, LinkBackYields DEF m1, L1
  <2>2. Yields(m2, i, L2, w, c + 1, Extended(c, q, e))
    BY <1>9, <2>1, <1>1, <1>2, <1>5, <1>7, <1>8, LinkBackOthersYield DEF m2, L2
  <2> QED
    BY <1>9, <2>2, <1>3 DEF m1, m2, LinkBoth
<1>10. CASE w = i[<<e, "out">>]
  <2>1. Yields(m1, i, L1, w, c, q)
    BY <1>10, <1>1, <1>5, <1>6, LinkBackOthersYield DEF m1, L1
  <2>2. Yields(m2, i, L2, w, c + 1, Extended(c, q, e))
    BY <1>10, <2>1, <1>1, <1>2, <1>4, <1>5, <1>7, <1>8, LinkBackYields DEF m2, L2
  <2> QED
    BY <1>10, <2>2, <1>3 DEF m1, m2, LinkBoth
<1>11. CASE w # i[<<e, "in">>] /\ w # i[<<e, "out">>]
  <2>1. Yields(m1, i, L1, w, c, q)
    BY <1>11, <1>1, <1>5, <1>6, LinkBackOthersYield DEF m1, L1
  <2>2. Yields(m2, i, L2, w, c, q)
    BY <1>11, <2>1, <1>1, <1>2, <1>5, <1>7, <1>8, LinkBackOthersYield DEF m2, L2
  <2> QED
    BY <1>11, <2>2, <1>3 DEF m1, m2, LinkBoth
<1> QED
  BY <1>9, <1>10, <1>11

\* A list that is followed from its head comes to an end, after as many edges as have an
\* end at its vertex: g are the pointers met, one after the other.
Walk(u, g) == /\ g \in [Nat -> Pointer]
              /\ g[0] = mem.head[u]
              /\ \A k \in Nat : g[k + 1] = IF g[k] = NULL THEN NULL ELSE Advance(g[k], u)

LEMMA WalkExists ==
  ASSUME GraphInv, NEW u \in Vertices
  PROVE  \E g : Walk(u, g) /\ \A k \in Nat : g[k] = NULL \/ Incident(g[k], u)
<1> DEFINE T == {p \in Pointer : p = NULL \/ Incident(p, u)}
           F == [p \in T |-> IF p = NULL THEN NULL ELSE Advance(p, u)]
           b == mem.head[u]
<1>1. b \in T
  BY GraphFacts DEF Memory
<1>2. F \in [T -> T]
  <2>1. ASSUME NEW p \in T PROVE (IF p = NULL THEN NULL ELSE Advance(p, u)) \in T
    <3>1. CASE p = NULL
      BY <3>1 DEF Pointer
    <3>2. CASE p # NULL
      <4>1. Incident(p, u)
        BY <3>2
      <4>2. Advance(p, u) # NULL => Incident(Advance(p, u), u)
        BY <4>1, GraphFacts, AdvanceIncident
      <4>3. Advance(p, u) \in Pointer
        BY <4>2, GraphFacts DEF Incident, Pointer
      <4> QED
        BY <3>2, <4>2, <4>3
    <3> QED
      BY <3>1, <3>2
  <2> HIDE DEF T
  <2> QED
    BY <2>1
<1>3. PICK g \in [Nat -> T] : g[0] = b /\ \A k \in Nat : g[k + 1] = F[g[k]]
  <2> HIDE DEF T, F, b
  <2>1. \E g \in [Nat -> T] : Repeats(g, b, F)
    BY <1>1, <1>2, Iteration
  <2> QED
    BY <2>1 DEF Repeats
<1>4. \A k \in Nat : g[k] \in T
  BY <1>3
<1>5. \A k \in Nat : g[k + 1] = IF g[k] = NULL THEN NULL ELSE Advance(g[k], u)
  BY <1>3, <1>4
<1>6. g \in [Nat -> Pointer]
  BY <1>3
<1> QED
  BY <1>3, <1>4, <1>5, <1>6 DEF Walk

LEMMA WalkEnds ==
  ASSUME GraphInv, NEW u \in Vertices, NEW g, Walk(u, g),
         \A k \in Nat : g[k] = NULL \/ Incident(g[k], u)
  PROVE  \E c \in Nat : /\ \A k \in Nat : g[k] = NULL <=> k >= c
                        /\ \A j, k \in Nat : j < k /\ k < c => g[j] # g[k]
<1>1. PICK r \in [Edge -> Nat], b \in Nat :
        /\ \A f \in Edge : r[f] < b
        /\ \A l \in live \X Sides : mem.next[l] # NULL => r[l[1]] < r[mem.next[l]]
  BY DEF GraphInv, Good, Ordered
<1>2. /\ \A k \in Nat : g[k] # NULL => g[k] \in Edge /\ r[g[k]] \in Nat
      /\ \A k \in Nat : g[k] = NULL => g[k + 1] = NULL
      /\ NULL \notin Edge
  <2>1. NULL \notin Edge
    BY UALAssumption
  <2> QED
    BY <2>1, <1>1 DEF Walk, Pointer
<1>3. ASSUME NEW k \in Nat, g[k + 1] # NULL
      PROVE  g[k] # NULL /\ r[g[k]] < r[g[k + 1]]
  <2>1. g[k] # NULL /\ g[k + 1] = Advance(g[k], u)
    BY <1>3 DEF Walk
  <2>2. Incident(g[k], u)
    BY <2>1
  <2> DEFINE l == <<g[k], SideOf(id, g[k], u)>>
  <2>3. l \in live \X Sides /\ g[k + 1] = mem.next[l] /\ l[1] = g[k]
    BY <2>1, <2>2, GraphFacts, AdvanceIncident
  <2> HIDE DEF l
  <2> QED
    BY <2>1, <2>3, <1>1, <1>3
<1>4. b \in {k \in Nat : g[k] = NULL}
  <2> DEFINE Far == {k \in Nat : g[k] # NULL => r[g[k]] >= k}
  <2>1. 0 \in Far
    BY <1>2
  <2>2. ASSUME NEW k \in Nat, k \in Far PROVE k + 1 \in Far
    <3>1. SUFFICES ASSUME g[k + 1] # NULL PROVE r[g[k + 1]] >= k + 1
      OBVIOUS
    <3>2. g[k] # NULL /\ r[g[k]] < r[g[k + 1]] /\ r[g[k]] >= k
      BY <2>2, <3>1, <1>3
    <3>3. r[g[k]] \in Nat /\ r[g[k + 1]] \in Nat
      BY <3>1, <3>2, <1>2
    <3> QED
      BY <3>2, <3>3
  <2>3. Nat \subseteq Far
    <3> HIDE DEF Far
    <3> QED
      BY <2>1, <2>2, InductiveSet
  <2>4. g[b] # NULL => r[g[b]] >= b /\ r[g[b]] < b /\ r[g[b]] \in Nat
    BY <2>3, <1>1, <1>2
  <2> QED
    BY <2>4
<1> DEFINE Ended == {k \in Nat : g[k] = NULL}
<1>5. PICK c \in Ended : \A k \in Ended : c <= k
  <2>1. Ended \subseteq Nat /\ Ended # {}
    BY <1>4
  <2> HIDE DEF Ended
  <2> QED
    BY <2>1, LeastNatural
<1>6. ASSUME NEW k \in Nat PROVE g[k] = NULL <=> k >= c
  <2> DEFINE Stay == {d \in Nat : g[c + d] = NULL}
  <2>1. 0 \in Stay
    BY <1>5
  <2>2. ASSUME NEW d \in Nat, d \in Stay PROVE d + 1 \in Stay
    <3>1. c + d \in Nat /\ g[c + d] = NULL /\ (c + d) + 1 = c + (d + 1)
      BY <2>2
    <3>2. g[(c + d) + 1] = NULL
      BY <3>1, <1>2
    <3> QED
      BY <3>1, <3>2
  <2>3. Nat \subseteq Stay
    <3> HIDE DEF Stay
    <3> QED
      BY <2>1, <2>2, InductiveSet
  <2>4. k >= c => k - c \in Stay /\ c + (k - c) = k
    BY <2>3
  <2>5. g[k] = NULL => k >= c
    BY <1>5
  <2> QED
    BY <2>4, <2>5
<1>7. ASSUME NEW j \in Nat, NEW k \in Nat, j < k, k < c PROVE g[j] # g[k]
  <2> DEFINE Up == {d \in Nat : j + d + 1 < c => r[g[j]] < r[g[j + d + 1]]}
  <2>1. 0 \in Up
    <3>1. SUFFICES ASSUME j + 1 < c PROVE r[g[j]] < r[g[j + 1]]
      OBVIOUS
    <3>2. g[j + 1] # NULL
      BY <3>1, <1>6
    <3> QED
      BY <3>2, <1>3
  <2>2. ASSUME NEW d \in Nat, d \in Up PROVE d + 1 \in Up
    <3>1. SUFFICES ASSUME j + (d + 1) + 1 < c PROVE r[g[j]] < r[g[j + (d + 1) + 1]]
      OBVIOUS
    <3>2. j + d + 1 \in Nat /\ (j + d + 1) + 1 = j + (d + 1) + 1 /\ j + d + 1 < c /\ j < c
      BY <3>1
    <3>3. g[(j + d + 1) + 1] # NULL /\ g[j + d + 1] # NULL /\ g[j] # NULL
      BY <3>1, <3>2, <1>6
    <3>4. r[g[j + d + 1]] < r[g[(j + d + 1) + 1]]
      BY <3>2, <3>3, <1>3
    <3>5. r[g[j]] < r[g[j + d + 1]]
      BY <2>2, <3>2
    <3>6. r[g[j]] \in Nat /\ r[g[j + d + 1]] \in Nat /\ r[g[(j + d + 1) + 1]] \in Nat
      BY <3>2, <3>3, <1>2
    <3> QED
      BY <3>2, <3>4, <3>5, <3>6
  <2>3. Nat \subseteq Up
    <3> HIDE DEF Up
    <3> QED
      BY <2>1, <2>2, InductiveSet
  <2>4. k - j - 1 \in Up /\ j + (k - j - 1) + 1 = k
    BY <2>3, <1>7
  <2>5. r[g[j]] < r[g[k]]
    BY <2>4, <1>7
  <2>6. r[g[j]] \in Nat
    BY <1>2, <1>6, <1>7
  <2> QED
    BY <2>5, <2>6
<1> QED
  BY <1>5, <1>6, <1>7

\* What the iteration of a list yields is the sequence of its edges.
LEMMA ListOfYields ==
  ASSUME GraphInv, NEW u \in Vertices
  PROVE  \E c : Yields(mem, id, live \X Sides, u, c, ListOf(u))
<1> USE UALAssumption
<1>1. PICK g : Walk(u, g) /\ \A k \in Nat : g[k] = NULL \/ Incident(g[k], u)
  BY WalkExists
<1>2. PICK c \in Nat : /\ \A k \in Nat : g[k] = NULL <=> k >= c
                       /\ \A j, k \in Nat : j < k /\ k < c => g[j] # g[k]
  BY <1>1, WalkEnds
<1> DEFINE q == [k \in 1..c |-> g[k - 1]]
<1>3. /\ \A k \in 1..c : k - 1 \in Nat /\ q[k] = g[k - 1] /\ q[k] # NULL /\ Incident(q[k], u)
      /\ \A k \in 1..c : q[k] \in Edge
  <2>1. \A k \in 1..c : k - 1 \in Nat /\ ~(k - 1 >= c)
    BY <1>2
  <2>2. \A k \in 1..c : k - 1 \in Nat /\ q[k] = g[k - 1] /\ q[k] # NULL
    BY <2>1, <1>2
  <2>3. \A k \in 1..c : Incident(q[k], u)
    BY <2>2, <1>1
  <2>4. \A k \in 1..c : q[k] \in Edge
    BY <2>3, GraphFacts DEF Incident
  <2> QED
    BY <2>2, <2>3, <2>4
<1>4. q \in [1..c -> Edge]
  BY <1>3
<1>5. \A j, k \in 1..c : q[j] = q[k] => j = k
  <2>1. SUFFICES ASSUME NEW j \in 1..c, NEW k \in 1..c, j < k PROVE q[j] # q[k]
    OBVIOUS
  <2>2. j - 1 \in Nat /\ k - 1 \in Nat /\ j - 1 < k - 1 /\ k - 1 < c
    BY <2>1
  <2>3. g[j - 1] # g[k - 1]
    BY <2>2, <1>2
  <2> QED
    BY <2>3
<1> HIDE DEF q
<1>6. mem.head[u] = IF c = 0 THEN NULL ELSE q[1]
  <2>1. g[0] = mem.head[u]
    BY <1>1 DEF Walk
  <2>2. CASE c = 0
    BY <2>1, <2>2, <1>2
  <2>3. CASE c # 0
    <3>1. 1 \in 1..c
      BY <2>3
    <3> QED
      BY <2>1, <2>3, <3>1, <1>3
  <2> QED
    BY <2>2, <2>3
<1>7. ASSUME NEW k \in 1..c
      PROVE  /\ HasEnd(id, live \X Sides, q[k], u)
             /\ mem.next[<<q[k], SideOf(id, q[k], u)>>] = IF k = c THEN NULL ELSE q[k + 1]
             /\ Advance(q[k], u) = IF k = c THEN NULL ELSE q[k + 1]
  <2>1. Incident(q[k], u) /\ q[k] = g[k - 1] /\ q[k] # NULL /\ k - 1 \in Nat /\ (k - 1) + 1 = k
    BY <1>3
  <2>2. /\ <<q[k], SideOf(id, q[k], u)>> \in live \X Sides
        /\ id[<<q[k], SideOf(id, q[k], u)>>] = u
        /\ Advance(q[k], u) = mem.next[<<q[k], SideOf(id, q[k], u)>>]
    BY <2>1, GraphFacts, AdvanceIncident
  <2>3. g[k] = Advance(q[k], u)
    BY <2>1, <1>1 DEF Walk
  <2>4. g[k] = IF k = c THEN NULL ELSE q[k + 1]
    <3>1. CASE k = c
      BY <3>1, <1>2
    <3>2. CASE k # c
      <4>1. k + 1 \in 1..c /\ (k + 1) - 1 = k
        BY <3>2
      <4> QED
        BY <3>2, <4>1, <1>3
    <3> QED
      BY <3>1, <3>2
  <2> QED
    BY <2>2, <2>3, <2>4 DEF HasEnd
<1>8. ASSUME NEW f, HasEnd(id, live \X Sides, f, u) PROVE \E k \in 1..c : q[k] = f
  <2> DEFINE S == {q[k] : k \in 1..c}
  <2>1. S \in SUBSET Edge
    BY <1>3
  <2>2. mem.head[u] \in S \cup {NULL}
    <3>1. c # 0 => 1 \in 1..c
      OBVIOUS
    <3> QED
      BY <3>1, <1>6
  <2>3. ASSUME NEW h \in S PROVE Advance(h, u) \in S \cup {NULL}
    <3>1. PICK k \in 1..c : h = q[k]
      OBVIOUS
    <3>2. k # c => k + 1 \in 1..c
      OBVIOUS
    <3> QED
      BY <3>1, <3>2, <1>7
  <2>4. Incident(f, u) /\ f \in live
    BY <1>8 DEF HasEnd, Incident
  <2>5. f \in Iterated(u)
    BY <2>4, GraphFacts, IteratedIncident
  <2> HIDE DEF S
  <2>6. f \in S
    BY <2>1, <2>2, <2>3, <2>5 DEF Iterated, After
  <2> QED
    BY <2>6 DEF S
<1>9. Yields(mem, id, live \X Sides, u, c, q)
  BY <1>4, <1>5, <1>6, <1>7, <1>8 DEF Yields
<1> DEFINE N == Cardinality(Edge) + 1
<1>10. N \in Nat /\ c < N
  <2>1. q \in Injection(1..c, Edge)
    BY <1>4, <1>5 DEF Injection, IsInjective
  <2>2. Cardinality(1..c) = c
    BY FS_Interval
  <2>3. c <= Cardinality(Edge) /\ Cardinality(Edge) \in Nat
    BY <2>1, <2>2, FS_Injection, FS_CardinalityType
  <2> QED
    BY <2>3
<1> HIDE DEF N
<1> DEFINE Eq(w)  == w = [k \in 1..N |->
                            IF k = 1 THEN mem.head[u]
                            ELSE IF w[k - 1] = NULL THEN NULL ELSE Advance(w[k - 1], u)]
           walk == CHOOSE w : Eq(w)
<1>11. Eq(walk)
  <2> DEFINE w0 == [k \in 1..N |-> g[k - 1]]
  <2>1. ASSUME NEW k \in 1..N
        PROVE  w0[k] = IF k = 1 THEN mem.head[u]
                       ELSE IF w0[k - 1] = NULL THEN NULL ELSE Advance(w0[k - 1], u)
    <3>1. CASE k = 1
      BY <3>1, <1>1 DEF Walk
    <3>2. CASE k # 1
      <4>1. k - 1 \in 1..N /\ k - 2 \in Nat /\ (k - 2) + 1 = k - 1 /\ (k - 1) - 1 = k - 2
        BY <3>2, <1>10
      <4>2. w0[k - 1] = g[k - 2] /\ w0[k] = g[k - 1]
        BY <4>1
      <4>3. g[k - 1] = IF g[k - 2] = NULL THEN NULL ELSE Advance(g[k - 2], u)
        BY <4>1, <1>1 DEF Walk
      <4> HIDE DEF w0
      <4> QED
        BY <3>2, <4>2, <4>3
    <3> QED
      BY <3>1, <3>2
  <2>2. Eq(w0)
    <3>1. w0 = [k \in 1..N |-> w0[k]]
      OBVIOUS
    <3> HIDE DEF w0
    <3> QED
      BY <2>1, <3>1
  <2>3. \E w : Eq(w)
    BY <2>2
  <2> HIDE DEF Eq
  <2> QED
    BY <2>3
<1>12. ListOf(u) = [k \in {j \in DOMAIN walk : walk[j] # NULL} |-> walk[k]]
  BY DEF ListOf, N
<1> HIDE DEF walk
<1>13. DOMAIN walk = 1..N
  BY <1>11
<1>14. ASSUME NEW k \in 1..N PROVE walk[k] = g[k - 1]
  <2> DEFINE Same == {j \in Nat : j < N => walk[j + 1] = g[j]}
  <2>1. 0 \in Same
    BY <1>1, <1>10, <1>11 DEF Walk
  <2>2. ASSUME NEW j \in Nat, j \in Same PROVE j + 1 \in Same
    <3>1. SUFFICES ASSUME j + 1 < N PROVE walk[(j + 1) + 1] = g[j + 1]
      OBVIOUS
    <3>2. (j + 1) + 1 \in 1..N /\ (j + 1) + 1 # 1 /\ ((j + 1) + 1) - 1 = j + 1 /\ walk[j + 1] = g[j]
      BY <2>2, <3>1, <1>10
    <3>3. walk[(j + 1) + 1] = IF walk[j + 1] = NULL THEN NULL ELSE Advance(walk[j + 1], u)
      BY <3>2, <1>11
    <3>4. g[j + 1] = IF g[j] = NULL THEN NULL ELSE Advance(g[j], u)
      BY <1>1 DEF Walk
    <3> QED
      BY <3>2, <3>3, <3>4
  <2>3. Nat \subseteq Same
    <3> HIDE DEF Same
    <3> QED
      BY <2>1, <2>2, InductiveSet
  <2>4. k - 1 \in Same /\ (k - 1) + 1 = k /\ k - 1 < N
    BY <2>3, <1>10
  <2> QED
    BY <2>4
<1> HIDE DEF Eq
<1>15. {j \in 1..N : walk[j] # NULL} = 1..c
  <2>1. ASSUME NEW j \in 1..N PROVE walk[j] # NULL <=> j \in 1..c
    <3>1. j - 1 \in Nat /\ (j - 1 >= c <=> ~(j \in 1..c))
      BY <1>10
    <3> QED
      BY <3>1, <1>2, <1>14
  <2>2. 1..c \subseteq 1..N
    BY <1>10
  <2> QED
    BY <2>1, <2>2
<1>16. ListOf(u) = q
  <2>1. \A k \in 1..c : k \in 1..N /\ walk[k] = g[k - 1]
    BY <1>10, <1>14
  <2> QED
    BY <2>1, <1>12, <1>13, <1>15 DEF q
<1> QED
  BY <1>9, <1>16

LEMMA YieldsSeq ==
  ASSUME NEW m, NEW i, NEW L, NEW w, NEW c, NEW q, Yields(m, i, L, w, c, q)
  PROVE  c \in Nat /\ q \in Seq(Edge) /\ Len(q) = c /\ DOMAIN q = 1..c
<1>1. c \in Nat /\ q \in [1..c -> Edge]
  BY DEF Yields
<1>2. q \in Seq(Edge)
  BY <1>1, SeqDef
<1>3. Len(q) \in Nat /\ DOMAIN q = 1..Len(q)
  BY <1>2, LenProperties
<1>4. Len(q) = c
  <2>1. 1..Len(q) = 1..c
    BY <1>1, <1>3
  <2>2. Len(q) <= c
    <3>1. Len(q) # 0 => Len(q) \in 1..Len(q)
      BY <1>3
    <3>2. Len(q) # 0 => Len(q) \in 1..c
      BY <3>1, <2>1, Zenon
    <3> QED
      BY <3>2, <1>1, <1>3
  <2>3. c <= Len(q)
    <3>1. c # 0 => c \in 1..Len(q)
      BY <1>1, <2>1
    <3> QED
      BY <3>1, <1>1, <1>3
  <2> QED
    BY <2>2, <2>3, <1>1, <1>3
<1> QED
  BY <1>1, <1>2, <1>3, <1>4

LEMMA AppendIs ==
  ASSUME NEW m, NEW i, NEW L, NEW w, NEW c, NEW q, Yields(m, i, L, w, c, q), NEW e \in Edge
  PROVE  Append(q, e) = Extended(c, q, e)
<1>1. c \in Nat /\ q \in Seq(Edge) /\ Len(q) = c
  BY YieldsSeq
<1> DEFINE a == Append(q, e)
<1>2. a \in Seq(Edge) /\ Len(a) = c + 1 /\ (\A x \in 1..c : a[x] = q[x]) /\ a[c + 1] = e
  BY <1>1, AppendProperties
<1> HIDE DEF a
<1>3. a \in [1..(c + 1) -> Edge]
  BY <1>2, LenProperties
<1>4. \A x \in 1..(c + 1) : a[x] = IF x = c + 1 THEN e ELSE q[x]
  BY <1>1, <1>2
<1>5. a = Extended(c, q, e)
  BY <1>3, <1>4 DEF Extended
<1> QED
  BY <1>5 DEF a

LEMMA WithoutIs ==
  ASSUME NEW m, NEW i, NEW L, NEW w, NEW c, NEW q, Yields(m, i, L, w, c, q),
         NEW e, NEW d, NEW r, Dropped(c, q, e, d, r)
  PROVE  Multigraph!Without(q, e) = r
<1>1. c \in Nat /\ Len(q) = c /\ DOMAIN q = 1..c
  BY YieldsSeq
<1>2. CASE \A k \in 1..c : q[k] # e
  BY <1>1, <1>2 DEF Dropped, Multigraph!Without
<1>3. CASE ~(\A k \in 1..c : q[k] # e)
  <2>1. PICK k \in 1..c : q[k] = e /\ r = Skip(c, q, k)
    BY <1>3 DEF Dropped
  <2>2. \A j \in 1..c : q[j] = e => j = k
    BY <2>1 DEF Yields
  <2>3. k = CHOOSE j \in 1..c : q[j] = e
    BY <2>1, <2>2
  <2> QED
    BY <2>1, <2>3, <1>1, <1>3 DEF Skip, Multigraph!Without
<1> QED
  BY <1>2, <1>3

-----------------------------------------------------------------------------
(* The abstract state *)

EndsNow     == [e \in live |-> <<id[<<e, "in">>], id[<<e, "out">>]>>]
IncidentNow == [u \in Vertices |-> ListOf(u)]
PendingNow  == [op   |-> IF call.op \in {"remove_edge", "erase_edges"} THEN "remove_edges"
                         ELSE call.op,
                u    |-> IF call.op = "clear" THEN 0 ELSE call.u,
                todo |-> ToErase]

ListsYield == \A u \in Vertices : \E c : Yields(mem, id, live \X Sides, u, c, ListOf(u))

LEMMA ListsAreYielded == IInv => ListsYield
  BY ListOfYields DEF IInv, ListsYield

LEMMA SameLists ==
  ASSUME ListsYield, ListsYield', UNCHANGED <<live, id, mem, n>>
  PROVE  EndsNow' = EndsNow /\ IncidentNow' = IncidentNow /\ \A u \in Vertices : ListOf(u)' = ListOf(u)
<1>1. Vertices' = Vertices
  BY DEF Vertices
<1>2. ASSUME NEW u \in Vertices PROVE ListOf(u)' = ListOf(u)
  <2>1. PICK c : Yields(mem, id, live \X Sides, u, c, ListOf(u))
    BY DEF ListsYield
  <2>2. PICK d : Yields(mem', id', live' \X Sides, u, d, ListOf(u)')
    BY <1>1 DEF ListsYield
  <2> QED
    BY <2>1, <2>2, YieldsOne
<1> QED
  BY <1>1, <1>2 DEF EndsNow, IncidentNow

\* Erasing an edge takes it out of the two incidence sequences it is in.
LEMMA EraseDrops ==
  ASSUME GraphInv, ListsYield, ListsYield', NEW e \in live, Erase(e), n' = n
  PROVE  /\ EndsNow' = [f \in DOMAIN EndsNow \ {e} |-> EndsNow[f]]
         /\ IncidentNow' = [u \in Vertices |-> Multigraph!Without(IncidentNow[u], e)]
         /\ \A u \in Vertices :
              \E c, d : /\ Yields(mem, id, live \X Sides, u, c, ListOf(u))
                        /\ Yields(mem', id', live' \X Sides, u, d, ListOf(u)')
                        /\ Dropped(c, ListOf(u), e, d, ListOf(u)')
<1>1. /\ live' = live \ {e} /\ mem' = UnlinkBoth(mem, id, e)
      /\ \A l \in live' \X Sides : id'[l] = id[l]
  BY EraseGraph
<1>2. Vertices' = Vertices
  BY DEF Vertices
<1>3. /\ live \in SUBSET Edge /\ id \in [Link -> Nat]
      /\ Good(mem, id, live, Vertices) /\ Ends(id, live, Vertices)
  BY GraphFacts
<1>4. ASSUME NEW u \in Vertices
      PROVE  \E c, d : /\ Yields(mem, id, live \X Sides, u, c, ListOf(u))
                       /\ Yields(mem', id', live' \X Sides, u, d, ListOf(u)')
                       /\ Dropped(c, ListOf(u), e, d, ListOf(u)')
  <2>1. PICK c : Yields(mem, id, live \X Sides, u, c, ListOf(u))
    BY DEF ListsYield
  <2>2. PICK b : Yields(mem', id', live' \X Sides, u, b, ListOf(u)')
    BY <1>2 DEF ListsYield
  <2>3. PICK d, r : /\ Yields(mem', id, live' \X Sides, u, d, r)
                    /\ Dropped(c, ListOf(u), e, d, r)
    BY <2>1, <1>1, <1>3, UnlinkBothYields
  <2>4. Yields(mem', id', live' \X Sides, u, d, r)
    <3> DEFINE L == live' \X Sides
    <3>1. SameList(mem', mem', id, id', L, u, u)
      BY <1>1 DEF SameList
    <3>2. Yields(mem', id, L, u, d, r) /\ Paired(L)
      BY <2>3, <1>1 DEF Paired, Sides
    <3> HIDE DEF L
    <3>3. Yields(mem', id', L, u, d, r)
      BY <3>1, <3>2, YieldsAgrees
    <3> QED
      BY <3>3 DEF L
  <2>5. ListOf(u)' = r /\ b = d
    BY <2>2, <2>4, YieldsOne
  <2> QED
    BY <2>1, <2>2, <2>3, <2>5
<1>5. ASSUME NEW u \in Vertices PROVE ListOf(u)' = Multigraph!Without(ListOf(u), e)
  <2>1. PICK c, d : /\ Yields(mem, id, live \X Sides, u, c, ListOf(u))
                    /\ Dropped(c, ListOf(u), e, d, ListOf(u)')
    BY <1>4
  <2> QED
    BY <2>1, WithoutIs
<1>6. IncidentNow' = [u \in Vertices |-> Multigraph!Without(IncidentNow[u], e)]
  BY <1>2, <1>5 DEF IncidentNow
<1>7. EndsNow' = [f \in DOMAIN EndsNow \ {e} |-> EndsNow[f]]
  <2>1. ASSUME NEW f \in live \ {e}
        PROVE  id'[<<f, "in">>] = id[<<f, "in">>] /\ id'[<<f, "out">>] = id[<<f, "out">>]
    BY <1>1 DEF Sides
  <2> QED
    BY <2>1, <1>1 DEF EndsNow
<1> QED
  BY <1>4, <1>6, <1>7

\* The place of e in a sequence; null stands for the end.
Place(list, e) == IF e = NULL THEN Len(list) + 1 ELSE CHOOSE k \in DOMAIN list : list[k] = e

\* The edges from first up to last, which is excluded.
Stretch(list, first, last) == {list[k] : k \in Place(list, first)..(Place(list, last) - 1)}

TodoFacts ==
  /\ call.op = "remove_edge" =>
       ToErase = {e \in live : {id[<<e, "in">>], id[<<e, "out">>]} = {call.u, call.v}}
  /\ \A u : call.op = "erase_edges" /\ u = call.u => ToErase = Stretch(ListOf(u), call.it, call.last)
  /\ call.op = "remove_vertex" => ToErase = {e \in live : Incident(e, call.u)}
  /\ call.op = "clear" => ToErase = live
  /\ call.op = "idle" => ToErase = {}
  /\ call = Idle => PendingNow = Multigraph!None

LEMMA TodoIs == TodoFacts
<1>1. call.op = "remove_edge" =>
        ToErase = {e \in live : {id[<<e, "in">>], id[<<e, "out">>]} = {call.u, call.v}}
  BY DEF ToErase
<1>2. \A u : call.op = "erase_edges" /\ u = call.u => ToErase = Stretch(ListOf(u), call.it, call.last)
  BY DEF ToErase, Stretch, Place
<1>3. call.op = "remove_vertex" => ToErase = {e \in live : Incident(e, call.u)}
  BY DEF ToErase
<1>4. call.op = "clear" => ToErase = live
  BY DEF ToErase
<1>5. call.op = "idle" => ToErase = {}
  BY DEF ToErase
<1>6. call = Idle => PendingNow = Multigraph!None
  BY <1>5 DEF PendingNow, Multigraph!None, Idle
<1> QED
  BY <1>1, <1>2, <1>3, <1>4, <1>5, <1>6 DEF TodoFacts

\* What the state shows of the abstract multigraph.
View == ListsYield /\ TodoFacts

LEMMA AddVertexRefines ==
  ASSUME IInv, View, View', AddVertex
  PROVE  Multigraph!AddVertex
<1>1. /\ n' = n + 1 /\ n < MaxVertices /\ n \in Nat
      /\ live' = live /\ id' = id
      /\ call' = call /\ call = Idle
      /\ mem'.next = mem.next
      /\ \A u \in 0..n : mem'.head[u] = IF u < n THEN mem.head[u] ELSE NULL
  BY DEF AddVertex, Ready, IInv, GraphInv
<1>2. /\ Vertices = 0..(n - 1) /\ Vertices' = 0..n
      /\ \A l \in live \X Sides : id[l] \in 0..(n - 1)
  BY <1>1, GraphFacts DEF Vertices, IInv, Ends
<1> DEFINE L == live \X Sides
<1>3. Paired(L)
  BY DEF Paired, Sides
<1>4. ASSUME NEW u \in 0..(n - 1) PROVE ListOf(u)' = ListOf(u)
  <2>1. PICK c : Yields(mem, id, L, u, c, ListOf(u))
    BY <1>2, <1>4 DEF ListsYield, View
  <2>2. u \in 0..n /\ u < n
    BY <1>1
  <2>3. PICK d : Yields(mem', id', L, u, d, ListOf(u)')
    BY <1>1, <1>2, <2>2 DEF ListsYield, View
  <2>4. SameList(mem, mem', id, id', L, u, u)
    BY <1>1, <2>2 DEF SameList
  <2> HIDE DEF L
  <2>5. Yields(mem', id', L, u, c, ListOf(u))
    BY <2>1, <2>4, <1>3, YieldsAgrees
  <2> QED
    BY <2>3, <2>5, YieldsOne
<1>5. ASSUME NEW u, u = n PROVE ListOf(u)' = <<>>
  <2> u \in 0..n
    BY <1>1, <1>5
  <2>1. PICK d : Yields(mem', id', L, u, d, ListOf(u)')
    BY <1>1, <1>2 DEF ListsYield, View
  <2>2. mem'.head[u] = NULL
    BY <1>1, <1>5
  <2>3. d \in Nat /\ ListOf(u)' \in [1..d -> Edge] /\ NULL \notin Edge
    BY <2>1, UALAssumption DEF Yields
  <2>4. d = 0
    <3>1. d # 0 => mem'.head[u] = ListOf(u)'[1] /\ 1 \in 1..d
      BY <2>1, <2>3 DEF Yields
    <3> QED
      BY <2>2, <2>3, <3>1
  <2> QED
    BY <2>3, <2>4
<1>6. IncidentNow' = [u \in 0..n |-> IF u < n THEN IncidentNow[u] ELSE <<>>]
  <2>1. ASSUME NEW u \in 0..n
        PROVE  ListOf(u)' = IF u < n THEN IncidentNow[u] ELSE <<>>
    <3>1. CASE u < n
      <4>1. u \in 0..(n - 1)
        BY <1>1, <3>1
      <4> QED
        BY <3>1, <4>1, <1>2, <1>4 DEF IncidentNow
    <3>2. CASE ~(u < n)
      <4>1. u = n
        BY <1>1, <3>2
      <4> QED
        BY <3>2, <4>1, <1>5
    <3> QED
      BY <3>1, <3>2
  <2> QED
    BY <2>1, <1>2 DEF IncidentNow
<1>7. EndsNow' = EndsNow
  BY <1>1 DEF EndsNow
<1>8. PendingNow = Multigraph!None /\ PendingNow' = Multigraph!None
  <2>1. Multigraph!None' = Multigraph!None
    BY DEF Multigraph!None
  <2> QED
    BY <1>1, <2>1 DEF View, TodoFacts, Idle
<1> QED
  BY <1>1, <1>6, <1>7, <1>8 DEF Multigraph!AddVertex, EndsNow, IncidentNow, PendingNow

\* The two calls that erase one edge.
LEMMA EraseOneRefines ==
  ASSUME IInv, View, View', call = Idle, UNCHANGED <<n, call>>,
         NEW e \in Edge, NEW u \in Vertices, e \in Iterated(u), Erase(e)
  PROVE  Multigraph!RemoveOne(e)
<1>1. e \in live
  BY GraphFacts, IteratedIncident DEF IInv
<1>2. /\ EndsNow' = [f \in DOMAIN EndsNow \ {e} |-> EndsNow[f]]
      /\ IncidentNow' = [w \in Vertices |-> Multigraph!Without(IncidentNow[w], e)]
  BY <1>1, EraseDrops DEF IInv, View
<1>3. PendingNow = Multigraph!None /\ PendingNow' = Multigraph!None
  <2>1. Multigraph!None' = Multigraph!None
    BY DEF Multigraph!None
  <2> QED
    BY <2>1 DEF View, TodoFacts, Idle
<1>4. e \in DOMAIN EndsNow
  BY <1>1 DEF EndsNow
<1>5. Multigraph!Vertices = Vertices
  BY DEF Multigraph!Vertices, Vertices
<1>6. Multigraph!Drop(e)
  BY <1>2, <1>5 DEF Multigraph!Drop, EndsNow, IncidentNow
<1> QED
  BY <1>3, <1>4, <1>6 DEF Multigraph!RemoveOne, EndsNow, PendingNow

LEMMA StutterRefines ==
  ASSUME IInv, View, View', UNCHANGED vars
  PROVE  UNCHANGED <<n, EndsNow, IncidentNow, PendingNow>>
<1>1. UNCHANGED <<live, id, mem, n, edges_size, call, cursor, fault>>
  BY DEF vars
<1>2. EndsNow' = EndsNow /\ IncidentNow' = IncidentNow /\ \A u \in Vertices : ListOf(u)' = ListOf(u)
  BY <1>1, SameLists DEF View
<1>3. ToErase' = ToErase
  <2>1. CASE call.op = "erase_edges"
    <3>1. PICK u \in Vertices : u = call.u
      BY <2>1 DEF IInv, CallInv
    <3>2. ListOf(u)' = ListOf(u) /\ call' = call
      BY <1>1, <1>2
    <3>3. ToErase = Stretch(ListOf(u), call.it, call.last)
      BY <2>1, <3>1 DEF View, TodoFacts
    <3>4. ToErase' = Stretch(ListOf(u)', call'.it, call'.last)
      BY <2>1, <3>1, <3>2 DEF View, TodoFacts
    <3> QED
      BY <3>2, <3>3, <3>4
  <2>2. CASE call.op # "erase_edges"
    <3>1. call.op \in Ops /\ call' = call
      BY <1>1 DEF IInv, CallInv, CallType
    <3>2. CASE call.op = "remove_edge"
      BY <1>1, <3>2 DEF View, TodoFacts
    <3>3. CASE call.op = "remove_vertex"
      BY <1>1, <3>3 DEF View, TodoFacts, Incident
    <3>4. CASE call.op \in {"clear", "idle"}
      BY <1>1, <3>4 DEF View, TodoFacts
    <3> QED
      BY <2>2, <3>1, <3>2, <3>3, <3>4 DEF Ops
  <2> QED
    BY <2>1, <2>2
<1>4. PendingNow' = PendingNow
  BY <1>1, <1>3 DEF PendingNow
<1> QED
  BY <1>1, <1>2, <1>4

LEMMA AddEdgeRefines ==
  ASSUME SelfLoops = FALSE, IInv, View, View',
         NEW e \in Edge, NEW u \in Vertices, NEW v \in Vertices, AddEdge(e, u, v)
  PROVE  Multigraph!AddEdge(e, u, v)
<1> DEFINE newId == IdsWith(e, u, v)
           m1 == Construct(mem, e)
           L == live \X Sides
           L2 == (live \cup {e}) \X Sides
<1>1. /\ e \notin live /\ u # v
      /\ live' = live \cup {e} /\ id' = newId /\ mem' = LinkBoth(m1, newId, e)
      /\ n' = n /\ call' = call /\ call = Idle
  BY DEF AddEdge, Ready, IdsWith
<1>2. /\ newId \in [Link -> Nat] /\ newId[<<e, "in">>] = u /\ newId[<<e, "out">>] = v
      /\ \A l \in L : newId[l] = id[l]
      /\ Good(m1, newId, live, Vertices)
      /\ Ends(newId, live \cup {e}, Vertices)
      /\ \A k \in Sides : m1.next[<<e, k>>] = NULL /\ m1.prev[<<e, k>>] = NULL
      /\ m1.head = mem.head
      /\ \A l \in L : m1.next[l] = mem.next[l]
  <2>1. Made(newId, m1, e, u, v)
    BY <1>1, NewEdge DEF IInv
  <2> HIDE DEF newId, m1
  <2> QED
    BY <2>1 DEF Made
<1>3. Vertices' = Vertices /\ Paired(L) /\ live \in SUBSET Edge
  BY <1>1, GraphFacts DEF Vertices, Paired, Sides, IInv
<1> HIDE DEF newId, m1
<1>4. ASSUME NEW w \in Vertices
      PROVE  ListOf(w)' = IF w \in {u, v} THEN Append(ListOf(w), e) ELSE ListOf(w)
  <2>1. PICK c : Yields(mem, id, L, w, c, ListOf(w))
    BY DEF View, ListsYield
  <2>2. PICK d : Yields(mem', id', L2, w, d, ListOf(w)')
    BY <1>1, <1>3 DEF View, ListsYield
  <2>3. SameList(mem, m1, id, newId, L, w, w)
    BY <1>2 DEF SameList
  <2>4. Yields(m1, newId, L, w, c, ListOf(w))
    <3> HIDE DEF L
    <3> QED
      BY <2>1, <2>3, <1>3, YieldsAgrees
  <2>5. IF w \in {u, v} THEN Yields(mem', id', L2, w, c + 1, Extended(c, ListOf(w), e))
        ELSE Yields(mem', id', L2, w, c, ListOf(w))
    BY <2>4, <1>1, <1>2, <1>3, LinkBothYields
  <2>6. Append(ListOf(w), e) = Extended(c, ListOf(w), e)
    BY <2>1, AppendIs
  <2> HIDE DEF L, L2
  <2> QED
    BY <2>2, <2>5, <2>6, YieldsOne
<1>5. IncidentNow' = [w \in Vertices |-> IF w \in {u, v} THEN Append(IncidentNow[w], e)
                                         ELSE IncidentNow[w]]
  BY <1>3, <1>4 DEF IncidentNow
<1>6. EndsNow' = [f \in DOMAIN EndsNow \cup {e} |-> IF f = e THEN <<u, v>> ELSE EndsNow[f]]
  <2>1. \A f \in live : newId[<<f, "in">>] = id[<<f, "in">>] /\ newId[<<f, "out">>] = id[<<f, "out">>]
    BY <1>2 DEF Sides
  <2> QED
    BY <2>1, <1>1, <1>2 DEF EndsNow
<1>7. PendingNow = Multigraph!None /\ PendingNow' = Multigraph!None
  <2>1. Multigraph!None' = Multigraph!None
    BY DEF Multigraph!None
  <2> QED
    BY <1>1, <2>1 DEF View, TodoFacts, Idle
<1>8. e \notin DOMAIN EndsNow
  BY <1>1 DEF EndsNow
<1>9. Multigraph!Vertices = Vertices
  BY DEF Multigraph!Vertices, Vertices
<1> QED
  BY <1>1, <1>5, <1>6, <1>7, <1>8, <1>9 DEF Multigraph!AddEdge, EndsNow, IncidentNow, PendingNow

\* Where the sequence of a list has an edge, and the end.
LEMMA PlaceIs ==
  ASSUME NEW m, NEW i, NEW L, NEW w, NEW c, NEW q, Yields(m, i, L, w, c, q)
  PROVE  /\ Place(q, NULL) = c + 1
         /\ \A k \in 1..c : Place(q, q[k]) = k
<1>1. c \in Nat /\ Len(q) = c /\ DOMAIN q = 1..c
  BY YieldsSeq
<1>2. ASSUME NEW k \in 1..c PROVE Place(q, q[k]) = k
  <2>1. q[k] # NULL /\ \A j \in 1..c : q[j] = q[k] => j = k
    BY UALAssumption DEF Yields
  <2> DEFINE f == q[k]
  <2>2. f # NULL /\ q[k] = f /\ \A j \in 1..c : q[j] = f => j = k
    BY <2>1
  <2> HIDE DEF f
  <2>3. k = CHOOSE j \in 1..c : q[j] = f
    BY <2>2
  <2>4. Place(q, f) = k
    BY <2>2, <2>3, <1>1 DEF Place
  <2> QED
    BY <2>4 DEF f
<1> QED
  BY <1>1, <1>2 DEF Place

\* An iteration that stands on the k-th edge goes on to the next one and passes no
\* earlier one.
GoesOn(u, c, q, k) ==
  /\ Incident(q[k], u)
  /\ Advance(q[k], u) = IF k = c THEN NULL ELSE q[k + 1]
  /\ \A f \in After(q[k], u) : \E j \in k..c : q[j] = f

LEMMA AfterPlaces ==
  ASSUME GraphInv, NEW u \in Vertices,
         NEW c, NEW q, Yields(mem, id, live \X Sides, u, c, q), NEW k \in 1..c
  PROVE  GoesOn(u, c, q, k)
<1>1. c \in Nat /\ \A j \in 1..c : q[j] \in Edge
  BY DEF Yields
<1>2. ASSUME NEW j \in 1..c
      PROVE  Incident(q[j], u) /\ Advance(q[j], u) = IF j = c THEN NULL ELSE q[j + 1]
  <2>1. HasEnd(id, live \X Sides, q[j], u)
        /\ mem.next[<<q[j], SideOf(id, q[j], u)>>] = IF j = c THEN NULL ELSE q[j + 1]
    BY DEF Yields
  <2>2. Incident(q[j], u)
    BY <2>1 DEF HasEnd, Incident
  <2>3. Advance(q[j], u) = mem.next[<<q[j], SideOf(id, q[j], u)>>]
    BY <2>2, GraphFacts, AdvanceIncident
  <2> QED
    BY <2>1, <2>2, <2>3
<1>3. ASSUME NEW f \in After(q[k], u) PROVE \E j \in k..c : q[j] = f
  <2> DEFINE S == {q[j] : j \in k..c}
  <2>1. S \in SUBSET Edge
    BY <1>1
  <2>2. q[k] \in S \cup {NULL}
    BY <1>1
  <2>3. ASSUME NEW g \in S PROVE Advance(g, u) \in S \cup {NULL}
    <3>1. PICK j \in k..c : g = q[j]
      OBVIOUS
    <3>2. j \in 1..c /\ (j # c => j + 1 \in k..c)
      BY <1>1
    <3> QED
      BY <3>1, <3>2, <1>2
  <2> HIDE DEF S
  <2>4. f \in S
    BY <2>1, <2>2, <2>3 DEF After
  <2> QED
    BY <2>4 DEF S
<1> QED
  BY <1>2, <1>3 DEF GoesOn

\* Every edge of a vertex has a place in its list.
LEMMA IncidentPlaces ==
  ASSUME GraphInv, NEW u \in Vertices, NEW f, Incident(f, u),
         NEW c, NEW q, Yields(mem, id, live \X Sides, u, c, q)
  PROVE  \E k \in 1..c : q[k] = f
<1>1. HasEnd(id, live \X Sides, f, u)
  BY GraphFacts, AdvanceIncident DEF HasEnd
<1> QED
  BY <1>1 DEF Yields

\* When the first edge of a stretch is erased and the iterator goes on to the next one,
\* the stretch loses that edge.
LEMMA StretchErased ==
  ASSUME NEW m, NEW i, NEW L, NEW w, NEW c, NEW q, Yields(m, i, L, w, c, q),
         NEW k \in 1..c, NEW j \in (k + 1)..(c + 1),
         NEW m2, NEW i2, NEW L2, Yields(m2, i2, L2, w, c - 1, Skip(c, q, k)),
         NEW next, next = IF k = c THEN NULL ELSE q[k + 1],
         NEW last, last = IF j = c + 1 THEN NULL ELSE q[j]
  PROVE  /\ q[k] \in Stretch(q, q[k], last)
         /\ Stretch(Skip(c, q, k), next, last) = Stretch(q, q[k], last) \ {q[k]}
<1> DEFINE r == Skip(c, q, k)
<1>1. /\ c \in Nat /\ k \in Nat /\ j \in Nat /\ c >= 1
      /\ \A a, b \in 1..c : q[a] = q[b] => a = b
      /\ \A x \in 1..(c - 1) : r[x] = IF x < k THEN q[x] ELSE q[x + 1]
  BY DEF Yields, Skip
<1> HIDE DEF r
<1>2. /\ Place(q, NULL) = c + 1 /\ \A x \in 1..c : Place(q, q[x]) = x
      /\ Place(r, NULL) = c /\ \A x \in 1..(c - 1) : Place(r, r[x]) = x
  <2>1. Place(q, NULL) = c + 1 /\ \A x \in 1..c : Place(q, q[x]) = x
    BY PlaceIs
  <2>2. Yields(m2, i2, L2, w, c - 1, r)
    BY DEF r
  <2>3. Place(r, NULL) = (c - 1) + 1 /\ \A x \in 1..(c - 1) : Place(r, r[x]) = x
    BY <2>2, PlaceIs
  <2> QED
    BY <2>1, <2>3, <1>1
<1>3. Place(q, q[k]) = k /\ Place(q, last) = j
  BY <1>1, <1>2
<1>4. Place(r, next) = k
  <2>1. CASE k = c
    BY <2>1, <1>2
  <2>2. CASE k # c
    <3>1. k \in 1..(c - 1) /\ r[k] = q[k + 1]
      BY <2>2, <1>1
    <3> QED
      BY <2>2, <3>1, <1>2
  <2> QED
    BY <2>1, <2>2
<1>5. Place(r, last) = j - 1
  <2>1. CASE j = c + 1
    BY <2>1, <1>1, <1>2
  <2>2. CASE j # c + 1
    <3>1. j - 1 \in 1..(c - 1) /\ ~(j - 1 < k) /\ (j - 1) + 1 = j
      BY <2>2, <1>1
    <3>2. r[j - 1] = q[j]
      BY <3>1, <1>1
    <3> QED
      BY <2>2, <3>1, <3>2, <1>2
  <2> QED
    BY <2>1, <2>2
<1>6. Stretch(q, q[k], last) = {q[x] : x \in k..(j - 1)}
  BY <1>3 DEF Stretch
<1>7. Stretch(r, next, last) = {r[x] : x \in k..((j - 1) - 1)}
  BY <1>4, <1>5 DEF Stretch
<1>8. ASSUME NEW x \in k..((j - 1) - 1)
      PROVE  r[x] \in {q[y] : y \in k..(j - 1)} \ {q[k]}
  <2>1. x \in 1..(c - 1) /\ ~(x < k) /\ x + 1 \in k..(j - 1) /\ x + 1 # k /\ x + 1 \in 1..c
    BY <1>1
  <2>2. r[x] = q[x + 1]
    BY <2>1, <1>1
  <2> QED
    BY <2>1, <2>2, <1>1
<1>9. ASSUME NEW y \in k..(j - 1), q[y] # q[k]
      PROVE  q[y] \in {r[x] : x \in k..((j - 1) - 1)}
  <2>1. y # k /\ y - 1 \in k..((j - 1) - 1) /\ y - 1 \in 1..(c - 1) /\ ~(y - 1 < k) /\ (y - 1) + 1 = y
    BY <1>1, <1>9
  <2>2. r[y - 1] = q[y]
    BY <2>1, <1>1
  <2> QED
    BY <2>1, <2>2
<1>10. k \in k..(j - 1)
  BY <1>1
<1>11. Stretch(r, next, last) = Stretch(q, q[k], last) \ {q[k]}
  BY <1>6, <1>7, <1>8, <1>9
<1> QED
  BY <1>6, <1>10, <1>11 DEF r

\* An edge of u is between u and v if its other end is v.
LEMMA OtherEnd ==
  ASSUME GraphInv, NEW u, NEW f, Incident(f, u), NEW v
  PROVE  Other(f, u) = v <=> {id[<<f, "in">>], id[<<f, "out">>]} = {u, v}
<1>1. id[<<f, "in">>] # id[<<f, "out">>]
  BY GraphFacts DEF Ends, Incident
<1>2. id[<<f, "in">>] = u \/ id[<<f, "out">>] = u
  BY DEF Incident, Sides
<1> QED
  BY <1>1, <1>2 DEF Other

-----------------------------------------------------------------------------
(* What remove_edge relies on *)

\* remove_edge walks to the end of the list, and the edges it has still to erase lie on
\* its way.
RemoveEdgeInv == call.op = "remove_edge" => call.last = NULL /\ ToErase \subseteq After(call.it, call.u)

LEMMA RemoveEdgeBegins ==
  ASSUME IInv, NEW u \in Vertices, NEW v \in Vertices, RemoveEdge(u, v)
  PROVE  RemoveEdgeInv'
<1>1. /\ call'.op = "remove_edge" /\ call'.u = u /\ call'.v = v
      /\ call'.it = mem.head[u] /\ call'.last = NULL
      /\ UNCHANGED <<live, id, mem>>
  BY DEF RemoveEdge, Idle
<1>2. ToErase' = {e \in live : {id[<<e, "in">>], id[<<e, "out">>]} = {u, v}}
  BY <1>1 DEF ToErase
<1>3. After(mem.head[u], u) = Iterated(u)
  BY DEF Iterated
<1>4. ASSUME NEW e \in live, {id[<<e, "in">>], id[<<e, "out">>]} = {u, v} PROVE e \in Iterated(u)
  <2>1. Incident(e, u)
    BY <1>4 DEF Incident, Sides
  <2> QED
    BY <2>1, GraphFacts, IteratedIncident DEF IInv
<1>5. After(call.it, call.u)' = After(mem.head[u], u)
  BY <1>1 DEF After, Advance, SideOf
<1> QED
  BY <1>1, <1>2, <1>3, <1>4, <1>5 DEF RemoveEdgeInv

LEMMA RemoveEdgeGoesOn ==
  ASSUME IInv, RemoveEdgeInv, call.op = "remove_edge", LoopStep
  PROVE  RemoveEdgeInv'
<1> SUFFICES ASSUME NEW u, NEW v, NEW f, NEW a,
                    u = call.u, v = call.v, f = call.it, a = Advance(f, u)
             PROVE  RemoveEdgeInv'
  OBVIOUS
<1>1. /\ call.it # call.last /\ call.last = NULL /\ n' = n
      /\ ToErase \subseteq After(f, u)
  BY DEF LoopStep, RemoveEdgeInv
<1>2. u \in Vertices /\ Incident(f, u) /\ f \in live /\ GraphInv
  BY <1>1, LoopStandsOnEdge DEF IInv
<1>3. /\ call' = [call EXCEPT !.it = a]
      /\ IF Other(f, u) = v THEN Erase(f) ELSE UNCHANGED <<mem, id, live, edges_size, fault>>
  BY <1>2 DEF LoopStep
<1>4. /\ call'.op = "remove_edge" /\ call'.u = u /\ call'.v = v
      /\ call'.it = a /\ call'.last = NULL
  BY <1>1, <1>3 DEF IInv, CallInv, CallType
<1>5. /\ ToErase = {e \in live : {id[<<e, "in">>], id[<<e, "out">>]} = {u, v}}
      /\ ToErase' = {e \in live' : {id'[<<e, "in">>], id'[<<e, "out">>]} = {u, v}}
  BY <1>4 DEF ToErase
<1>6. After(call.it, call.u)' = After(a, u)'
  BY <1>4 DEF After, Advance
<1>7. CASE Other(f, u) = v
  <2>1. Erase(f)
    BY <1>3, <1>7
  <2>2. live' = live \ {f} /\ \A l \in live' \X Sides : id'[l] = id[l]
    BY <2>1, <1>1, <1>2, EraseGraph
  <2>3. ASSUME NEW e \in ToErase' PROVE e \in After(a, u)'
    <3>1. e \in live /\ e # f /\ e \in ToErase
      BY <2>2, <2>3, <1>5 DEF Sides
    <3>2. e \in After(f, u)
      BY <3>1, <1>1
    <3> QED
      BY <2>1, <3>1, <3>2, <1>1, <1>2, AfterErase
  <2> QED
    BY <2>3, <1>4, <1>6 DEF RemoveEdgeInv
<1>8. CASE Other(f, u) # v
  <2>1. UNCHANGED <<mem, id, live, edges_size, fault>>
    BY <1>3, <1>8
  <2>2. f \notin ToErase
    BY <1>2, <1>5, <1>8, OtherEnd
  <2>3. ASSUME NEW e \in ToErase' PROVE e \in After(a, u)
    <3>1. e \in ToErase /\ e # f
      BY <2>1, <2>2, <2>3, <1>5
    <3>2. e \in After(f, u)
      BY <3>1, <1>1
    <3> QED
      BY <3>1, <3>2, <1>2, AfterAdvance
  <2>4. After(a, u)' = After(a, u)
    BY <2>1 DEF After, Advance, SideOf
  <2> QED
    BY <2>3, <2>4, <1>4, <1>6 DEF RemoveEdgeInv
<1> QED
  BY <1>7, <1>8

LEMMA RemoveEdgeStays ==
  ASSUME IInv, RemoveEdgeInv, [Next]_vars
  PROVE  RemoveEdgeInv'
<1>1. CASE Update
  <2>1. call = Idle /\ call' = call
    BY <1>1 DEF Update, AddVertex, AddEdge, EraseEdge, RemoveEdgeAt, Ready
  <2> QED
    BY <2>1 DEF RemoveEdgeInv, Idle
<1>2. CASE Begin
  <2>1. ASSUME NEW u \in Vertices, NEW first \in Edge, NEW last \in Pointer, EraseEdges(u, first, last)
        PROVE  RemoveEdgeInv'
    BY <2>1 DEF EraseEdges, RemoveEdgeInv, Idle
  <2>2. ASSUME NEW u \in Vertices, RemoveVertex(u) PROVE RemoveEdgeInv'
    BY <2>2 DEF RemoveVertex, RemoveEdgeInv, Idle
  <2>3. ASSUME Clear PROVE RemoveEdgeInv'
    BY <2>3 DEF Clear, RemoveEdgeInv, Idle
  <2> QED
    BY <2>1, <2>2, <2>3, <1>2, RemoveEdgeBegins DEF Begin
<1>3. CASE LoopStep
  <2>1. CASE call.op = "remove_edge"
    BY <2>1, <1>3, RemoveEdgeGoesOn
  <2>2. CASE call.op = "erase_edges"
    <3>1. call'.op = call.op
      BY <1>3, <2>2 DEF LoopStep, IInv, CallInv, CallType
    <3> QED
      BY <2>2, <3>1 DEF RemoveEdgeInv
  <2> QED
    BY <2>1, <2>2, <1>3 DEF LoopStep
<1>4. CASE LoopReturn \/ ClearReturn \/ RemoveVertexReturn
  BY <1>4 DEF LoopReturn, ClearReturn, RemoveVertexReturn, RemoveEdgeInv, Idle
<1>5. CASE ClearEdgesStep
  BY <1>5 DEF ClearEdgesStep, RemoveEdgeInv
<1>6. CASE ClearNextVertex
  <2>1. call'.op = "clear"
    BY <1>6 DEF ClearNextVertex, IInv, CallInv, CallType
  <2> QED
    BY <2>1 DEF RemoveEdgeInv
<1>7. CASE UNCHANGED vars
  <2>1. UNCHANGED <<live, id, mem, n, edges_size, call, cursor, fault>>
    BY <1>7 DEF vars
  <2>2. CASE call.op = "remove_edge"
    <3>1. ToErase' = ToErase
      BY <2>1, <2>2 DEF ToErase
    <3>2. After(call.it, call.u)' = After(call.it, call.u)
      BY <2>1 DEF After, Advance, SideOf
    <3> QED
      BY <2>1, <2>2, <3>1, <3>2 DEF RemoveEdgeInv
  <2>3. CASE call.op # "remove_edge"
    BY <2>1, <2>3 DEF RemoveEdgeInv
  <2> QED
    BY <2>2, <2>3
<1> QED
  BY <1>1, <1>2, <1>3, <1>4, <1>5, <1>6, <1>7 DEF Next, Continue

\* The edges from first up to last are a slice of the sequence.
Slices(q, first, last) ==
  \E i, j \in 1..(Len(q) + 1) : i < j /\ Stretch(q, first, last) = {q[k] : k \in i..(j - 1)}

\* Iterations that stand on the edges of one stretch of u's list.
LEMMA EraseEdgesStretch ==
  ASSUME GraphInv, NEW u \in Vertices, NEW first \in Iterated(u), NEW last \in Pointer,
         first # last, last = NULL \/ last \in After(first, u),
         NEW c, NEW q, Yields(mem, id, live \X Sides, u, c, q)
  PROVE  Slices(q, first, last)
<1>1. c \in Nat /\ Len(q) = c
  BY YieldsSeq
<1>2. Incident(first, u)
  BY GraphFacts, IteratedIncident
<1>3. PICK i \in 1..c : q[i] = first
  BY <1>2, IncidentPlaces
<1>4. Place(q, first) = i
  BY <1>3, PlaceIs
<1>5. \E j \in 1..(c + 1) : i < j /\ Place(q, last) = j
  <2>1. CASE last = NULL
    BY <2>1, <1>1, PlaceIs
  <2>2. CASE last # NULL
    <3> DEFINE S == {q[k] : k \in i..c}
    <3>1. S \in SUBSET Edge /\ first \in S
      BY <1>1, <1>3 DEF Yields
    <3>2. ASSUME NEW h \in S PROVE Advance(h, u) \in S \cup {NULL}
      <4>1. PICK k \in i..c : h = q[k]
        OBVIOUS
      <4>2. k \in 1..c /\ (k # c => k + 1 \in i..c)
        BY <1>1, <1>3
      <4>3. mem.next[<<q[k], SideOf(id, q[k], u)>>] = IF k = c THEN NULL ELSE q[k + 1]
        BY <4>2 DEF Yields
      <4>4. Advance(h, u) \in {NULL, mem.next[<<q[k], SideOf(id, q[k], u)>>]}
        BY <4>1 DEF Advance
      <4> QED
        BY <4>2, <4>3, <4>4
    <3> HIDE DEF S
    <3>3. last \in S
      BY <2>2, <3>1, <3>2 DEF After
    <3>4. PICK j \in i..c : q[j] = last
      BY <3>3 DEF S
    <3>5. j \in 1..c /\ j \in 1..(c + 1) /\ i < j
      BY <3>4, <1>1, <1>3
    <3>6. Place(q, last) = j
      BY <3>4, <3>5, PlaceIs
    <3> QED
      BY <3>5, <3>6
  <2> QED
    BY <2>1, <2>2
<1>6. PICK j \in 1..(c + 1) : i < j /\ Place(q, last) = j
  BY <1>5
<1>7. Stretch(q, first, last) = {q[k] : k \in i..(j - 1)} /\ i \in 1..(c + 1)
  BY <1>1, <1>4, <1>6 DEF Stretch
<1> QED
  BY <1>1, <1>6, <1>7 DEF Slices

\* The calls that erase edges in a loop name the edges they will erase.
LEMMA BeginRefines ==
  ASSUME IInv, View, View', Begin
  PROVE  Multigraph!Begin
<1>1. UNCHANGED <<live, id, mem, n>> /\ call = Idle
  BY DEF Begin, RemoveEdge, EraseEdges, RemoveVertex, Clear, Ready
<1>2. EndsNow' = EndsNow /\ IncidentNow' = IncidentNow /\ \A u \in Vertices : ListOf(u)' = ListOf(u)
  BY <1>1, SameLists DEF View
<1>3. PendingNow = Multigraph!None
  BY <1>1 DEF View, TodoFacts
<1>4. Multigraph!Vertices = Vertices /\ DOMAIN EndsNow = live
      /\ \A e \in live : Multigraph!Endpoints(e) = {id[<<e, "in">>], id[<<e, "out">>]}
  BY DEF Multigraph!Vertices, Vertices, EndsNow, Multigraph!Endpoints
<1>5. ASSUME NEW u \in Vertices, NEW v \in Vertices, RemoveEdge(u, v)
      PROVE  PendingNow' = [op |-> "remove_edges", u |-> u, todo |-> Multigraph!Between(u, v)]
  <2>1. call'.op = "remove_edge" /\ call'.u = u /\ call'.v = v
    BY <1>5 DEF RemoveEdge, Idle
  <2>2. ToErase' = {e \in live : {id[<<e, "in">>], id[<<e, "out">>]} = {u, v}}
    BY <2>1, <1>1 DEF View, TodoFacts
  <2>3. ToErase' = Multigraph!Between(u, v)
    BY <2>2, <1>4 DEF Multigraph!Between
  <2> QED
    BY <2>1, <2>3 DEF PendingNow
<1>6. ASSUME NEW u \in Vertices, NEW first \in Edge, NEW last \in Pointer, EraseEdges(u, first, last)
      PROVE  \E i, j \in 1..(Len(IncidentNow[u]) + 1) :
               /\ i < j
               /\ PendingNow' = [op |-> "remove_edges", u |-> u, todo |-> Multigraph!Slice(u, i, j)]
  <2>1. /\ call'.op = "erase_edges" /\ call'.u = u /\ call'.it = first /\ call'.last = last
        /\ first \in Iterated(u) /\ first # last
        /\ last = NULL \/ last \in After(first, u)
    BY <1>6 DEF EraseEdges, Idle
  <2>2. PICK c : Yields(mem, id, live \X Sides, u, c, ListOf(u))
    BY DEF View, ListsYield
  <2>3. PICK i, j \in 1..(Len(ListOf(u)) + 1) :
          i < j /\ Stretch(ListOf(u), first, last) = {ListOf(u)[k] : k \in i..(j - 1)}
    <3>1. GraphInv
      BY DEF IInv
    <3>2. Slices(ListOf(u), first, last)
      BY <3>1, <2>1, <2>2, EraseEdgesStretch
    <3> QED
      BY <3>2 DEF Slices
  <2>4. IncidentNow[u] = ListOf(u)
    BY DEF IncidentNow
  <2>5. ToErase' = Stretch(ListOf(u)', call'.it, call'.last)
    BY <2>1 DEF View, TodoFacts
  <2>6. ToErase' = {ListOf(u)[k] : k \in i..(j - 1)}
    BY <2>1, <2>3, <2>5, <1>2
  <2>7. ToErase' = Multigraph!Slice(u, i, j)
    BY <2>4, <2>6 DEF Multigraph!Slice, IncidentNow
  <2>8. PendingNow' = [op |-> "remove_edges", u |-> u, todo |-> Multigraph!Slice(u, i, j)]
    BY <2>1, <2>7 DEF PendingNow
  <2> QED
    BY <2>3, <2>4, <2>8
<1>7. ASSUME NEW u \in Vertices, RemoveVertex(u)
      PROVE  PendingNow' = [op |-> "remove_vertex", u |-> u, todo |-> Multigraph!IncidentEdges(u)]
  <2>1. call'.op = "remove_vertex" /\ call'.u = u
    BY <1>7 DEF RemoveVertex, Idle
  <2>2. ToErase' = {e \in live : Incident(e, u)}
    BY <2>1, <1>1 DEF View, TodoFacts, Incident
  <2>3. ToErase' = Multigraph!IncidentEdges(u)
    BY <2>2, <1>4 DEF Multigraph!IncidentEdges, Incident, Sides
  <2> QED
    BY <2>1, <2>3 DEF PendingNow
<1>8. ASSUME Clear
      PROVE  PendingNow' = [op |-> "clear", u |-> 0, todo |-> DOMAIN EndsNow]
  <2>1. call'.op = "clear"
    BY <1>8 DEF Clear, Idle
  <2>2. ToErase' = live
    BY <2>1, <1>1 DEF View, TodoFacts
  <2> QED
    BY <2>1, <2>2, <1>4 DEF PendingNow
<1>9. UNCHANGED <<n, EndsNow, IncidentNow>>
  BY <1>1, <1>2
<1>10. CASE \E u, v \in Vertices : RemoveEdge(u, v)
  BY <1>10, <1>3, <1>4, <1>5, <1>9 DEF Multigraph!Begin, EndsNow, IncidentNow, PendingNow
<1>11. CASE \E u \in Vertices, first \in Edge, last \in Pointer : EraseEdges(u, first, last)
  BY <1>11, <1>3, <1>4, <1>6, <1>9 DEF Multigraph!Begin, EndsNow, IncidentNow, PendingNow
<1>12. CASE \E u \in Vertices : RemoveVertex(u)
  BY <1>12, <1>3, <1>4, <1>7, <1>9 DEF Multigraph!Begin, EndsNow, IncidentNow, PendingNow
<1>13. CASE Clear
  BY <1>13, <1>3, <1>4, <1>8, <1>9 DEF Multigraph!Begin, EndsNow, IncidentNow, PendingNow
<1> QED
  BY <1>10, <1>11, <1>12, <1>13 DEF Begin

\* The abstract call goes on when an edge it has to erase is erased.
LEMMA EraseNextRefines ==
  ASSUME IInv, View, View', n' = n, NEW e \in live, Erase(e), e \in ToErase,
         PendingNow'.op = PendingNow.op, PendingNow'.u = PendingNow.u,
         ToErase' = ToErase \ {e}
  PROVE  Multigraph!EraseNext
<1>1. /\ EndsNow' = [f \in DOMAIN EndsNow \ {e} |-> EndsNow[f]]
      /\ IncidentNow' = [w \in Vertices |-> Multigraph!Without(IncidentNow[w], e)]
  BY EraseDrops DEF IInv, View
<1>2. Multigraph!Vertices = Vertices
  BY DEF Multigraph!Vertices, Vertices
<1>3. Multigraph!Drop(e)
  BY <1>1, <1>2 DEF Multigraph!Drop, EndsNow, IncidentNow
<1>4. PendingNow' = [PendingNow EXCEPT !.todo = @ \ {e}]
  BY DEF PendingNow
<1>5. e \in PendingNow.todo
  BY DEF PendingNow
<1> QED
  BY <1>3, <1>4, <1>5 DEF Multigraph!EraseNext, PendingNow

\* An iteration of the loop erases one of the edges the call names, or steps over an edge
\* it does not name.
LEMMA LoopStepRefines ==
  ASSUME IInv, View, View', LoopStep
  PROVE  Multigraph!EraseNext \/ UNCHANGED <<n, EndsNow, IncidentNow, PendingNow>>
<1> SUFFICES ASSUME NEW u, NEW v, NEW f, NEW a, NEW last,
                    u = call.u, v = call.v, f = call.it, a = Advance(f, u), last = call.last
             PROVE  Multigraph!EraseNext \/ UNCHANGED <<n, EndsNow, IncidentNow, PendingNow>>
  OBVIOUS
<1>1. f # last /\ n' = n /\ call.op \in {"remove_edge", "erase_edges"}
  BY DEF LoopStep
<1>2. /\ u \in Vertices /\ Incident(f, u) /\ f \in live /\ GraphInv
      /\ last = NULL \/ last \in After(f, u)
  BY <1>1, LoopStandsOnEdge DEF IInv
<1>3. /\ call' = [call EXCEPT !.it = a]
      /\ IF call.op = "remove_edge" => Other(f, u) = v THEN Erase(f)
         ELSE UNCHANGED <<mem, id, live, edges_size, fault>>
  BY <1>2 DEF LoopStep
<1>4. /\ call'.op = call.op /\ call'.u = u /\ call'.v = v /\ call'.it = a /\ call'.last = last
  BY <1>1, <1>3 DEF IInv, CallInv, CallType
<1>5. PendingNow'.op = PendingNow.op /\ PendingNow'.u = PendingNow.u
  BY <1>4 DEF PendingNow
<1>6. CASE call.op = "remove_edge"
  <2>1. /\ ToErase = {e \in live : {id[<<e, "in">>], id[<<e, "out">>]} = {u, v}}
        /\ ToErase' = {e \in live' : {id'[<<e, "in">>], id'[<<e, "out">>]} = {u, v}}
    BY <1>4, <1>6 DEF View, TodoFacts
  <2>2. CASE Other(f, u) = v
    <3>1. Erase(f)
      BY <1>3, <2>2
    <3>2. live' = live \ {f} /\ \A l \in live' \X Sides : id'[l] = id[l]
      BY <3>1, <1>1, <1>2, EraseGraph
    <3>3. f \in ToErase
      BY <1>2, <2>1, <2>2, OtherEnd
    <3>4. ToErase' = ToErase \ {f}
      <4>1. \A e \in live' : id'[<<e, "in">>] = id[<<e, "in">>] /\ id'[<<e, "out">>] = id[<<e, "out">>]
        BY <3>2 DEF Sides
      <4> QED
        BY <2>1, <3>2, <4>1
    <3> QED
      BY <1>1, <1>2, <1>5, <3>1, <3>3, <3>4, EraseNextRefines
  <2>3. CASE Other(f, u) # v
    <3>1. UNCHANGED <<live, id, mem, n>>
      BY <1>1, <1>3, <1>6, <2>3
    <3>2. EndsNow' = EndsNow /\ IncidentNow' = IncidentNow
      BY <3>1, SameLists DEF View
    <3>3. ToErase' = ToErase
      BY <2>1, <3>1
    <3>4. PendingNow' = PendingNow
      BY <1>5, <3>3 DEF PendingNow
    <3> QED
      BY <1>1, <3>2, <3>4
  <2> QED
    BY <2>2, <2>3
<1>7. CASE call.op = "erase_edges"
  <2>1. Erase(f)
    BY <1>3, <1>7
  <2>2. /\ ToErase = Stretch(ListOf(u), f, last)
        /\ ToErase' = Stretch(ListOf(u)', a, last)
    BY <1>4, <1>7 DEF View, TodoFacts
  <2>3. PICK c, d : /\ Yields(mem, id, live \X Sides, u, c, ListOf(u))
                    /\ Yields(mem', id', live' \X Sides, u, d, ListOf(u)')
                    /\ Dropped(c, ListOf(u), f, d, ListOf(u)')
    BY <1>1, <1>2, <2>1, EraseDrops DEF View
  <2> SUFFICES ASSUME NEW q, NEW r, q = ListOf(u), r = ListOf(u)'
               PROVE  Multigraph!EraseNext
    OBVIOUS
  <2>4. PICK k \in 1..c : q[k] = f
    BY <1>2, <2>3, IncidentPlaces
  <2>5. d = c - 1 /\ r = Skip(c, q, k) /\ c \in Nat
    <3>1. \A j \in 1..c : q[j] = f => j = k
      BY <2>3, <2>4 DEF Yields
    <3> QED
      BY <2>3, <2>4, <3>1 DEF Dropped, Yields
  <2>6. /\ a = IF k = c THEN NULL ELSE q[k + 1]
        /\ \A g \in After(f, u) : \E j \in k..c : q[j] = g
    <3>1. Yields(mem, id, live \X Sides, u, c, q)
      BY <2>3
    <3>2. GoesOn(u, c, q, k)
      BY <3>1, <1>2, <2>4, AfterPlaces
    <3> QED
      BY <3>2, <2>4 DEF GoesOn
  <2>7. \E j \in (k + 1)..(c + 1) : last = IF j = c + 1 THEN NULL ELSE q[j]
    <3>1. CASE last = NULL
      BY <2>4, <2>5, <3>1
    <3>2. CASE last # NULL
      <4>1. PICK j \in k..c : q[j] = last
        BY <1>2, <2>6, <3>2
      <4>2. j # k
        BY <4>1, <2>4, <1>1
      <4>3. j \in (k + 1)..(c + 1) /\ j # c + 1
        BY <4>1, <4>2, <2>4, <2>5
      <4> QED
        BY <4>1, <4>3
    <3> QED
      BY <3>1, <3>2
  <2>8. PICK j \in (k + 1)..(c + 1) : last = IF j = c + 1 THEN NULL ELSE q[j]
    BY <2>7
  <2>9. Yields(mem, id, live \X Sides, u, c, q) /\ Yields(mem', id', live' \X Sides, u, c - 1, Skip(c, q, k))
    BY <2>3, <2>5
  <2>10. f \in Stretch(q, f, last) /\ Stretch(r, a, last) = Stretch(q, f, last) \ {f}
    <3> DEFINE L == live \X Sides
               L2 == live' \X Sides
    <3>1. Yields(mem, id, L, u, c, q) /\ Yields(mem', id', L2, u, c - 1, Skip(c, q, k))
      BY <2>9
    <3> HIDE DEF L, L2
    <3>2. /\ q[k] \in Stretch(q, q[k], last)
          /\ Stretch(Skip(c, q, k), a, last) = Stretch(q, q[k], last) \ {q[k]}
      BY <2>6, <2>8, <3>1, StretchErased
    <3> QED
      BY <3>2, <2>4, <2>5
  <2> QED
    BY <1>1, <1>2, <1>5, <2>1, <2>2, <2>10, EraseNextRefines
<1> QED
  BY <1>1, <1>6, <1>7

LEMMA LoopReturnRefines ==
  ASSUME IInv, View, View', RemoveEdgeInv, LoopReturn
  PROVE  Multigraph!Return
<1> SUFFICES ASSUME NEW u, NEW f, u = call.u, f = call.it
             PROVE  Multigraph!Return
  OBVIOUS
<1>1. /\ call.op \in {"remove_edge", "erase_edges"} /\ call.it = call.last
      /\ call' = Idle /\ UNCHANGED <<live, id, mem, n>>
  BY DEF LoopReturn
<1>2. ToErase = {}
  <2>1. CASE call.op = "remove_edge"
    <3>1. call.it = NULL /\ ToErase \subseteq After(NULL, call.u)
      BY <1>1, <2>1 DEF RemoveEdgeInv
    <3>2. After(NULL, call.u) = {}
      BY NothingAfterNull
    <3> QED
      BY <3>1, <3>2
  <2>2. CASE call.op = "erase_edges"
    <3>1. u \in Vertices /\ (f = NULL \/ Incident(f, u)) /\ GraphInv
      BY <2>2 DEF IInv, CallInv
    <3>2. ToErase = Stretch(ListOf(u), f, f)
      BY <1>1, <2>2 DEF View, TodoFacts
    <3>3. PICK c : Yields(mem, id, live \X Sides, u, c, ListOf(u))
      BY <3>1 DEF View, ListsYield
    <3>4. Place(ListOf(u), f) \in Nat
      <4>1. c \in Nat
        BY <3>3 DEF Yields
      <4>2. CASE f = NULL
        BY <4>1, <4>2, <3>3, PlaceIs
      <4>3. CASE Incident(f, u)
        <5>1. PICK k \in 1..c : ListOf(u)[k] = f
          BY <4>3, <3>1, <3>3, IncidentPlaces
        <5>2. Place(ListOf(u), f) = k
          BY <5>1, <3>3, PlaceIs
        <5> QED
          BY <5>2, <4>1
      <4> QED
        BY <3>1, <4>2, <4>3
    <3> QED
      BY <3>2, <3>4 DEF Stretch
  <2> QED
    BY <1>1, <2>1, <2>2
<1>3. EndsNow' = EndsNow /\ IncidentNow' = IncidentNow
  BY <1>1, SameLists DEF View
<1>4. PendingNow' = Multigraph!None
  <2>1. Multigraph!None' = Multigraph!None
    BY DEF Multigraph!None
  <2> QED
    BY <1>1, <2>1 DEF View, TodoFacts
<1>5. PendingNow.op = "remove_edges" /\ PendingNow.todo = {}
  BY <1>1, <1>2 DEF PendingNow
<1> QED
  BY <1>1, <1>3, <1>4, <1>5 DEF Multigraph!Return, EndsNow, IncidentNow, PendingNow

LEMMA ClearEdgesStepRefines ==
  ASSUME IInv, View, View', ClearEdgesStep
  PROVE  Multigraph!EraseNext
<1> SUFFICES ASSUME NEW u, NEW e, u = call.u, e = mem.head[u] PROVE Multigraph!EraseNext
  OBVIOUS
<1>1. /\ call.op \in {"remove_vertex", "clear"} /\ u < n /\ mem.size[u] > 0
      /\ Erase(e) /\ n' = n /\ call' = call /\ GraphInv
  BY DEF ClearEdgesStep, IInv
<1>2. u \in Vertices
  BY <1>1, GraphFacts DEF IInv, CallInv, CallType
<1>3. e \in live /\ Incident(e, u)
  BY <1>1, <1>2, DegreeFacts, GraphFacts
<1>4. live' = live \ {e} /\ \A l \in live' \X Sides : id'[l] = id[l]
  BY <1>1, <1>3, EraseGraph
<1>5. CASE call.op = "remove_vertex"
  <2>1. /\ ToErase = {f \in live : Incident(f, u)}
        /\ ToErase' = {f \in live' : Incident(f, u)'}
    BY <1>1, <1>5 DEF View, TodoFacts, Incident
  <2>2. \A f \in live' : Incident(f, u)' <=> Incident(f, u)
    BY <1>4 DEF Incident
  <2>3. e \in ToErase /\ ToErase' = ToErase \ {e}
    BY <2>1, <2>2, <1>3, <1>4
  <2> QED
    BY <1>1, <1>3, <2>3, EraseNextRefines DEF PendingNow
<1>6. CASE call.op = "clear"
  <2>1. ToErase = live /\ ToErase' = live'
    BY <1>1, <1>6 DEF View, TodoFacts
  <2> QED
    BY <1>1, <1>3, <1>4, <2>1, EraseNextRefines DEF PendingNow
<1> QED
  BY <1>1, <1>5, <1>6

LEMMA ClearNextVertexRefines ==
  ASSUME IInv, View, View', ClearNextVertex
  PROVE  UNCHANGED <<n, EndsNow, IncidentNow, PendingNow>>
<1>1. /\ call.op = "clear" /\ call' = [call EXCEPT !.u = @ + 1]
      /\ UNCHANGED <<live, id, mem, n>>
  BY DEF ClearNextVertex
<1>2. EndsNow' = EndsNow /\ IncidentNow' = IncidentNow
  BY <1>1, SameLists DEF View
<1>3. call'.op = "clear"
  BY <1>1 DEF IInv, CallInv, CallType
<1>4. ToErase = live /\ ToErase' = live'
  BY <1>1, <1>3 DEF View, TodoFacts
<1>5. PendingNow' = PendingNow
  BY <1>1, <1>3, <1>4 DEF PendingNow
<1> QED
  BY <1>1, <1>2, <1>5

LEMMA ClearReturnRefines ==
  ASSUME IInv, View, View', ClearReturn
  PROVE  Multigraph!Return
<1>1. /\ call.op = "clear" /\ call.u = n /\ n' = 0 /\ call' = Idle
      /\ UNCHANGED <<live, id>> /\ GraphInv /\ CallInv
  BY DEF ClearReturn, IInv
<1>2. live = {}
  BY <1>1, NothingLeft
<1>3. PendingNow.op = "clear" /\ PendingNow.todo = {}
  BY <1>1, <1>2 DEF View, TodoFacts, PendingNow
<1>4. PendingNow' = Multigraph!None
  <2>1. Multigraph!None' = Multigraph!None
    BY DEF Multigraph!None
  <2> QED
    BY <1>1, <2>1 DEF View, TodoFacts
<1>5. EndsNow' = EndsNow
  BY <1>1 DEF EndsNow
<1>6. IncidentNow' = [u \in {} |-> <<>>]
  <2>1. Vertices' = {}
    BY <1>1 DEF Vertices
  <2> QED
    BY <2>1 DEF IncidentNow
<1> QED
  BY <1>1, <1>3, <1>4, <1>5, <1>6 DEF Multigraph!Return, EndsNow, IncidentNow, PendingNow

\* The lists of the vertices that stay are the same lists under their new numbers, and so
\* are the ends of the edges.
LEMMA RemoveVertexReturnRefines ==
  ASSUME IInv, View, View', RemoveVertexReturn
  PROVE  Multigraph!Return
<1> SUFFICES ASSUME NEW r, r = call.u PROVE Multigraph!Return
  OBVIOUS
<1> DEFINE H == [u \in 0..(n - 2) |-> IF u < r THEN mem.head[u] ELSE mem.head[u + 1]]
           T == [u \in 0..(n - 2) |-> IF u < r THEN mem.tail[u] ELSE mem.tail[u + 1]]
           Z == [u \in 0..(n - 2) |-> IF u < r THEN mem.size[u] ELSE mem.size[u + 1]]
           J == [l \in Link |-> IF l[1] \in live THEN Renumber(id[l], r) ELSE id[l]]
           L == live \X Sides
<1>1. /\ call.op = "remove_vertex" /\ mem.size[r] = 0 /\ r \in Vertices
      /\ call' = Idle /\ live' = live /\ GraphInv
  BY DEF RemoveVertexReturn, IInv, CallInv
<1>2. /\ n' = n - 1 /\ id' = J /\ mem'.next = mem.next /\ mem'.head = H
  <2>1. /\ n' = n - 1 /\ id' = J
        /\ mem' = [next |-> mem.next, prev |-> mem.prev, head |-> H, tail |-> T, size |-> Z]
    BY <1>1, GraphIteratedLive DEF RemoveVertexReturn
  <2> HIDE DEF H, J, T, Z
  <2> QED
    BY <2>1
<1>3. /\ live \in SUBSET Edge /\ id \in [Link -> Nat] /\ n \in Nat /\ r \in 0..(n - 1)
      /\ Vertices = 0..(n - 1) /\ Ends(id, live, Vertices)
  BY <1>1, GraphFacts
<1>4. \A l \in L : id[l] # r
  BY <1>1, DegreeFacts
<1>5. \A l \in L : J[l] = Renumber(id[l], r) /\ id[l] \in 0..(n - 1)
  <2>1. \A l \in L : l \in Link /\ l[1] \in live
    BY <1>3 DEF Link
  <2> QED
    BY <2>1, <1>3 DEF Ends
<1>6. \A w \in 0..(n - 2) : H[w] = IF w < r THEN mem.head[w] ELSE mem.head[w + 1]
  OBVIOUS
<1>7. Paired(L)
  BY DEF Paired, Sides
<1>8. \A f \in live : <<f, "in">> \in L /\ <<f, "out">> \in L
  BY DEF Sides
<1> HIDE DEF H, T, Z, J, L
<1>9. Vertices' = 0..(n - 2)
  BY <1>2, <1>3 DEF Vertices
<1>10. ASSUME NEW w \in 0..(n - 2), NEW o, o = IF w < r THEN w ELSE w + 1
       PROVE  ListOf(w)' = ListOf(o)
  <2>1. w \in 0..(n - 1) /\ o \in 0..(n - 1)
    BY <1>3, <1>10
  <2>2. PICK c : Yields(mem, id, L, o, c, ListOf(o))
    BY <2>1, <1>3 DEF View, ListsYield, L
  <2>3. PICK d : Yields(mem', id', L, w, d, ListOf(w)')
    BY <1>1, <1>9 DEF View, ListsYield, L
  <2>4. mem'.head[w] = mem.head[o]
    BY <1>2, <1>6, <1>10
  <2>5. ASSUME NEW l \in L PROVE id'[l] = w <=> id[l] = o
    <3>1. id[l] \in 0..(n - 1) /\ id[l] # r /\ id'[l] = Renumber(id[l], r)
      BY <1>2, <1>4, <1>5
    <3> QED
      BY <3>1, <1>3, <1>10 DEF Renumber
  <2>6. SameList(mem, mem', id, id', L, o, w)
    BY <2>4, <2>5, <1>2 DEF SameList
  <2>7. Yields(mem', id', L, w, c, ListOf(o))
    BY <2>2, <2>6, <1>7, YieldsAgrees
  <2> QED
    BY <2>3, <2>7, YieldsOne
<1>11. IncidentNow' = [w \in 0..(n - 2) |-> IF w < r THEN IncidentNow[w] ELSE IncidentNow[w + 1]]
  <2>1. ASSUME NEW w \in 0..(n - 2)
        PROVE  ListOf(w)' = IF w < r THEN IncidentNow[w] ELSE IncidentNow[w + 1]
    <3>1. w \in Vertices /\ w + 1 \in Vertices
      BY <1>3
    <3>2. CASE w < r
      <4>1. ListOf(w)' = ListOf(w)
        BY <3>2, <1>10
      <4> QED
        BY <4>1, <3>1, <3>2 DEF IncidentNow
    <3>3. CASE ~(w < r)
      <4> DEFINE o == w + 1
      <4>1. ListOf(w)' = ListOf(o)
        <5>1. o = IF w < r THEN w ELSE w + 1
          BY <3>3
        <5> HIDE DEF o
        <5> QED
          BY <5>1, <1>10
      <4> QED
        BY <4>1, <3>1, <3>3 DEF IncidentNow
    <3> QED
      BY <3>2, <3>3
  <2> QED
    BY <2>1, <1>9 DEF IncidentNow
<1>12. EndsNow' = [e \in DOMAIN EndsNow |-> <<Multigraph!Lower(EndsNow[e][1], r),
                                              Multigraph!Lower(EndsNow[e][2], r)>>]
  <2>1. ASSUME NEW e \in live
        PROVE  /\ id'[<<e, "in">>] = Multigraph!Lower(id[<<e, "in">>], r)
               /\ id'[<<e, "out">>] = Multigraph!Lower(id[<<e, "out">>], r)
    BY <1>2, <1>5, <1>8 DEF Renumber, Multigraph!Lower
  <2> QED
    BY <2>1, <1>1 DEF EndsNow
<1>13. ToErase = {}
  <2>1. ToErase = {e \in live : Incident(e, r)}
    BY <1>1 DEF View, TodoFacts
  <2> QED
    BY <2>1, <1>4, <1>8 DEF Incident, Sides
<1>14. PendingNow.op = "remove_vertex" /\ PendingNow.todo = {} /\ PendingNow.u = r
  BY <1>1, <1>13 DEF PendingNow
<1>15. PendingNow' = Multigraph!None
  <2>1. Multigraph!None' = Multigraph!None
    BY DEF Multigraph!None
  <2> QED
    BY <1>1, <2>1 DEF View, TodoFacts
<1> QED
  BY <1>2, <1>11, <1>12, <1>14, <1>15 DEF Multigraph!Return, EndsNow, IncidentNow, PendingNow

-----------------------------------------------------------------------------
(* The refinement *)

\* Every step of the pointer structure is a step of the multigraph or leaves it as it is.
LEMMA StepRefines ==
  ASSUME SelfLoops = FALSE, IInv, View, View', RemoveEdgeInv, [Next]_vars
  PROVE  Multigraph!Next \/ UNCHANGED <<n, EndsNow, IncidentNow, PendingNow>>
<1>1. ASSUME NEW e \in Edge, NEW u \in Vertices, NEW v \in Vertices, AddEdge(e, u, v)
      PROVE  Multigraph!Next
  <2>1. Multigraph!AddEdge(e, u, v)
    BY <1>1, AddEdgeRefines
  <2>2. Multigraph!Vertices = Vertices
    BY DEF Multigraph!Vertices, Vertices
  <2> QED
    BY <2>1, <2>2 DEF Multigraph!Next
<1>2. ASSUME NEW e \in Edge, NEW u \in Vertices, EraseEdge(u, e) \/ RemoveEdgeAt(u, e)
      PROVE  Multigraph!Next
  <2>1. call = Idle /\ UNCHANGED <<n, call>> /\ e \in Iterated(u) /\ Erase(e)
    BY <1>2 DEF EraseEdge, RemoveEdgeAt, Ready
  <2>2. Multigraph!RemoveOne(e)
    BY <2>1, EraseOneRefines
  <2> QED
    BY <2>2 DEF Multigraph!Next
<1>3. CASE Update
  BY <1>1, <1>2, <1>3, AddVertexRefines DEF Update, Multigraph!Next
<1>4. CASE Begin
  BY <1>4, BeginRefines DEF Multigraph!Next
<1>5. CASE LoopStep
  BY <1>5, LoopStepRefines DEF Multigraph!Next, Multigraph!Finish
<1>6. CASE LoopReturn \/ ClearReturn \/ RemoveVertexReturn
  BY <1>6, LoopReturnRefines, ClearReturnRefines, RemoveVertexReturnRefines
     DEF Multigraph!Next, Multigraph!Finish
<1>7. CASE ClearEdgesStep
  BY <1>7, ClearEdgesStepRefines DEF Multigraph!Next, Multigraph!Finish
<1>8. CASE ClearNextVertex
  BY <1>8, ClearNextVertexRefines
<1>9. CASE UNCHANGED vars
  BY <1>9, StutterRefines
<1> QED
  BY <1>3, <1>4, <1>5, <1>6, <1>7, <1>8, <1>9 DEF Next, Continue

LEMMA InitRefines ==
  ASSUME Init
  PROVE  Multigraph!Init
<1>1. Vertices = {} /\ live = {} /\ call = Idle /\ n = 0
  BY DEF Init, Vertices
<1>2. PendingNow = Multigraph!None
  BY <1>1, TodoIs DEF TodoFacts
<1>3. EndsNow = [e \in {} |-> <<>>] /\ IncidentNow = [u \in {} |-> <<>>]
  BY <1>1 DEF EndsNow, IncidentNow
<1> QED
  BY <1>1, <1>2, <1>3 DEF Multigraph!Init, EndsNow, IncidentNow, PendingNow

\* Without self-loops, whatever undirected_adjacency_list does to its links, lists and ids
\* implements the multigraph: the sequence that iterating a vertex's edges gives grows at its
\* end, remove_edge, erase_edge, remove_vertex and clear erase the edges they name, one by one
\* and no others, and remove_vertex renumbers all ends consistently.
THEOREM Refinement ==
  ASSUME SelfLoops = FALSE
  PROVE  Spec => ImplementsMultigraph
<1>1. Spec => []IInv
  BY InductiveInvariant
<1>2. IInv => View
  BY ListsAreYielded, TodoIs DEF View
<1>3. Init => RemoveEdgeInv
  BY DEF Init, RemoveEdgeInv, Idle
<1>4. IInv /\ RemoveEdgeInv /\ [Next]_vars => RemoveEdgeInv'
  BY RemoveEdgeStays
<1>5. Init => Multigraph!Init
  BY InitRefines
<1>6. IInv /\ View /\ View' /\ RemoveEdgeInv /\ [Next]_vars => [Multigraph!Next]_(Multigraph!vars)
  <2> SUFFICES ASSUME IInv, View, View', RemoveEdgeInv, [Next]_vars
               PROVE  [Multigraph!Next]_(Multigraph!vars)
    OBVIOUS
  <2>1. Multigraph!Next \/ UNCHANGED <<n, EndsNow, IncidentNow, PendingNow>>
    BY StepRefines
  <2> QED
    BY <2>1 DEF Multigraph!vars, EndsNow, IncidentNow, PendingNow
<1> QED
  BY <1>1, <1>2, <1>3, <1>4, <1>5, <1>6, PTL DEF Spec, ImplementsMultigraph, Multigraph!Spec
=============================================================================
