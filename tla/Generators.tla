----------------------------- MODULE Generators -----------------------------
(***************************************************************************)
(* The generators of edge ranges.  The random numbers are nondeterministic *)
(* choices: a draw that is rejected changes nothing, and a loop with a     *)
(* limited number of attempts may give up at any time.  Weights, which are *)
(* positive whatever is drawn, are left out.                               *)
(***************************************************************************)
EXTENDS Integers, FiniteSets, Sequences
LOCAL INSTANCE SequencesExt
LOCAL INSTANCE FiniteSetsExt
LOCAL INSTANCE TLC  \* SortSeq

CONSTANTS GeneratorNames,  \* those to be checked
          MaxN,            \* bound: n
          MaxM,            \* bound: m, k, max_clique_size and credits
          EnoughVertices   \* has a call of barabasi_albert at least as many vertices as its clique?

VARIABLES generator, n, m,
          i,          \* the vertex, row or edge the outermost loop is at
          chosen,     \* what was drawn for it: chosen, credit, or the position of the last edge
          urn,        \* barabasi_albert
          present,    \* the pairs there are
          cliques,    \* ssca: clique_of, as far as vertices are assigned
          generated,  \* generated_edges
          phase       \* "make", "join" for the edges between cliques, "sort", "returned"

vars == <<generator, n, m, i, chosen, urn, present, cliques, generated, phase>>

Pair(u, v) == [u |-> u, v |-> v]
Both(u, v) == <<Pair(u, v), Pair(v, u)>>
Ids        == 0..(n - 1)
others     == <<generator, n, m>>

\* Mutant of AtPosition: the self-loop is skipped one vertex too late.
AtPositionLate(pos) ==
  LET u == pos \div (n - 1)  offset == pos % (n - 1)
  IN  Pair(u, IF offset <= u THEN offset ELSE offset + 1)

\* The pair at a position among the n * (n - 1) pairs of different vertices.
AtPosition(pos) ==
  LET u == pos \div (n - 1)  offset == pos % (n - 1)
  IN  Pair(u, IF offset < u THEN offset ELSE offset + 1)

Total == IF n > 1 THEN n * (n - 1) ELSE 0

Init ==
  /\ generator \in GeneratorNames
  /\ n \in 0..MaxN /\ m \in 0..MaxM
  /\ (generator = "barabasi_albert" /\ EnoughVertices) => n >= Max({m, 2})
  /\ generator = "rmat" => n \in {1, 2, 4}   \* 2^scale
  /\ generator \in {"path_graph", "complete_graph", "erdos_renyi"} => m = 0
  /\ i = 0 /\ chosen = <<>> /\ urn = <<>> /\ present = {} /\ cliques = <<>>
  /\ generated = <<>>
  /\ phase = "make"

Emit(es) == generated' = generated \o es

\* The outermost loop goes on with what was drawn for i forgotten, or it ends.
Continue == i' = i + 1 /\ chosen' = <<>> /\ UNCHANGED phase
End      == phase' = "sort" /\ UNCHANGED <<i, chosen>>

-----------------------------------------------------------------------------
(* Without random numbers *)

PathGraph == /\ generator = "path_graph"
             /\ IF i + 1 < n THEN Emit(<<Pair(i, i + 1)>>) /\ Continue ELSE End /\ UNCHANGED generated
             /\ UNCHANGED <<others, urn, present, cliques>>

CompleteGraph ==
  /\ generator = "complete_graph"
  /\ IF i < n THEN Emit([k \in 1..(n - 1) |-> Pair(i, IF k <= i THEN k - 1 ELSE k)]) /\ Continue
     ELSE End /\ UNCHANGED generated
  /\ UNCHANGED <<others, urn, present, cliques>>

\* n rows and m columns; i numbers the cells row by row.
Grid2d ==
  LET right == IF (i % m) + 1 < m THEN Both(i, i + 1) ELSE <<>>
      down  == IF (i \div m) + 1 < n THEN Both(i, i + m) ELSE <<>>
  IN  /\ generator = "grid_2d"
      /\ IF i < n * m THEN Emit(right \o down) /\ Continue ELSE End /\ UNCHANGED generated
      /\ UNCHANGED <<others, urn, present, cliques>>

-----------------------------------------------------------------------------
(* Random graphs *)

\* The gaps between positions are drawn; the loop ends beyond the last position.
ErdosRenyi ==
  /\ generator = "erdos_renyi"
  /\ \/ \E pos \in i..(Total - 1) :
          /\ Emit(<<AtPosition(pos)>>)
          /\ i' = pos + 1
          /\ UNCHANGED <<chosen, phase>>
     \/ End /\ UNCHANGED generated
  /\ UNCHANGED <<others, urn, present, cliques>>

\* m positions, each drawn until it is a new one.
ErdosRenyiGnm ==
  /\ generator = "erdos_renyi_gnm"
  /\ IF Len(generated) < Min({m, Total})
     THEN /\ \E pos \in (0..(Total - 1)) \ present :
               Emit(<<AtPosition(pos)>>) /\ present' = present \cup {pos}
          /\ UNCHANGED <<i, chosen, phase>>
     ELSE End /\ UNCHANGED <<generated, present>>
  /\ UNCHANGED <<others, urn, cliques>>

\* Mutant of Attach: a vertex may attach to the same target again.
AttachAgain ==
  /\ generator = "barabasi_albert" /\ i >= Max({m, 2}) /\ i < n
  /\ IF Len(chosen) < m
     THEN /\ \E t \in ToSet(urn) \ {i} :
               /\ chosen' = Append(chosen, t)
               /\ urn' = urn \o <<i, t>>
               /\ Emit(Both(i, t))
          /\ UNCHANGED <<i, phase>>
     ELSE Continue /\ UNCHANGED <<urn, generated>>
  /\ UNCHANGED <<others, present, cliques>>

\* A clique of max(m, 2) vertices; the urn holds both ends of every edge.
Clique ==
  LET size  == Max({m, 2})
      pairs == SetToSortSeq({p \in (0..(size - 1)) \X (0..(size - 1)) : p[1] < p[2]},
                            LAMBDA p, q : p[1] < q[1] \/ (p[1] = q[1] /\ p[2] < q[2]))
  IN  /\ generator = "barabasi_albert" /\ i = 0
      /\ Emit(FlattenSeq([k \in DOMAIN pairs |-> Both(pairs[k][1], pairs[k][2])]))
      /\ urn' = FlattenSeq(pairs)
      /\ i' = size
      /\ UNCHANGED <<others, chosen, present, cliques, phase>>

\* Vertex i is attached to m different others, drawn from the urn.
Attach ==
  /\ generator = "barabasi_albert" /\ i >= Max({m, 2}) /\ i < n
  /\ IF Len(chosen) < m
     THEN /\ \E t \in ToSet(urn) \ ({i} \cup ToSet(chosen)) :
               /\ chosen' = Append(chosen, t)
               /\ urn' = urn \o <<i, t>>
               /\ Emit(Both(i, t))
          /\ UNCHANGED <<i, phase>>
     ELSE Continue /\ UNCHANGED <<urn, generated>>
  /\ UNCHANGED <<others, present, cliques>>

BarabasiAlbert == \/ Clique \/ Attach
                  \/ /\ generator = "barabasi_albert" /\ i >= Max({n, m, 2})
                     /\ End /\ UNCHANGED <<others, urn, present, cliques, generated>>

\* k is even and less than n.
half == IF 2 * (m \div 2) >= n THEN (n - 1) \div 2 ELSE m \div 2

\* The j-th edge on the ring of vertex i \div half, rewired or not; where no new pair is
\* found in time it stays, and it is left out if its pair is there.
WattsStrogatz ==
  LET u    == i \div half
      ring == (u + (i % half) + 1) % n
  IN  /\ generator = "watts_strogatz"
      /\ IF n >= 2 /\ m \div 2 > 0 /\ i < n * half
         THEN \E v \in {ring} \cup {w \in Ids \ {u} : {u, w} \notin present} :
                IF u # v /\ {u, v} \notin present
                THEN Emit(Both(u, v)) /\ present' = present \cup {{u, v}} /\ Continue
                ELSE Continue /\ UNCHANGED <<generated, present>>
         ELSE End /\ UNCHANGED <<generated, present>>
      /\ UNCHANGED <<others, urn, cliques>>

\* A vertex draws its credit, of at least 1, and spends it on new targets or gives up.
Plod ==
  /\ generator = "plod"
  /\ IF n < 2 \/ i = n THEN End /\ UNCHANGED <<generated, present>>
     ELSE IF chosen = <<>>
     THEN /\ \E credit \in 1..Max({m, 1}) : chosen' = <<credit>>
          /\ UNCHANGED <<i, phase, generated, present>>
     ELSE \/ /\ chosen[1] > 0
             /\ \E v \in {w \in Ids \ {i} : <<i, w>> \notin present} :
                  Emit(<<Pair(i, v)>>) /\ present' = present \cup {<<i, v>>}
             /\ chosen' = <<chosen[1] - 1>>
             /\ UNCHANGED <<i, phase>>
          \/ Continue /\ UNCHANGED <<generated, present>>
  /\ UNCHANGED <<others, urn, cliques>>

\* Each edge is placed by one choice of a quadrant per level, which is any cell.
Rmat ==
  /\ generator = "rmat"
  /\ IF n > 1 /\ i < m
     THEN \E u, v \in Ids :
            IF u = v \/ <<u, v>> \in present THEN Continue /\ UNCHANGED <<generated, present>>
            ELSE Emit(<<Pair(u, v)>>) /\ present' = present \cup {<<u, v>>} /\ Continue
     ELSE End /\ UNCHANGED <<generated, present>>
  /\ UNCHANGED <<others, urn, cliques>>

\* ssca: the next clique takes up to m of the vertices that are left.
Partition ==
  /\ generator = "ssca" /\ Len(cliques) < n
  /\ \E size \in 1..Max({m, 1}) :
       cliques' = cliques \o [k \in 1..Min({size, n - Len(cliques)}) |->
                                IF cliques = <<>> THEN 1 ELSE cliques[Len(cliques)] + 1]
  /\ UNCHANGED <<others, i, chosen, urn, present, generated, phase>>

\* One or two parallel edges between two vertices of a clique; i numbers the pairs.
WithinClique ==
  LET u == i \div n  w == i % n
  IN  /\ generator = "ssca" /\ phase = "make" /\ Len(cliques) = n /\ i < n * n
      /\ IF u # w /\ cliques[u + 1] = cliques[w + 1]
         THEN \E parallel \in 1..2 : Emit([k \in 1..parallel |-> Pair(u, w)]) ELSE UNCHANGED generated
      /\ Continue
      /\ UNCHANGED <<others, urn, present, cliques>>

CliquesMade ==
  /\ generator = "ssca" /\ phase = "make" /\ Len(cliques) = n /\ i = n * n
  /\ phase' = "join" /\ i' = 0
  /\ UNCHANGED <<others, chosen, urn, present, cliques, generated>>

\* A vertex draws another one, or none; that of its own clique is not joined.
JoinCliques ==
  /\ generator = "ssca" /\ phase = "join"
  /\ IF i < n
     THEN \/ Continue /\ UNCHANGED generated
          \/ \E w \in Ids : cliques[w + 1] # cliques[i + 1] /\ Emit(<<Pair(i, w)>>) /\ Continue
     ELSE End /\ UNCHANGED generated
  /\ UNCHANGED <<others, urn, present, cliques>>

Ssca == Partition \/ WithinClique \/ CliquesMade \/ JoinCliques

-----------------------------------------------------------------------------
\* The stable sort by source, for erdos_renyi_gnm by target too; the generators that
\* emit in this order do without.
Sorted ==
  LET from(u) == SelectSeq(generated, LAMBDA e : e.u = u)
      by(u)   == IF generator = "erdos_renyi_gnm" THEN SortSeq(from(u), LAMBDA d, e : d.v < e.v) ELSE from(u)
  IN  FlattenSeq([k \in 1..(Max({0} \cup {e.u : e \in ToSet(generated)}) + 1) |-> by(k - 1)])

Sort == /\ phase = "sort"
        /\ generated' = IF generator \in {"path_graph", "complete_graph", "erdos_renyi"} THEN generated ELSE Sorted
        /\ phase' = "returned"
        /\ UNCHANGED <<others, i, chosen, urn, present, cliques>>

Next == \/ /\ phase \in {"make", "join"}
           /\ \/ PathGraph \/ CompleteGraph \/ Grid2d \/ ErdosRenyi \/ ErdosRenyiGnm
              \/ BarabasiAlbert \/ WattsStrogatz \/ Plod \/ Rmat \/ Ssca
        \/ Sort

Returned == phase = "returned"

-----------------------------------------------------------------------------
(* Properties *)

Arcs     == ToSet(generated)
Vertices == IF generator = "grid_2d" THEN 0..(n * m - 1) ELSE Ids

\* The numbers of edges that the arguments fix.
CountFixed ==
  LET size == Len(generated)
  IN  CASE generator = "path_graph"      -> size = Max({n - 1, 0})
        [] generator = "complete_graph"  -> size = Total
        [] generator = "erdos_renyi_gnm" -> size = Min({m, Total})
        [] generator = "grid_2d" /\ n * m > 0 -> size = 2 * (n * (m - 1) + m * (n - 1))
        [] generator = "barabasi_albert" -> LET clique == Max({m, 2})
                                            IN  size = clique * (clique - 1) + 2 * m * (n - clique)
        [] generator = "watts_strogatz"  -> size <= 2 * n * half
        [] OTHER -> TRUE

\* While barabasi_albert draws, a vertex is in the urn as often as it has edges.
UrnExact == (generator = "barabasi_albert" /\ phase = "make") =>
  \A v \in ToSet(urn) \cup {e.u : e \in Arcs} :
    Len(SelectSeq(urn, LAMBDA t : t = v)) = Len(SelectSeq(generated, LAMBDA e : e.u = v))

\* What a generator returns is sorted by source, as compressed_graph asks for; it has
\* vertices less than n, no self-loop, no edge twice but within the cliques of ssca, both
\* directions where that is promised, and as many edges as the arguments say.
GeneratedSound ==
  /\ UrnExact
  /\ Returned =>
       /\ \A j, k \in DOMAIN generated : j < k => generated[j].u <= generated[k].u
       /\ \A e \in Arcs : e.u # e.v /\ {e.u, e.v} \subseteq Vertices
       /\ generator # "ssca" => Cardinality(Arcs) = Len(generated)
       /\ generator \in {"grid_2d", "barabasi_albert", "watts_strogatz"} =>
            \A e \in Arcs : Pair(e.v, e.u) \in Arcs
       /\ CountFixed
=============================================================================
