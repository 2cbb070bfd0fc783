-------------------------- MODULE LabelPropagation --------------------------
(***************************************************************************)
(* label_propagation: in every round each vertex, in an order that is      *)
(* shuffled anew, takes one of the labels most of its out-edges lead to.   *)
(* The random generator may give any order and any of several labels.      *)
(***************************************************************************)
EXTENDS Digraphs

CONSTANTS N,         \* the number of vertices
          Labels,    \* the labels
          Empty,     \* empty_label of the second overload
          MaxIters   \* bound: max_iters

VARIABLES graph,     \* the lists of targets
          sentinel,  \* was an empty_label given?
          initial,   \* the labels before the call
          label,     \* label(g, uid)
          iter,      \* how many rounds have begun
          todo,      \* the vertices of order the round has not come to
          changed,   \* did the round change a label?
          phase      \* "rounds", "converged" or "exhausted"

vars == <<graph, sentinel, initial, label, iter, todo, changed, phase>>

Vertices == 0..(N - 1)

Init == /\ label = initial
        /\ iter = 0
        /\ todo = {}
        /\ changed = TRUE
        /\ phase = "rounds"

StartRound ==
  /\ phase = "rounds" /\ todo = {}
  /\ changed /\ iter < MaxIters
  /\ iter' = iter + 1
  /\ todo' = Vertices
  /\ changed' = FALSE
  /\ UNCHANGED <<graph, sentinel, initial, label, phase>>

\* Mutant of Votes: targets without a label vote too.
VotesOfAll(u, l) == Cardinality({i \in DOMAIN graph[u] : label[graph[u][i]] = l})

\* freq[l] of u: an edge counts as often as it is there, a target without a label not
\* at all.
Votes(u, l) ==
  IF sentinel /\ l = Empty THEN 0
  ELSE Cardinality({i \in DOMAIN graph[u] : label[graph[u][i]] = l})

Candidates(u) ==
  {l \in Labels \cup {Empty} : Votes(u, l) > 0 /\ \A m \in Labels \cup {Empty} : Votes(u, m) <= Votes(u, l)}

\* A vertex whose edges lead to no label keeps its own.
KeepLabel(u) ==
  /\ phase = "rounds" /\ u \in todo
  /\ Candidates(u) = {}
  /\ todo' = todo \ {u}
  /\ UNCHANGED <<graph, sentinel, initial, label, iter, changed, phase>>

TakeLabel(u, best) ==
  /\ phase = "rounds" /\ u \in todo
  /\ best \in Candidates(u)
  /\ label' = [label EXCEPT ![u] = best]
  /\ changed' = (changed \/ label[u] # best)
  /\ todo' = todo \ {u}
  /\ UNCHANGED <<graph, sentinel, initial, iter, phase>>

Return ==
  /\ phase = "rounds" /\ todo = {}
  /\ ~changed \/ iter = MaxIters
  /\ phase' = IF changed THEN "exhausted" ELSE "converged"
  /\ UNCHANGED <<graph, sentinel, initial, label, iter, todo, changed>>

Next == \/ StartRound
        \/ \E u \in todo : KeepLabel(u) \/ \E l \in Labels \cup {Empty} : TakeLabel(u, l)
        \/ Return

Returned == phase # "rounds"

-----------------------------------------------------------------------------
(* Properties *)

Labelled(f) == {v \in Vertices : ~sentinel \/ f[v] # Empty}

\* "Vertices in components with no labelled vertex retain empty_label", a label is never
\* lost, and no label is invented: at any time a vertex has its initial label or
\* one of those its edges lead to.
LabelsFlow ==
  \A v \in Vertices :
    LET sources == Reached(Successors(graph), v)
    IN  /\ label[v] \in {initial[u] : u \in sources}
        /\ v \in Labelled(initial) => v \in Labelled(label)

\* After a round without a change every label is one of the most frequent, and every
\* vertex from which a labelled one can be reached has a label.
ConvergedStable ==
  phase = "converged" =>
    \A v \in Vertices :
      /\ Candidates(v) # {} => label[v] \in Candidates(v)
      /\ Reached(Successors(graph), v) \cap Labelled(initial) # {} => v \in Labelled(label)

LabelsSettled == LabelsFlow /\ ConvergedStable
=============================================================================
