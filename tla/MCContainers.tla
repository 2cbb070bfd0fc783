---------------------------- MODULE MCContainers ----------------------------
(***************************************************************************)
(* The containers that are filled from ranges of edges, and the files that *)
(* they are written to, and the functions and views that read them: the    *)
(* first state chooses one.  dynamic_graph is the module that is extended. *)
(***************************************************************************)
EXTENDS DynamicGraph, TLC

CONSTANTS MaxId, MaxGiven,                  \* CompressedGraph; MaxGiven is its MaxEdges
          Debug, EdgesFirst, KnownVertices,
          MaxOrder, MaxCalls,               \* AdjacencyMatrix
          Formats, MaxFileOrder, MaxFileEdges, Isolated, Uniform, PlainTexts, \* GraphFiles
          GeneratorNames, MaxN, MaxM, EnoughVertices, \* Generators
          ViewOrder, MaxArcs, Kinds,        \* BasicViews
          Subjects                          \* what is to be checked

VARIABLES subject,
          rows, cols, values, valueCount, partition, pc, loading, thrown, given, \* CompressedGraph
          directed, order, flags, cells, count, pending, added,                  \* AdjacencyMatrix
          format, functions, graph, attributes, text, document, at, where, result, \* GraphFiles
          generator, n, m, i, chosen, urn, present, cliques, generated, phase,      \* Generators
          viewed, arcs, view, cursor, yielded                                       \* BasicViews

\* The arguments tried: ranges of vertices below, at and above the greatest id of
\* an edge, and partition starts of every kind that is accepted or refused.
Csr == INSTANCE CompressedGraph WITH
         MaxEdges        <- MaxGiven,
         VertexRanges    <- {{}, {0}, {0, 1, 2}, {2}},
         Hints           <- {0, 2},
         PartitionStarts <- {<<>>, <<0>>, <<0, 1>>, <<0, 1, 2>>, <<0, 0>>, <<0, 2, 1>>, <<0, 3>>, <<0, 7>>, <<1>>},
         load            <- loading

Matrix == INSTANCE AdjacencyMatrix WITH EdgeValues <- {1, 2}
Files  == INSTANCE GraphFiles
Gen    == INSTANCE Generators
Views  == INSTANCE BasicViews

ASSUME Csr!CompressedAssumption

AllTraits == [keyed : BOOLEAN, unique : BOOLEAN, bidirectional : BOOLEAN]
Symmetry  == Permutations(Val)

dynamicVars == <<traits, edges, inEdges, edgeCount, load>>
csrVars     == <<rows, cols, values, valueCount, partition, pc, loading, thrown, given>>
matrixVars  == <<directed, order, flags, cells, count, pending, added>>
genVars     == <<generator, n, m, i, chosen, urn, present, cliques, generated, phase>>
viewVars    == <<viewed, arcs, view, cursor, yielded>>
filesVars   == <<format, functions, graph, attributes, text, document, at, where, result>>

NoDynamic == /\ traits = [keyed |-> FALSE, unique |-> FALSE, bidirectional |-> FALSE]
             /\ edges = <<>> /\ inEdges = <<>> /\ edgeCount = 0 /\ load = NoLoad
NoMatrix  == /\ directed = TRUE /\ order = 0 /\ flags = <<>> /\ cells = <<>> /\ count = 0
             /\ pending = <<>> /\ added = <<>>

NoFile    == /\ format = "none" /\ functions = FALSE /\ graph = <<>> /\ attributes = <<>> /\ text = "none"
             /\ document = <<>> /\ at = 0 /\ where = Files!Nowhere /\ result = Files!NoResult

NoGenerator == /\ generator = "none" /\ n = 0 /\ m = 0 /\ i = 0 /\ chosen = <<>> /\ urn = <<>> /\ present = {}
               /\ cliques = <<>> /\ generated = <<>> /\ phase = "make"

NoViews == viewed = [kind |-> "none"] /\ arcs = <<>> /\ view = Views!NoView /\ cursor = Views!Start /\ yielded = <<>>

ContainersInit ==
  /\ subject \in Subjects
  /\ IF subject = "dynamic_graph" THEN Init ELSE NoDynamic
  /\ IF subject = "adjacency_matrix" THEN Matrix!Init ELSE NoMatrix
  /\ IF subject = "graph_file" THEN Files!Init ELSE NoFile
  /\ IF subject = "generator" THEN Gen!Init ELSE NoGenerator
  /\ IF subject = "view" THEN Views!Init ELSE NoViews
  /\ Csr!Init

\* A compressed_graph is constructed from what a generator returned.
ConstructGenerated ==
  /\ pc = "new" /\ Gen!Returned
  /\ \A e \in Gen!Arcs : e \in Csr!Edges
  /\ Csr!Construct(generated, {}, <<>>, "terminate")

ContainersNext ==
  /\ UNCHANGED subject
  /\ \/ /\ subject = "dynamic_graph" /\ Next
        /\ UNCHANGED <<csrVars, matrixVars, filesVars, genVars, viewVars>>
     \/ /\ subject = "compressed_graph" /\ Csr!Next
        /\ UNCHANGED <<dynamicVars, matrixVars, filesVars, genVars, viewVars>>
     \/ /\ subject = "adjacency_matrix" /\ Matrix!Next
        /\ UNCHANGED <<dynamicVars, csrVars, filesVars, genVars, viewVars>>
     \/ /\ subject = "graph_file" /\ Files!Next
        /\ UNCHANGED <<dynamicVars, csrVars, matrixVars, genVars, viewVars>>
     \/ /\ subject = "generator" /\ Gen!Next
        /\ UNCHANGED <<dynamicVars, csrVars, matrixVars, filesVars, viewVars>>
     \/ /\ subject = "generator" /\ (ConstructGenerated \/ (pc \notin {"new", "idle"} /\ Csr!Next))
        /\ UNCHANGED <<dynamicVars, matrixVars, filesVars, genVars, viewVars>>
     \/ /\ subject = "view" /\ Views!Next
        /\ UNCHANGED <<dynamicVars, csrVars, matrixVars, filesVars, genVars>>

ContainersSpec ==
  ContainersInit /\ [][ContainersNext]_<<subject, dynamicVars, csrVars, matrixVars, filesVars, genVars, viewVars>>

-----------------------------------------------------------------------------
(* Properties *)

\* dynamic_graph counts its edges, though sets refuse duplicates and loads throw between two
\* edges; compressed_graph has the edges that were given at their sources, and its two
\* functions about partitions agree; adjacency_matrix has what was added, and counts it.
ContainersExact == /\ subject = "dynamic_graph" => EdgesCounted
                   /\ Csr!EdgesAsGiven
                   /\ Csr!PartitionsAgree
                   /\ Matrix!MatrixExact

Promised == INSTANCE OutEdgeLists WITH
              MaxVertices <- 3,
              Edge        <- (0..MaxId) \X (1..MaxGiven),
              out         <- IF subject = "compressed_graph" THEN Csr!Lists ELSE [v \in {} |-> <<>>]

\* compressed_graph: each step appends to one list, resizes or empties the graph; rows
\* that are filled in later never take edges from another vertex.
ImplementsOutEdgeLists == Promised!Spec

\* The generic functions give the graph that its container holds, whichever of the
\* container's own functions they find.
FunctionsExact == subject = "view" => Views!FunctionsExact

\* The basic views yield it, in order, with values and sizes.
ViewsExact == subject = "view" => Views!ViewsExact

\* Graph files: what was written is read again.
FilesRoundTrip == subject = "graph_file" => Files!FilesRoundTrip

\* Generators: the edges are as promised, and the constructor of compressed_graph takes
\* all of them; that it takes no empty range is another matter (EmptyRangeAccepted).
GeneratedTaken ==
  subject = "generator" =>
    /\ Gen!GeneratedSound
    /\ thrown = "none" \/ generated = <<>>
    /\ pc = "idle" => given = generated
=============================================================================
