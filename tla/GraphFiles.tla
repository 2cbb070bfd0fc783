----------------------------- MODULE GraphFiles -----------------------------
(***************************************************************************)
(* The writers and readers of graph files.  A document is a sequence of    *)
(* lines, statements, tags or objects; the writer produces it at once, the *)
(* reader takes one after the other.  A value is known by the vertex <<u>> *)
(* or edge <<u, i>>, the i-th of u, that it belongs to, by its name and by *)
(* the kind of its text.  Vertex ids are numbers, also where they are read *)
(* as text.                                                                *)
(***************************************************************************)
EXTENDS Integers, FiniteSets, Sequences
LOCAL INSTANCE SequencesExt
LOCAL INSTANCE FiniteSetsExt

CONSTANTS Formats,      \* the pairs of a writer and a reader
          MaxFileOrder, \* bound: vertices of a graph; one less with attribute functions
          MaxFileEdges, \* bound: its edges; one less with attribute functions
          Isolated,     \* may a graph written as METIS have vertices without neighbours?
          Uniform,      \* does all that is written as GraphML have the attributes of the first?
          PlainTexts    \* are values restricted to texts that the format carries?

VARIABLES format,
          functions,   \* do functions give the attributes, or the graph's values labels?
          graph,       \* the list of targets of each vertex
          attributes,  \* the names of those that each vertex and edge has
          text,        \* the kind of all values
          document,
          at,          \* the position of the reader
          where,       \* its state: what it is in, the row it is at, the element it is building
          result

vars == <<format, functions, graph, attributes, text, document, at, where, result>>

Names == <<"colour", "label">>   \* in the order of a std::map

Order == Cardinality(DOMAIN graph)

\* The edges in the order in which the writers and views::edgelist go through them.
EdgeOrder == FlattenSeq([k \in 1..Order |-> [i \in DOMAIN graph[k - 1] |-> <<k - 1, i>>]])
Target(e) == graph[e[1]][e[2]]

\* The attributes of x with their values.
Data(x) ==
  LET names == SelectSeq(Names, LAMBDA a : a \in attributes[x])
  IN  [i \in DOMAIN names |-> [name |-> names[i], value |-> [of |-> x, name |-> names[i], text |-> text]]]

PerVertex(Line(_)) == [k \in 1..Order |-> Line(k - 1)]
PerEdge(Line(_))   == [k \in DOMAIN EdgeOrder |-> Line(EdgeOrder[k])]

-----------------------------------------------------------------------------
(* Writers *)

WriteText == PerVertex(LAMBDA u : [u |-> u, targets |-> graph[u]])

Dimacs(nodes) ==
  <<[kind |-> "c"], [kind |-> "p", n |-> Order, m |-> Len(EdgeOrder)]>>
    \o nodes
    \o PerEdge(LAMBDA e : [kind |-> "a", u |-> e[1] + 1, v |-> Target(e) + 1, weight |-> Data(e)])

WriteDimacs == Dimacs(<<>>)

\* The source is the first vertex here, and the sink the last.
WriteDimacsMaxFlow == Dimacs(<<[kind |-> "n", id |-> 1, designation |-> "s"],
                               [kind |-> "n", id |-> Order, designation |-> "t"]>>)

\* Every edge is entered at both ends, unless the neighbour is there already or is
\* the vertex itself.
Neighbours ==
  LET enter(adj, a, b, w) ==
        IF a = b \/ \E i \in DOMAIN adj[a] : adj[a][i].v = b THEN adj
        ELSE [adj EXCEPT ![a] = Append(@, [v |-> b, weight |-> w])]
  IN  FoldLeft(LAMBDA adj, e : enter(enter(adj, e[1], Target(e), Data(e)), Target(e), e[1], Data(e)),
               [u \in DOMAIN graph |-> <<>>], EdgeOrder)

WriteMetis ==
  LET adj   == Neighbours
      total == MapThenSumSet(LAMBDA u : Len(adj[u]), DOMAIN adj)
  IN  <<[kind |-> "%"], [kind |-> "row", n |-> Order, m |-> total \div 2]>>
        \o PerVertex(LAMBDA u : [kind    |-> IF adj[u] = <<>> THEN "blank" ELSE "row",
                                 entries |-> [i \in DOMAIN adj[u] |-> [adj[u][i] EXCEPT !.v = @ + 1]]])

\* dot_id quotes and escapes a string and leaves an integer as it is.
Label(x) == [quoted |-> text # "integer", data |-> Data(x)]

WriteDot ==
  <<[kind |-> "digraph"]>>
    \o PerVertex(LAMBDA u : [kind |-> "node", u |-> u, label |-> Label(<<u>>)])
    \o PerEdge(LAMBDA e : [kind |-> "edge", u |-> e[1], v |-> Target(e), label |-> Label(e)])

\* The names of the keys: the attributes of the first vertex and of its first edge; without
\* functions the type of the values decides, which are all labels or none (a key for edges
\* that a graph does not have is left out).
NamesOf(x)  == [i \in DOMAIN Data(x) |-> Data(x)[i].name]
VertexKeys  == NamesOf(<<0>>)
EdgeKeys    == CASE EdgeOrder = <<>>                -> <<>>
                 [] functions /\ graph[0] = <<>>    -> <<>>
                 [] OTHER                           -> NamesOf(EdgeOrder[1])
Keys(element, names) == [i \in DOMAIN names |-> [kind |-> "key", id |-> <<element, i>>, name |-> names[i]]]

\* The n-th attribute of an element gets the n-th key.
Tags(tag, x, keys) ==
  IF attributes[x] = {} THEN <<tag>>
  ELSE <<[tag EXCEPT !.closed = FALSE]>>
       \o [i \in 1..Min({Len(keys), Len(Data(x))}) |->
             [kind |-> "data", key |-> <<tag.kind, i>>, value |-> Data(x)[i].value]]
       \o <<[kind |-> "/" \o tag.kind]>>

WriteGraphml ==
  Keys("node", VertexKeys) \o Keys("edge", EdgeKeys) \o <<[kind |-> "graph"]>>
    \o FlattenSeq(PerVertex(LAMBDA u :
         Tags([kind |-> "node", u |-> u, closed |-> TRUE], <<u>>, VertexKeys)))
    \o FlattenSeq(PerEdge(LAMBDA e :
         Tags([kind |-> "edge", u |-> e[1], v |-> Target(e), closed |-> TRUE], e, EdgeKeys)))
    \o <<[kind |-> "/graph"]>>

WriteJson ==
  <<[kind |-> "directed"], [kind |-> "nodes"]>>
    \o PerVertex(LAMBDA u : [kind |-> "object", ids |-> <<u>>, pairs |-> Data(<<u>>)])
    \o <<[kind |-> "]"], [kind |-> "edges"]>>
    \o PerEdge(LAMBDA e : [kind |-> "object", ids |-> <<e[1], Target(e)>>, pairs |-> Data(e)])
    \o <<[kind |-> "]"]>>

Document == CASE format = "text"            -> WriteText
              [] format = "dimacs"          -> WriteDimacs
              [] format = "dimacs_max_flow" -> WriteDimacsMaxFlow
              [] format = "metis"           -> WriteMetis
              [] format = "dot"             -> WriteDot
              [] format = "graphml"         -> WriteGraphml
              [] format = "json"            -> WriteJson

-----------------------------------------------------------------------------
(* Readers: each makes one operator of what it does with the line at hand. *)

Nowhere   == [in |-> "top", row |-> 0, item |-> <<>>]
NoResult  == [order |-> 0, size |-> 0, nodes |-> <<>>, keys |-> <<>>, vertices |-> <<>>, edges |-> <<>>]
Vertex(u, data)  == [id |-> u, data |-> data]
Arc(u, v, data)  == [u |-> u, v |-> v, data |-> data]

\* An assignment to an entry of a map.
Put(map, name, value) == {p \in map : p.name # name} \cup {[name |-> name, value |-> value]}

\* ensure_vertex
Ensure(vertices, u) == IF \E i \in DOMAIN vertices : vertices[i].id = u THEN vertices
                       ELSE Append(vertices, Vertex(u, {}))

ReadText(line) ==
  /\ result' = [result EXCEPT
       !.vertices = FoldLeft(Ensure, @, <<line.u>> \o line.targets),
       !.edges    = @ \o [i \in DOMAIN line.targets |-> Arc(line.u, line.targets[i], {})]]
  /\ UNCHANGED where

\* Mutant of Lowered: ids stay as in the file.
LoweredNever(id) == id

\* From 1-indexed to 0-indexed.
Lowered(id) == IF id > 0 THEN id - 1 ELSE 0

ReadDimacs(line) ==
  /\ result' =
       CASE line.kind = "p" -> [result EXCEPT !.order = line.n, !.size = line.m]
         [] line.kind = "n" -> [result EXCEPT !.nodes = Append(@, <<Lowered(line.id), line.designation>>)]
         [] line.kind = "a" -> [result EXCEPT !.edges = Append(@, Arc(Lowered(line.u), Lowered(line.v), ToSet(line.weight)))]
         [] OTHER           -> result
  /\ UNCHANGED where

\* next_data_line skips comments and blank lines; the first line that is neither is
\* the header, and as many as it declares vertices are their adjacencies.
ReadMetis(line) ==
  IF line.kind # "row" THEN UNCHANGED <<result, where>>
  ELSE IF where.in = "top"
  THEN /\ result' = [result EXCEPT !.order = line.n, !.size = line.m]
       /\ where' = [where EXCEPT !.in = "rows"]
  ELSE IF where.row = result.order THEN UNCHANGED <<result, where>>
  ELSE /\ result' = [result EXCEPT !.edges = @ \o
            [i \in DOMAIN line.entries |->
               Arc(where.row, Lowered(line.entries[i].v), ToSet(line.entries[i].weight))]]
       /\ where' = [where EXCEPT !.row = @ + 1]

\* extract_label takes what is between the first quotes after the name, escaped or not.
Extracted(label) ==
  IF label.quoted
  THEN {[p EXCEPT !.value.text = IF @ = "quote" THEN "cut" ELSE @] : p \in ToSet(label.data)}
  ELSE {}

ReadDot(line) ==
  /\ result' =
       CASE line.kind = "node" ->
              LET vertices == Ensure(result.vertices, line.u)
              IN  [result EXCEPT !.vertices =
                     [i \in DOMAIN vertices |-> IF vertices[i].id = line.u /\ line.label.data # <<>>
                                                THEN Vertex(line.u, Extracted(line.label)) ELSE vertices[i]]]
         [] line.kind = "edge" ->
              [result EXCEPT !.vertices = Ensure(Ensure(@, line.u), line.v),
                             !.edges    = Append(@, Arc(line.u, line.v, Extracted(line.label)))]
         [] OTHER -> result
  /\ UNCHANGED where

Pushed(kind, item) == IF kind = "node" THEN [result EXCEPT !.vertices = Append(@, item)]
                      ELSE [result EXCEPT !.edges = Append(@, item)]

\* A node or edge is pushed when it closes; data belong to the element the reader is in.
ReadGraphml(tag) ==
  CASE tag.kind = "key" ->
         /\ result' = [result EXCEPT !.keys = Append(@, tag)]
         /\ UNCHANGED where
    [] tag.kind = "graph" ->
         /\ where' = [where EXCEPT !.in = "graph"]
         /\ UNCHANGED result
    [] tag.kind \in {"node", "edge"} ->
         LET item == IF tag.kind = "node" THEN Vertex(tag.u, {}) ELSE Arc(tag.u, tag.v, {})
         IN  IF tag.closed THEN result' = Pushed(tag.kind, item) /\ UNCHANGED where
             ELSE /\ where' = [where EXCEPT !.in = tag.kind, !.item = item]
                  /\ UNCHANGED result
    [] tag.kind \in {"/node", "/edge"} ->
         /\ result' = Pushed(IF tag.kind = "/node" THEN "node" ELSE "edge", where.item)
         /\ where' = [where EXCEPT !.in = "graph", !.item = <<>>]
    [] tag.kind = "data" ->
         /\ where' = IF where.in \in {"node", "edge"}
                     THEN [where EXCEPT !.item.data = Put(@, tag.key, tag.value)] ELSE where
         /\ UNCHANGED result
    [] OTHER -> UNCHANGED <<result, where>>

\* parse_json_object_flat; the lexer takes the code of a control character for its digits.
Flat(pairs) ==
  LET read(v) == [v EXCEPT !.text = IF @ = "control" THEN "digits" ELSE @]
  IN  FoldLeft(LAMBDA map, p : Put(map, p.name, read(p.value)), {}, pairs)

ReadJson(line) ==
  /\ where' = IF line.kind \in {"nodes", "edges"} THEN [where EXCEPT !.in = line.kind]
              ELSE IF line.kind = "]" THEN Nowhere ELSE where
  /\ result' = CASE line.kind # "object" -> result
                 [] where.in = "nodes"   -> Pushed("node", Vertex(line.ids[1], Flat(line.pairs)))
                 [] OTHER                -> Pushed("edge", Arc(line.ids[1], line.ids[2], Flat(line.pairs)))

-----------------------------------------------------------------------------
(* A graph is written and what was written is read. *)

Lists(vs, k) ==
  LET lists[i \in 0..k] ==
        IF i = 0 THEN {[v \in vs |-> <<>>]}
        ELSE lists[i - 1] \cup {[g[1] EXCEPT ![g[2]] = Append(@, g[3])] : g \in lists[i - 1] \X vs \X vs}
  IN  lists[k]

HasNeighbour(u) == \E e \in ToSet(EdgeOrder) : u \in {e[1], Target(e)} /\ e[1] # Target(e)

\* Graphs with vertices; the names of attributes by functions, or "label" for all
\* vertices, for all edges, or for neither.
Init ==
  /\ format \in Formats
  /\ functions \in IF format \in {"graphml", "json"} THEN BOOLEAN ELSE {FALSE}
  /\ LET less == IF functions THEN 1 ELSE 0
     IN  \E n \in 1..(MaxFileOrder - less) : graph \in Lists(0..(n - 1), MaxFileEdges - less)
  /\ format = "metis" /\ ~Isolated => \A u \in DOMAIN graph : HasNeighbour(u)
  /\ LET nodes == {<<u>> : u \in DOMAIN graph}
         all   == nodes \cup ToSet(EdgeOrder)
     IN  IF functions
         THEN /\ attributes \in [all -> SUBSET ToSet(Names)]
              /\ format = "graphml" /\ Uniform =>
                   /\ \A x \in nodes : attributes[x] = attributes[<<0>>]
                   /\ \A e \in ToSet(EdgeOrder) :
                        attributes[e] = IF graph[0] = <<>> THEN {} ELSE attributes[<<0, 1>>]
         ELSE \E ofNodes, ofEdges \in {{}, {"label"}} :
                /\ format \in {"text", "dimacs", "dimacs_max_flow", "metis"} => ofNodes = {}
                /\ format = "text" => ofEdges = {}
                /\ format = "dimacs_max_flow" => ofEdges # {}
                /\ attributes = [x \in all |-> IF x \in nodes THEN ofNodes ELSE ofEdges]
  /\ text \in {"plain", "integer", "quote", "control"}
  /\ PlainTexts => /\ format = "dot" => text \notin {"integer", "quote"}
                   /\ format = "json" => text # "control"
  /\ format \in {"text", "dimacs", "dimacs_max_flow", "metis"} => text = "integer"
  /\ document = <<>> /\ at = 0 /\ where = Nowhere /\ result = NoResult

Write == /\ at = 0
         /\ document' = Document
         /\ at' = 1
         /\ UNCHANGED <<format, functions, graph, attributes, text, where, result>>

Read == /\ at \in DOMAIN document
        /\ LET line == document[at]
           IN  \/ format = "text"    /\ ReadText(line)
               \/ format = "metis"   /\ ReadMetis(line)
               \/ format = "dot"     /\ ReadDot(line)
               \/ format = "graphml" /\ ReadGraphml(line)
               \/ format = "json"    /\ ReadJson(line)
               \/ format \in {"dimacs", "dimacs_max_flow"} /\ ReadDimacs(line)
        /\ at' = at + 1
        /\ UNCHANGED <<format, functions, graph, attributes, text, document>>

Next == Write \/ Read

Returned == at > Len(document) /\ at > 0

-----------------------------------------------------------------------------
(* Properties *)

\* key_name
Named(data) == {[name  |-> IF \E i \in DOMAIN result.keys : result.keys[i].id = p.name
                           THEN (CHOOSE k \in ToSet(result.keys) : k.id = p.name).name ELSE "none",
                 value |-> p.value] : p \in data}

Given(x) == ToSet(Data(x))

VerticesKept == result.vertices = PerVertex(LAMBDA u : Vertex(u, Given(<<u>>)))
EdgesKept    == result.edges = PerEdge(LAMBDA e : Arc(e[1], Target(e), Given(e)))

\* METIS: each vertex has its neighbours once, both ends of an edge the same weight,
\* one that an edge between them has.
AdjacencyKept ==
  LET arcs == ToSet(result.edges)
  IN  /\ Cardinality(arcs) = Len(result.edges) /\ Len(result.edges) = 2 * result.size
      /\ {<<a.u, a.v>> : a \in arcs} =
           {p \in (DOMAIN graph) \X (DOMAIN graph) :
              p[1] # p[2] /\ \E e \in ToSet(EdgeOrder) : {e[1], Target(e)} = {p[1], p[2]}}
      /\ \A a \in arcs : /\ Arc(a.v, a.u, a.data) \in arcs
                         /\ \E e \in ToSet(EdgeOrder) : {e[1], Target(e)} = {a.u, a.v} /\ a.data = Given(e)

\* What was written is read again: the vertices, the edges in their order, the
\* attributes of each and the counts, as far as the format has them.
FilesRoundTrip ==
  Returned =>
    CASE format = "text" ->
           /\ EdgesKept
           /\ {v.id : v \in ToSet(result.vertices)} = DOMAIN graph /\ Len(result.vertices) = Order
      [] format = "dimacs" -> EdgesKept /\ result.order = Order /\ result.size = Len(EdgeOrder)
      [] format = "dimacs_max_flow" ->
           /\ EdgesKept /\ result.order = Order /\ result.size = Len(EdgeOrder)
           /\ result.nodes = <<<<0, "s">>, <<Order - 1, "t">>>>
      [] format = "metis" -> AdjacencyKept /\ result.order = Order
      [] format = "graphml" ->
           /\ [i \in DOMAIN result.vertices |-> Vertex(result.vertices[i].id, Named(result.vertices[i].data))]
                = PerVertex(LAMBDA u : Vertex(u, Given(<<u>>)))
           /\ [i \in DOMAIN result.edges |->
                 Arc(result.edges[i].u, result.edges[i].v, Named(result.edges[i].data))]
                = PerEdge(LAMBDA e : Arc(e[1], Target(e), Given(e)))
      [] OTHER -> VerticesKept /\ EdgesKept
=============================================================================
