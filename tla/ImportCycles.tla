---------------------------- MODULE ImportCycles ----------------------------
(***************************************************************************)
(* find_import_cycles (adapters/mcp/analysis-tools/cycles.ts).  A graph is *)
(* a record of edges and of the edges that exist at run time, those with   *)
(* an import that is not type-only.                                        *)
(***************************************************************************)
EXTENDS CallTargets

CONSTANT FileOrder   \* the files, in the order their paths sort

ASSUME OrderOfFiles ==
  /\ FileOrder \in Seq(Files) /\ ToSet(FileOrder) = Files
  /\ Len(FileOrder) = Cardinality(Files)

\* A file that was not visited has no index.
ASSUME NoIndex == None \notin Nat

Sorted(files) == Among(FileOrder, files)
Least(a, b) == IF a < b THEN a ELSE b

FileGraph(p) ==
  LET between == {i \in ToSet(p.imports) : i.target \notin {None, i.file}}
  IN  [edges   |-> {<<i.file, i.target>> : i \in between},
       runtime |-> {<<i.file, i.target>> : i \in {i \in between : ~i.typeOnly}}]

\* Packages named like files: every dependency between two of them counts.
PackageGraph(p) ==
  LET between == {e \in p.dependencies : e[1] # e[2]}
  IN  [edges |-> between, runtime |-> between]

Neighbours(edges, node) == Sorted({e[2] : e \in {e \in edges : e[1] = node}})

-----------------------------------------------------------------------------
\* Tarjan's algorithm, with the work stack of the code: a frame is a node and
\* the neighbours it has still to look at.  The indexes count the visits.

Searches ==
  [index : [Files -> Nat \cup {None}], low : [Files -> Nat], stack : Seq(Files),
   components : SUBSET SUBSET Files, work : Seq([node : Files, next : Seq(Files)])]

NoVisits ==
  [index |-> [f \in Files |-> None], low |-> [f \in Files |-> 0], stack |-> <<>>,
   components |-> {}, work |-> <<>>]

Visited(s) == {f \in Files : s.index[f] # None}

\* Mutant of OnStack: a node of a closed component still counts.
WasOnStack(s, node) == node \in Visited(s)

OnStack(s, node) == node \in ToSet(s.stack)

Open(edges, s, node) ==
  [index |-> [s.index EXCEPT ![node] = Cardinality(Visited(s))],
   low |-> [s.low EXCEPT ![node] = Cardinality(Visited(s))],
   stack |-> Append(s.stack, node),
   components |-> s.components,
   work |-> Append(s.work, [node |-> node, next |-> Neighbours(edges, node)])]

Lower(low, node, value) == [low EXCEPT ![node] = Least(@, value)]

\* The next neighbour of the last frame.
Look(edges, s) ==
  LET frame == Last(s.work)
      neighbour == Head(frame.next)
      looked == [s EXCEPT !.work = Append(Front(@), [frame EXCEPT !.next = Tail(@)])]
  IN  IF s.index[neighbour] = None THEN Open(edges, looked, neighbour)
      ELSE IF OnStack(s, neighbour)
      THEN [looked EXCEPT !.low = Lower(@, frame.node, s.index[neighbour])] ELSE looked

\* Pops the component of a node that closes one; one of one node is dropped.
Close(s, node) ==
  LET below == {n \in DOMAIN s.stack : \A m \in 1..n : s.stack[m] # node}
      component == {s.stack[n] : n \in DOMAIN s.stack \ below}
  IN  [s EXCEPT !.stack = SubSeq(@, 1, Cardinality(below)),
                !.components = IF Cardinality(component) > 1 THEN @ \cup {component} ELSE @]

\* The last frame has no neighbour left.
Leave(s) ==
  LET node == Last(s.work).node
      rest == Front(s.work)
      left == [s EXCEPT !.work = rest,
                        !.low = IF rest = <<>> THEN @ ELSE Lower(@, Last(rest).node, @[node])]
  IN  IF s.low[node] = s.index[node] THEN Close(left, node) ELSE left

\* From each root that was not visited yet, in order.
StronglyConnected(edges) ==
  LET nodes == {e[1] : e \in edges} \cup {e[2] : e \in edges}
      Search[s \in Searches] ==
        IF s.work = <<>>
        THEN IF nodes \subseteq Visited(s) THEN s.components
             ELSE Search[Open(edges, s, Head(Sorted(nodes \ Visited(s))))]
        ELSE IF Last(s.work).next # <<>> THEN Search[Look(edges, s)] ELSE Search[Leave(s)]
  IN  Search[NoVisits]

-----------------------------------------------------------------------------
\* The shortest loop through the first listed member.

\* The nodes from after the start to `node`, by where each was reached from.
Chain(previous, start, node) ==
  LET Back[n \in 0..Cardinality(Files)] == IF n = 0 THEN node ELSE previous[Back[n - 1]]
      length == CHOOSE n \in 0..Cardinality(Files) : Back[n] = start /\ \A m \in 0..(n - 1) : Back[m] # start
  IN  [n \in 1..length |-> Back[length - n]]

\* Breadth first: s[1] is the queue, s[2] says where a node was reached from.
\* No loop is the empty sequence.
ShortestCycle(edges, start, inside) ==
  LET within == edges \cap (inside \X inside)
      Search[s \in Seq(Files) \X [Files -> Files \cup {None}]] ==
        LET node == Head(s[1])
            fresh == Among(Neighbours(within, node), {f \in Files : s[2][f] = None})
        IN  IF s[1] = <<>> THEN <<>>
            ELSE IF <<node, start>> \in within
            THEN <<start>> \o Chain(s[2], start, node) \o <<start>>
            ELSE Search[<<Tail(s[1]) \o fresh,
                          [f \in Files |-> IF f \in ToSet(fresh) THEN node ELSE s[2][f]]>>]
  IN  Search[<< <<start>>, [f \in Files |-> None] >>]

\* One group of the answer; `wanted` are the members the path argument matches.
Group(graph, members, wanted) ==
  LET start == Head(Sorted(members \cap wanted))
      atRuntime == ShortestCycle(graph.runtime, start, members)
  IN  [members  |-> members,
       listed   |-> members \cap wanted,
       cycle    |-> IF atRuntime # <<>> THEN atRuntime ELSE ShortestCycle(graph.edges, start, members),
       typeOnly |-> atRuntime = <<>>]

ImportCycles(graph, wanted) ==
  {Group(graph, members, wanted) :
     members \in {m \in StronglyConnected(graph.edges) : m \cap wanted # {}}}
=============================================================================
