------------------------- MODULE MemoryGraphProofs -------------------------
(***************************************************************************)
(* The in-memory graph: its types, its indexes, its adjacency lists and    *)
(* its relationship count, for every set of ids, labels and values; and    *)
(* the same under the engine that runs queries over it.                    *)
(***************************************************************************)
EXTENDS CypherEngine, FiniteSetTheorems, TLAPS

\* A record in the graph has an identity given out already, and there are
\* finitely many: what makes the count go up by one with every new record.
RecordsKnown ==
  /\ IsFiniteSet(AllRelationships)
  /\ \A r \in AllRelationships : r.key <= made

GraphInv ==
  /\ GraphTypeOK
  /\ IndexesMatch
  /\ AdjacencyMatches
  /\ RecordsKnown
  /\ CountMatches

-----------------------------------------------------------------------------
\* The empty graph is consistent.
LEMMA InitInv ==
  ASSUME GraphInit
  PROVE  GraphInv
<1> USE GraphConstants DEF GraphConstants, GraphInit, EmptyGraph, NoNodes, Exists
<1>1. AllRelationships = {}
  BY DEF AllRelationships
<1>2. RecordsKnown /\ CountMatches
  BY <1>1, FS_EmptySet DEF RecordsKnown, CountMatches
<1>3. GraphTypeOK
  BY DEF GraphTypeOK, NodeRecords
<1>4. IndexesMatch /\ AdjacencyMatches
  BY DEF IndexesMatch, AdjacencyMatches
<1> QED
  BY <1>2, <1>3, <1>4 DEF GraphInv

-----------------------------------------------------------------------------
\* What touches a node is in the graph, so it is finite.
LEMMA TouchingFinite ==
  ASSUME AdjacencyMatches, RecordsKnown, NEW id \in Exists, Exists \subseteq Ids
  PROVE  /\ Touching(id) \subseteq AllRelationships
         /\ IsFiniteSet(Touching(id))
         /\ Cardinality(Touching(id)) \in Nat
         /\ Cardinality(AllRelationships) \in Nat
<1>1. Touching(id) \subseteq AllRelationships
  <2> SUFFICES ASSUME NEW r \in Touching(id) PROVE \E n \in Exists : r \in outgoing[n]
    BY DEF AllRelationships
  <2>1. CASE r \in outgoing[id]
    BY <2>1
  <2>2. CASE r \in incoming[id]
    BY <2>2 DEF AdjacencyMatches
  <2> QED
    BY <2>1, <2>2 DEF Touching
<1>2. IsFiniteSet(Touching(id))
  BY <1>1, FS_Subset DEF RecordsKnown
<1>3. Cardinality(Touching(id)) \in Nat /\ Cardinality(AllRelationships) \in Nat
  BY <1>2, FS_CardinalityType DEF RecordsKnown
<1> QED
  BY <1>1, <1>2, <1>3

-----------------------------------------------------------------------------
(* Types.                                                                    *)

\* Adding and removing keep the types.
LEMMA TypeStep ==
  ASSUME GraphInv, [GraphNext]_graphVars
  PROVE  GraphTypeOK'
<1>0. GraphTypeOK /\ AdjacencyMatches /\ RecordsKnown
  BY DEF GraphInv
<1> USE <1>0, GraphConstants DEF GraphConstants, GraphTypeOK, Exists, NodeRecords
<1>1. CASE \E l \in Labels, id \in Ids, v \in Values \cup {Null} : AddNode(l, id, v)
  <2> PICK l \in Labels, id \in Ids, v \in Values \cup {Null} : AddNode(l, id, v)
    BY <1>1
  <2>1. byValue' \in [Labels \X Values -> SUBSET Ids]
    <3>1. CASE v = Null
      BY <3>1 DEF AddNode
    <3>2. CASE v # Null
      <4> <<l, v>> \in Labels \X Values
        BY <3>2
      <4> QED
        BY <3>2 DEF AddNode
    <3> QED
      BY <3>1, <3>2
  <2>2. DOMAIN nodes' \subseteq Ids /\ nodes' \in [DOMAIN nodes' -> NodeRecords]
    BY DEF AddNode
  <2> QED
    BY <2>1, <2>2 DEF AddNode
<1>2. CASE \E t \in Types, from, to \in Ids : AddRelationship(t, from, to)
  <2> PICK t \in Types, from \in Ids, to \in Ids : AddRelationship(t, from, to)
    BY <1>2
  <2> DEFINE rel == [key |-> made + 1, type |-> t, from |-> from, to |-> to]
  <2>1. rel \in Relationships
    BY DEF AddRelationship, Relationships
  <2>2. /\ outgoing' = [outgoing EXCEPT ![from] = @ \cup {rel}]
        /\ incoming' = [incoming EXCEPT ![to] = @ \cup {rel}]
        /\ made' = made + 1 /\ made < MaxRels /\ total' = total + 1
        /\ UNCHANGED <<nodes, byLabel, byValue>>
    BY DEF AddRelationship
  <2> HIDE DEF rel
  <2> QED
    BY <2>1, <2>2
<1>3. CASE \E id \in Ids : DeleteNode(id)
  <2> PICK id \in Ids : DeleteNode(id)
    BY <1>3
  <2>1. /\ outgoing' \in [Ids -> SUBSET Relationships]
        /\ incoming' \in [Ids -> SUBSET Relationships]
    BY DEF DeleteNode, Detach
  <2>2. byLabel' \in [Labels -> SUBSET Ids]
    BY DEF DeleteNode, Unindex
  <2>3. byValue' \in [Labels \X Values -> SUBSET Ids]
    BY DEF DeleteNode, Unindex
  <2>4. DOMAIN nodes' \subseteq Ids /\ nodes' \in [DOMAIN nodes' -> NodeRecords]
    BY DEF DeleteNode
  <2>5. total' \in Int
    <3>1. total' = total - Cardinality(Touching(id)) /\ id \in Exists
      BY DEF DeleteNode, Uncount
    <3>2. Cardinality(Touching(id)) \in Nat
      BY <3>1, TouchingFinite
    <3> QED
      BY <3>1, <3>2
  <2> QED
    BY <2>1, <2>2, <2>3, <2>4, <2>5 DEF DeleteNode
<1>4. CASE Clear
  BY <1>4 DEF Clear, NoNodes
<1>5. CASE UNCHANGED graphVars
  BY <1>5 DEF graphVars
<1> QED
  BY <1>1, <1>2, <1>3, <1>4, <1>5 DEF GraphNext

-----------------------------------------------------------------------------
(* The indexes.                                                              *)

\* They keep the indexes equal to what a search of the nodes would find.
LEMMA IndexStep ==
  ASSUME GraphTypeOK, IndexesMatch, [GraphNext]_graphVars
  PROVE  IndexesMatch'
<1> USE GraphConstants DEF GraphConstants, GraphTypeOK, Exists, NodeRecords, IndexesMatch
<1>1. CASE \E l \in Labels, id \in Ids, v \in Values \cup {Null} : AddNode(l, id, v)
  <2> PICK l \in Labels, id \in Ids, v \in Values \cup {Null} : AddNode(l, id, v)
    BY <1>1
  <2>1. ASSUME NEW m \in Labels
        PROVE  byLabel'[m] = {n \in Exists' : nodes'[n].label = m}
    BY DEF AddNode
  <2>2. ASSUME NEW m \in Labels, NEW w \in Values
        PROVE  byValue'[<<m, w>>] = {n \in Exists' : nodes'[n].label = m /\ nodes'[n].value = w}
    <3>1. byValue'[<<m, w>>] = IF m = l /\ w = v THEN byValue[<<m, w>>] \cup {id} ELSE byValue[<<m, w>>]
      BY DEF AddNode
    <3> QED
      BY <3>1 DEF AddNode
  <2> QED
    BY <2>1, <2>2
<1>2. CASE \E t \in Types, from, to \in Ids : AddRelationship(t, from, to)
  BY <1>2 DEF AddRelationship
<1>3. CASE \E id \in Ids : DeleteNode(id)
  <2> PICK id \in Ids : DeleteNode(id)
    BY <1>3
  <2>0. nodes[id] \in NodeRecords
    BY DEF DeleteNode
  <2>1. ASSUME NEW m \in Labels
        PROVE  byLabel'[m] = {n \in Exists' : nodes'[n].label = m}
    <3>1. byLabel'[m] = byLabel[m] \ {id}
      BY <2>0 DEF DeleteNode, Unindex
    <3> QED
      BY <3>1 DEF DeleteNode
  <2>2. ASSUME NEW m \in Labels, NEW w \in Values
        PROVE  byValue'[<<m, w>>] = {n \in Exists' : nodes'[n].label = m /\ nodes'[n].value = w}
    <3>1. byValue'[<<m, w>>] = byValue[<<m, w>>] \ {id}
      BY <2>0 DEF DeleteNode, Unindex
    <3> QED
      BY <3>1 DEF DeleteNode
  <2> QED
    BY <2>1, <2>2
<1>4. CASE Clear
  BY <1>4 DEF Clear, NoNodes
<1>5. CASE UNCHANGED graphVars
  BY <1>5 DEF graphVars
<1> QED
  BY <1>1, <1>2, <1>3, <1>4, <1>5 DEF GraphNext
-----------------------------------------------------------------------------
(* The adjacency lists.                                                      *)

\* They keep the adjacency lists equal to the relationships.
LEMMA AdjacencyStep ==
  ASSUME GraphTypeOK, AdjacencyMatches, [GraphNext]_graphVars
  PROVE  AdjacencyMatches'
<1> USE GraphConstants DEF GraphConstants, GraphTypeOK, Exists, NodeRecords, AdjacencyMatches
<1>1. CASE \E l \in Labels, id \in Ids, v \in Values \cup {Null} : AddNode(l, id, v)
  BY <1>1 DEF AddNode
<1>2. CASE \E t \in Types, from, to \in Ids : AddRelationship(t, from, to)
  <2> PICK t \in Types, from \in Ids, to \in Ids : AddRelationship(t, from, to)
    BY <1>2
  <2> DEFINE rel == [key |-> made + 1, type |-> t, from |-> from, to |-> to]
  <2>1. /\ rel.type = t /\ rel.from = from /\ rel.to = to
        /\ {from, to} \subseteq Exists
        /\ nodes[from].label = Table[t].from /\ nodes[to].label = Table[t].to
    BY DEF AddRelationship
  <2>2. /\ outgoing' = [outgoing EXCEPT ![from] = @ \cup {rel}]
        /\ incoming' = [incoming EXCEPT ![to] = @ \cup {rel}]
        /\ nodes' = nodes
    BY DEF AddRelationship
  <2> HIDE DEF rel
  <2>3. ASSUME NEW n \in Ids, NEW r \in outgoing'[n]
        PROVE  /\ r.from = n /\ n \in Exists' /\ r.to \in Exists'
               /\ r \in incoming'[r.to]
               /\ nodes'[r.from].label = Table[r.type].from
               /\ nodes'[r.to].label = Table[r.type].to
    <3>1. CASE r \in outgoing[n]
      <4>1. r.to \in Ids /\ r \in incoming[r.to]
        BY <3>1
      <4>2. r \in incoming'[r.to]
        BY <4>1, <2>2
      <4> QED
        BY <3>1, <4>1, <4>2, <2>2
    <3>2. CASE r = rel /\ n = from
      BY <3>2, <2>1, <2>2
    <3> QED
      BY <3>1, <3>2, <2>2
  <2>4. ASSUME NEW n \in Ids, NEW r \in incoming'[n]
        PROVE  r.to = n /\ r.from \in Ids /\ r \in outgoing'[r.from]
    <3>1. CASE r \in incoming[n]
      BY <3>1, <2>2
    <3>2. CASE r = rel /\ n = to
      BY <3>2, <2>1, <2>2
    <3> QED
      BY <3>1, <3>2, <2>2
  <2> QED
    BY <2>3, <2>4
<1>3. CASE \E id \in Ids : DeleteNode(id)
  <2> PICK id \in Ids : DeleteNode(id)
    BY <1>3
  <2>1. /\ outgoing' = [n \in Ids |-> IF n = id THEN {} ELSE outgoing[n] \ Touching(id)]
        /\ incoming' = [n \in Ids |-> IF n = id THEN {} ELSE incoming[n] \ Touching(id)]
        /\ nodes' = [n \in Exists \ {id} |-> nodes[n]]
    BY DEF DeleteNode, Detach
  <2>2. \A r : r \notin Touching(id) => r \notin outgoing[id] /\ r \notin incoming[id]
    BY DEF Touching
  <2>3. ASSUME NEW n \in Ids, NEW r \in outgoing'[n]
        PROVE  /\ r.from = n /\ n \in Exists' /\ r.to \in Exists'
               /\ r \in incoming'[r.to]
               /\ nodes'[r.from].label = Table[r.type].from
               /\ nodes'[r.to].label = Table[r.type].to
    <3>1. n # id /\ r \in outgoing[n] /\ r \notin Touching(id)
      BY <2>1
    <3>2. r.from = n /\ n \in Exists /\ r.to \in Exists /\ r \in incoming[r.to] /\ r.to \in Ids
      BY <3>1
    <3>3. r.to # id
      BY <3>1, <3>2, <2>2
    <3> QED
      BY <3>1, <3>2, <3>3, <2>1
  <2>4. ASSUME NEW n \in Ids, NEW r \in incoming'[n]
        PROVE  r.to = n /\ r.from \in Ids /\ r \in outgoing'[r.from]
    <3>1. n # id /\ r \in incoming[n] /\ r \notin Touching(id)
      BY <2>1
    <3>2. r.to = n /\ r.from \in Ids /\ r \in outgoing[r.from]
      BY <3>1
    <3>3. r.from # id
      BY <3>1, <3>2, <2>2
    <3> QED
      BY <3>1, <3>2, <3>3, <2>1
  <2> QED
    BY <2>3, <2>4
<1>4. CASE Clear
  BY <1>4 DEF Clear
<1>5. CASE UNCHANGED graphVars
  BY <1>5 DEF graphVars
<1> QED
  BY <1>1, <1>2, <1>3, <1>4, <1>5 DEF GraphNext

-----------------------------------------------------------------------------
(* The count.                                                                *)

\* They keep the count equal to the number of relationships, each between known nodes.
LEMMA CountStep ==
  ASSUME GraphInv, [GraphNext]_graphVars
  PROVE  RecordsKnown' /\ CountMatches'
<1>0. GraphTypeOK /\ AdjacencyMatches /\ RecordsKnown /\ CountMatches
  BY DEF GraphInv
<1> USE <1>0 DEF GraphTypeOK, Exists, RecordsKnown, CountMatches
<1>1. CASE \E l \in Labels, id \in Ids, v \in Values \cup {Null} : AddNode(l, id, v)
  <2> PICK l \in Labels, id \in Ids, v \in Values \cup {Null} : AddNode(l, id, v)
    BY <1>1
  <2>1. Exists' = Exists \cup {id} /\ outgoing' = outgoing /\ id \notin Exists
    BY DEF AddNode
  <2>2. outgoing[id] = {}
    BY <2>1 DEF AdjacencyMatches
  <2>3. AllRelationships' = AllRelationships
    BY <2>1, <2>2 DEF AllRelationships
  <2> QED
    BY <2>3 DEF AddNode
<1>2. CASE \E t \in Types, from, to \in Ids : AddRelationship(t, from, to)
  <2> PICK t \in Types, from \in Ids, to \in Ids : AddRelationship(t, from, to)
    BY <1>2
  <2> DEFINE rel == [key |-> made + 1, type |-> t, from |-> from, to |-> to]
  <2>1. /\ outgoing' = [outgoing EXCEPT ![from] = @ \cup {rel}]
        /\ nodes' = nodes /\ from \in Exists
        /\ made' = made + 1 /\ total' = total + 1
        /\ rel.key = made + 1
    BY DEF AddRelationship
  <2> HIDE DEF rel
  <2>2. AllRelationships' = AllRelationships \cup {rel}
    BY <2>1 DEF AllRelationships
  <2>3. rel \notin AllRelationships
    BY <2>1
  <2>4. /\ IsFiniteSet(AllRelationships')
        /\ Cardinality(AllRelationships') = Cardinality(AllRelationships) + 1
    BY <2>2, <2>3, FS_AddElement
  <2>5. \A r \in AllRelationships' : r.key <= made'
    <3> SUFFICES ASSUME NEW r \in AllRelationships' PROVE r.key <= made'
      OBVIOUS
    <3>1. CASE r = rel
      BY <3>1, <2>1
    <3>2. CASE r \in AllRelationships
      <4>1. r.key \in Int
        BY <3>2 DEF AllRelationships, Relationships
      <4> QED
        BY <4>1, <3>2, <2>1
    <3> QED
      BY <3>1, <3>2, <2>2
  <2> QED
    BY <2>1, <2>4, <2>5
<1>3. CASE \E id \in Ids : DeleteNode(id)
  <2> PICK id \in Ids : DeleteNode(id)
    BY <1>3
  <2>1. /\ outgoing' = [n \in Ids |-> IF n = id THEN {} ELSE outgoing[n] \ Touching(id)]
        /\ Exists' = Exists \ {id} /\ id \in Exists
        /\ total' = total - Cardinality(Touching(id))
        /\ made' = made
    BY DEF DeleteNode, Detach, Uncount
  <2>2. Touching(id) \subseteq AllRelationships /\ IsFiniteSet(Touching(id))
    BY <2>1, TouchingFinite
  <2>3. AllRelationships' = AllRelationships \ Touching(id)
    <3>1. outgoing[id] \subseteq Touching(id)
      BY DEF Touching
    <3> QED
      BY <2>1, <3>1 DEF AllRelationships
  <2>4. /\ IsFiniteSet(AllRelationships')
        /\ Cardinality(AllRelationships') = Cardinality(AllRelationships) - Cardinality(Touching(id))
    <3>1. AllRelationships \cap Touching(id) = Touching(id)
      BY <2>2
    <3> QED
      BY <2>2, <2>3, <3>1, FS_Difference
  <2> QED
    BY <2>1, <2>3, <2>4
<1>4. CASE Clear
  <2>1. AllRelationships' = {} /\ total' = 0
    BY <1>4 DEF Clear, AllRelationships, NoNodes
  <2> QED
    BY <2>1, FS_EmptySet
<1>5. CASE UNCHANGED graphVars
  BY <1>5 DEF graphVars, AllRelationships
<1> QED
  BY <1>1, <1>2, <1>3, <1>4, <1>5 DEF GraphNext

-----------------------------------------------------------------------------
\* The invariant the four results rest on.
THEOREM GraphInvariant == GraphSpec => []GraphInv
<1>1. GraphInit => GraphInv
  BY InitInv
<1>2. GraphInv /\ [GraphNext]_graphVars => GraphInv'
  <2> SUFFICES ASSUME GraphInv, [GraphNext]_graphVars PROVE GraphInv'
    OBVIOUS
  <2>1. GraphTypeOK'
    BY TypeStep
  <2>2. IndexesMatch'
    BY IndexStep DEF GraphInv
  <2>3. AdjacencyMatches'
    BY AdjacencyStep DEF GraphInv
  <2>4. RecordsKnown' /\ CountMatches'
    BY CountStep
  <2> QED
    BY <2>1, <2>2, <2>3, <2>4 DEF GraphInv
<1> QED
  BY <1>1, <1>2, PTL DEF GraphSpec

\* Every state of the graph is well typed.
THEOREM GraphTypes == GraphSpec => []GraphTypeOK
<1>1. GraphInv => GraphTypeOK
  BY DEF GraphInv
<1> QED
  BY <1>1, GraphInvariant, PTL

\* The indexes miss no node and keep none that is gone, the adjacency lists
\* mirror each other and name no deleted node, and relationshipCount is the
\* number of records, self-loops and parallel records included.
THEOREM GraphConsistency == GraphSpec => []GraphConsistent
<1>1. GraphInv => GraphConsistent
  BY DEF GraphInv, GraphConsistent
<1> QED
  BY <1>1, GraphInvariant, PTL

-----------------------------------------------------------------------------
(* Segments.                                                                 *)

\* A relationship's segment is its two nodes' segment, or the global one.
LEMMA RelationshipSegments ==
  ASSUME GraphTypeOK, AdjacencyMatches, NEW rel \in AllRelationships, SegmentOf(rel) # "global"
  PROVE  \A n \in {rel.from, rel.to} : n \in Exists /\ OwningFile(n) = SegmentOf(rel)
<1>1. PICK n \in Exists : rel \in outgoing[n]
  BY DEF AllRelationships
<1>2. rel.from \in Exists /\ rel.to \in Exists
  BY <1>1 DEF AdjacencyMatches, GraphTypeOK
<1>3. OwningFile(rel.from) = SegmentOf(rel) /\ OwningFile(rel.to) = SegmentOf(rel)
  BY DEF SegmentOf
<1> QED
  BY <1>2, <1>3

\* Whatever was added, deleted or cleared, no line of a file's segment names a
\* node of another segment (persistence.ts, serializeSegments), so a file that
\* is not touched keeps its segment.
THEOREM SegmentTheorem == GraphSpec => []SegmentsAreLocal
<1>1. GraphInv => SegmentsAreLocal
  <2> SUFFICES ASSUME GraphInv, NEW key \in DOMAIN Segments \ {"global"},
                      NEW line \in Segments[key], line[1] = "r",
                      NEW n \in {line[2].from, line[2].to}
               PROVE  <<"n", n, nodes[n]>> \in Segments[key]
    BY DEF SegmentsAreLocal
  <2>1. Segments[key] = {NodeLine(id) : id \in {m \in Exists : OwningFile(m) = key}}
          \cup {RelationshipLine(rel) : rel \in {r \in AllRelationships : SegmentOf(r) = key}}
    BY DEF Segments
  <2>2. PICK rel \in AllRelationships : SegmentOf(rel) = key /\ line = RelationshipLine(rel)
    <3>1. \A id : NodeLine(id)[1] = "n"
      BY DEF NodeLine
    <3> QED
      BY <2>1, <3>1
  <2>3. n \in {rel.from, rel.to}
    BY <2>2 DEF RelationshipLine
  <2>4. n \in Exists /\ OwningFile(n) = key
    BY <2>2, <2>3, RelationshipSegments DEF GraphInv
  <2> QED
    BY <2>1, <2>4 DEF NodeLine
<1> QED
  BY <1>1, GraphInvariant, PTL

-----------------------------------------------------------------------------
(* The engine.                                                               *)

\* Queries only read: whatever is asked, the graph takes steps of its own or
\* none (executor.ts, executeCypher), so what holds of the graph holds under
\* the engine.
THEOREM QueriesOnlyRead == EngineSpec => GraphSpec
<1>1. EngineInit => GraphInit
  BY DEF EngineInit
<1>2. [EngineNext]_engineVars => [GraphNext]_graphVars
  BY DEF EngineNext, engineVars, Ask, RunMatchClause, RunProjectionClause, Answer
<1> QED
  BY <1>1, <1>2, PTL DEF EngineSpec, GraphSpec

\* The consistency of the graph a query runs over: what its plan takes from an
\* index or an adjacency list is what the nodes say.
THEOREM EngineConsistency == EngineSpec => []GraphConsistent
BY QueriesOnlyRead, GraphConsistency, PTL

\* And its segments, between queries and while they run.
THEOREM EngineSegments == EngineSpec => []SegmentsAreLocal
BY QueriesOnlyRead, SegmentTheorem, PTL

\* The types of the engine's state: the clause that runs next is one of the
\* query or the one behind them, and no rows are left between queries.
THEOREM EngineTypes == EngineSpec => []EngineTypeOK
<1> DEFINE QueryTypes ==
      /\ Idle \/ query \in Queries
      /\ ~Idle => next \in 1..(Len(query) + 1)
      /\ Idle => rows = {}
<1>1. EngineInit => QueryTypes
  BY DEF EngineInit, Idle
<1>2. QueryTypes /\ [EngineNext]_engineVars => QueryTypes'
  <2> SUFFICES ASSUME QueryTypes, [EngineNext]_engineVars PROVE QueryTypes'
    OBVIOUS
  <2>1. CASE UNCHANGED queryVars
    BY <2>1 DEF queryVars, Idle
  <2>2. CASE \E q \in Queries : Ask(q)
    <3> PICK q \in Queries : Ask(q)
      BY <2>2
    <3>1. query' = q /\ next' = 1 /\ q # NoQuery /\ Len(q) \in Nat
      BY EngineConstants DEF Ask
    <3> QED
      BY <3>1 DEF Idle
  <2>3. CASE RunMatchClause \/ RunProjectionClause
    <3>1. /\ ~Idle /\ next <= Len(query) /\ next' = next + 1 /\ query' = query
      BY <2>3 DEF RunMatchClause, RunProjectionClause
    <3>2. Len(query) \in Nat /\ next \in 1..(Len(query) + 1)
      BY <3>1, EngineConstants
    <3> QED
      BY <3>1, <3>2 DEF Idle
  <2>4. CASE Answer
    BY <2>4 DEF Answer, Idle
  <2> QED
    BY <2>1, <2>2, <2>3, <2>4 DEF EngineNext, engineVars
<1>3. EngineSpec => []QueryTypes
  BY <1>1, <1>2, PTL DEF EngineSpec
<1>4. GraphTypeOK /\ QueryTypes => EngineTypeOK
  BY DEF EngineTypeOK
<1> QED
  BY <1>3, <1>4, QueriesOnlyRead, GraphTypes, PTL
=============================================================================
