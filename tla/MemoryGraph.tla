---------------------------- MODULE MemoryGraph ----------------------------
(***************************************************************************)
(* The in-memory code graph, its indexes and its segments                  *)
(* (adapters/store/graph.ts, physical-types.ts, persistence.ts,            *)
(* core/graph/builder.ts).                                                 *)
(*                                                                         *)
(* Every node is in four places: the map by id, the set of its label, the  *)
(* set of its value in the value index, and the adjacency lists of its     *)
(* neighbours.  A node has one indexed property here; the others are the   *)
(* same code in a loop.  A relationship record has an identity of its own, *)
(* because two relationships of one type may join the same two nodes.      *)
(***************************************************************************)
EXTENDS Integers, FiniteSets, Sequences

CONSTANTS
  Ids,         \* node ids
  Labels,      \* node tables
  Values,      \* values of the indexed property
  Null,        \* a property that is not set
  Types,       \* physical relationship types
  Table,       \* the labels each type joins: [from, to]
  IdPrefixes,  \* the proper prefixes of an id at its colons, longest first
  FileLabel,   \* the label of file nodes
  MaxRels      \* bound: relationships ever made

ASSUME GraphConstants ==
  /\ Null \notin Values
  /\ Table \in [Types -> [from : Labels, to : Labels]]
  /\ IdPrefixes \in [Ids -> Seq(Ids)]
  /\ MaxRels \in Nat

VARIABLES
  nodes,       \* nodesById: label and property of every node
  byLabel,     \* nodesByLabel
  byValue,     \* valueIndex
  outgoing,    \* relationship records that leave each node
  incoming,    \* relationship records that enter each node
  total,       \* relationshipTotal
  made         \* relationship records made so far, their identities

graphVars == <<nodes, byLabel, byValue, outgoing, incoming, total, made>>

Exists == DOMAIN nodes

NodeRecords == [label : Labels, value : Values \cup {Null}]
Relationships == [key : 1..MaxRels, type : Types, from : Ids, to : Ids]

GraphTypeOK ==
  /\ Exists \subseteq Ids
  /\ nodes \in [Exists -> NodeRecords]
  /\ byLabel \in [Labels -> SUBSET Ids]
  /\ byValue \in [Labels \X Values -> SUBSET Ids]
  /\ outgoing \in [Ids -> SUBSET Relationships]
  /\ incoming \in [Ids -> SUBSET Relationships]
  /\ total \in Int
  /\ made \in 0..MaxRels

NoNodes == [id \in {} |-> [label |-> FileLabel, value |-> Null]]

EmptyGraph ==
  /\ nodes = NoNodes
  /\ byLabel = [l \in Labels |-> {}]
  /\ byValue = [k \in Labels \X Values |-> {}]
  /\ outgoing = [n \in Ids |-> {}]
  /\ incoming = [n \in Ids |-> {}]
  /\ total = 0

GraphInit == EmptyGraph /\ made = 0

-----------------------------------------------------------------------------
\* Reading.

NodesWithLabel(l) == byLabel[l]

Lookup(l, v) == IF v = Null THEN {} ELSE byValue[<<l, v>>]

AllRelationships == UNION {outgoing[n] : n \in Exists}

-----------------------------------------------------------------------------
\* Writing.

\* A node of a new id; a second one with the id is refused and changes nothing.
AddNode(l, id, v) ==
  /\ id \notin Exists
  /\ nodes' = [n \in Exists \cup {id} |-> IF n = id THEN [label |-> l, value |-> v] ELSE nodes[n]]
  /\ byLabel' = [byLabel EXCEPT ![l] = @ \cup {id}]
  /\ byValue' = IF v = Null THEN byValue ELSE [byValue EXCEPT ![<<l, v>>] = @ \cup {id}]
  /\ UNCHANGED <<outgoing, incoming, total, made>>

\* Without an endpoint nothing is written and false is returned; with one of
\* another label the write is refused.
AddRelationship(t, from, to) ==
  /\ made < MaxRels
  /\ {from, to} \subseteq Exists
  /\ nodes[from].label = Table[t].from
  /\ nodes[to].label = Table[t].to
  /\ made' = made + 1
  /\ LET rel == [key |-> made + 1, type |-> t, from |-> from, to |-> to]
     IN  /\ outgoing' = [outgoing EXCEPT ![from] = @ \cup {rel}]
         /\ incoming' = [incoming EXCEPT ![to] = @ \cup {rel}]
  /\ total' = total + 1
  /\ UNCHANGED <<nodes, byLabel, byValue>>

\* The relationships that touch a node; a self-loop is in both lists.
Touching(id) == outgoing[id] \cup incoming[id]

Detach(id) ==
  /\ outgoing' = [n \in Ids |-> IF n = id THEN {} ELSE outgoing[n] \ Touching(id)]
  /\ incoming' = [n \in Ids |-> IF n = id THEN {} ELSE incoming[n] \ Touching(id)]

\* Mutant of Unindex: the value index keeps the node.
UnindexLabel(id) ==
  /\ byLabel' = [byLabel EXCEPT ![nodes[id].label] = @ \ {id}]
  /\ byValue' = byValue

Unindex(id) ==
  /\ byLabel' = [byLabel EXCEPT ![nodes[id].label] = @ \ {id}]
  /\ byValue' = IF nodes[id].value = Null THEN byValue
                ELSE [byValue EXCEPT ![<<nodes[id].label, nodes[id].value>>] = @ \ {id}]

Uncount(id) == total' = total - Cardinality(Touching(id))

\* A node goes with every relationship that touches it.
DeleteNode(id) ==
  /\ id \in Exists
  /\ Detach(id)
  /\ Unindex(id)
  /\ Uncount(id)
  /\ nodes' = [n \in Exists \ {id} |-> nodes[n]]
  /\ UNCHANGED made

\* clear drops the maps, and the records with them.
Clear ==
  /\ nodes' = NoNodes
  /\ byLabel' = [l \in Labels |-> {}]
  /\ byValue' = [k \in Labels \X Values |-> {}]
  /\ outgoing' = [n \in Ids |-> {}]
  /\ incoming' = [n \in Ids |-> {}]
  /\ total' = 0
  /\ UNCHANGED made

GraphNext ==
  \/ \E l \in Labels, id \in Ids, v \in Values \cup {Null} : AddNode(l, id, v)
  \/ \E t \in Types, from, to \in Ids : AddRelationship(t, from, to)
  \/ \E id \in Ids : DeleteNode(id)
  \/ Clear

GraphSpec == GraphInit /\ [][GraphNext]_graphVars

-----------------------------------------------------------------------------
\* Segments: a line is a node with its record or a relationship record.

NodeLine(id) == <<"n", id, nodes[id]>>
RelationshipLine(rel) == <<"r", rel>>

\* The longest prefix of the id that is a file, the id itself first.
OwningFile(id) ==
  LET files == {f \in Exists : nodes[f].label = FileLabel}
      owners == {i \in DOMAIN IdPrefixes[id] : IdPrefixes[id][i] \in files}
  IN  IF id \in files THEN id
      ELSE IF owners = {} THEN "global"
      ELSE IdPrefixes[id][CHOOSE i \in owners : \A j \in owners : i <= j]

\* Mutant of SegmentOf: a relationship goes with the file it leaves.
SegmentOfSource(rel) == OwningFile(rel.from)

\* A relationship between two owners is in the global segment.
SegmentOf(rel) ==
  IF OwningFile(rel.from) = OwningFile(rel.to) THEN OwningFile(rel.from) ELSE "global"

\* The lines of every segment; a set, since the lines are sorted.
Segments ==
  [ key \in {OwningFile(id) : id \in Exists} \cup {SegmentOf(rel) : rel \in AllRelationships} |->
      {NodeLine(id) : id \in {n \in Exists : OwningFile(n) = key}}
        \cup {RelationshipLine(rel) : rel \in {r \in AllRelationships : SegmentOf(r) = key}} ]

-----------------------------------------------------------------------------
\* Properties.

\* The indexes say what the nodes say: every node is in the set of its label
\* and of its value and in no other, also after deletions (addNode,
\* deleteNode, clear).
IndexesMatch ==
  /\ \A l \in Labels : byLabel[l] = {n \in Exists : nodes[n].label = l}
  /\ \A l \in Labels, v \in Values :
       byValue[<<l, v>>] = {n \in Exists : nodes[n].label = l /\ nodes[n].value = v}

\* The two adjacency lists agree, no record touches a node that is gone, and
\* every record joins the labels of its table (addRelationship, deleteNode).
AdjacencyMatches ==
  /\ \A n \in Ids : \A r \in outgoing[n] :
       /\ r.from = n
       /\ n \in Exists /\ r.to \in Exists
       /\ r \in incoming[r.to]
       /\ nodes[r.from].label = Table[r.type].from
       /\ nodes[r.to].label = Table[r.type].to
  /\ \A n \in Ids : \A r \in incoming[n] : r.to = n /\ r.from \in Ids /\ r \in outgoing[r.from]

\* relationshipCount counts the records there are.
CountMatches == total = Cardinality(AllRelationships)

\* The four places a node or relationship is kept in never disagree, whatever
\* was added, refused, deleted or cleared before.
GraphConsistent == IndexesMatch /\ AdjacencyMatches /\ CountMatches

\* What a segment of a file holds depends on that file only: no line of it
\* names a node another segment owns.  A scan that leaves a file alone leaves
\* its segment alone, and it is not written again (serializeSegments).
SegmentsAreLocal ==
  \A key \in DOMAIN Segments \ {"global"} : \A line \in Segments[key] :
    line[1] = "r" => {<<"n", n, nodes[n]>> : n \in {line[2].from, line[2].to}} \subseteq Segments[key]
=============================================================================
