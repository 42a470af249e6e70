---------------------------- MODULE CypherEngine ----------------------------
(***************************************************************************)
(* How a query is bound, planned and run over the in-memory graph          *)
(* (adapters/store/cypher/binder.ts, planner.ts, executor.ts, values.ts).  *)
(*                                                                         *)
(* A query is a sequence of clauses.  A match clause has patterns, each a  *)
(* sequence of node patterns joined by relationship patterns, and the      *)
(* conjuncts of its WHERE; a projection has items and a WHERE.  Unnamed    *)
(* elements carry the name the binder gives them.  Nodes have one property *)
(* and expressions are what the planner tells apart: a constant or the     *)
(* property of a variable.  A row keeps, besides its variables, the way it *)
(* was matched, so that two equal rows are two elements of a set.  The     *)
(* order of rows is left out, and with it ORDER BY, SKIP and LIMIT.        *)
(* A query runs without a pause, so the graph stays as it is meanwhile.    *)
(***************************************************************************)
EXTENDS MemoryGraph, SequencesExt

CONSTANTS
  Queries,     \* the queries that are asked
  NoQuery      \* between queries

ASSUME EngineConstants ==
  /\ NoQuery \notin Queries
  /\ \A q \in Queries : Len(q) \in Nat

VARIABLES
  query,       \* the query that runs
  next,        \* the clause that runs next
  scope,       \* the labels each variable may have, after the clauses so far
  rows         \* the rows after the clauses so far

queryVars == <<query, next, scope, rows>>
engineVars == <<graphVars, queryVars>>

Names(f) == DOMAIN f
Elements(seq) == {seq[i] : i \in DOMAIN seq}

-----------------------------------------------------------------------------
\* Values: a comparison is "true", "false" or "null".

Equals(a, b) ==
  IF a = Null \/ b = Null THEN "null" ELSE IF a = b THEN "true" ELSE "false"

Negate(t) == CASE t = "true" -> "false" [] t = "false" -> "true" [] OTHER -> "null"

PropertyOf(row, name) ==
  IF name \in Names(row) /\ row[name] # Null THEN nodes[row[name]].value ELSE Null

\* A variable that is not bound yet is null.
Evaluate(e, row) == IF e.kind = "constant" THEN e.value ELSE PropertyOf(row, e.of)

Truth(c, row) ==
  CASE c.op = "="      -> Equals(Evaluate(c.left, row), Evaluate(c.right, row))
    [] c.op = "<>"     -> Negate(Equals(Evaluate(c.left, row), Evaluate(c.right, row)))
    [] c.op = "isnull" -> IF Evaluate(c.left, row) = Null THEN "true" ELSE "false"

\* Only what is true passes.
Passes(conjuncts, row) == \A c \in conjuncts : Truth(c, row) = "true"

VariablesOf(c) == {e.of : e \in {x \in {c.left, c.right} : x.kind = "property"}}

-----------------------------------------------------------------------------
\* The binder: which labels a variable may have.

TypesOf(r) == IF r.types = {} THEN Types ELSE r.types

\* The labels next to a relationship pattern, by its direction.
FromLabels(r) == {Table[t].from : t \in TypesOf(r)}
ToLabels(r) == {Table[t].to : t \in TypesOf(r)}
LeftLabels(r) ==
  CASE r.direction = "out" -> FromLabels(r) [] r.direction = "in" -> ToLabels(r)
    [] OTHER -> FromLabels(r) \cup ToLabels(r)
RightLabels(r) ==
  CASE r.direction = "out" -> ToLabels(r) [] r.direction = "in" -> FromLabels(r)
    [] OTHER -> FromLabels(r) \cup ToLabels(r)

NodeNames(clause) == UNION {{n.name : n \in Elements(p.nodes)} : p \in Elements(clause.parts)}
RelNames(clause) == UNION {{r.name : r \in Elements(p.rels)} : p \in Elements(clause.parts)}

\* Declared labels, then the labels the relationships next to it allow; a
\* pattern of several hops says nothing about its ends.
Narrowings(clause, name) ==
  UNION { {n.labels : n \in {m \in Elements(p.nodes) : m.name = name /\ m.labels # {}}}
            \cup {LeftLabels(p.rels[i]) : i \in {j \in DOMAIN p.rels :
                    ~p.rels[j].hops /\ p.nodes[j].name = name}}
            \cup {RightLabels(p.rels[i]) : i \in {j \in DOMAIN p.rels :
                    ~p.rels[j].hops /\ p.nodes[j + 1].name = name}}
        : p \in Elements(clause.parts) }

\* bindMatch: the scope after the clause, an optional one included.  The
\* variables of relationships are in scope and have no label.
BindMatch(clause, before) ==
  [ name \in Names(before) \cup NodeNames(clause) \cup RelNames(clause) |->
      IF name \in RelNames(clause) THEN {}
      ELSE {l \in IF name \in Names(before) THEN before[name] ELSE Labels :
              \A allowed \in Narrowings(clause, name) : l \in allowed} ]

-----------------------------------------------------------------------------
\* The planner: a pattern starts from its most selective node.

\* Constants an unbound node has to equal: its property map, then the WHERE.
IndexedEqualities(node, conjuncts) ==
  {e.value : e \in {x \in node.props : x.kind = "constant"}}
    \cup {c.right.value : c \in {x \in conjuncts : x.op = "=" /\ x.right.kind = "constant"
                                   /\ x.left = [kind |-> "property", of |-> node.name]}}
    \cup {c.left.value : c \in {x \in conjuncts : x.op = "=" /\ x.left.kind = "constant"
                                   /\ x.right = [kind |-> "property", of |-> node.name]}}

LabelCost(labels) == Cardinality(UNION {NodesWithLabel(l) : l \in labels})
LookupCost(labels, v) == Cardinality(UNION {Lookup(l, v) : l \in labels})

NoLookup == [used |-> FALSE, value |-> Null]

\* The ways to start, cheapest first in the end; a bound node costs nothing.
Starts(part, bound, after, conjuncts) ==
  UNION { LET n == part.nodes[i]
          IN  IF n.name \in bound THEN {[index |-> i, cost |-> -1, lookup |-> NoLookup]}
              ELSE {[index |-> i, cost |-> LabelCost(after[n.name]), lookup |-> NoLookup]}
                     \cup {[index |-> i, cost |-> LookupCost(after[n.name], v),
                            lookup |-> [used |-> TRUE, value |-> v]]
                           : v \in IndexedEqualities(n, conjuncts)}
        : i \in DOMAIN part.nodes }

\* The first of the cheapest: of the leftmost node, its labels before its index.
ChooseStart(part, bound, after, conjuncts) ==
  LET starts == Starts(part, bound, after, conjuncts)
      Before(s, t) ==
        \/ s.cost < t.cost
        \/ s.cost = t.cost /\ s.index < t.index
        \/ s.cost = t.cost /\ s.index = t.index /\ (s.lookup.used => t.lookup.used)
  IN  CHOOSE s \in starts : \A t \in starts : Before(s, t)

Step(part, i, reversed) ==
  [ source |-> IF reversed THEN part.nodes[i + 1].name ELSE part.nodes[i].name,
    rel |-> part.rels[i],
    target |-> IF reversed THEN part.nodes[i] ELSE part.nodes[i + 1],
    reversed |-> reversed ]

\* From the start to the right end, then from the start to the left end.
StepsFrom(part, index) ==
  [i \in 1..(Len(part.nodes) - index) |-> Step(part, index + i - 1, FALSE)]
    \o [i \in 1..(index - 1) |-> Step(part, index - i, TRUE)]

-----------------------------------------------------------------------------
\* The executor.

NodeMatches(pattern, labels, id, row) ==
  /\ nodes[id].label \in labels
  /\ \A e \in pattern.props : Equals(nodes[id].value, Evaluate(e, row)) = "true"

StartCandidates(start, node, after, bound, row) ==
  IF node.name \in bound THEN {row[node.name]} \ {Null}
  ELSE IF start.lookup.used
       THEN UNION {Lookup(l, start.lookup.value) : l \in after[node.name]}
       ELSE UNION {NodesWithLabel(l) : l \in after[node.name]}

Flip(direction) ==
  CASE direction = "out" -> "in" [] direction = "in" -> "out" [] OTHER -> "both"

\* Mutant of DirectionOf: a step to the left keeps the direction of the pattern.
DirectionOfPattern(step) == step.rel.direction

DirectionOf(step) == IF step.reversed THEN Flip(step.rel.direction) ELSE step.rel.direction

\* The relationships a step can take from a node: the record, whether it is
\* taken along its direction, and the node it leads to.
Neighbours(r, direction, id) ==
  (IF direction = "in" THEN {}
   ELSE {[rel |-> x, along |-> TRUE, node |-> x.to] : x \in {y \in outgoing[id] : y.type \in TypesOf(r)}})
  \cup
  (IF direction = "out" THEN {}
   ELSE {[rel |-> x, along |-> FALSE, node |-> x.from] : x \in {y \in incoming[id] : y.type \in TypesOf(r)}})

\* Paths of min to max relationships; nodes and relationships may repeat.
Traverse(step, id) ==
  LET Paths[n \in 0..step.rel.max] ==
        IF n = 0 THEN {[path |-> <<>>, node |-> id]}
        ELSE UNION { {[path |-> Append(p.path, [rel |-> x.rel, along |-> x.along]), node |-> x.node]
                      : x \in Neighbours(step.rel, DirectionOf(step), p.node)} : p \in Paths[n - 1] }
  IN  UNION {Paths[n] : n \in step.rel.min..step.rel.max}

Records(path) == [i \in DOMAIN path |-> path[i].rel]

\* What a relationship variable is bound to: one record, or for several hops
\* the list of them in the direction of the pattern.
RelationshipValue(step, path) ==
  IF ~step.rel.hops THEN path[1].rel
  ELSE IF step.reversed THEN Records(Reverse(path)) ELSE Records(path)

Bind(row, name, value) ==
  [x \in Names(row) \cup {name} |-> IF x = name THEN value ELSE row[x]]

\* One step of a pattern from every row.
Expand(step, bound, after, conjuncts, matched) ==
  UNION { { [ vars |-> Bind(Bind(m.vars, step.rel.name, RelationshipValue(step, t.path)),
                            step.target.name, t.node),
              way |-> Append(m.way, t.path) ]
            : t \in {u \in Traverse(step, m.vars[step.source]) :
                /\ step.target.name \in bound => m.vars[step.target.name] = u.node
                /\ NodeMatches(step.target, after[step.target.name], u.node, m.vars)} }
        : m \in {x \in matched : x.vars[step.source] # Null} }

Ready(conjuncts, bound) == {c \in conjuncts : VariablesOf(c) \subseteq bound}

Filter(conjuncts, bound, matched) ==
  {m \in matched : Passes(Ready(conjuncts, bound), m.vars)}

\* One pattern of a clause from one row; bound are the variables before it.
MatchPart(part, row, bound, after, conjuncts) ==
  LET start == ChooseStart(part, bound, after, conjuncts)
      node == part.nodes[start.index]
      steps == StepsFrom(part, start.index)
      BoundBefore(i) ==
        bound \cup {node.name} \cup UNION {{steps[j].rel.name, steps[j].target.name} : j \in 1..(i - 1)}
      first == {[vars |-> Bind(row.vars, node.name, id), way |-> Append(row.way, <<id>>)]
                : id \in {x \in StartCandidates(start, node, after, bound, row.vars) :
                            NodeMatches(node, after[node.name], x, row.vars)}}
      After[i \in 0..Len(steps)] ==
        IF i = 0 THEN Filter(conjuncts, BoundBefore(1), first)
        ELSE Filter(conjuncts, BoundBefore(i + 1),
                    Expand(steps[i], BoundBefore(i), after, conjuncts, After[i - 1]))
  IN  After[Len(steps)]

\* The patterns of a clause one after the other.
MatchClause(clause, row, before, after) ==
  LET BoundBefore(i) ==
        before \cup UNION {{n.name : n \in Elements(clause.parts[j].nodes)}
                             \cup {r.name : r \in Elements(clause.parts[j].rels)} : j \in 1..(i - 1)}
      After[i \in 0..Len(clause.parts)] ==
        IF i = 0 THEN Filter(clause.where, before, {row})
        ELSE UNION {MatchPart(clause.parts[i], m, BoundBefore(i), after, clause.where) : m \in After[i - 1]}
  IN  After[Len(clause.parts)]

\* An optional clause that matches nothing leaves the row, its variables null.
Fill(row, introduced) ==
  [row EXCEPT !.vars = [x \in Names(row.vars) \cup introduced |->
                          IF x \in Names(row.vars) THEN row.vars[x] ELSE Null]]

RunMatch(clause, input, before, after) ==
  UNION { LET found == MatchClause(clause, row, before, after)
          IN  IF found = {} /\ clause.optional
              THEN {Fill(row, (NodeNames(clause) \cup RelNames(clause)) \ before)}
              ELSE found
        : row \in input }

-----------------------------------------------------------------------------
\* Projections: items are variables and at most one count of a variable; WHERE
\* may ask for a count of zero.

Groups(clause, input) ==
  {[k \in clause.keys |-> row.vars[k]] : row \in input}

CountIn(clause, group, input) ==
  Cardinality({row \in input : /\ [k \in clause.keys |-> row.vars[k]] = group
                               /\ row.vars[clause.counted] # Null})

\* Grouping by nothing makes one group also when there is no row.
RunProjection(clause, input) ==
  LET counting == clause.counted # "none"
      groups == Groups(clause, input) \cup
                  (IF counting /\ clause.keys = {} THEN {[k \in {} |-> Null]} ELSE {})
  IN  CASE counting ->
             {m \in {[vars |-> Bind(g, "count", CountIn(clause, g, input)), way |-> <<>>] : g \in groups} :
                clause.onlyZero => m.vars["count"] = 0}
        [] ~counting /\ clause.distinct -> {[vars |-> g, way |-> <<>>] : g \in groups}
        [] OTHER -> {[vars |-> [k \in clause.keys |-> row.vars[k]], way |-> row.way] : row \in input}

-----------------------------------------------------------------------------

Idle == query = NoQuery

EngineTypeOK ==
  /\ GraphTypeOK
  /\ Idle \/ query \in Queries
  /\ ~Idle => next \in 1..(Len(query) + 1)
  /\ Idle => rows = {}

EngineInit ==
  /\ GraphInit
  /\ query = NoQuery
  /\ next = 1
  /\ scope = [x \in {} |-> {}]
  /\ rows = {}

\* executeCypher begins with one row without variables.
Ask(q) ==
  /\ Idle
  /\ query' = q
  /\ next' = 1
  /\ scope' = [x \in {} |-> {}]
  /\ rows' = {[vars |-> [x \in {} |-> Null], way |-> <<>>]}
  /\ UNCHANGED graphVars

RunMatchClause ==
  /\ ~Idle
  /\ next <= Len(query)
  /\ query[next].kind = "match"
  /\ LET clause == query[next]
         after == BindMatch(clause, scope)
     IN  /\ rows' = RunMatch(clause, rows, Names(scope), after)
         /\ scope' = after
  /\ next' = next + 1
  /\ UNCHANGED <<graphVars, query>>

\* A projected variable keeps its labels.
RunProjectionClause ==
  /\ ~Idle
  /\ next <= Len(query)
  /\ query[next].kind = "with"
  /\ rows' = RunProjection(query[next], rows)
  /\ scope' = [x \in query[next].keys \cup (IF query[next].counted = "none" THEN {} ELSE {"count"}) |->
                 IF x \in Names(scope) THEN scope[x] ELSE {}]
  /\ next' = next + 1
  /\ UNCHANGED <<graphVars, query>>

\* The rows are the answer.
Answer ==
  /\ ~Idle
  /\ next > Len(query)
  /\ query' = NoQuery
  /\ next' = 1
  /\ scope' = [x \in {} |-> {}]
  /\ rows' = {}
  /\ UNCHANGED graphVars

\* A query is asked of a finished graph.
EngineNext ==
  \/ Idle /\ GraphNext /\ UNCHANGED queryVars
  \/ \E q \in Queries : made = MaxRels /\ Ask(q)
  \/ RunMatchClause
  \/ RunProjectionClause
  \/ Answer

EngineSpec == EngineInit /\ [][EngineNext]_engineVars

-----------------------------------------------------------------------------
\* What a match clause means, without a plan, an index or a scope: every
\* choice of nodes, and of walks between them, that fits the patterns.

\* The walks of a relationship pattern from u to v.
WalksBetween(r, u, v) ==
  LET Out(x) == {[rel |-> y, along |-> TRUE, node |-> y.to] : y \in {z \in AllRelationships : z.from = x}}
      In(x) == {[rel |-> y, along |-> FALSE, node |-> y.from] : y \in {z \in AllRelationships : z.to = x}}
      Steps(x) == {s \in (IF r.direction = "in" THEN {} ELSE Out(x))
                            \cup (IF r.direction = "out" THEN {} ELSE In(x)) : s.rel.type \in TypesOf(r)}
      Walks[n \in 0..r.max] ==
        IF n = 0 THEN {[path |-> <<>>, node |-> u]}
        ELSE UNION {{[path |-> Append(w.path, s), node |-> s.node] : s \in Steps(w.node)} : w \in Walks[n - 1]}
  IN  {w.path : w \in {x \in UNION {Walks[n] : n \in r.min..r.max} : x.node = v}}

Meaning(clause, row) ==
  LET known == {x \in NodeNames(clause) \cap Names(row.vars) : TRUE}
      places == UNION {{<<p, i>> : i \in DOMAIN clause.parts[p].rels} : p \in DOMAIN clause.parts}
      Rel(at) == clause.parts[at[1]].rels[at[2]]
      Left(at) == clause.parts[at[1]].nodes[at[2]].name
      Right(at) == clause.parts[at[1]].nodes[at[2] + 1].name
      choices == {a \in [NodeNames(clause) -> Exists] : \A x \in known : a[x] = row.vars[x]}
      NodesFit(a) ==
        \A p \in Elements(clause.parts) : \A n \in Elements(p.nodes) :
          /\ n.labels # {} => nodes[a[n.name]].label \in n.labels
          /\ \A e \in n.props : Equals(nodes[a[n.name]].value, Evaluate(e, a @@ row.vars)) = "true"
      Walks(a) ==
        {w \in [places -> UNION {WalksBetween(Rel(at), a[Left(at)], a[Right(at)]) : at \in places}] :
           \A at \in places : w[at] \in WalksBetween(Rel(at), a[Left(at)], a[Right(at)])}
      Value(at, path) == IF Rel(at).hops THEN Records(path) ELSE path[1].rel
      RelVars(w) == [x \in {Rel(at).name : at \in places} |->
                       LET at == CHOOSE y \in places : Rel(y).name = x IN Value(at, w[at])]
  IN  UNION { {[vars |-> RelVars(w) @@ a @@ row.vars, way |-> Append(row.way, <<a, w>>)] : w \in Walks(a)}
              : a \in {b \in choices : NodesFit(b) /\ Passes(clause.where, b @@ row.vars)} }

MeaningOf(clause, input) ==
  UNION { LET found == Meaning(clause, row)
          IN  IF found = {} /\ clause.optional
              THEN {Fill(row, NodeNames(clause) \cup RelNames(clause))} ELSE found
        : row \in input }

\* The rows of a query after its first k clauses.
Expected(q, k) ==
  LET After[i \in 0..k] ==
        IF i = 0 THEN {[vars |-> [x \in {} |-> Null], way |-> <<>>]}
        ELSE IF q[i].kind = "match" THEN MeaningOf(q[i], After[i - 1])
        ELSE RunProjection(q[i], After[i - 1])
  IN  After[k]

\* The rows of a query are those its patterns mean, each as often as it
\* matches, wherever the plan starts and whichever index it uses (planMatch,
\* runMatch, MemoryGraph.lookup).
RowsAreTheMatches ==
  ~Idle =>
    LET expected == Expected(query, next - 1)
        Times(input, vars) == Cardinality({row \in input : row.vars = vars})
    IN  \A vars \in {row.vars : row \in rows \cup expected} : Times(rows, vars) = Times(expected, vars)
=============================================================================
