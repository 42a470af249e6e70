----------------------------- MODULE CallImpact -----------------------------
(***************************************************************************)
(* impact_of (adapters/mcp/agent-tools: impact.ts, graph.ts).  A project   *)
(* has, beside functions and calls, what the contributors added, as sets   *)
(* of pairs: routes <<route, handler>>, requests <<call, route>>,          *)
(* implements <<component, function>>, renders <<parent, child>>, pages    *)
(* <<page, component>>, loads <<page, function>>, writes and reads         *)
(* <<function, store>> (reads a sequence: its order counts), actions and   *)
(* definitions <<store, function>>.  How rows are described, merged, sorted*)
(* and cut to the limit is left out; a cut list is Paging's subject.       *)
(***************************************************************************)
EXTENDS CallTargets

From(pairs, sources) == {e[2] : e \in {e \in pairs : e[1] \in sources}}
Into(pairs, ends) == {e[1] : e \in {e \in pairs : e[2] \in ends}}

\* Mutant of WalkCalls: of a level, only one node is followed.
WalkCallsFromOne(edges, seeds, maxDepth) ==
  LET Depth[level \in 0..maxDepth] ==
        IF level = 0 THEN [s \in seeds |-> 0]
        ELSE LET before == Depth[level - 1]
                 frontier == {n \in DOMAIN before : before[n] = level - 1}
                 last == IF frontier = {} THEN {} ELSE {CHOOSE n \in frontier : TRUE}
                 reached == From(edges, last) \ DOMAIN before
             IN  [n \in DOMAIN before \cup reached |-> IF n \in reached THEN level ELSE before[n]]
  IN  Depth[maxDepth]

\* Every node reached from the seeds within so many steps, with its distance,
\* level by level.
WalkCalls(edges, seeds, maxDepth) ==
  LET Depth[level \in 0..maxDepth] ==
        IF level = 0 THEN [s \in seeds |-> 0]
        ELSE LET before == Depth[level - 1]
                 frontier == {n \in DOMAIN before : before[n] = level - 1}
                 reached == From(edges, frontier) \ DOMAIN before
             IN  [n \in DOMAIN before \cup reached |-> IF n \in reached THEN level ELSE before[n]]
  IN  Depth[maxDepth]

\* The edges from a function to those that call it.
CallersOf(p, targets) ==
  UNION { {<<t, c.caller>> : t \in targets[c.id]} : c \in {c \in ToSet(p.calls) : c.caller # None} }

Upwards(pairs) == {<<e[2], e[1]>> : e \in pairs}

\* componentImpact: the components the functions implement and those that
\* render them, with the pages of either.
ComponentImpact(p, functions, maxDepth) ==
  LET depth == WalkCalls(Upwards(p.renders), Into(p.implements, functions), maxDepth)
  IN  [components |-> depth,
       pages |-> Into(p.pages, DOMAIN depth) \cup Into(p.loads, functions)]

NoInterface == [components |-> <<>>, pages |-> {}]

\* apiConsumers: the functions whose calls reach the routes, or None for
\* top-level code, and the interface over them.
ApiConsumers(p, edges, routes, maxDepth) ==
  LET consumers == {c \in ToSet(p.calls) : From(p.requests, {c.id}) \cap routes # {}}
      functions == {c.caller : c \in consumers} \ {None}
      ui == IF functions = {} THEN NoInterface
            ELSE ComponentImpact(p, DOMAIN WalkCalls(edges, functions, maxDepth), maxDepth)
  IN  [consumers |-> {c.id : c \in consumers}, components |-> ui.components, pages |-> ui.pages]

\* One round over the rows of READS_STORE: a store whose definition reads a
\* changed one changes; rows later in the round see it.
DeriveOnce(p, changed) ==
  LET Seen[n \in 0..Len(p.reads)] ==
        IF n = 0 THEN changed
        ELSE IF p.reads[n][2] \in Seen[n - 1]
        THEN Seen[n - 1] \cup Into(p.definitions, {p.reads[n][1]}) ELSE Seen[n - 1]
  IN  Seen[Len(p.reads)]

\* The rounds; those after one without a change would change nothing.
Derive(p, changed, rounds) ==
  LET After[n \in 0..rounds] == IF n = 0 THEN changed ELSE DeriveOnce(p, After[n - 1])
  IN  After[rounds]

\* storeImpact
StoreImpact(p, edges, affected, seedStores, maxDepth) ==
  LET changed == seedStores \cup From(p.writes, affected)
                   \cup Into(p.actions, affected) \cup Into(p.definitions, affected)
      all == Derive(p, changed, maxDepth)
      readers == Into(ToSet(p.reads), all)
      ui == IF readers = {} THEN NoInterface
            ELSE ComponentImpact(p, DOMAIN WalkCalls(edges, readers, maxDepth), maxDepth)
  IN  [stores |-> all, components |-> ui.components, pages |-> ui.pages]

\* computeImpact
Impact(p, targets, seeds, seedStores, maxDepth) ==
  LET edges == CallersOf(p, targets)
      callers == WalkCalls(edges, seeds, maxDepth)
      affected == DOMAIN callers
      routes == Into(p.routes, affected)
  IN  [callers       |-> callers,
       moduleCallers |-> {c.id : c \in {c \in ToSet(p.calls) : c.caller = None /\ targets[c.id] \cap affected # {}}},
       routes        |-> routes,
       interface     |-> ComponentImpact(p, affected, maxDepth),
       consumers     |-> IF routes = {} THEN [consumers |-> {}, components |-> <<>>, pages |-> {}]
                         ELSE ApiConsumers(p, edges, routes, maxDepth),
       stores        |-> StoreImpact(p, edges, affected, seedStores, maxDepth)]

\* impactOf: a name is that of functions, of the class of methods, or of stores.
Seeds(p, name) ==
  {f.id : f \in {f \in ToSet(p.functions) :
     f.name = name \/ (f.class # None /\ ById(p.classes, f.class).name = name)}}

ImpactOf(p, targets, name, maxDepth) ==
  Impact(p, targets, Seeds(p, name), {s \in p.stores : s = name}, maxDepth)
=============================================================================
