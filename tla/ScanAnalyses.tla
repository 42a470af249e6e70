---------------------------- MODULE ScanAnalyses ----------------------------
(***************************************************************************)
(* A scan resolves a project (CallResolution); then one of the analysis    *)
(* tools of the MCP server is called on the graph.  The properties relate  *)
(* what the passes and the tools compute to what the names mean.           *)
(***************************************************************************)
EXTENDS CallResolution, ImportCycles, ExportAnalysis, CallImpact

CONSTANT MaxDepth   \* bound: the largest maxDepth a caller asks for

ASSUME ScanBound == MaxDepth \in Nat

VARIABLE answer   \* the tool called last, its arguments and its answer

analysisVars == <<resolutionVars, answer>>

Init == ResolutionInit /\ answer = [tool |-> None]

Resolve == ResolutionNext /\ UNCHANGED answer

Ready == phase = "done" /\ answer.tool = None

\* find_import_cycles, with a path that matches one file or without one.
FindImportCycles(scope, wanted) ==
  /\ Ready
  /\ LET graph == IF scope = "file" THEN FileGraph(project) ELSE PackageGraph(project)
     IN  answer' = [tool |-> "cycles", graph |-> graph, wanted |-> wanted,
                    groups |-> ImportCycles(graph, wanted)]
  /\ UNCHANGED resolutionVars

FindUnusedExports ==
  /\ Ready
  /\ answer' = [tool |-> "unused",
                unused |-> UnusedExports(project, Judged(project), targets,
                             injects \cup UNION {{c} \X ToSet(extends[c]) : c \in DOMAIN extends})]
  /\ UNCHANGED resolutionVars

FindImpact(name, maxDepth) ==
  /\ Ready
  /\ Seeds(project, name) # {} \/ name \in project.stores
  /\ answer' = [tool |-> "impact", name |-> name, maxDepth |-> maxDepth,
                impact |-> ImpactOf(project, targets, name, maxDepth)]
  /\ UNCHANGED resolutionVars

Next ==
  \/ Resolve
  \/ \E scope \in {"file", "package"}, wanted \in {Files} \cup {{f} : f \in Files} :
        FindImportCycles(scope, wanted)
  \/ FindUnusedExports
  \/ \E name \in Names \cup project.stores, maxDepth \in 1..MaxDepth : FindImpact(name, maxDepth)

Spec == Init /\ [][Next]_analysisVars

-----------------------------------------------------------------------------
\* What a name means: the pairs of file and name that looking one up leads
\* to, through re-exports; not beyond a file that has the name itself.
Onward(p, at) ==
  {<<i.target, Forwarded(i, at[2])>> : i \in {i \in ToSet(ImportsOf(p, at[1])) : Forwarded(i, at[2]) # None}}

Beyond(p, own, pairs) == pairs \cup UNION {Onward(p, at) : at \in pairs \ own}

Reached(p, own, pairs) ==
  LET Reach[s \in SUBSET (Files \X Names)] ==
        IF Beyond(p, own, s) = s THEN s ELSE Reach[Beyond(p, own, s)]
  IN  Reach[pairs]

\* The functions that looking up these pairs of file and name can lead to.
Functions(p, pairs) ==
  LET functions == FunctionIndex(p)
      own == {at \in DOMAIN functions : functions[at] # <<>>}
  IN  {functions[at][1].id : at \in Reached(p, own, pairs) \cap own}

\* The functions the bindings of a file give to a bare name.
Meant(p, file, name) ==
  Functions(p, {<<i.target, BindingOf(i, name).imported>> :
                  i \in {i \in ToSet(ImportsOf(p, file)) : BindingOf(i, name) # None}})

\* The functions of that name behind imports without bindings.
Behind(p, file, name) ==
  Functions(p, {<<i.target, name>> : i \in {i \in ToSet(ImportsOf(p, file)) : Unbound(i)}})

Resolved(call) == \E n \in 1..(next - 1) : project.calls[n] = call

PlainCalls ==
  {c \in ToSet(project.calls) :
     Resolved(c) /\ c.require = None /\ c.receiver = None /\ c.callee # None /\ ~c.new}

\* A bare call means what its name is bound to: nothing when a parameter of
\* the caller hides it; a function the import of that name leads to, through
\* whatever barrels and cycles of barrels, whenever there is one; else the
\* function of its file.  (calls.ts addCallResolutionRelationships; imports
\* without bindings that lead to a function of the name are left aside, see
\* ImportedNamesAreTheImports.)
CallsFollowBindings ==
  \A c \in PlainCalls : Behind(project, c.file, c.callee) = {} =>
    LET meant == Meant(project, c.file, c.callee)
        own == {f.id : f \in ToSet(FunctionIndex(project)[c.file, c.callee])}
    IN  IF c.caller # None /\ c.callee \in Caller(project, c).params THEN targets[c.id] = {}
        ELSE IF c.callee \in ImportedNames(project, c.file)
        THEN targets[c.id] \subseteq meant /\ (targets[c.id] = {} <=> meant = {})
        ELSE targets[c.id] \subseteq own

\* docs/known-limitations.md:105: "A bare call of a name the file imports
\* resolves only through the import".  An import without bindings in front of
\* it is looked through as well: the code does not do what this says.
ImportedNamesAreTheImports ==
  \A c \in PlainCalls :
    c.callee \in ImportedNames(project, c.file) =>
      targets[c.id] \subseteq Meant(project, c.file, c.callee)

\* The methods of a name that a class has or inherits: of itself, else of
\* classes with no nearer one on some way up.
Inherited(class, name) ==
  LET Up(classes) == classes \cup UNION {ToSet(extends[c]) : c \in {c \in classes : OwnMethod(project, c, name) = None}}
      Family[s \in SUBSET DOMAIN extends] == IF Up(s) = s THEN s ELSE Family[Up(s)]
  IN  {OwnMethod(project, c, name) : c \in Family[{class}]} \ {None}

\* The classes of a file that have a name.
ClassNamed(p, file, name) ==
  {d.id : d \in {d \in ToSet(p.classes) : d.file = file /\ d.name = name}}

\* What a call goes through: X of new X() and X.m(), x of x.m().
Through(call) == IF call.new THEN call.callee ELSE call.receiver

\* It goes through what its file declares: neither an import nor a parameter
\* has the name, X of new X() is no function or variable as well, and x is a
\* variable of classes of the file only.
ThroughItsFile(p, call) ==
  /\ call.require = None /\ call.callee # None /\ (call.new => call.receiver = None)
  /\ Through(call) \in Names \ ({"default"} \cup ImportedNames(p, call.file))
  /\ call.caller # None => Through(call) \notin Caller(p, call).params
  /\ \A i \in ToSet(ImportsOf(p, call.file)) : ~Unbound(i)
  /\ IF call.new
     THEN \A d \in ToSet(p.functions) \cup ToSet(p.variables) : d.file = call.file => d.name # call.callee
     ELSE \A v \in ToSet(Variables(p, call.file, call.receiver)) :
            v.init = None \/ ClassNamed(p, call.file, v.init) # {}

\* The classes it goes through; outside of functions no instances are known.
ClassesThrough(p, call) ==
  ClassNamed(p, call.file, Through(call)) \cup
    IF call.new \/ call.caller = None THEN {}
    ELSE UNION {ClassNamed(p, call.file, v.init) : v \in ToSet(Variables(p, call.file, call.receiver))}

MethodCalled(call) == IF call.new THEN "constructor" ELSE call.callee

\* A call through a class of its file, new X(), X.m() or x.m() with x = new
\* X(), reaches a method the class has or inherits, whenever there is one,
\* also when the classes extend each other in a circle.
\* (calls.ts resolveClassCall, findMethod; instances.ts)
MethodsAreInherited ==
  phase = "done" =>
  \A c \in ToSet(project.calls), x \in DOMAIN extends :
    ThroughItsFile(project, c) /\ ClassesThrough(project, c) = {x} =>
      LET inherited == Inherited(x, MethodCalled(c))
      IN  targets[c.id] \subseteq inherited /\ (targets[c.id] = {} <=> inherited = {})

-----------------------------------------------------------------------------
\* The exports offered under a name of a file.
Offered(p, at) == UNION {OwnExports(p, to[1], to[2]) : to \in Reached(p, {}, {at})}

\* Re-exports lead from there into a circle.
Circular(p, at) == \E to \in Reached(p, {}, {at}) : to \in Reached(p, {}, Onward(p, to))

\* The names that the files import one by one: by whom, and from where.
Uses(p) ==
  UNION {{[by |-> i.file, at |-> <<i.target, b.imported>>] :
             b \in {b \in ToSet(i.bindings) : b.kind # "namespace"}} :
         i \in {i \in ToSet(p.imports) : i.target # None /\ ~i.reExport}}

\* The exports that their own file imports back by name.
ImportedBack(p) == {d \in Exported(p) : \E u \in Uses(p) : u.by = FileOf(p, d) /\ d \in Offered(p, u.at)}

\* An export that another file imports by name, directly or through barrels,
\* or that a package's entry point offers, is never reported as unused, unless
\* it is imported through a circle of barrels and its own file imports it too.
\* (unused.ts findUnusedExports; model.ts ExportIndex)
UsedExportsAreNotReported ==
  answer.tool = "unused" =>
    /\ \A u \in Uses(project) : \A d \in Offered(project, u.at) \cap answer.unused :
         u.by = FileOf(project, d) \/ (Circular(project, u.at) /\ d \in ImportedBack(project))
    /\ \A e \in ToSet(project.entries), name \in Names :
         Offered(project, <<e, name>>) \cap answer.unused = {}

\* The note of find_unused_exports: "An export counts as used when another
\* file imports it by name (through barrels too)".  What the index keeps of a
\* name in a circle of barrels can lack it: the code does not do what this says.
ImportedExportsAreUsed ==
  answer.tool = "unused" =>
    \A u \in Uses(project) : \A d \in Offered(project, u.at) \cap answer.unused : u.by = FileOf(project, d)

\* The files reached from a file in exactly so many steps.
After(edges, from, steps) ==
  LET At[n \in 0..steps] == IF n = 0 THEN from ELSE From(edges, At[n - 1])
  IN  At[steps]

Lengths == 1..Cardinality(Files)
Loops(edges, node) == {n \in Lengths : node \in After(edges, {node}, n)}
ReachesIn(edges, a, b) == \E n \in Lengths : b \in After(edges, {a}, n)

\* The groups are the sets of files that reach each other, and the loop shown
\* is one through a listed member, at run time if that has one, and the
\* shortest of those.  (cycles.ts stronglyConnected, shortestCycle)
CyclesAreTheGroups ==
  answer.tool = "cycles" =>
    LET edges == answer.graph.edges
        together(f) == {g \in Files : ReachesIn(edges, f, g) /\ ReachesIn(edges, g, f)}
    IN  /\ {g.members : g \in answer.groups} =
             {together(f) : f \in {f \in Files : together(f) # {} /\ together(f) \cap answer.wanted # {}}}
        /\ \A g \in answer.groups :
             LET used == IF g.typeOnly THEN edges ELSE answer.graph.runtime
                 length == Len(g.cycle) - 1
             IN  /\ g.cycle[1] \in g.listed /\ g.cycle[length + 1] = g.cycle[1]
                 /\ \A n \in 1..length : <<g.cycle[n], g.cycle[n + 1]>> \in used
                 /\ \A n \in Loops(used, g.cycle[1]) : length <= n
                 /\ g.typeOnly => Loops(answer.graph.runtime, g.cycle[1]) = {}

\* The note of find_import_cycles: "typeOnly: true means every loop goes
\* through a type-only import".  Only the loops through the first listed
\* member are looked at: the code does not do what this says.
TypeOnlyGroupsHaveNoRuntimeLoop ==
  (answer.tool = "cycles" /\ answer.wanted = Files) =>
    \A g \in answer.groups : g.typeOnly =>
      \A f \in g.members : Loops(answer.graph.runtime \cap (g.members \X g.members), f) = {}

\* What a change of a caller affects within a depth, a change of what it
\* calls affects within the next one: callers, at no less distance, routes,
\* components, pages, requests and stores alike.  (graph.ts computeImpact)
Covers(more, less) ==
  /\ \A f \in DOMAIN less.callers : f \in DOMAIN more.callers /\ more.callers[f] <= less.callers[f] + 1
  /\ less.moduleCallers \subseteq more.moduleCallers
  /\ less.routes \subseteq more.routes
  /\ less.consumers.consumers \subseteq more.consumers.consumers
  /\ less.stores.stores \subseteq more.stores.stores
  /\ \A part \in {<<less.interface, more.interface>>, <<less.consumers, more.consumers>>,
                  <<less.stores, more.stores>>} :
       /\ DOMAIN part[1].components \subseteq DOMAIN part[2].components
       /\ part[1].pages \subseteq part[2].pages

ImpactGrowsDownwards ==
  answer.tool = "impact" =>
    \A edge \in CallersOf(project, targets) :
      edge[1] \in Seeds(project, answer.name) =>
        Covers(answer.impact, Impact(project, targets, {edge[2]}, {}, answer.maxDepth - 1))

\* The comment on storeImpact: "a store whose definition reads a changed
\* store changes in turn".  The loop ends after maxDepth rounds, and a round
\* sees only what rows before it changed: the code does not do what this says.
StoresChangeInTurn ==
  answer.tool = "impact" =>
    LET changed == answer.impact.stores.stores
    IN  \A row \in ToSet(project.reads) :
          row[2] \in changed => Into(project.definitions, {row[1]}) \subseteq changed
=============================================================================
