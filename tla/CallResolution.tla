--------------------------- MODULE CallResolution ---------------------------
(***************************************************************************)
(* The resolution passes of a scan, in the order finalizeGraphRelationships*)
(* runs them (core/scan/graph-finalize.ts, composition/default-registry.ts)*)
(* after the imports: base classes, calls, calls on injected fields, calls *)
(* on instances.  Go files, interfaces and the framework contributors that *)
(* add no target to a call are left out.                                   *)
(***************************************************************************)
EXTENDS CallTargets

CONSTANT Families   \* the projects that may be scanned, as a sequence of sets

\* What the parsers leave of a project: lists of nodes, those of declarations
\* and calls each with an id of its own, whose files and names are those that were scanned.
Scanned(p) ==
  /\ p.functions \in Seq(ToSet(p.functions)) /\ p.classes \in Seq(ToSet(p.classes))
  /\ p.variables \in Seq(ToSet(p.variables)) /\ p.imports \in Seq(ToSet(p.imports))
  /\ p.calls \in Seq(ToSet(p.calls)) /\ p.reads \in Seq(ToSet(p.reads))
  /\ \A d \in ToSet(p.functions) \cup ToSet(p.classes) \cup ToSet(p.variables) :
       d.id # None /\ d.file \in Files /\ d.name \in Names
  /\ \A d, e \in ToSet(p.functions) \cup ToSet(p.classes) \cup ToSet(p.variables) : d.id = e.id => d = e
  /\ \A c \in ToSet(p.classes) : c.bases \in Seq(Names)
  /\ \A v \in ToSet(p.variables) : v.init \in Names \cup {None}
  /\ \A i \in ToSet(p.imports) :
       /\ i.file \in Files /\ i.target \in Files \cup {None}
       /\ i.bindings \in Seq(ToSet(i.bindings)) /\ \A b \in ToSet(i.bindings) : b.imported \in Names
       /\ i.entries \in Seq(ToSet(i.entries)) /\ \A e \in ToSet(i.entries) : {e.imported, e.exported} \subseteq Names
       /\ i.namespace # None => i.wildcard
  /\ \A c \in ToSet(p.calls) : c.file \in Files /\ c.callee \in Names \cup {None}
  /\ \A m, n \in DOMAIN p.calls : p.calls[m].id = p.calls[n].id => m = n
  /\ p.entries \in Seq(Files) /\ p.dependencies \in SUBSET (Files \X Files)
  /\ p.defaults \in [Files -> Names \cup {None}] /\ p.forwards \in [Files -> Files \cup {None}]

ASSUME ScannedProjects == \A n \in DOMAIN Families : \A p \in Families[n] : Scanned(p)

VARIABLES
  project,   \* what the parsers found
  phase,     \* the pass that comes next or runs: "inherit", "calls", "instances", "done"
  next,      \* the call that is resolved next
  cache,     \* what lookupExportedFunction keeps, for each index
  extends,   \* EXTENDS: the base classes of a class, in order
  injects,   \* INJECTS
  targets    \* CALL_RESOLVES_TO: the functions a call resolves to

resolutionVars == <<project, phase, next, cache, extends, injects, targets>>

ResolutionInit ==
  /\ \E n \in DOMAIN Families : project \in Families[n]
  /\ phase = "inherit"
  /\ next = 1
  /\ cache = [functions |-> <<>>, classes |-> <<>>]
  /\ extends = [c \in {c.id : c \in ToSet(project.classes)} |-> <<>>]
  /\ injects = {}
  /\ targets = [c \in {c.id : c \in ToSet(project.calls)} |-> {}]

-----------------------------------------------------------------------------
\* Base classes.

\* The classes the names after `extends` stand for, each once and never itself.
Bases(p, class) ==
  LET Upto[n \in 0..Len(class.bases)] ==
        IF n = 0 THEN <<>>
        ELSE LET bases == Upto[n - 1]
                 base == ResolveClassName(p, Index(p.classes), class.file, class.bases[n])
             IN  IF base \in {None, class.id} \cup ToSet(bases) THEN bases ELSE Append(bases, base)
  IN  Upto[Len(class.bases)]

Inherit ==
  /\ phase = "inherit"
  /\ extends' = [c \in DOMAIN extends |-> Bases(project, ById(project.classes, c))]
  /\ phase' = "calls"
  /\ UNCHANGED <<project, next, cache, injects, targets>>

-----------------------------------------------------------------------------
\* Calls.

\* The file-level variables of a name; one may declare a function on its line.
Variables(p, file, name) ==
  Among(p.variables, {v \in ToSet(p.variables) : v.file = file /\ v.name = name})
Declared(variables) == {v.declares : v \in ToSet(variables)}

\* The declarations a file's `export default name` exports.
OwnDefault(p, index, file) ==
  LET name == p.defaults[file]
      variables == Variables(p, file, name)
  IN  IF name = None THEN <<>>
      ELSE Among(index[file, name],
                 {d \in ToSet(index[file, name]) : variables = <<>> \/ d.id \in Declared(variables)})

\* The declarations of a file's default: its own, or, through
\* `module.exports = require(...)`, another file's.
DefaultOf(p, index, file) ==
  LET own == [f \in Files |-> IF index[f, "default"] # <<>> THEN index[f, "default"]
                              ELSE OwnDefault(p, index, f)]
      found == DepthFirst([f \in Files |-> IF own[f] = <<>> THEN None ELSE own[f]],
                          [f \in Files |-> IF p.forwards[f] = None THEN <<>> ELSE <<p.forwards[f]>>],
                          file)
  IN  IF found = None THEN <<>> ELSE found

WithDefaults(p, index) ==
  [at \in DOMAIN index |-> IF at[2] = "default" THEN DefaultOf(p, index, at[1]) ELSE index[at]]

FunctionIndex(p) == WithDefaults(p, Index(p.functions))
ClassIndex(p) == WithDefaults(p, Index(p.classes))

Caller(p, call) == ById(p.functions, call.caller)

\* isShadowed: a parameter of the caller, or a file-level variable that does
\* not declare the function and is not imported, takes the name.
Shadowed(p, call) ==
  LET variables == {v \in ToSet(Variables(p, call.file, call.callee)) : v.kind # "export_default"}
      functions == {f.id : f \in ToSet(FunctionIndex(p)[call.file, call.callee])}
  IN  \/ call.caller # None /\ call.callee \in Caller(p, call).params
      \/ /\ variables # {}
         /\ call.callee \notin ImportedNames(p, call.file)
         /\ functions \cap {v.declares : v \in variables} = {}

\* require("./x")(): the default of the file that was required.
ResolveRequired(p, call, c) ==
  IF \E i \in ToSet(ImportsOf(p, call.file)) : i.cjs /\ i.target = call.require
  THEN ResolveDeclaration(p, FunctionIndex(p), call.require, "default", c)
  ELSE Answer(None, c)

\* The function a call reaches without going through a class.
DirectTarget(p, call, c) ==
  CASE call.require # None -> ResolveRequired(p, call, c)
    [] call.require = None /\ (call.callee = None \/ (call.receiver = None /\ Shadowed(p, call))) ->
         Answer(None, c)
    [] OTHER ->
         IF call.receiver = None /\ call.callee \in ImportedNames(p, call.file)
         THEN ResolveImported(p, FunctionIndex(p), call.file, call.callee, c)
         ELSE ResolveCall(p, FunctionIndex(p), call.file, call.receiver, call.callee, c)

\* new X() and X.m(): only these are looked up on a class.
GoesThroughClass(p, call) ==
  /\ call.require = None /\ call.callee # None
  /\ IF call.new THEN call.receiver = None /\ ~Shadowed(p, call)
                 ELSE call.receiver \notin {None, "this", "dotted"}

\* resolveClassCall: the constructor of X, or the method of X.
ClassTarget(p, bases, call, c) ==
  LET class == ResolveDeclaration(p, ClassIndex(p), call.file,
                                  IF call.new THEN call.callee ELSE call.receiver, c)
      method == IF call.new THEN "constructor" ELSE call.callee
  IN  Answer(IF class.found = None THEN None ELSE Method(p, bases, class.found, method), class.cache)

ResolveNextCall ==
  /\ phase = "calls" /\ next <= Len(project.calls)
  /\ LET call == project.calls[next]
         direct == DirectTarget(project, call, cache.functions)
         answer == IF direct.found = None /\ GoesThroughClass(project, call)
                   THEN ClassTarget(project, extends, call, cache.classes)
                   ELSE Answer(direct.found, cache.classes)
     IN  /\ targets' = [targets EXCEPT ![call.id] = {answer.found} \ {None}]
         /\ cache' = [functions |-> direct.cache, classes |-> answer.cache]
  /\ next' = next + 1
  /\ UNCHANGED <<project, phase, extends, injects>>

-----------------------------------------------------------------------------
\* Calls on fields and on instances.

\* The class the type of a field names, if it is another one.
FieldClass(p, class, field) ==
  LET named == IF field.type = None THEN None
               ELSE ResolveClassName(p, Index(p.classes), class.file, field.type)
  IN  IF named = class.id THEN None ELSE named

\* this.field.m(): the last field of that name with such a class counts, and
\* only its own methods.
FieldTarget(p, call) ==
  LET class == ById(p.classes, Caller(p, call).class)
      fields == Among(class.fields,
                  {f \in ToSet(class.fields) : f.name = call.field /\ FieldClass(p, class, f) # None})
  IN  IF call.receiver # "dotted" \/ call.caller = None \/ call.callee = None THEN None
      ELSE IF Caller(p, call).class = None THEN None
      ELSE IF fields = <<>> THEN None
      ELSE OwnMethod(p, FieldClass(p, class, fields[Len(fields)]), call.callee)

Inject ==
  /\ phase = "calls" /\ next > Len(project.calls)
  /\ injects' = UNION { {<<c.id, FieldClass(project, c, f)>> :
                          f \in {f \in ToSet(c.fields) : f.injected /\ FieldClass(project, c, f) # None}} :
                        c \in ToSet(project.classes) }
  /\ targets' = [id \in DOMAIN targets |->
                   targets[id] \cup ({FieldTarget(project, ById(project.calls, id))} \ {None})]
  /\ phase' = "instances"
  /\ UNCHANGED <<project, next, cache, extends>>

\* The variables initialised with `new C`, by file and name: the last counts.
InstanceIndex(p) ==
  LET classOf(v) == IF v.init = None THEN None ELSE ResolveClassName(p, Index(p.classes), v.file, v.init)
  IN  [at \in Files \X Names |->
         LET instances == Among(Variables(p, at[1], at[2]),
                                {v \in ToSet(p.variables) : classOf(v) # None})
         IN  IF instances = <<>> THEN <<>> ELSE << [id |-> classOf(instances[Len(instances)])] >>]

\* x.m() in a function without a parameter x: a method of the class of x.
InstanceTarget(p, bases, call, c) ==
  LET hidden == \/ call.receiver \in {None, "dotted"} \/ call.caller = None \/ call.callee = None
                \/ call.receiver \in Caller(p, call).params
      class == ResolveDeclaration(p, InstanceIndex(p), call.file, call.receiver, c)
  IN  IF hidden \/ call.receiver \notin Names THEN Answer(None, c)
      ELSE Answer(IF class.found = None THEN None ELSE Method(p, bases, class.found, call.callee), class.cache)

\* What the calls resolve to, with what those on instances do, in their order.
WithInstances(p, bases, resolved) ==
  LET Upto[n \in 0..Len(p.calls)] ==
        IF n = 0 THEN [cache |-> <<>>, targets |-> resolved]
        ELSE LET sofar == Upto[n - 1]
                 call == p.calls[n]
                 a == InstanceTarget(p, bases, call, sofar.cache)
             IN  [cache |-> a.cache,
                  targets |-> [sofar.targets EXCEPT ![call.id] = @ \cup ({a.found} \ {None})]]
  IN  Upto[Len(p.calls)].targets

ResolveInstances ==
  /\ phase = "instances"
  /\ targets' = WithInstances(project, extends, targets)
  /\ phase' = "done"
  /\ UNCHANGED <<project, next, cache, extends, injects>>

ResolutionNext == Inherit \/ ResolveNextCall \/ Inject \/ ResolveInstances
ResolutionSpec == ResolutionInit /\ [][ResolutionNext]_resolutionVars
=============================================================================
