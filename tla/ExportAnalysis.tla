--------------------------- MODULE ExportAnalysis ---------------------------
(***************************************************************************)
(* find_unused_exports and the index of exported names it uses             *)
(* (adapters/mcp/analysis-tools: model.ts, unused.ts).  A lookup of the    *)
(* index is its cache afterwards: an entry is made before the re-exports   *)
(* of a file are followed and grows while they are.  Of the answer,        *)
(* deadFunctions (which reads the sources) and the Go part are left out.   *)
(***************************************************************************)
EXTENDS CallTargets

\* Every declaration a file can export, by its id.
Exported(p) ==
  {f.id : f \in {f \in ToSet(p.functions) : f.exported /\ f.class = None}}
    \cup {c.id : c \in {c \in ToSet(p.classes) : c.exported}}
    \cup {v.id : v \in {v \in ToSet(p.variables) : v.exported}}

Declarations(p) == ToSet(p.functions) \cup ToSet(p.classes) \cup ToSet(p.variables)
FileOf(p, id) == (CHOOSE d \in Declarations(p) : d.id = id).file

OwnExports(p, file, name) ==
  {d.id : d \in {d \in Declarations(p) : d.file = file /\ d.name = name /\ d.id \in Exported(p)}}

ReExports(p, file) == Among(ImportsOf(p, file), {i \in ToSet(p.imports) : i.reExport})

\* What the index keeps: for the names it knows the declarations and, in the
\* order they are found, the files that are exported whole under the name.
Caches(p) ==
  [known : SUBSET (Files \X Names), declarations : [Files \X Names -> SUBSET Exported(p)],
   namespaces : [Files \X Names -> Seq(Files)]]

NoCache ==
  [known |-> {}, declarations |-> [at \in Files \X Names |-> {}],
   namespaces |-> [at \in Files \X Names |-> <<>>]]

AddFound(c, at, declarations, namespaces) ==
  [known        |-> c.known \cup {at},
   declarations |-> [c.declarations EXCEPT ![at] = @ \cup declarations],
   namespaces   |-> [c.namespaces EXCEPT ![at] = @ \o namespaces]]

AddFoundBehind(c, at, to) == AddFound(c, at, c.declarations[to], c.namespaces[to])

\* One re-export of a file, for a name of it that leads to the place `to`.
FollowEdge(edge, at, to, c, resolve) ==
  IF edge.namespace = at[2] THEN AddFound(c, at, {}, <<edge.target>>)
  ELSE IF to[2] = None THEN c ELSE AddFoundBehind(resolve[<<to, c>>], at, to)

\* ExportIndex.resolve: q is a name of a file and what was known before.  An
\* entry is made before the re-exports of the file are followed.
ResolveExport(p, at, cache) ==
  LET Resolve[q \in (Files \X Names) \X Caches(p)] ==
        LET edges == ReExports(p, q[1][1])
            Upto[n \in 0..Len(edges)] ==
              IF n = 0 THEN AddFound(q[2], q[1], OwnExports(p, q[1][1], q[1][2]), <<>>)
              ELSE FollowEdge(edges[n], q[1], <<edges[n].target, Forwarded(edges[n], q[1][2])>>, Upto[n - 1], Resolve)
        IN  IF q[1] \in q[2].known THEN q[2] ELSE Upto[Len(edges)]
  IN  Resolve[<<at, cache>>]

-----------------------------------------------------------------------------
\* What the walk over the imports has found: the files whose exports are not
\* judged, the used declarations, the cache of the index, and, while files
\* are marked, the queue of those to mark.

Judgements(p) ==
  [surfaces : SUBSET Files, used : SUBSET Exported(p), cache : Caches(p), queue : Seq(Files)]

\* Mutant of WildcardTargets: the targets of `export *` are not marked.
NoTargets(p, file) == <<>>

\* The files a file re-exports as a whole.
WildcardTargets(p, file) ==
  LET wildcards == Among(ReExports(p, file), {i \in ToSet(p.imports) : i.wildcard})
  IN  [n \in DOMAIN wildcards |-> wildcards[n].target]

\* The names of a file's named re-exports.
ReExportedNames(p, file) ==
  LET Upto[n \in 0..Len(ReExports(p, file))] ==
        IF n = 0 THEN <<>>
        ELSE LET entries == ReExports(p, file)[n].entries
             IN  Upto[n - 1] \o [m \in DOMAIN entries |-> entries[m].exported]
  IN  Upto[Len(ReExports(p, file))]

UseFound(s, at, c) ==
  [s EXCEPT !.cache = c, !.used = @ \cup c.declarations[at], !.queue = @ \o c.namespaces[at]]

\* A file becomes a surface: what it re-exports by name is used, and the files
\* it re-exports as a whole are to be marked too.
Surface(p, s, file) ==
  LET names == ReExportedNames(p, file)
      Upto[n \in 0..Len(names)] ==
        IF n = 0 THEN [s EXCEPT !.surfaces = @ \cup {file}]
        ELSE LET before == Upto[n - 1]
             IN  UseFound(before, <<file, names[n]>>, ResolveExport(p, <<file, names[n]>>, before.cache))
  IN  [Upto[Len(names)] EXCEPT !.queue = @ \o WildcardTargets(p, file)]

\* markSurface
MarkSurface(p, start, file) ==
  LET Mark[s \in Judgements(p)] ==
        IF s.queue = <<>> THEN s
        ELSE LET rest == [s EXCEPT !.queue = Tail(@)]
             IN  Mark[IF Head(s.queue) \in s.surfaces THEN rest ELSE Surface(p, rest, Head(s.queue))]
  IN  Mark[[start EXCEPT !.queue = <<file>>]]

MarkSurfaces(p, start, files) ==
  LET Upto[n \in 0..Len(files)] == IF n = 0 THEN start ELSE MarkSurface(p, Upto[n - 1], files[n])
  IN  Upto[Len(files)]

\* A binding that is not the whole file, and what its name was found to be.
UseBindingFound(p, s, import, at, c) ==
  MarkSurfaces(p, [s EXCEPT !.cache = c,
                            !.used = @ \cup {d \in c.declarations[at] : FileOf(p, d) # import.file}],
               IF c.declarations[at] = {} /\ c.namespaces[at] = <<>> THEN <<import.target>> ELSE c.namespaces[at])

\* One binding of an import.
UseBinding(p, s, import, binding) ==
  LET at == <<import.target, binding.imported>>
  IN  IF binding.kind = "namespace" \/ (import.cjs /\ binding.imported = "default")
      THEN MarkSurface(p, s, import.target)
      ELSE UseBindingFound(p, s, import, at, ResolveExport(p, at, s.cache))

UseImport(p, s, import) ==
  LET Upto[n \in 0..Len(import.bindings)] ==
        IF n = 0 THEN s ELSE UseBinding(p, Upto[n - 1], import, import.bindings[n])
  IN  IF import.target = None \/ import.reExport THEN s
      ELSE IF Unbound(import) /\ import.dynamic THEN MarkSurface(p, s, import.target)
      ELSE Upto[Len(import.bindings)]

Judged(p) ==
  LET Upto[n \in 0..Len(p.imports)] ==
        IF n = 0
        THEN MarkSurfaces(p, [surfaces |-> {}, used |-> {}, cache |-> NoCache, queue |-> <<>>], p.entries)
        ELSE UseImport(p, Upto[n - 1], p.imports[n])
  IN  Upto[Len(p.imports)]

\* Uses of declarations from other files that the scan resolved.
UsedFromElsewhere(p, targets, classUses) ==
  {t \in UNION {{<<c.file, t>> : t \in targets[c.id]} : c \in ToSet(p.calls)}
           \cup {<<FileOf(p, u[1]), u[2]>> : u \in classUses} : t[1] # FileOf(p, t[2])}

\* The exports the tool lists; s is what the walk over the imports found.
UnusedExports(p, s, targets, classUses) ==
  LET used == s.used \cup {u[2] : u \in UsedFromElsewhere(p, targets, classUses)}
  IN  {d \in Exported(p) \ (used \cup p.handlers) :
         LET declaration == CHOOSE x \in Declarations(p) : x.id = d
         IN  declaration.name # "default" /\ declaration.file \notin s.surfaces \cup p.tests}
=============================================================================
