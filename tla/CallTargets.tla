---------------------------- MODULE CallTargets ----------------------------
(***************************************************************************)
(* What a name in one file stands for in another                           *)
(* (core/scan/resolution: call-targets.ts, node-indexes.ts, indexes.ts).   *)
(*                                                                         *)
(* A project is what the parsers leave in the graph: sequences of          *)
(* functions, classes, variables, imports and calls in node order.  A list *)
(* of declarations with file and name is an index; the first one of a file *)
(* and name counts.  The text of an import statement is replaced by what   *)
(* the code reads out of it: its bindings and re-exported names.           *)
(***************************************************************************)
EXTENDS Integers, Sequences, FiniteSets, SequencesExt

CONSTANTS
  Files,   \* the scanned files
  Names,   \* the names in them, "default" included
  None     \* no name, no file, no declaration

ASSUME ScanConstants ==
  /\ IsFiniteSet(Files) /\ IsFiniteSet(Names)
  /\ "default" \in Names /\ Names \cap {"this", "dotted"} = {}
  /\ None \notin Files \cup Names \cup {"this", "dotted", "cycles", "unused", "impact"}

First(list) == IF list = <<>> THEN None ELSE Head(list)
ById(list, id) == CHOOSE x \in ToSet(list) : x.id = id

\* The members of a set in a list, in the order of the list.
Among(list, set) ==
  LET Upto[n \in 0..Len(list)] ==
        IF n = 0 THEN <<>>
        ELSE IF list[n] \in set THEN Append(Upto[n - 1], list[n]) ELSE Upto[n - 1]
  IN  Upto[Len(list)]

\* Mutant of DepthFirst: it ends where it comes to a place a second time.
DepthFirstOnce(has, next, start) ==
  LET Search[s \in Seq(DOMAIN next) \X SUBSET DOMAIN next] ==
        IF s[1] = <<>> \/ Head(s[1]) \in s[2] THEN None
        ELSE IF has[Head(s[1])] # None THEN has[Head(s[1])]
        ELSE Search[<<next[Head(s[1])] \o Tail(s[1]), s[2] \cup {Head(s[1])}>>]
  IN  Search[<< <<start>>, {} >>]

\* Depth first from a place, through the next ones in their order: what the
\* first place has that has something.  Of a search s, s[1] are the places it
\* still has to visit; what it visited, s[2], is not searched again.
DepthFirst(has, next, start) ==
  LET Search[s \in Seq(DOMAIN next) \X SUBSET DOMAIN next] ==
        IF s[1] = <<>> THEN None
        ELSE IF Head(s[1]) \in s[2] THEN Search[<<Tail(s[1]), s[2]>>]
        ELSE IF has[Head(s[1])] # None THEN has[Head(s[1])]
        ELSE Search[<<next[Head(s[1])] \o Tail(s[1]), s[2] \cup {Head(s[1])}>>]
  IN  Search[<< <<start>>, {} >>]

-----------------------------------------------------------------------------
\* Imports.

\* The imports of a file that resolved to a scanned file, in node order.
ImportsOf(p, file) ==
  Among(p.imports, {i \in ToSet(p.imports) : i.file = file /\ i.target # None})

\* An import without bindings: for its side effects, dynamic, or a re-export.
Unbound(import) == import.bindings = <<>>

\* The names the bindings of a file's imports take, resolved or not.
ImportedNames(p, file) ==
  UNION { {b.local : b \in ToSet(i.bindings)} : i \in {j \in ToSet(p.imports) : j.file = file} }

\* The binding of an import that gives a bare name its meaning.
BindingOf(import, name) ==
  First(Among(import.bindings,
              {b \in ToSet(import.bindings) : b.kind \in {"named", "default"} /\ b.local = name}))

\* The name a re-export of `name` has in its target, or None.
Forwarded(import, name) ==
  LET renamed == First(Among(import.entries, {e \in ToSet(import.entries) : e.exported = name}))
  IN  CASE ~import.reExport -> None
        [] import.reExport /\ import.wildcard ->
             IF import.namespace = None /\ name # "default" THEN name ELSE None
        [] OTHER -> IF renamed = None THEN None ELSE renamed.imported

-----------------------------------------------------------------------------
\* Indexes of declarations by file and name.

Index(declarations) ==
  [ at \in Files \X Names |->
      Among(declarations, {d \in ToSet(declarations) : d.file = at[1] /\ d.name = at[2]}) ]

LookupInFile(index, file, name) ==
  IF index[file, name] = <<>> THEN None ELSE Head(index[file, name]).id

\* Where the re-exports of a file lead for a name, in their order.
ForwardsFrom(p, at) ==
  LET through == Among(ImportsOf(p, at[1]), {i \in ToSet(p.imports) : Forwarded(i, at[2]) # None})
  IN  [n \in DOMAIN through |-> <<through[n].target, Forwarded(through[n], at[2])>>]

\* Mutant of FollowReExports: a barrel behind a barrel is not followed.
FollowOneBarrel(p, index, at) ==
  DepthFirst([x \in Files \X Names |-> LookupInFile(index, x[1], x[2])],
             [x \in Files \X Names |-> IF x = at THEN ForwardsFrom(p, x) ELSE <<>>], at)

FollowReExports(p, index, at) ==
  DepthFirst([x \in Files \X Names |-> LookupInFile(index, x[1], x[2])],
             [x \in Files \X Names |-> ForwardsFrom(p, x)], at)

\* A lookup returns what it found and the cache of its index, which keeps what
\* the lookup started from and not the files in between.
Answer(found, cache) == [found |-> found, cache |-> cache]

LookupExported(p, index, at, cache) ==
  IF at \in DOMAIN cache THEN Answer(cache[at], cache)
  ELSE LET found == FollowReExports(p, index, at)
       IN  Answer(found, [x \in DOMAIN cache \cup {at} |-> IF x = at THEN found ELSE cache[x]])

\* The first answer that a list of places gives; those after it are not asked.
FirstThrough(p, index, places, cache) ==
  LET Upto[n \in 0..Len(places)] ==
        IF n = 0 THEN Answer(None, cache)
        ELSE LET sofar == Upto[n - 1]
             IN  IF sofar.found # None THEN sofar
                 ELSE LookupExported(p, index, places[n], sofar.cache)
  IN  Upto[Len(places)]

\* Where the imports of a file lead for a bare name: one without bindings is
\* looked through for the name itself.
LeadingTo(p, file, name) ==
  LET through == Among(ImportsOf(p, file),
                       {i \in ToSet(p.imports) : Unbound(i) \/ BindingOf(i, name) # None})
  IN  [n \in DOMAIN through |->
         <<through[n].target,
           IF Unbound(through[n]) THEN name ELSE BindingOf(through[n], name).imported>>]

ResolveImported(p, index, file, name, cache) ==
  FirstThrough(p, index, LeadingTo(p, file, name), cache)

ResolveDeclaration(p, index, file, name, cache) ==
  IF LookupInFile(index, file, name) # None THEN Answer(LookupInFile(index, file, name), cache)
  ELSE ResolveImported(p, index, file, name, cache)

\* receiver.callee(): through the namespace or default imports of that name.
MatchesReceiver(import, receiver) ==
  \E b \in ToSet(import.bindings) : b.kind \in {"namespace", "default"} /\ b.local = receiver

ResolveReceiver(p, index, file, receiver, callee, cache) ==
  LET through == Among(ImportsOf(p, file), {i \in ToSet(p.imports) : MatchesReceiver(i, receiver)})
  IN  FirstThrough(p, index, [n \in DOMAIN through |-> <<through[n].target, callee>>], cache)

ResolveCall(p, index, file, receiver, callee, cache) ==
  CASE receiver = None -> ResolveDeclaration(p, index, file, callee, cache)
    [] receiver = "this" -> Answer(LookupInFile(index, file, callee), cache)
    [] OTHER -> ResolveReceiver(p, index, file, receiver, callee, cache)

-----------------------------------------------------------------------------
\* Classes.

\* A class a file names: its own, or one of that name in a file it imports.
ResolveClassName(p, index, file, name) ==
  LET found == Among(ImportsOf(p, file),
                     {i \in ToSet(p.imports) : i.target # None /\ LookupInFile(index, i.target, name) # None})
  IN  IF LookupInFile(index, file, name) # None THEN LookupInFile(index, file, name)
      ELSE IF found = <<>> THEN None ELSE LookupInFile(index, Head(found).target, name)

\* The first method of a name a class declares.
OwnMethod(p, class, name) ==
  LET own == Among(p.functions, {f \in ToSet(p.functions) : f.class = class /\ f.name = name})
  IN  IF own = <<>> THEN None ELSE Head(own).id

\* findMethod: its own, else that of its base classes in order.
Method(p, extends, class, name) ==
  DepthFirst([c \in DOMAIN extends |-> OwnMethod(p, c, name)], extends, class)
=============================================================================
