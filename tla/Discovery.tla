------------------------------ MODULE Discovery ------------------------------
(***************************************************************************)
(* The file list of a scan and the workspace packages the files belong to  *)
(* (core/scan: discover-files.ts, gitignore.ts, glob.ts,                   *)
(* workspace-packages.ts).                                                 *)
(*                                                                         *)
(* A path is a sequence of names, the root is <<>>.  A tree gives each     *)
(* path its kind and its content, as far as a scan reads it here: the      *)
(* lines of a .gitignore, what package.json says, the patterns of          *)
(* pnpm-workspace.yaml.  A glob is a sequence of segments: "**", "*" or a  *)
(* name; other wildcards inside a name and braces are left out.            *)
(***************************************************************************)
EXTENDS Integers, Sequences, FiniteSets, SequencesExt, FiniteSetsExt

CONSTANTS
  Names,        \* the names of files, and the segments of globs
  Scans,        \* the scans: records of a tree and of the options
  Broken,       \* the content of a package.json that does not parse
  MaxRemovals   \* bound: how often something is removed during a walk

VARIABLES
  options,    \* include, negated (include), exclude
  before,     \* the tree when the scan began
  tree,       \* the tree now
  rules,      \* GitIgnore.groups: the rules of a base directory, in order
  visits,     \* the visits of walkFiles, by directory
  files,      \* the paths the walk has accepted
  outcome,    \* "walking", "listed", "failed", "owned"
  packages,   \* the directories of the Package nodes
  owner       \* PACKAGE_CONTAINS_FILE: the package of a file

vars == <<options, before, tree, rules, visits, files, outcome, packages, owner>>

Prefix(path, n) == SubSeq(path, 1, n)
Rest(path, n) == SubSeq(path, n + 1, Len(path))
Within(path, directory) ==
  Len(directory) <= Len(path) /\ Prefix(path, Len(directory)) = directory
Name(path) == path[Len(path)]
There(t, path) == path = <<>> \/ path \in DOMAIN t.kind
NamesIn(t, directory) ==
  {Name(p) : p \in {p \in DOMAIN t.kind : Within(p, directory) /\ Len(p) = Len(directory) + 1}}
Lists(t, directory, name) == Append(directory, name) \in DOMAIN t.kind

-----------------------------------------------------------------------------
\* Globs.

SegmentFits(segment, name) == segment \in {"*", name}

\* The regular expression of a glob: how far into the path its first n segments
\* can reach.  A "**" is any number of names, and at least one at the end.
Fits(glob, path) ==
  LET Ends[n \in 0..Len(glob)] ==
        IF n = 0 THEN {0}
        ELSE {e \in 0..Len(path) : \E from \in Ends[n - 1] :
                IF glob[n] = "**" THEN from <= e /\ (n = Len(glob) => from < e)
                ELSE e = from + 1 /\ SegmentFits(glob[n], path[e])}
  IN  Len(path) \in Ends[Len(glob)]

\* May a directory contain matches: the walk leaves the others out.
MayContain(glob, directory) ==
  LET fitsUpTo(n) == \A i \in 1..n : SegmentFits(glob[i], directory[i])
  IN  \/ Len(directory) < Len(glob) /\ fitsUpTo(Len(directory))
      \/ \E n \in 1..Len(directory) : n <= Len(glob) /\ glob[n] = "**" /\ fitsUpTo(n - 1)

\* The leading names of a glob, where its walk starts.
Base(glob) ==
  LET literal == {n \in 0..(Len(glob) - 1) : \A i \in 1..n : glob[i] \notin {"*", "**"}}
  IN  Prefix(glob, CHOOSE n \in literal : \A m \in literal : m <= n)

-----------------------------------------------------------------------------
\* Ignore rules.

\* parseRule: a slash at the start or in the middle ties a line to its base.
Rule(line) ==
  [glob |-> IF line.rooted \/ Len(line.names) > 1 THEN line.names ELSE <<"**">> \o line.names,
   negated |-> line.negated, directoryOnly |-> line.directoryOnly]

\* An empty line is no rule.
Rules(lines) ==
  LET Upto[n \in 0..Len(lines)] ==
        IF n = 0 THEN <<>>
        ELSE IF lines[n].names = <<>> THEN Upto[n - 1]
        ELSE Append(Upto[n - 1], Rule(lines[n]))
  IN  Upto[Len(lines)]

GroupOf(groups, base) == IF base \in DOMAIN groups THEN groups[base] ELSE <<>>

AddRules(groups, lines, base) ==
  IF Rules(lines) = <<>> THEN groups
  ELSE [b \in DOMAIN groups \cup {base} |->
          IF b = base THEN GroupOf(groups, b) \o Rules(lines) ELSE groups[b]]

Applies(rule, path, isDirectory) == (rule.directoryOnly => isDirectory) /\ Fits(rule.glob, path)

\* What a group makes of a verdict: its last rule that applies decides.
Decide(verdict, group, path, isDirectory) ==
  LET After[n \in 0..Len(group)] ==
        IF n = 0 THEN verdict
        ELSE IF ~Applies(group[n], path, isDirectory) THEN After[n - 1]
        ELSE IF group[n].negated THEN "kept" ELSE "ignored"
  IN  After[Len(group)]

\* GitIgnore.ignores: every group of the chain, from the root down.
Ignores(groups, path, isDirectory) ==
  LET Verdict[depth \in 0..Len(path)] ==
        IF depth = 0 THEN "kept"
        ELSE Decide(Verdict[depth - 1], GroupOf(groups, Prefix(path, depth - 1)),
                    Rest(path, depth - 1), isDirectory)
  IN  Verdict[Len(path)] = "ignored"

Line(names) == [names |-> names, rooted |-> FALSE, directoryOnly |-> FALSE, negated |-> FALSE]
DefaultIgnores == << Line(<<".git">>), Line(<<"node_modules">>), Line(<<"dist">>) >>
VendorLine == [names |-> <<"vendor">>, rooted |-> TRUE, directoryOnly |-> TRUE, negated |-> FALSE]

-----------------------------------------------------------------------------
\* Trees: every path but the root's children has its directory; what a
\* .gitignore says are lines, and what the root says of workspaces are patterns.

Lines == [names : Seq(Names), rooted : BOOLEAN, directoryOnly : BOOLEAN, negated : BOOLEAN]
Patterns == [negated : BOOLEAN, glob : Seq(Names)]

ManifestOf(directory) == Append(directory, "package.json")
Readable(t, directory) ==
  LET path == ManifestOf(directory)
  IN  There(t, path) /\ t.kind[path] \in {"file", "link"} /\ t.content[path] # Broken

IsTree(t) ==
  /\ IsFiniteSet(DOMAIN t.kind)
  /\ DOMAIN t.kind \subseteq Seq(Names) \ {<<>>}
  /\ \A p \in DOMAIN t.kind :
       /\ Len(p) > 1 => /\ Prefix(p, Len(p) - 1) \in DOMAIN t.kind
                        /\ t.kind[Prefix(p, Len(p) - 1)] = "directory"
       /\ Name(p) = ".gitignore" /\ t.kind[p] \in {"file", "link"} => t.content[p] \in Seq(Lines)
  /\ Readable(t, <<>>) => t.content[<<"package.json">>].workspaces \in Seq(Patterns)
  /\ There(t, <<"pnpm-workspace.yaml">>) => t.content[<<"pnpm-workspace.yaml">>] \in Seq(Patterns)

ASSUME DiscoveryConstants ==
  /\ {"*", "**", ".git", "node_modules", "dist", "vendor", ".gitignore", "go.mod",
       "packages", "package.json"} \subseteq Names
  /\ MaxRemovals \in Nat
  /\ \A scan \in Scans :
       /\ IsTree(scan.tree)
       /\ scan.options.include \in Seq(Seq(Names))
       /\ scan.options.negated \in Seq(Seq(Names))
       /\ scan.options.exclude \in Seq(Lines)

-----------------------------------------------------------------------------
\* The walk.

Init ==
  /\ \E scan \in Scans : options = scan.options /\ tree = scan.tree
  /\ before = tree
  /\ rules = AddRules(AddRules(<<>>, DefaultIgnores, <<>>), options.exclude, <<>>)
  /\ visits = [d \in {<<>>} |-> [step |-> "list"]]
  /\ files = {}
  /\ outcome = "walking"
  /\ packages = {} /\ owner = <<>>

\* The accept callback of discoverFiles.
Accepts(path, isDirectory) ==
  /\ ~Ignores(rules, path, isDirectory)
  /\ IF isDirectory THEN \E n \in DOMAIN options.include : MayContain(options.include[n], path)
     ELSE /\ \E n \in DOMAIN options.include : Fits(options.include[n], path)
          /\ \A n \in DOMAIN options.negated : ~Fits(options.negated[n], path)

At(directory, step) == outcome = "walking" /\ directory \in DOMAIN visits /\ visits[directory].step = step

\* readdir; a directory that is gone has no entries.
ListDirectory(directory) ==
  /\ At(directory, "list")
  /\ visits' = [visits EXCEPT ![directory] =
                  IF ~There(tree, directory) THEN [step |-> "done"]
                  ELSE [step |-> "enter", into |-> {},
                        left |-> [name \in NamesIn(tree, directory) |-> tree.kind[Append(directory, name)]]]]
  /\ UNCHANGED <<options, before, tree, rules, files, outcome, packages, owner>>

\* The lines of a directory's .gitignore, if it still is there.
GitIgnoreLines(t, directory) ==
  LET path == Append(directory, ".gitignore")
  IN  IF There(t, path) /\ t.kind[path] \in {"file", "link"} THEN t.content[path] ELSE <<>>

\* Mutant of EnterDirectory: the visit does not wait for it, and the rules come
\* too late (here: never).
EnterAtOnce(directory) ==
  /\ At(directory, "enter")
  /\ rules' = rules
  /\ visits' = [visits EXCEPT ![directory].step = "filter"]
  /\ UNCHANGED <<options, before, tree, files, outcome, packages, owner>>

\* enterDirectory, before the entries are looked at.
EnterDirectory(directory) ==
  /\ At(directory, "enter")
  /\ LET listed == DOMAIN visits[directory].left
         read == IF ".gitignore" \in listed
                 THEN AddRules(rules, GitIgnoreLines(tree, directory), directory) ELSE rules
     IN  rules' = IF {"go.mod", "vendor"} \subseteq listed
                  THEN AddRules(read, <<VendorLine>>, directory) ELSE read
  /\ visits' = [visits EXCEPT ![directory].step = "filter"]
  /\ UNCHANGED <<options, before, tree, files, outcome, packages, owner>>

\* One entry; what a link leads to is looked up only now.
FilterEntry(directory) ==
  /\ At(directory, "filter") /\ visits[directory].left # <<>>
  /\ LET left == visits[directory].left
         name == CHOOSE name \in DOMAIN left : TRUE
         path == Append(directory, name)
         enters == left[name] = "directory" /\ Accepts(path, TRUE)
         isFile == left[name] = "file" \/ (left[name] = "link" /\ There(tree, path))
     IN  /\ visits' = [visits EXCEPT ![directory] =
                         [step |-> "filter", into |-> @.into \cup {p \in {path} : enters},
                          left |-> [n \in DOMAIN left \ {name} |-> left[n]]]]
         /\ files' = IF left[name] # "directory" /\ isFile /\ Accepts(path, FALSE)
                     THEN files \cup {path} ELSE files
  /\ UNCHANGED <<options, before, tree, rules, outcome, packages, owner>>

\* The subdirectories are visited at the same time.
VisitSubdirectories(directory) ==
  /\ At(directory, "filter") /\ visits[directory].left = <<>>
  /\ LET into == visits[directory].into
     IN  visits' = [d \in DOMAIN visits \cup into |->
                      IF d = directory THEN [step |-> "done"]
                      ELSE IF d \in into THEN [step |-> "list"] ELSE visits[d]]
  /\ UNCHANGED <<options, before, tree, rules, files, outcome, packages, owner>>

\* readdir, or the reading of a .gitignore, fails for another reason.
VisitFails(directory) ==
  /\ At(directory, "list") \/ (At(directory, "enter") /\ ".gitignore" \in DOMAIN visits[directory].left)
  /\ outcome' = "failed"
  /\ UNCHANGED <<options, before, tree, rules, visits, files, packages, owner>>

WalkEnds ==
  /\ outcome = "walking"
  /\ \A d \in DOMAIN visits : visits[d].step = "done"
  /\ outcome' = "listed"
  /\ UNCHANGED <<options, before, tree, rules, visits, files, packages, owner>>

\* Somebody removes a file or a directory meanwhile.
RemovePath(path) ==
  /\ outcome = "walking"
  /\ Cardinality({p \in DOMAIN before.kind : ~There(tree, p) /\ There(tree, Prefix(p, Len(p) - 1))}) < MaxRemovals
  /\ tree' = [kind |-> [p \in {p \in DOMAIN tree.kind : ~Within(p, path)} |-> tree.kind[p]],
              content |-> tree.content]
  /\ UNCHANGED <<options, before, rules, visits, files, outcome, packages, owner>>

-----------------------------------------------------------------------------
\* Workspace packages.

CommonWorkspaces == {[negated |-> FALSE, glob |-> <<"packages", "*">>]}

\* The patterns of package.json and of pnpm-workspace.yaml, or the usual ones.
WorkspacePatterns(t) ==
  LET own == IF Readable(t, <<>>) THEN ToSet(t.content[<<"package.json">>].workspaces) ELSE {}
      pnpm == IF There(t, <<"pnpm-workspace.yaml">>)
              THEN {p \in ToSet(t.content[<<"pnpm-workspace.yaml">>]) : ~p.negated} ELSE {}
  IN  IF own \cup pnpm = {} THEN CommonWorkspaces ELSE own \cup pnpm

\* walkFiles for the package.json files a glob matches: it visits the directory
\* it starts in, and what it enters from there.
ManifestsBelow(t, start, glob) ==
  LET enters(p) == t.kind[p] = "directory" /\ Name(p) # "node_modules" /\ MayContain(glob, p)
      visited(d) == Within(d, start) /\ \A n \in (Len(start) + 1)..Len(d) : enters(Prefix(d, n))
  IN  {p \in DOMAIN t.kind : /\ visited(Prefix(p, Len(p) - 1))
                             /\ t.kind[p] \in {"file", "link"} /\ Fits(glob, p)}

FindWorkspaceManifests(t, pattern) ==
  LET glob == Append(pattern.glob, "package.json")
  IN  IF pattern.negated THEN {} ELSE ManifestsBelow(t, Base(glob), glob)

DetectPackages(t) ==
  LET found == UNION {FindWorkspaceManifests(t, pattern) : pattern \in WorkspacePatterns(t)}
  IN  {d \in {<<>>} \cup {Prefix(p, Len(p) - 1) : p \in found} : Readable(t, d)}

\* Mutant of Nearest: the outermost package comes first.
Outermost(file, directories) ==
  CHOOSE d \in directories : \A e \in directories : Within(file, e) => Within(file, d) /\ Len(d) <= Len(e)

\* The packages are tried from the deepest to the outermost.
Nearest(file, directories) ==
  CHOOSE d \in directories : \A e \in directories : Within(file, e) => Within(file, d) /\ Len(e) <= Len(d)

\* addWorkspacePackageGraph: a file belongs to the first package around it.
AddPackages ==
  /\ outcome = "listed"
  /\ packages' = DetectPackages(tree)
  /\ owner' = [f \in {f \in files : \E d \in packages' : Within(f, d)} |-> Nearest(f, packages')]
  /\ outcome' = "owned"
  /\ UNCHANGED <<options, before, tree, rules, visits, files>>

\* readdir fails below a pattern, or a package.json holds null: the scan rejects.
PackagesFail ==
  /\ outcome = "listed"
  /\ outcome' = "failed"
  /\ UNCHANGED <<options, before, tree, rules, visits, files, packages, owner>>

Visit(directory) ==
  \/ ListDirectory(directory)
  \/ EnterDirectory(directory)
  \/ FilterEntry(directory)
  \/ VisitSubdirectories(directory)
  \/ VisitFails(directory)

Next ==
  \/ \E directory \in DOMAIN visits : Visit(directory)
  \/ \E path \in DOMAIN tree.kind : RemovePath(path)
  \/ WalkEnds
  \/ AddPackages
  \/ PackagesFail

Spec == Init /\ [][Next]_vars

-----------------------------------------------------------------------------
\* What git says of a tree, without a walk: of all lines that apply to a path,
\* from the directories above it, the last of the deepest directory decides.
LinesOf(t, directory) ==
  (IF directory = <<>> THEN DefaultIgnores \o options.exclude ELSE <<>>)
    \o GitIgnoreLines(t, directory)
    \o (IF Lists(t, directory, "go.mod") /\ Lists(t, directory, "vendor") THEN <<VendorLine>> ELSE <<>>)

Ignored(t, path, isDirectory) ==
  \E depth \in 0..(Len(path) - 1) :
    LET lines(d) == Rules(LinesOf(t, Prefix(path, d)))
        applying(d) == {n \in DOMAIN lines(d) : Applies(lines(d)[n], Rest(path, d), isDirectory)}
    IN  /\ applying(depth) # {} /\ ~lines(depth)[Max(applying(depth))].negated
        /\ \A deeper \in (depth + 1)..(Len(path) - 1) : applying(deeper) = {}

\* Neither the file nor a directory above it is ignored, and it is included.
Wanted(t, path) ==
  /\ ~Ignored(t, path, FALSE)
  /\ \A n \in 1..(Len(path) - 1) : ~Ignored(t, Prefix(path, n), TRUE)
  /\ \E glob \in ToSet(options.include) : Fits(glob, path)
  /\ \A glob \in ToSet(options.negated) : ~Fits(glob, path)

Sources(t) == {p \in DOMAIN t.kind : t.kind[p] \in {"file", "link"} /\ Wanted(t, p)}

\* However the visits of directories interleave, a walk lists the files git
\* would not ignore and the options include: all of those that are still there
\* and wanted whether or not something was removed meanwhile, and nothing else
\* that is there.  (discover-files.ts discoverFiles, glob.ts walkFiles)
SourcesAreListed ==
  outcome \in {"listed", "owned"} =>
    /\ Sources(before) \cap Sources(tree) \subseteq files
    /\ files \cap DOMAIN tree.kind \subseteq Sources(before) \cup Sources(tree)

\* The packages are the directories whose package.json some pattern matches,
\* wherever a walk would start and what it would skip, and each file belongs to
\* the nearest of them.  (workspace-packages.ts; glob.ts mayContain, base)
PackagesOwnTheirFiles ==
  outcome = "owned" =>
    LET globs == {Append(p.glob, "package.json") : p \in {p \in WorkspacePatterns(tree) : ~p.negated}}
        installed(d, glob) == \E n \in (Len(Base(glob)) + 1)..Len(d) : d[n] = "node_modules"
        named == {d \in {<<>>} \cup DOMAIN tree.kind :
                    d = <<>> \/ \E glob \in globs : Fits(glob, ManifestOf(d)) /\ ~installed(d, glob)}
    IN  /\ packages = {d \in named : Readable(tree, d)}
        /\ \A f \in files :
             LET around == {d \in packages : Within(f, d)}
             IN  IF around = {} THEN f \notin DOMAIN owner
                 ELSE owner[f] \in around /\ \A d \in around : Within(owner[f], d)

\* docs/getting-started.md:67: "--exclude <glob> (repeatable) skips paths".  A
\* .gitignore comes later and can take it back: the code does not do what this
\* says.
ExcludedPathsAreSkipped ==
  outcome = "listed" =>
    \A f \in files : \A n \in DOMAIN options.exclude :
      ~Applies(Rule(options.exclude[n]), f, FALSE)
=============================================================================
