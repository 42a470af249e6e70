----------------------------- MODULE MCDiscovery -----------------------------
(***************************************************************************)
(* Bounded instance of Discovery: one shape of repository, with the        *)
(* .gitignore lines, the include patterns and the workspace patterns that  *)
(* make its files differ.                                                  *)
(***************************************************************************)
EXTENDS Discovery, TLC

\* The paths that are in every tree; "link" leads to a file.
Kinds ==
  (<<"a">> :> "directory") @@ (<<"a", "k">> :> "file") @@ (<<"a", "l">> :> "file")
    @@ (<<"a", "b">> :> "directory") @@ (<<"a", "b", "k">> :> "file")
    @@ (<<"c">> :> "directory") @@ (<<"c", "k">> :> "link") @@ (<<"c", "l">> :> "broken")
Vendored ==
  (<<"a", "go.mod">> :> "file") @@ (<<"a", "vendor">> :> "directory")
    @@ (<<"a", "vendor", "k">> :> "file")

Of(name) == Line(<<name>>)
Back(line) == [line EXCEPT !.negated = TRUE]
Only(line) == [line EXCEPT !.directoryOnly = TRUE]
RootLines == {Of("k"), Of("l"), Only(Of("b")), Back(Of("k")), Back(Of("l")), Line(<<"a", "k">>), Line(<<"**", "b", "*">>)}
NestedLines == {Back(Of("k")), [Of("k") EXCEPT !.rooted = TRUE], Back(Of("b")), Of("*"), Back(Line(<<"b", "k">>))}

Tree(kinds, contents) == [kind |-> kinds, content |-> contents]
Ignoring(root, nested, more) ==
  LET written == (IF root = <<>> THEN <<>> ELSE (<<".gitignore">> :> root))
                   @@ (IF nested = <<>> THEN <<>> ELSE (<<"a", ".gitignore">> :> nested))
  IN  Tree(Kinds @@ more @@ [p \in DOMAIN written |-> "file"], written)

All == << <<"**", "*">> >>
Options(include, negated, exclude) == [include |-> include, negated |-> negated, exclude |-> exclude]

Ignored2 ==
  {[tree |-> Ignoring(root, nested, <<>>), options |-> Options(All, <<>>, <<>>)] :
     root \in {<<>>} \cup {<<l>> : l \in RootLines} \cup {<<Of("k"), Back(Of("k"))>>, <<Back(Of("k")), Of("*")>>, <<Of("b"), Back(Only(Of("b")))>>},
     nested \in {<<>>} \cup {<<l>> : l \in NestedLines}}

Chosen ==
  {[tree |-> Ignoring(<<>>, <<>>, more), options |-> Options(include, negated, exclude)] :
     more \in {<<>>, Vendored},
     include \in {All, << <<"a", "*">> >>, << <<"a", "**">>, <<"c", "l">> >>, << <<"*", "k">> >>,
                  << <<"**", "b", "k">> >>, << <<"a", "b", "k">> >>, << <<"a">> >>},
     negated \in {<<>>, << <<"*", "k">> >>},
     exclude \in {<<>>, <<Of("l")>>}}

\* Repositories with packages: p below packages and below p, one of them
\* installed, one unreadable.
Says(workspaces) == [workspaces |-> workspaces]
Glob(names) == [negated |-> FALSE, glob |-> names]
Without(pattern) == [pattern EXCEPT !.negated = TRUE]
Packages ==
  (<<"packages">> :> "directory") @@ (<<"packages", "p">> :> "directory")
    @@ (<<"packages", "p", "package.json">> :> "file") @@ (<<"packages", "p", "k">> :> "file")
    @@ (<<"packages", "p", "q">> :> "directory") @@ (<<"packages", "p", "q", "package.json">> :> "file")
    @@ (<<"packages", "p", "q", "k">> :> "file")
    @@ (<<"packages", "p", "node_modules">> :> "directory")
    @@ (<<"packages", "p", "node_modules", "package.json">> :> "file")
    @@ (<<"packages", "k">> :> "file")
Workspaces ==
  {<<>>} \cup {<<Glob(g)>> : g \in {<<"packages", "*">>, <<"packages", "**">>, <<"packages", "p">>, <<"*">>, <<"**">>, <<"packages", "*", "q">>}}
         \cup {<<Without(Glob(<<"packages", "*">>))>>, <<Glob(<<"packages", "p", "*">>), Without(Glob(<<"packages", "*">>))>>}
Owned ==
  {[tree |-> Tree(Packages
                    @@ (IF root = <<>> THEN <<>> ELSE (<<"package.json">> :> "file"))
                    @@ (IF pnpm = <<>> THEN <<>> ELSE (<<"pnpm-workspace.yaml">> :> "file")),
                  (<<"packages", "p", "package.json">> :> p) @@ (<<"packages", "p", "q", "package.json">> :> Says(<<>>))
                    @@ (<<"packages", "p", "node_modules", "package.json">> :> Says(<<>>))
                    @@ (<<"package.json">> :> (IF root = <<>> THEN Broken ELSE root[1]))
                    @@ (<<"pnpm-workspace.yaml">> :> pnpm)),
    options |-> Options(All, <<>>, <<>>)] :
      root \in {<<>>, <<Broken>>} \cup {<<Says(w)>> : w \in Workspaces},
      pnpm \in {<<>>, <<Glob(<<"packages", "p">>)>>, <<Without(Glob(<<"packages", "p">>))>>, <<Glob(<<"packages", "**">>)>>},
      p \in {Broken, Says(<<>>)}}

MCNames == STRING
MCScans == Ignored2 \cup Chosen \cup Owned
MCExcluded ==
  {[tree |-> Ignoring(root, <<>>, <<>>), options |-> Options(All, <<>>, <<Of("k")>>)] :
     root \in {<<>>, <<Back(Of("k"))>>, <<Of("l")>>}}
=============================================================================
