--------------------------- MODULE MCScanAnalyses ---------------------------
(* Small families of projects for TLC: barrels, defaults, classes, import  *)
(* graphs, and call graphs with what the contributors add to them.         *)
EXTENDS ScanAnalyses

ABCD == <<"a", "b", "c", "d">>

\* The elements of a set, in some order.
RECURSIVE Listed(_)
Listed(set) == IF set = {} THEN <<>> ELSE LET x == CHOOSE x \in set : TRUE IN <<x>> \o Listed(set \ {x})

Nothing ==
  [functions |-> <<>>, classes |-> <<>>, variables |-> <<>>, imports |-> <<>>, calls |-> <<>>,
   defaults |-> [f \in Files |-> None], forwards |-> [f \in Files |-> None], dependencies |-> {},
   entries |-> <<>>, tests |-> {}, handlers |-> {}, routes |-> {}, requests |-> {}, implements |-> {},
   renders |-> {}, pages |-> {}, loads |-> {}, stores |-> {}, writes |-> {}, reads |-> <<>>,
   actions |-> {}, definitions |-> {}]

Function(file, name, class, params) ==
  [id |-> <<"function", file, class, name>>, file |-> file, name |-> name, class |-> class,
   params |-> params, exported |-> name # "run"]
Class(file, name, bases, fields) ==
  [id |-> <<"class", file, name>>, file |-> file, name |-> name, bases |-> bases, fields |-> fields,
   exported |-> TRUE]
Variable(file, name, kind, declares, init) ==
  [id |-> <<"variable", file, name>>, file |-> file, name |-> name, kind |-> kind,
   declares |-> declares, init |-> init, exported |-> TRUE]
Call(caller, file, receiver, callee) ==
  [id |-> <<"call", caller, receiver, callee>>, caller |-> caller, file |-> file, receiver |-> receiver,
   callee |-> callee, field |-> None, new |-> FALSE, require |-> None]
Import(file, target, bindings) ==
  [file |-> file, target |-> target, bindings |-> bindings, reExport |-> FALSE, wildcard |-> FALSE,
   namespace |-> None, entries |-> <<>>, cjs |-> FALSE, typeOnly |-> FALSE, dynamic |-> FALSE]
Binding(imported, local, kind) == [imported |-> imported, local |-> local, kind |-> kind]
ReExport(file, target, imported, exported) ==
  [Import(file, target, <<>>) EXCEPT !.reExport = TRUE,
                                     !.entries = << [imported |-> imported, exported |-> exported] >>]
ExportAll(file, target, namespace) ==
  [Import(file, target, <<>>) EXCEPT !.reExport = TRUE, !.wildcard = TRUE, !.namespace = namespace]

Run(params) == Function("a", "run", None, params)
RunId == Run({}).id

\* File a imports f, or looks through a side effect, from the barrels b and c.
Forwards(from, to) ==
  {<<>>, <<ExportAll(from, to, None)>>, <<ReExport(from, to, "f", "f")>>, <<ReExport(from, to, "g", "f")>>,
   <<ExportAll(from, to, "f")>>}
ImportsOfA ==
  {<<Import("a", "b", <<Binding("f", "f", "named")>>)>>,
   <<Import("a", "c", <<Binding("f", "f", "named")>>), Import("a", "b", <<Binding("g", "g", "named")>>)>>,
   <<Import("a", "b", <<Binding("g", "f", "named"), Binding("f", "g", "named")>>)>>,
   <<Import("a", "b", <<Binding("f", "ns", "namespace")>>)>>,
   <<[Import("a", "b", <<>>) EXCEPT !.dynamic = TRUE]>>,
   <<Import("a", "b", <<>>), Import("a", "c", <<Binding("f", "f", "named")>>)>>,
   <<Import("a", None, <<Binding("f", "f", "named")>>)>>}
Offering == {Function(file, name, None, {}) : file \in {"b", "c"}, name \in {"f", "g"}}

\* What else file a may call f: nothing, a parameter, an object's property, a variable.
Scopes ==
  {[functions |-> <<Run({})>>, variables |-> <<>>],
   [functions |-> <<Run({"f"})>>, variables |-> <<>>],
   [functions |-> <<Run({}), Function("a", "f", None, {})>>, variables |-> <<>>],
   [functions |-> <<Run({}), Function("a", "f", None, {})>>,
    variables |-> <<Variable("a", "f", "const", None, None)>>]}

Barrels ==
  { [Nothing EXCEPT !.functions = shown[1].functions \o Listed(offered),
                    !.imports = i \o b \o c,
                    !.variables = IF \E x \in ToSet(i) : BindingOf(x, "f") # None THEN <<>> ELSE shown[1].variables,
                    !.entries = shown[2],
                    !.calls = <<Call(RunId, "a", None, "f"), Call(None, "a", "ns", "g")>>] :
      shown \in (Scopes \X {<<>>}) \cup {<<[functions |-> <<Run({})>>, variables |-> <<>>], <<"b">> >>},
      offered \in SUBSET Offering, i \in ImportsOfA, b \in Forwards("b", "c"),
      c \in {<<>>, <<ExportAll("c", "b", None)>>, <<ReExport("c", "b", "f", "g")>>} }

\* A circle of the barrels b and c, with the import of its own export in file a.
Circles ==
  { [Nothing EXCEPT
       !.functions = <<Function("a", "f", None, {})>>, !.entries = e,
       !.imports = back \o b \o c \o <<Import("d", from, <<Binding("g", "g", "named")>>)>>] :
      back \in {<<>>, <<Import("a", "b", <<Binding("g", "g", "named")>>)>>}, from \in {"b", "c"},
      e \in {<<>>, <<"b">>, <<"c", "b">>},
      b \in {<<ExportAll("b", "c", None), ReExport("b", "a", "f", "g")>>,
             <<ReExport("b", "a", "f", "g"), ExportAll("b", "c", None)>>},
      c \in {<<ExportAll("c", "b", None)>>, <<ReExport("c", "b", "g", "g")>>, <<ExportAll("c", "b", "g")>>} }

\* A default of a file: a function or class of that name, unless a variable
\* has the name; or what the file requires and exports.
Defaults ==
  { [Nothing EXCEPT
       !.functions = <<Run({}), Function("c", "f", None, {})>> \o own,
       !.classes = <<Class("c", "A", <<>>, <<>>)>>,
       !.variables = v,
       !.imports = <<[Import("a", "b", <<Binding("default", "f", "default")>>) EXCEPT !.cjs = cjs]>>
                      \o <<[Import("b", "c", <<Binding("default", "g", "default")>>) EXCEPT !.cjs = TRUE]>> \o r,
       !.defaults = ("c" :> name) @@ @,
       !.forwards = ("b" :> "c") @@ ("c" :> back) @@ @,
       !.calls = <<Call(RunId, "a", None, "f"), Call(RunId, "a", "f", "g"), Call(None, "a", None, None),
                   [Call(RunId, "a", None, None) EXCEPT !.require = "b", !.id = <<"call", "required">>],
                   [Call(None, "a", None, "f") EXCEPT !.new = TRUE, !.id = <<"call", "new f">>]>>] :
      own \in {<<>>, <<Function("b", "default", None, {})>>, <<Function("c", "constructor", <<"class", "c", "A">>, {})>>},
      v \in {<<>>, <<Variable("c", "f", "const", None, None)>>,
             <<Variable("c", "f", "const", Function("c", "f", None, {}).id, None)>>},
      cjs \in BOOLEAN, name \in {None, "f", "A"}, back \in {None, "b"},
      r \in {<<>>, <<ReExport("c", "d", "f", "default")>>, <<ReExport("b", "c", "f", "g")>>} }

\* Classes of three files that may extend each other in any way, with calls
\* through each of them.
Named(file, target, name) == Import(file, target, <<Binding(name, name, "named")>>)
MethodsIn(file, class, methods) ==
  [n \in DOMAIN methods |-> Function(file, methods[n], <<"class", file, class>>, {})]

Classes ==
  { [Nothing EXCEPT
       !.functions = <<Run(hidden)>> \o MethodsIn("a", "A", ma) \o MethodsIn("b", "B", mb) \o MethodsIn("c", "C", mc),
       !.classes = <<Class("a", "A", ba, <<[name |-> "x", type |-> field[1], injected |-> field[2]],
                                            [name |-> "x", type |-> None, injected |-> TRUE]>>),
                     Class("b", "B", bb, <<>>), Class("c", "C", bc, <<>>)>>,
       !.variables = <<Variable("a", "x", "const", None, "A"), Variable("b", "f", "const", None, "B")>>,
       !.imports = <<Named("a", "b", "B"), Named("a", "c", "C"), Named("a", "b", "f"), Named("b", "a", "A"),
                     Named("b", "c", "C"), Named("c", "a", "A")>>,
       !.calls = <<[Call(RunId, "a", None, "A") EXCEPT !.new = TRUE], Call(RunId, "a", "A", "m"),
                   Call(RunId, "a", "x", "m"), Call(RunId, "a", "f", "m"), Call(RunId, "a", "this", "run"),
                   [Call(ma1, "a", "dotted", "m") EXCEPT !.field = "x"]>>] :
      hidden \in {{}, {"x"}}, field \in {<<"A", FALSE>>, <<"B", TRUE>>},
      ma1 \in {RunId, Function("a", "g", <<"class", "a", "A">>, {}).id},
      ma \in {<<"g">>, <<"g", "m">>}, mb \in {<<>>, <<"m">>, <<"m", "constructor">>}, mc \in {<<>>, <<"m", "constructor">>},
      ba \in {<<>>, <<"B">>, <<"C", "B">>, <<"B", "C", "B">>}, bb \in {<<>>, <<"C">>, <<"A">>}, bc \in {<<>>, <<"A">>} }

\* Import graphs of three files with edges for types only, and a fourth file
\* on some loops; dependency graphs of four packages.
Pairs(files) == {e \in files \X files : e[1] # e[2]}
Edge(e, typeOnly) == [Import(e[1], e[2], <<Binding("f", "f", "named")>>) EXCEPT !.typeOnly = typeOnly]

FileGraphs ==
  { [Nothing EXCEPT !.imports = Listed({Edge(e, FALSE) : e \in {e \in DOMAIN kind : kind[e] = "runtime"} \cup more}
                                           \cup {Edge(e, TRUE) : e \in {e \in DOMAIN kind : kind[e] = "type"}})] :
      kind \in [Pairs({"a", "b", "c"}) -> {"none", "runtime", "type"}],
      more \in {{<<"c", "d">>}, {<<"c", "d">>, <<"d", "b">>}} }
PackageGraphs == { [Nothing EXCEPT !.dependencies = e] : e \in SUBSET Pairs(Files) }

Fn(name) == Function("a", name, None, {}).id

\* Call graphs of three functions, one of them called by a fourth, with an
\* interface, a request and stores.
CallGraphs ==
  { [Nothing EXCEPT
       !.functions = [n \in 1..3 |-> Function("a", <<"f", "g", "m">>[n], None, {})] \o <<Run({})>>,
       !.calls = Listed({Call(Fn(e[1]), "a", None, e[2]) : e \in calls})
                   \o <<Call(None, "a", None, "g"), Call(RunId, "a", None, "m"), Call(Fn("f"), "a", "x", "get")>>,
       !.routes = routes, !.requests = {<<Call(Fn("f"), "a", "x", "get").id, "route">>},
       !.implements = {<<"K", Fn(shown)>>}, !.renders = {<<"L", "K">>, <<"M", "L">>},
       !.pages = {<<"page", "L">>}, !.loads = {<<"load", Fn("m")>>},
       !.stores = {"s", "t", "u"}, !.writes = writes, !.actions = {<<"u", Fn("m")>>},
       !.reads = reads, !.definitions = {<<"t", Fn("g")>>, <<"u", Fn("f")>>}] :
      calls \in SUBSET Pairs({"f", "g", "m"}), routes \in {{}, {<<"route", Fn("m")>>}},
      shown \in {"f", "g"}, writes \in {{}, {<<Fn("m"), "s">>}},
      reads \in {<<>>, <<<<Fn("f"), "s">>>>, << <<Fn("f"), "t">>, <<Fn("g"), "s">> >>} }

AllProjects == <<Barrels, Circles, Defaults, Classes, FileGraphs, PackageGraphs, CallGraphs>>

\* Bound: a tool is called on the projects made for it.
AskedOfItsFamily ==
  CASE answer'.tool = "impact" -> project.stores # {}
    [] answer'.tool = "cycles" -> project.functions = <<>>
    [] answer'.tool = "unused" -> project.stores = {} /\ project.functions # <<>>
    [] OTHER -> TRUE

=============================================================================
