-------------------------- MODULE MCCypherEngine --------------------------
(* Small instances of CypherEngine for TLC. *)
EXTENDS CypherEngine

Joins == "DEFINES" :> [from |-> "File", to |-> "Function"]
      @@ "CALLS" :> [from |-> "Function", to |-> "Function"]

\* The id of g begins with the id of f.
Nesting == [i \in {"f", "g", "h"} |-> IF i = "g" THEN <<"f">> ELSE <<>>]

N(name, labels) == [name |-> name, labels |-> labels, props |-> {}]
NamedN(name, labels, e) == [name |-> name, labels |-> labels, props |-> {e}]
R(name, types, direction) ==
  [name |-> name, types |-> types, direction |-> direction, min |-> 1, max |-> 1, hops |-> FALSE]
Hops(name, types, direction, min, max) ==
  [name |-> name, types |-> types, direction |-> direction, min |-> min, max |-> max, hops |-> TRUE]
Pattern(ns, rs) == [nodes |-> ns, rels |-> rs]

Const(v) == [kind |-> "constant", value |-> v]
Name(of) == [kind |-> "property", of |-> of]
Is(l, r) == [op |-> "=", left |-> l, right |-> r]
IsNot(l, r) == [op |-> "<>", left |-> l, right |-> r]

Match(parts, where) == [kind |-> "match", optional |-> FALSE, parts |-> parts, where |-> where]
Optional(parts, where) == [kind |-> "match", optional |-> TRUE, parts |-> parts, where |-> where]
With(keys, distinct, counted, onlyZero) ==
  [kind |-> "with", keys |-> keys, distinct |-> distinct, counted |-> counted, onlyZero |-> onlyZero]

Function == {"Function"}
Defines == R("_d", {"DEFINES"}, "out")

\* find_definitions: the index of the right end is the better start.
Definitions ==
  << Match(<<Pattern(<<N("file", {"File"}), N("n", Function)>>, <<Defines>>)>>, {Is(Name("n"), Const("v"))}),
     With({"file", "n"}, FALSE, "none", FALSE) >>

\* find_callers: two patterns that share a variable.
Callers ==
  << Match(<<Pattern(<<N("m", {}), N("n", {})>>, <<R("c", {"CALLS"}, "out")>>),
             Pattern(<<N("file", {"File"}), N("m", {})>>, <<Defines>>)>>,
           {IsNot(Name("m"), Name("n"))}) >>

\* A start in the middle of a pattern, between steps to the right and the left.
Siblings ==
  << Match(<<Pattern(<<N("x", {}), NamedN("n", Function, Const("v")), N("y", {})>>,
                     <<R("c", {"CALLS"}, "in"), R("e", {}, "both")>>)>>, {}) >>

\* list_routes with unconsumed: what nothing calls, and what defines it.
Uncalled ==
  << Match(<<Pattern(<<N("n", Function)>>, <<>>)>>, {}),
     Optional(<<Pattern(<<N("m", {}), N("n", {})>>, <<R("c", {"CALLS"}, "out")>>)>>, {Is(Name("m"), Const("v"))}),
     With({"n"}, FALSE, "c", TRUE),
     Optional(<<Pattern(<<N("file", {}), N("n", {})>>, <<Defines>>)>>, {}) >>

\* Several hops that end at a node of an index.
Reaches ==
  << Match(<<Pattern(<<N("m", {}), NamedN("n", Function, Const("v"))>>, <<Hops("p", {"CALLS"}, "out", 0, 2)>>)>>, {}),
     With({"m", "n"}, TRUE, "none", FALSE),
     With({}, FALSE, "m", FALSE) >>

ToolQueries == {Definitions, Callers, Siblings, Uncalled, Reaches}

\* The optional pattern narrows n, and the next clause uses n again.
NarrowedLater ==
  << Match(<<Pattern(<<N("n", {})>>, <<>>)>>, {}),
     Optional(<<Pattern(<<N("n", {}), N("x", {})>>, <<Defines>>)>>, {}),
     Match(<<Pattern(<<N("n", {}), N("y", {})>>, <<R("e", {}, "both")>>)>>, {}) >>

NarrowingQueries == {NarrowedLater}
=============================================================================
