---------------------------- MODULE MCMcpServer ----------------------------
(* Small instances of McpServer for TLC. *)
EXTENDS McpServer

CONSTANTS w1, w2, g1, g2, g3

Row(id, size, direct) == [id |-> id, size |-> size, direct |-> direct]

\* Callers of two kinds, a route too large to share a page, and a dynamic
\* registration beside the routes.
SmallGraph ==
  [ FunctionCaller |-> <<Row("f1", 1, TRUE)>>,
    MethodCaller   |-> <<Row("m1", 1, TRUE)>>,
    Route          |-> <<Row("r1", 4, TRUE), Row("r2", 1, TRUE)>>,
    DynamicCall    |-> <<Row("d1", 2, TRUE), Row("d2", 1, TRUE)>> ]

\* The graph after another scan: a caller went, another came first.
EditedGraph ==
  [ FunctionCaller |-> <<Row("f0", 1, TRUE), Row("f1", 1, TRUE)>>,
    ModuleCaller   |-> <<Row("l1", 3, TRUE)>>,
    Route          |-> <<Row("r2", 1, TRUE)>> ]

\* Accesses in the order of their file and line, direct and not.
AccessGraph ==
  [ FileAccess     |-> <<Row("a1", 1, FALSE), Row("a2", 1, FALSE), Row("a3", 1, TRUE)>>,
    FunctionAccess |-> <<Row("a4", 1, TRUE)>> ]

GraphContent == g1 :> SmallGraph @@ g2 :> EditedGraph @@ g3 :> AccessGraph

WalkCalls == w1 :> "calls" @@ w2 :> "routes"
AccessCall == w1 :> "accesses"
CallTools == [calls |-> "find_callers", routes |-> "list_routes", accesses |-> "list_data_access"]

Request(version, method) ==
  [kind |-> "request", id |-> "other", version |-> version, method |-> method]

Lines ==
  { [kind |-> "garbage"], [kind |-> "notification"], [kind |-> "null"],
    Request("modern", "ping"), Request("none", "resources/read") }
NoLines == {}
=============================================================================
