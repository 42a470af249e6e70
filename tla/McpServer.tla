----------------------------- MODULE McpServer -----------------------------
(***************************************************************************)
(* The MCP server over stdio and the paged list tools                      *)
(* (adapters/mcp/server.ts, tools.ts).                                     *)
(*                                                                         *)
(* The server reads one line at a time and answers it before it reads the  *)
(* next one.  A list tool runs queries in a fixed order, each over the     *)
(* graph as it is at that moment: a scan may replace the graph between two *)
(* queries of one call.  The client walks lists: it follows the cursor of  *)
(* a page to the next one, and may write other lines in between.  The      *)
(* content of a graph is a function from kinds of rows to the rows of that *)
(* kind in the order the query returns them; filters are part of the call. *)
(***************************************************************************)
EXTENDS Paging, FiniteSets

CONSTANTS
  Walks,       \* walks through a list, each one call and its pages
  CallOf,      \* the call each walk repeats
  ToolOf,      \* the tool of a call; its other arguments tell calls apart
  Graphs,      \* the graphs a scan can leave
  Content,     \* the rows of each graph, by kind
  Limits,      \* the limits the client asks for
  OtherLines,  \* the lines the client may write besides its walks
  MaxOthers,   \* bound: other lines, and calls with a cursor of another walk
  MaxScans,    \* bound: scans while the client walks
  MaxFailures, \* bound: failed attempts to open the store, and rejected queries
  DynamicLimit \* DYNAMIC_ROUTE_CALL_LIMIT

VARIABLES
  graph,       \* the graph of the store
  scans,       \* scans so far
  input,       \* lines written and not read yet
  engine,      \* "none", "open" or "closed"
  failures,    \* failed attempts to open the store, and rejected queries
  loop,        \* "reading", "calling" or "ended"
  job,         \* the call being answered
  rows,        \* the rows its queries returned so far
  asked,       \* history: ids of the requests written, in order
  answers,     \* history: ids of the answers, in order
  others,      \* other lines written
  open,        \* the client may still write
  walk,        \* "idle", "waiting", "between", "done" or "failed"
  cursor,      \* the cursor each walk got with its last page
  got,         \* the rows each walk got
  during       \* history: the graphs there were since the walk began

client == <<asked, others, open, walk, cursor, got, during>>
server == <<engine, failures, loop, job, rows, answers>>
vars == <<graph, scans, input, client, server>>

-----------------------------------------------------------------------------
\* The queries of each list tool: the kinds of rows in the order they are
\* concatenated.

FindDefinitions == <<"Function", "Class", "Variable", "Interface", "TypeAlias", "Enum", "Method">>
FindCallers == <<"FunctionCaller", "MethodCaller", "ModuleCaller">>
ListExports == <<"ExportedFunction", "ExportedClass", "ExportedVariable", "ExportedInterface",
                 "ExportedTypeAlias", "ExportedEnum", "ReExportedImport", "ReExportedFunction",
                 "ReExportedClass", "ReExportedVariable">>
ListRoutes == <<"Route">>
ListPages == <<"Page">>
ListEntrypoints == <<"EntryPoint">>
ListEnvConfig == <<"EnvUse", "ConfigValue", "ConfigUse">>
ListDataAccess == <<"FileAccess", "FunctionAccess", "RouteAccess", "EntryPointAccess">>

Tools ==
  [ find_definitions |-> FindDefinitions,
    find_callers     |-> FindCallers,
    list_exports     |-> ListExports,
    list_routes      |-> ListRoutes,
    list_pages       |-> ListPages,
    list_entrypoints |-> ListEntrypoints,
    list_env_config  |-> ListEnvConfig,
    list_data_access |-> ListDataAccess ]

RowsOf(g, kind) == IF kind \in DOMAIN Content[g] THEN Content[g][kind] ELSE <<>>

\* list_data_access sorts what its queries returned: direct accesses first.
DirectFirst(list) ==
  LET Part(direct) ==
        LET Upto[n \in 0..Len(list)] ==
              IF n = 0 THEN <<>>
              ELSE IF list[n].direct = direct THEN Append(Upto[n - 1], list[n]) ELSE Upto[n - 1]
        IN  Upto[Len(list)]
  IN  Part(TRUE) \o Part(FALSE)

\* What a tool makes of the rows its queries returned.
Arrange(tool, list) == IF tool = "list_data_access" THEN DirectFirst(list) ELSE list

\* The other lists of a result: list_routes adds the registrations it cannot
\* resolve.
RestOf(g, tool) ==
  IF tool = "list_routes" THEN <<Take(RowsOf(g, "DynamicCall"), DynamicLimit)>> ELSE <<>>

\* The whole list of every call on every graph.
Calls == {CallOf[w] : w \in Walks}

FullList ==
  [ g \in Graphs |-> [ c \in Calls |->
      LET kinds == Tools[ToolOf[c]]
      IN  Arrange(ToolOf[c], FlattenSeq([i \in DOMAIN kinds |-> RowsOf(g, kinds[i])])) ] ]

-----------------------------------------------------------------------------
\* Requests.

Legacy == {"initialize", "ping", "tools/list", "tools/call", "resources/list", "resources/read"}
Modern == {"server/discover", "tools/list", "tools/call", "resources/list", "resources/read"}

\* handleMcpRequest: initialize is a legacy request whatever it says; then the
\* version a request carries decides.
Handler(version, method) ==
  CASE version = "none" \/ method = "initialize" -> Legacy
    [] version = "modern" /\ method # "initialize" -> Modern
    [] OTHER -> {}

\* What a request without a paged list comes to before the engine is needed.
NeedsEngine(line) ==
  /\ line.method \in Handler(line.version, line.method)
  /\ line.method \in {"tools/call", "resources/read"}

PagedCall(line) == line.method = "tools/call"

-----------------------------------------------------------------------------
\* Types.  The lines of the walks are the only calls of list tools.

AllRows == UNION {UNION {Range(Content[g][k]) : k \in DOMAIN Content[g]} : g \in Graphs}

Cursors == [offset : Nat, call : Calls] \cup {NoCursor}

PageRequests ==
  [ kind : {"request"}, id : Walks, version : {"modern"}, method : {"tools/call"},
    call : Calls, limit : Limits, cursor : Cursors ]

Windows == [offset : Nat, limit : Nat \ {0}, fetch : Nat]

Jobs == [id : Walks, call : Calls, tool : DOMAIN Tools, next : Nat \ {0}, window : Windows]

NoJob == [id |-> "none"]

Ids == Walks \cup {"null"} \cup {line.id : line \in {l \in OtherLines : l.kind = "request"}}

ASSUME McpConstants ==
  /\ {MaxOthers, MaxScans, MaxFailures, DynamicLimit} \subseteq Nat
  /\ \A c \in Calls : ToolOf[c] \in DOMAIN Tools
  /\ \A limit \in Limits : limit = NoLimit \/ limit \in Int
  /\ NoCursor \notin [offset : Nat, call : Calls]
  /\ \A g \in Graphs : \A k \in DOMAIN Content[g] : Content[g][k] \in Seq(AllRows)
  /\ \A line \in OtherLines :
       /\ line.kind \in {"garbage", "notification", "null", "request"}
       /\ line.kind = "request" => ~PagedCall(line)

McpTypeOK ==
  /\ graph \in Graphs
  /\ scans \in 0..MaxScans
  /\ input \in Seq(OtherLines \cup PageRequests)
  /\ engine \in {"none", "open", "closed"}
  /\ failures \in 0..MaxFailures
  /\ loop \in {"reading", "calling", "ended"}
  /\ job \in Jobs \cup {NoJob}
  /\ rows \in Seq(AllRows)
  /\ asked \in Seq(Ids)
  /\ answers \in Seq(Ids)
  /\ others \in 0..MaxOthers
  /\ open \in BOOLEAN
  /\ walk \in [Walks -> {"idle", "waiting", "between", "done", "failed"}]
  /\ cursor \in [Walks -> Cursors]
  /\ got \in [Walks -> Seq(AllRows)]
  /\ during \in [Walks -> SUBSET Graphs]
  /\ loop = "calling" => job \in Jobs /\ job.next <= Len(Tools[job.tool]) + 1

McpInit ==
  /\ graph \in Graphs
  /\ scans = 0
  /\ input = <<>>
  /\ engine = "none"
  /\ failures = 0
  /\ loop = "reading"
  /\ job = NoJob
  /\ rows = <<>>
  /\ asked = <<>>
  /\ answers = <<>>
  /\ others = 0
  /\ open = TRUE
  /\ walk = [w \in Walks |-> "idle"]
  /\ cursor = [w \in Walks |-> NoCursor]
  /\ got = [w \in Walks |-> <<>>]
  /\ during = [w \in Walks |-> {}]

-----------------------------------------------------------------------------
\* The client.

PageRequest(w, limit, c) ==
  [ kind |-> "request", id |-> w, version |-> "modern", method |-> "tools/call",
    call |-> CallOf[w], limit |-> limit, cursor |-> c ]

\* A walk begins with a call without a cursor.
StartWalk(w) ==
  /\ open
  /\ walk[w] = "idle"
  /\ \E limit \in Limits :
       input' = Append(input, PageRequest(w, limit, NoCursor))
  /\ asked' = Append(asked, w)
  /\ walk' = [walk EXCEPT ![w] = "waiting"]
  /\ during' = [during EXCEPT ![w] = {graph}]
  /\ UNCHANGED <<graph, scans, others, open, cursor, got, server>>

\* The next page: the same call with the cursor of the last one; the limit may
\* be another.
NextPage(w) ==
  /\ open
  /\ walk[w] = "between"
  /\ \E limit \in Limits :
       input' = Append(input, PageRequest(w, limit, cursor[w]))
  /\ asked' = Append(asked, w)
  /\ walk' = [walk EXCEPT ![w] = "waiting"]
  /\ UNCHANGED <<graph, scans, others, open, cursor, got, during, server>>

\* The client confuses two lists and sends the cursor of one with the call of
\* the other.
MixCursors(w, v) ==
  /\ open
  /\ walk[w] = "between"
  /\ v # w
  /\ cursor[v] # NoCursor
  /\ others < MaxOthers
  /\ others' = others + 1
  /\ \E limit \in Limits :
       input' = Append(input, PageRequest(w, limit, cursor[v]))
  /\ asked' = Append(asked, w)
  /\ walk' = [walk EXCEPT ![w] = "waiting"]
  /\ UNCHANGED <<graph, scans, open, cursor, got, during, server>>

\* Any other line: what is no JSON, a notification, a request of another kind.
WriteOther(line) ==
  /\ open
  /\ others < MaxOthers
  /\ others' = others + 1
  /\ input' = Append(input, line)
  /\ asked' = CASE line.kind = "request" -> Append(asked, line.id)
                [] line.kind = "garbage" -> Append(asked, "null")
                [] OTHER -> asked
  /\ UNCHANGED <<graph, scans, open, walk, cursor, got, during, server>>

\* The client closes stdin; what it wrote is still read.
CloseInput ==
  /\ open
  /\ \A w \in Walks : walk[w] \in {"done", "failed"}
  /\ open' = FALSE
  /\ UNCHANGED <<graph, scans, input, asked, others, walk, cursor, got, during, server>>

\* A scan leaves another graph; the next query sees it.
Rescan ==
  /\ scans < MaxScans
  /\ scans' = scans + 1
  /\ \E g \in Graphs \ {graph} :
       /\ graph' = g
       /\ during' = [w \in Walks |-> IF walk[w] = "idle" THEN {} ELSE during[w] \cup {g}]
  /\ UNCHANGED <<input, asked, others, open, walk, cursor, got, server>>

-----------------------------------------------------------------------------
\* The server.

Reading == loop = "reading" /\ input # <<>>

\* The answer of a request that is no page of a walk is only counted.
ReceiveAnswer(id) == answers' = Append(answers, id)

\* A line that is no JSON is answered with the id null.
ReadGarbage ==
  /\ Reading
  /\ Head(input).kind = "garbage"
  /\ input' = Tail(input)
  /\ ReceiveAnswer("null")
  /\ UNCHANGED <<graph, scans, client, engine, failures, loop, job, rows>>

\* Mutant of ReadNotification: it is answered like a request.
AnswerNotification ==
  /\ Reading
  /\ Head(input).kind = "notification"
  /\ input' = Tail(input)
  /\ ReceiveAnswer("null")
  /\ UNCHANGED <<graph, scans, client, engine, failures, loop, job, rows>>

\* A notification has no id and gets no answer; it is not even handled.
ReadNotification ==
  /\ Reading
  /\ Head(input).kind = "notification"
  /\ input' = Tail(input)
  /\ UNCHANGED <<graph, scans, client, server>>

\* The line `null` is JSON, and request.id is read outside the try: the loop
\* ends and the engine is closed.
ReadNull ==
  /\ Reading
  /\ Head(input).kind = "null"
  /\ input' = Tail(input)
  /\ loop' = "ended"
  /\ engine' = IF engine = "open" THEN "closed" ELSE engine
  /\ UNCHANGED <<graph, scans, client, failures, job, rows, answers>>

\* A request that needs no engine: a list, a handshake, or a protocol error.
ReadRequest ==
  /\ Reading
  /\ Head(input).kind = "request"
  /\ ~NeedsEngine(Head(input))
  /\ input' = Tail(input)
  /\ ReceiveAnswer(Head(input).id)
  /\ UNCHANGED <<graph, scans, client, engine, failures, loop, job, rows>>

\* Mutant of OpenFails: the error leaves the handler and no answer is written.
OpenFailsUnanswered ==
  /\ Reading
  /\ Head(input).kind = "request"
  /\ NeedsEngine(Head(input))
  /\ engine = "none"
  /\ failures < MaxFailures
  /\ failures' = failures + 1
  /\ input' = Tail(input)
  /\ UNCHANGED <<graph, scans, client, engine, loop, job, rows, answers>>

\* The first request that needs the engine opens it; when that fails the
\* request is answered with an internal error and the next one tries again.
OpenFails ==
  /\ Reading
  /\ Head(input).kind = "request"
  /\ NeedsEngine(Head(input))
  /\ engine = "none"
  /\ failures < MaxFailures
  /\ failures' = failures + 1
  /\ input' = Tail(input)
  /\ ReceiveAnswer(Head(input).id)
  /\ walk' = IF PagedCall(Head(input))
             THEN [walk EXCEPT ![Head(input).id] = "failed"] ELSE walk
  /\ UNCHANGED <<graph, scans, asked, others, open, cursor, got, during,
                 engine, loop, job, rows>>

\* The overview resource: its queries and its answer, or the error of one that
\* rejects, are not paged.
ReadOverview ==
  /\ Reading
  /\ Head(input).kind = "request"
  /\ NeedsEngine(Head(input))
  /\ ~PagedCall(Head(input))
  /\ engine' = "open"
  /\ input' = Tail(input)
  /\ ReceiveAnswer(Head(input).id)
  /\ UNCHANGED <<graph, scans, client, failures, loop, job, rows>>

\* A cursor of another call: the tool throws, and the result is an error.
RejectCursor ==
  /\ Reading
  /\ Head(input).kind = "request"
  /\ NeedsEngine(Head(input))
  /\ PagedCall(Head(input))
  /\ ~CursorFits(Head(input).call, Head(input).cursor)
  /\ engine' = "open"
  /\ input' = Tail(input)
  /\ ReceiveAnswer(Head(input).id)
  /\ walk' = [walk EXCEPT ![Head(input).id] = "between"]
  /\ UNCHANGED <<graph, scans, asked, others, open, cursor, got, during,
                 failures, loop, job, rows>>

\* callMcpTool: the window of the page, then the queries of the tool.
BeginCall ==
  /\ Reading
  /\ Head(input).kind = "request"
  /\ NeedsEngine(Head(input))
  /\ PagedCall(Head(input))
  /\ CursorFits(Head(input).call, Head(input).cursor)
  /\ engine' = "open"
  /\ input' = Tail(input)
  /\ loop' = "calling"
  /\ rows' = <<>>
  /\ job' = [ id |-> Head(input).id, call |-> Head(input).call,
              tool |-> ToolOf[Head(input).call], next |-> 1,
              window |-> PageWindow(Head(input).limit, DecodeCursor(Head(input).cursor)) ]
  /\ UNCHANGED <<graph, scans, client, failures, answers>>

\* One query of the tool, limited to what the page needs.
RunQuery ==
  /\ loop = "calling"
  /\ job.next <= Len(Tools[job.tool])
  /\ rows' = rows \o Take(RowsOf(graph, Tools[job.tool][job.next]), job.window.fetch)
  /\ job' = [job EXCEPT !.next = @ + 1]
  /\ UNCHANGED <<graph, scans, input, client, engine, failures, loop, answers>>

\* A query rejects: the rows of those before it are dropped and the result is an
\* error; the client may ask for the same page again.
QueryRejects ==
  /\ loop = "calling"
  /\ failures < MaxFailures
  /\ failures' = failures + 1
  /\ walk' = [walk EXCEPT ![job.id] = "between"]
  /\ ReceiveAnswer(job.id)
  /\ loop' = "reading"
  /\ job' = NoJob
  /\ rows' = <<>>
  /\ UNCHANGED <<graph, scans, input, asked, others, open, cursor, got, during, engine>>

\* The page of the list, fitted to the budget, with what list_routes queries last.
AnswerCall ==
  /\ loop = "calling"
  /\ job.next > Len(Tools[job.tool])
  /\ \E items \in {TakeWindow(job.window, Arrange(job.tool, rows))},
        rest \in {FitOthers(RestOf(graph, job.tool))} :
     \E page \in {FitPage(job.window, items, rest)} :
     \E next \in {NextCursor(job.call, job.window, items, page)} :
       /\ got' = [got EXCEPT ![job.id] = @ \o page]
       /\ cursor' = [cursor EXCEPT ![job.id] = next]
       /\ walk' = [walk EXCEPT ![job.id] = IF next = NoCursor THEN "done" ELSE "between"]
  /\ ReceiveAnswer(job.id)
  /\ loop' = "reading"
  /\ job' = NoJob
  /\ rows' = <<>>
  /\ UNCHANGED <<graph, scans, input, asked, others, open, during, engine, failures>>

\* stdin is at its end: the finally closes the engine.
EndLoop ==
  /\ loop = "reading"
  /\ input = <<>>
  /\ ~open
  /\ loop' = "ended"
  /\ engine' = IF engine = "open" THEN "closed" ELSE engine
  /\ UNCHANGED <<graph, scans, input, client, failures, job, rows, answers>>

ServerStep ==
  \/ ReadGarbage \/ ReadNotification \/ ReadNull \/ ReadRequest \/ OpenFails
  \/ ReadOverview \/ RejectCursor \/ BeginCall \/ RunQuery \/ QueryRejects
  \/ AnswerCall \/ EndLoop

ClientStep ==
  \/ \E w \in Walks : StartWalk(w) \/ NextPage(w)
  \/ \E w, v \in Walks : MixCursors(w, v)
  \/ \E line \in OtherLines : WriteOther(line)
  \/ CloseInput

McpNext == ClientStep \/ ServerStep \/ Rescan

McpSpec == McpInit /\ [][McpNext]_vars

\* The event loop runs the server; the client goes on walking.
FairMcpSpec ==
  /\ McpSpec
  /\ WF_vars(ServerStep)
  /\ \A w \in Walks : WF_vars(NextPage(w))

-----------------------------------------------------------------------------
\* Properties.

\* Every request is answered, in the order the client wrote them, and nothing
\* else is: a notification, an unpaged call, a store that does not open or a query
\* that rejects does not shift the answers (the loop of runMcpServer).
AnsweredInOrder ==
  /\ IsPrefix(answers, asked)
  /\ loop = "reading" /\ input = <<>> => answers = asked

\* The pages of a walk over a graph that does not change are the list, every
\* row once and in order, whatever the limits, the budget and other calls in
\* between are, and although a page that failed is asked for again (callMcpTool,
\* pageWindow, pagedResult).
PagesCoverList ==
  \A w \in Walks : \A g \in Graphs :
    during[w] = {g} =>
      /\ IsPrefix(got[w], FullList[g][CallOf[w]])
      /\ walk[w] = "done" => got[w] = FullList[g][CallOf[w]]

\* A page advances the list: a cursor never leads back or to where it was,
\* also when the graph changed (pagedResult keeps one row at least).
CursorsAdvance ==
  [][\A w \in Walks :
       cursor'[w] # cursor[w] /\ cursor'[w] # NoCursor
         => cursor'[w].offset > DecodeCursor(cursor[w])]_vars

\* A walk that began comes to its end, although scans change the graph under
\* it and the client follows every cursor it is given.
PagingEnds ==
  \A w \in Walks : walk[w] = "waiting" ~> (walk[w] \in {"done", "failed"} \/ loop = "ended")
=============================================================================
