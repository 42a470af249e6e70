# Concentrate: TLA+ models, TLC runs and TLAPS proofs

Concentrate scans a source tree into a code graph, keeps the graph in a
directory of immutable segments under a `HEAD.json`, and answers queries over
it from a command line and an MCP server. Scans, watchers and servers are
separate processes that share only files. This directory models two things:
who may do what to which file in which order, and what readers see meanwhile;
and the sequential core in between, from the file list of a scan over the
resolution of names to the queries, analyses and pages a client gets. Source
paths below are relative to `src/src/`.

Tools: `tlc -config X.cfg MC....tla` for a run, `tlapm ...Proofs.tla` for the
proofs. `PROJECT.json` holds the exact map from definitions to source lines.

## 1. Inventory

### 1.1 Components with state, and how they meet

| Component | State | Operations | Talks to |
|---|---|---|---|
| Writer lock, `adapters/store/lock.ts` | file `LOCK` (owner, mtime) | `acquireWriteLock`, its release function, `readOwner`, `isStale`, `isAlive` | other processes through the file and `kill(pid, 0)` |
| Graph store, `adapters/store/store.ts` | `graph`, `head`, `pendingReset` of each `GraphStore` object | `open`, `reset`, `write`, `close`, `query`, `stats`, `schemaVersion`, private `mutate`, `refresh` | lock, snapshots |
| Snapshots, `adapters/store/persistence.ts` | `HEAD.json`, `segments/*` | `readHead`, `loadSnapshot`, `commitSnapshot`, `collectGarbage` | readers of other processes, which never lock |
| Scan command, `adapters/cli/scan.ts` | manifest file | `scanIntoStore` | orchestrator, store |
| Watch, `adapters/cli/watch.ts` | closure of `startWatch`: `timer`, `running`, `pending`, `closed`, `idleWaiters` | file events, timeouts, `runScan`, `idle`, `close` | `scanIntoStore`; its own output files |
| Orchestrator, `core/scan/orchestrator.ts` | one scan's results, manifest, report | `buildCodeGraph`: manifest, pass 1 (cache), pass 2 (parse), graph, prune | parse cache, parser pool, the files being edited |
| Parse cache, `core/scan/parse-cache.ts` | one file per key, the keys a scan used | `key`, `read`, `write`, `prune` | other scans of the same project |
| Parser pool, `composition/parser-pool.ts`, `parse-worker.ts` | per worker: `jobs`, `failed`; `closing` | `parse`, `close`, events `message`, `error`, `exit` | worker threads by messages |
| MCP server, `adapters/mcp/server.ts`, `tools.ts`, `paging.ts`, `budget.ts` | one store object, in-flight requests | JSON-RPC requests, tool calls, cursors | store (`query`, several per tool) |
| In-memory graph, `adapters/store/graph.ts`, `core/graph/builder.ts` | nodes by id, label, indexed value; adjacency | `addNode`, `addRelationship`, `deleteNode`, `write` | store, Cypher engine |
| Cypher engine, `adapters/store/cypher/*` | none | lex, parse, bind, plan, execute | in-memory graph |
| Analyses, `adapters/mcp/analysis-tools/*`, `agent-tools/*` | none | cycles, references, unused, impact, routes | store queries |
| Cross-file resolution, `core/scan/resolution/*`, `graph-finalize.ts` | the graph under construction | call targets, re-exports, contributors | orchestrator |
| Discovery, `core/scan/discover-files.ts`, `gitignore.ts`, `glob.ts` | the rules of one walk | `discoverFiles`, `walkFiles`, `GitIgnore.add`, `ignores` | orchestrator, the tree being edited |
| Packages, `core/scan/workspace-packages.ts` | none | `addWorkspacePackageGraph` | orchestrator |
| Parsers and framework integrations, `integrations/**` | none | syntax tree to nodes and relationships | pool, orchestrator |
| Command line, `adapters/cli/args.ts`, `smoke.ts`, `export.ts`, `init.ts` | none | argument parsing, printing | everything |

### 1.2 What is hard

* *Lock file.* Creating the file, writing its owner, reading it, `stat`, the
  liveness test and the removal are six system calls; other processes run in
  between, and a crash may leave an empty file nobody can attribute.
* *Lock-free readers.* A reader reads `HEAD.json` and then its segments, while
  commits rename a new HEAD and delete old segments. Two tool calls of one
  server share one in-memory snapshot and may load different ones at a time.
* *Failure in the middle of a commit.* Any file operation can reject, and
  `scanIntoStore` calls `close`, i.e. commits again, after a failed `write`.
* *Watch.* Edits arrive before, while and after a scan reads a file; the scan's
  outputs are file events too, and an event may come without a file name; the
  closure forgets a timer it does not clear.
* *Pool.* A worker's last response, its error and its exit arrive in any order
  around new requests; the pool closes with threads still exiting.
* *Parse cache.* A scan reads each file up to three times while it is edited,
  and two scans may share a cache that each of them prunes.
* *MCP server.* A scan may replace the graph between the pages of a list and
  between two queries of one call; the cursor is an offset, and a page is cut to
  an output budget.
* *Discovery.* The directories of a level are visited at the same time and share
  one set of ignore rules, while files come and go.
* *Sequential but intricate*: Cypher planning, cycle search, re-export
  resolution, call impact. No interleaving; their hazards are boundaries,
  fixpoints, caches and indexes kept in several places.

The hazards are listed one by one, at their lines, in `PROJECT.json`.

### 1.3 What makes each component correct

Lock: exclusion, no take-over from a live owner, no file that blocks for ever,
no acquisition that hangs unless a removal goes on failing. Store: HEAD always loadable, generations never
repeat, each answer from one whole committed graph of the right time, every
call and scan ends. Watch: scans do not overlap, no edit is missed, rescanning
stops, `idle` and `close` mean what they say. Pool: no file lost or parsed
twice, the pass ends. Cache: an entry is the parse of the content it is keyed
by, results are of this scan, the next scan is warm. Server: one answer for each
request, in order; pages put together are the list, and paging ends. In-memory
graph: its indexes say what the nodes say. Discovery: what git would list.
Queries, resolution and analyses: results equal a definition that knows nothing
of plans, caches, low links or visited sets.

## 2. Modules

    StoreLock   <--implements--  WriterLock  --  ExclusionProofs
        ^
        | uses (its section is used as StoreLock allows)
    GraphStore  --implements-->  SnapshotStore
        |--  GraphStoreProofs
    Watch       --  ExclusionProofs
    ParserPool, ParseCache  --  ParsingProofs

    Paging       <--extends--  McpServer              McpServer  --  McpServerProofs
    MemoryGraph  <--extends--  CypherEngine           both  --  MemoryGraphProofs
    CallTargets  <--extends--  CallResolution, ImportCycles, ExportAnalysis, CallImpact
                                 <--extend--  ScanAnalyses  --  ScanAnalysesProofs
                                          ScanAnalysesProofs  <--extends--  ImportCyclesProofs
    Discovery   --  DiscoveryProofs

Each `MC...` module instantiates its module for TLC (process and file names as
model values, symmetry sets) and adds nothing else.

**StoreLock** (abstract): writers inside the locked section and writers that
are gone; at most one is inside.

**WriterLock**: one action per system call of `acquireWriteLock`. The LOCK file
is its creator, whether the owner record has been written, and whether its
mtime is older than `STALE_AFTER_MS`; `open` with `wx` is `Create` or `Exists`;
`readOwner`, `isStale`, `isAlive` and the `unlink` are `ReadOwner`, `StatFile`,
`TestAlive` and `TakeOver`, each seeing the file as it is at that moment. The
unlink and the release remove *whatever* file has the name; each may fail: the
take-over swallows that (`TakeOverFails`), the release rejects and the file of a
running process stays (`ReleaseFails`). `Crash`, `Exit` and
`LockAges` are the environment, each behind a constant. The file's content is
only the owner; the deadline is a count of waits (`MaxPolls`), because the code
compares it only once per wait, and `GiveUp` may happen at any of them.

**SnapshotStore** (abstract): a call is answered from one whole graph that was
the committed one at some moment since it was asked, or it fails.

**GraphStore**: `HEAD.json`, the files of `segments/` and which of them are past
the grace period; the scan of each writer; the `loadSnapshot` in progress of
each writer and call; the snapshot in memory of each `GraphStore` object. A
graph is the set of its segment files: names are content hashes, so equal names
are equal content. Every `await` on the file system is a step boundary. `Apply`
is `readHead` under the lock plus the change, `WriteSegment` one segment,
`RenameHead` the commit point, `CollectSegment` one deletion, `CommitFails` an
error of any of these, `AfterFailure` the `close` that follows a failed `write`.
`ReleaseRejects` is a `release` that rejects in the `finally` of `mutate`: the
section is left, its LOCK file is not (`left`), and others enter when they find
it older than `STALE_AFTER_MS`, or fail (`LockRejected`). Loads are `LoadHead`,
`ReadSegment` in any order, `RetryLoad`; calls are `Ask`, `ReadLatest` (HEAD is
read), and the comparison with what is in memory by then: `AnswerFromView` (same
generation), or `Refresh` and `AnswerFromLoad`; or `CallFails`. The lock is the
abstract one; `UsesStoreLock` checks that it is used as `StoreLock` allows, so
`WriterLock` may stand in for it in the settings where that implements it.
`since` and `answer` are history variables for the refinement.

**Watch**: the closure of `startWatch`, one action per callback: `FileEvent`
(with `isIgnored` and `schedule`), `ScanNow` on a timeout, `ScanReads` for each
file of the scan in progress, `ScanSucceeds` and `ScanFails` with the `finally`
that follows, `Idle`, `Close`, and the user's `Edit`. A scan may fail before its
graph is written or after (giving back the lock, writing the manifest). An event
of an own output has a file name, by which it is ignored, or none
(`UnnamedEvents`), and then it counts. The handle in `timer` and
the timeouts the event loop still owes are two variables, as they are in the
program.

**ParserPool**: `parse` (`AskMain`, `AskWorker`: the live worker with the fewest
files), the three events, the worker thread with its queue, a thread's death at
any moment with any part of its responses still deliverable, and pass 2 of the
scan, which asks for at most `Concurrency` files at a time and closes the pool
at the end.

**ParseCache**: one scan is manifest (`HashFile` per file), pass 1 (`Lookup`),
pass 2 (`Parse`, `Check` with the second hash and the cache write), then
`Finish` or `FailFast`, and prune, one entry at a time. With `CacheErrors` an
entry may be unreadable (a miss), its write may fail, in silence or with the
parse (`CheckUnsaved`; the history variable `unsaved` notes the file), and prune
may give up or reject (`PruneFails`). `Reverts` lets a user undo an edit just
between the parse of the file and its check; files return to former contents at
any other time without it. A hash stands for the
content it is computed from, a parse result for the content that was parsed.
Several scans share the cache and the user edits between any two reads.

**Paging** and **McpServer**: `pageWindow`, `takeWindow`, `pagedResult` with its
binary search for the rows that fit, and the cursor, as operators; the loop of
the server, one line at a time, with the store opened by the first request that
needs it. A list tool is its queries, one action each, over the graph of that
moment; `Rescan` may replace the graph between any two, and a query may reject
(`QueryRejects`), which answers the call with an error. Queries the code starts
together with `Promise.all` run in the order of their rows: the order matters
only to which graph each one reads, and pages are compared with a list only
where the graph did not change. `AnswerCall` includes the query of `list_routes`
for calls that cannot be resolved, its last `await`. The clients walk lists:
each follows the cursors it gets. A row is its identity and its size, the budget
counts sizes; a walk with another walk's cursor, unknown methods, notifications,
garbage and a line `null` are among the other lines. Filters and the columns
of rows are left out.

**MemoryGraph**: the map by id, the label index, the value index, the adjacency
lists and the relationship count, with `addNode`, `addRelationship` (a record
with an identity: two of one type may join the same nodes), `deleteNode` with
its self-loops, and `clear`; `Segments` is what
`serializeSegments` writes, by owning file. One property is indexed; the others
are the same code in a loop.

**CypherEngine**: binding (labels narrowed by the relationships next to a
variable), the choice of a start among label index, value index and bound
variable, the walk from there to both sides, `WHERE` conjuncts pushed to the
earliest place, `OPTIONAL MATCH`, variable-length relationships, `WITH`
(distinct, count, filter). One action per clause. The order of rows, and with it
`ORDER BY`, `SKIP` and `LIMIT`, and the functions of expressions are left out.

**CallTargets**, **CallResolution**: what a name in one file means in another,
with barrels, renamed and namespace re-exports, defaults and the lookup caches;
then the passes of `finalizeGraphRelationships` in their order: inheritance,
calls one at a time (each may leave entries in the cache for the next), calls on
injected fields, calls on instances. A project is sequences of declarations,
imports and calls in node order, as the parsers leave them. Go files, interfaces
and mixins are left out, and a `require` source is the file it resolves to.

**ImportCycles**, **ExportAnalysis**, **CallImpact**: `find_import_cycles`
(Tarjan without recursion, shortest loop), `find_unused_exports` (`ExportIndex`
with its cache and the entries that are not complete yet, the queue of surfaces,
uses) and `impact_of` (callers by level, then routes, requests,
components, pages and stores). **ScanAnalyses** runs a scan's passes and then
one of the tools, and holds the definitions both are compared with.

**Discovery**: `walkFiles` with the callbacks of `discoverFiles`, one action per
`await`: `ListDirectory`, `EnterDirectory` (reads `.gitignore`), `FilterEntry`
(stats links), `VisitSubdirectories`; visits of different directories
interleave, `RemovePath` removes a file or directory meanwhile, `VisitFails`
rejects the walk (`readdir` or `.gitignore` unreadable). Rules are grouped by
base directory, globs are sequences of segments (`**`, `*`, names); `Names` is
what files and segments may be called, all strings in the runs. `AddPackages` is the detection of packages by
`package.json` and `pnpm-workspace.yaml` patterns and the ownership of files, all
read at one moment; `PackagesFail` rejects the scan instead (`readdir` fails, or a
`package.json` holds `null`).

## 3. Runs

All runs take between a second and two minutes. Definitions named
"Mutant of X" in the modules are plausible bugs of X; for each property one of
them makes TLC find a violation, so no property holds by construction.

| Run | Question | Bounds, and why they are enough |
|---|---|---|
| `WriterLock_two` | Does the lock exclude, does the file name its holder, is it never taken from a live process, does it implement `StoreLock`, does every acquisition settle? | 2 processes with crashes and exits at any step, failing writes and removals, 2 waits. Two contenders are all the lock promises to exclude (see `WriterLock_race`). That acquisitions settle assumes that the removal of a stale file does not fail every time, and no old files (`~Ages`). |
| `WriterLock_stale` | Is a file left behind always removed in the end? | 2 processes on 2 hosts, crashes, aging, failing writes and failing unlinks. A dead owner, an owner on another host and an empty file all occur. |
| `GraphStore_safety` | HEAD complete, generations, use of the lock, retries, answers? | 2 scanning processes that crash or fail to lock, 2 calls on one server object, 2 segments, 2 scans. Each scan may commit, and a failed one may commit an empty graph, so commits overlap with both calls and every segment is written, shared and collected; 2 read attempts instead of 3 let a retry happen. |
| `GraphStore_live` | Do calls and scans end, and is a lock file only left where removing it failed? | 2 processes, 1 call, 1 segment; crashes, lock errors, disk errors, a rejecting release, rejected nodes, deleted stores and stores of another format. Attempts run out in it. |
| `GraphStore_rollback` | Is what a scan did not finish never committed? | Expected to be violated, see below. |
| `Watch_pass` | Overlap, lost requests, `close`, `idle`? Does the graph catch up, does scanning stop, do callers return? | 2 files of at most 3 versions, 1 caller of `idle`, 3 outstanding timeouts, failing scans, events without file name. A forgotten timeout, a live one and a scan coexist. The graph catches up unless the last scan failed before it wrote the graph: that one is by design not tried again until the next event. Scanning stops, and `idle` returns, unless own outputs come without a name again and again. |
| `ParserPool_pass` | Is each file in one place, does the pass end? | 3 files, 2 workers, 2 asked for at once; any worker may fail to start or die at any moment. |
| `ParseCache_scans` | Honest entries, results of this scan, warm cache? | 2 scans (one with `--continue-on-error`), 2 files, 3 contents one of which does not parse, 2 edits or deletions at any moment, a cache that fails at any operation. An edit that is undone between parse and check is left out (`Reverts = FALSE`), any other return to a former content is not. |
| `McpServer_pages` | One answer per request in order, pages that are the list, cursors that advance, paging that ends? | 2 walks (a tool of several queries, and one with a row near the budget and a limited second list), limits 1 and 2, 1 scan in between, 1 failure (opening the store, or a query that rejects), 1 other line or foreign cursor. |
| `CypherEngine_queries` | Are the indexes consistent, the segments local, and the rows those the patterns mean? | 3 ids, 2 labels, 2 relationship types, 2 relationships, one id that begins with another; after every history of additions and deletions 5 queries shaped like those of the tools. |
| `ScanAnalyses_tools` | Are calls, cycles, unused exports and impact what the names mean? | Families of projects: barrels between 4 files, circles of two barrels with an entry point, renamings and the import of an own export, default exports, class hierarchies with circles and diamonds, all import graphs of 3 files with a fourth (type-only or not), all 4096 package graphs of 4, call graphs with routes, components and stores, `maxDepth` to 3. |
| `Discovery_walk` | Does a walk list what git would, and does each file get its package? | 209 trees with nested ignore files, links, a vendored Go module, include patterns of each kind, workspace patterns from either file or neither, unreadable manifests; 1 removal at any moment. |

`AskedOfItsFamily` is an action constraint of `ScanAnalyses_tools`: of the tools
only those are called that a family of projects was made for.

Deadlock checking is on for `CypherEngine_queries`, where one can always ask
again. It is off elsewhere: a lock whose processes are all dead, a store after
its last scan, a pass that is done, a closed watch, a server whose input ended,
finished scans, analyses and walks really stop.

### Disagreements the models show

Each refutes one sentence of the repository. `GraphStore_rollback` is a run of
the list above; the other configurations named here reproduce theirs and are
kept beside the runs.

* `GraphStore_rollback`: "Like a rolled-back transaction" (`store.ts`). When
  `write` fails after `reset`, `pendingReset` is still set; the `close` in the
  `finally` of `scanIntoStore` runs `mutate` again and commits the empty graph,
  if only the lock is free by then.
* `WriterLock_unlink.cfg`: a second scan "waits for the first (or fails at once with
  `--no-retry-lock`)" (`docs/known-limitations.md`). When a stale file cannot be
  removed, the loop swallows the error and starts over (`lock.ts:62`), past the
  test of `options.wait` and of the deadline, and without the pause: it does
  neither for as long as the removal fails.
* `Watch_unnamed.cfg`: changes under "its own outputs are ignored"
  (`docs/ROADMAP.md`), but only if the event has a file name (`watch.ts:91`),
  which `fs.watch` does not promise. An unnamed event of the scan's own output
  starts a scan, whose outputs may do so again; `idle` then never returns.
* `ParseCache_reverts.cfg`: "a cached scan produces the same graph as a full one"
  (`parse-cache.ts`). A file is edited before its parse and restored before its
  check: the check finds the manifest's hash and stores the parse of the edited
  content under it (`CacheIsHonest`). The next scan takes that entry, and its
  result is of a content the file never had while it ran (`ResultsAreOfThisScan`;
  `-continue`, or the first invariant alone, shows it).
* `WriterLock_race.cfg`: with three processes "Writers are serialized by a lock
  file" (`docs/known-limitations.md`) fails. Two waiters both read the owner of a
  dead process' file; the first removes it and creates its own; the second
  removes *that* file, because `unlink` goes by name, and creates another. Both
  hold the lock.
* `GraphStore_deleted.cfg`: "A finished scan is picked up on the next tool call"
  (`docs/mcp-server.md`). Generations start at 1 again in a deleted store and
  `refresh` compares nothing else.
* `Watch_idle.cfg`: `idle` "Resolves when no scan is running or scheduled"
  (`watch.ts`). The `finally` of a scan enters `scanNow`, which sets `timer` to
  undefined; the timeout it stood for still fires later and scans once more.
* `McpServer_direct.cfg`: the pages of `list_data_access` repeat and lose rows on
  an unchanged graph: its queries are cut to the page's rows in one order, and
  the rows are sorted in another one afterwards (`tools.ts`).
* `CypherEngine_optional.cfg`: "Outer rows are never removed" by an optional
  match (`docs/cypher.md`), but the labels it narrows stay narrowed for the
  clauses after it (`binder.ts`).
* `ScanAnalyses_documented.cfg` holds the next four, one invariant each.
  `ImportedNamesAreTheImports`: "A bare call of a name the file imports resolves
  only through the import" (`docs/known-limitations.md`), but imports without
  bindings in front of it are looked through for the name too.
* `TypeOnlyGroupsHaveNoRuntimeLoop`: "every loop goes through a type-only import"
  (the note of `find_import_cycles`), but only the loops through the first
  member are looked at.
* `ImportedExportsAreUsed`: "An export counts as used when another file imports
  it by name (through barrels too)" (the note of `find_unused_exports`).
  `ExportIndex.resolve` hands out the entry of a name while its re-exports are
  still being followed (`analysis-tools/model.ts`), so in a circle of barrels an
  entry completed meanwhile lacks what the rest of the circle adds, for good. An
  export imported through that barrel is then reported if its own file imports it
  back, which is what made the entry complete too early.
* `StoresChangeInTurn`: a store that reads a changed one "changes in turn"
  (`agent-tools/graph.ts`), unless the rows come in an unlucky order and
  `maxDepth` rounds do not make up for it.
* `Discovery_excluded.cfg`: "`--exclude <glob>` skips paths"
  (`docs/getting-started.md`), but a `!` line of a `.gitignore` comes later and
  takes the path back.

Others were met while modelling and have no configuration. `SEGMENT_GRACE_MS` is
compared with a segment's mtime, so the collection that ends a commit may delete
segments of the HEAD it has just replaced (readers recover by retrying, which
`RetryReadsNewer` and `CallsSettle` cover). A store of another format cannot be
opened by the scan its error message asks for (`OldStores`, `OpenFails`;
`persistence.ts:53`). An inline property map that names a variable of the other
end is null when the plan starts at its own end (`executor.ts:172`). The line
`null` ends the loop of the MCP server (`server.ts:75`; the model's `null` line).
Default-imported instances are followed, which
`docs/known-limitations.md:144` denies, and a call on an imported instance can
get two targets. A negated workspace pattern excludes nothing
(`glob.ts:261`).

### Fairness

* `FairLockSpec`, `FairStoreSpec`: weak fairness for each process' own steps. A
  running process executes its code; nothing obliges it to crash, exit, scan or
  ask. In the store the lock is part of the steps: a scan that waits goes on when
  the section is free, a dead owner's, or left behind and old enough, or is
  rejected (`LockRejected`). That `acquireWriteLock` settles at all is what
  `WriterLock_two` shows, under `RemovableLockSpec`.
* `RemovableLockSpec` adds strong fairness for the take-over: removing a stale
  file does not fail every single time. `WriterLock_unlink.cfg` does without it.
* `PersistentLockSpec` adds writers that come back after each attempt (watch, or
  a user who scans again) and a clock that passes `STALE_AFTER_MS`.
* `FairWatchSpec`: timers fire, events are delivered, scans end. No fairness for
  edits, `idle` or `close`, nor for events to have a file name.
* `FairPoolSpec`: events are delivered and threads make progress; nothing
  says that a thread dies or that it does not.
* `FairMcpSpec`: the server goes on with what it has read, and a client that
  began a walk asks for its next page. Nothing obliges it to begin, to write
  anything else or to close its input, and nobody has to scan.

## 4. Proofs

TLAPS proves the following for every number of processes, files, segments, calls
and contents, ids, labels and values. Nothing is assumed beyond the named
`ASSUME`s on constants (which TLC evaluates in the runs) and what is stated
here.

* **WriterLock** (`LockTypeTheorem`; `MutexTheorem`, `HolderTheorem`,
  `TakeOverTheorem`, `RefinementTheorem` under `SafeSetting`). `SafeSetting`
  says where the lock does exclude: no file gets old, and either no process ends
  or there are at most two. Exclusion alone is not inductive: the unlink must be
  harmless. `LockInv` adds that whoever is past `open` created the file, and that
  a process about to unlink has seen the death of a process, which in these
  settings leaves nobody else to own the file (`TakeOverAlone`). A release that
  fails leaves a file that names a live process, which nobody takes over where
  no file gets old. The refinement then maps
  `Create`...`WriteOwner` to `Enter`, release to `Leave`, death to `Die` and all
  other steps to stutters.
* **GraphStore** (`StoreTypeTheorem`, `HeadTheorem`; `GenerationsTheorem` unless
  stores are deleted). `HeadComplete` needs `StoreInv`: a process in the section
  is the lock's owner; while it writes segments its graph is covered by what is
  on disk and what it still has to write, and the generation it read is still
  the committed one; while it collects, what it will delete is disjoint from
  HEAD. A file left by a failed release belongs to a process outside. Crashes and
  errors only drop obligations, so the proof covers them all.
  `LockUseTheorem` is the refinement of `StoreLock`: with `WriterLock`'s
  `RefinementTheorem` the file protocol may stand in for the section.
* **GraphStore, readers** (`RetryTheorem`, `AnswerTheorem`, `FreshTheorem`, all
  unless the store is deleted, which `GraphStore_deleted.cfg` shows to be
  needed). `SnapshotInv` is about what is *known*: whatever was read from
  `HEAD.json`, by a load in flight or into an object's view, is of an older
  generation than the committed one or is the committed graph itself, and of
  the snapshots in memory no two of one generation differ, since another call may
  replace the view between the read of HEAD and the comparison. A load
  that lost a segment is therefore of an older one (`RetryReadsNewer`), an equal
  generation means an equal graph (`AnswerFromView`), and every call in flight
  has the graph that is committed now and the one it is loading among those
  since it was asked, which is the refinement of `SnapshotStore`.
* **GraphStore, failed writes** (`CommitTheorem`): `OnlyScansAreCommitted`, which
  `GraphStore_rollback` refutes, does hold where no lock error, rejected node or
  disk error makes a write fail; crashes need not be excluded. So the failed
  write followed by `close` is the only way to commit less than a scan found.
* **Watch** (`WatchTypes`, `OneScanTheorem`, `PendingTheorem`, `CloseTheorem`,
  and the action property `IdleTheorem`) from one invariant that ties the number
  of scans to `running`, `pending` to a running scan and `closed`, and `closing`
  to the end of the scan.
* **ParserPool** (`PoolTypes`, `OnePlaceTheorem`, `NoJobStrandedTheorem`).
  `ParsedInOnePlace` counts; the inductive `PlaceInv` says where a file is
  without counting, that two workers never hold one file, and that closing comes
  only when all have settled. `ThreadInv` adds that a thread that is up was not
  given up and one whose exit was seen was, unless the pool closes: so no worker
  that takes a request can be gone.
* **ParseCache** (`CacheTypeTheorem`; `HonestTheorem`, `ThisScanTheorem` and
  `WarmTheorem` where no edit is undone between a parse and its check, for a
  cache that may fail at any operation). The types need that passes 1 and 2 only
  work on files the manifest has. Honesty needs what that condition says of a
  parse that waits for its check: the file has the manifest's content only if the
  parse is of it. What a scan takes from the cache is then of the content it
  hashed itself, which its file had during the scan. The warm cache needs that
  prune only removes what no file of the manifest is keyed by, and leaves out the
  files that were edited meanwhile and those whose entry could not be written.
* **MemoryGraph** (`GraphTypes`, `GraphConsistency`, `SegmentTheorem`).
  `GraphInv` adds to the indexes and the count that every record in an adjacency
  list was made before, joins the nodes it is listed at and appears at both,
  which is what lets `deleteNode` find and uncount each relationship once,
  self-loops included. That both ends of a record exist is also what keeps the
  lines of a segment local.
* **CypherEngine** (`QueriesOnlyRead`, `EngineConsistency`, `EngineSegments`,
  `EngineTypes`): a step of a query is a stutter of the graph, so the engine
  implements the graph and inherits its theorems.
* **McpServer** (`McpTypes`, `AnswerOrderTheorem`; `CursorTheorem` under
  `OneWalkPerCall`; `PagesTheorem` under `OneWalkPerCall` and `NoAccesses`).
  *Answers*: `OrderInv` gives each line that was not read yet a place, the number
  of answers there will be once it is answered; a notification takes none and the
  call that runs has taken its own. *Cursors*: `PageInv` says that a walk waits
  for one page at most, that a pending request whose cursor fits carries the
  cursor its walk got last, and that the running call's window starts there. That
  the next cursor is further needs that a shortened page keeps a row:
  `FitIsInBounds`, about the binary search of `largestFit`. *Pages*: `ListInv`
  says that while the graph stays, a walk has got its list up to its cursor and
  the running call has as much of the concatenated list as the page and its
  probe row need, although each query was cut separately (`TakeConcat`).
  `OneWalkPerCall` is about clients: two walks with the same arguments could swap
  cursors, which fit both. `NoAccesses` excludes `list_data_access`, for which
  `McpServer_direct.cfg` refutes the property.

* **Discovery, walk** (`SourcesTheorem`, with at most one removal during the
  walk). Two facts about the functions come first: `GitIgnore.ignores`, a fold
  over the rules of every directory above a path, says what git says, the last
  applying line of the deepest directory that has one (`IgnoresIsIgnored`); and
  `mayContain` leaves out no directory with a match (`MatchesAreContained`).
  `WalkInv` then relates each visit to the tree the walk began with and to the
  tree now: a directory is visited after all above it are done, so that reading
  its `.gitignore` cannot change a verdict that was used already
  (`VerdictsStay`); what a visit has looked at is accepted or was refused; and
  the rules of an entered directory are those of one of the two trees. At the
  end one tree must serve for all directories. That is where one removal is the
  limit: only the directory it was in has different lines in the two trees
  (`OneDirectoryDiffers`). With `MaxRemovals = 2` TLC refutes the property: the
  root's and a subdirectory's `.gitignore` are both removed, the first after
  it was read and the second before; the rules are then neither those of the
  tree the walk began with nor those of the tree it leaves.
* **Discovery, packages** (`WalkTypesTheorem`, `PackagesTheorem`, for any number
  of removals). A path a glob matches begins with the glob's literal names
  (`SegmentsBefore`, `LastSegment`), so the walk starts above it, and enters
  every directory on the way unless it is called `node_modules`
  (`ManifestsAreTheMatches`). Of the packages around a file the deepest is the
  nearest, as all of them are prefixes of its path (`NearestIsNearest`).

The type invariants of all these modules are proved, so they are not repeated in
the runs.

* **Resolution of calls** (`CallsTheorem`). What `CallsFollowBindings` compares
  the targets with is a set of places, the least one with a first place and all
  its re-exports lead to (`RepeatingFindsTheLeast`). `FollowReExports` gets there
  by a depth-first search that marks places and stops at the first that has the
  name. A search over a finite set of places returns something exactly if a place
  with an answer can be reached, and then one of those answers
  (`DepthFirstFinds`, by induction on the places not yet marked). The calls are
  resolved one after the other with a cache, so the property alone is not
  inductive: `CallsInv` adds that every entry of the cache is what a lookup
  without a cache returns, which the lookup of each call preserves.
* **Resolution of methods** (`MethodsTheorem`). The same search, upwards along
  `extends`, finds a method if and only if some way up leads to one, also where
  classes extend each other in a circle. `MethodsInv` says for each pass what it
  has settled: nothing before inheritance, the class calls after theirs, calls
  on instances after the last, each pass leaving alone what an earlier one
  resolved. The property, and with it the theorem, is about calls through what
  the file declares (`ThroughItsFile`): a name that is an import, a parameter or
  a function as well goes through other branches, which are modelled
  but have no property of their own.
* **impact_of** (`ImpactTheorem`). `WalkCalls` visits the callers level by level;
  the levels are the distances within `maxDepth` (`WalkCallsWalks`). What is one
  call further up is then one level nearer, and every later part (routes,
  requests, components, pages, stores with their rounds) grows with what it
  starts from (`ImpactGrows` from one lemma per part).
* **Unused exports** (`UsedExportsTheorem`). `ExportIndex.resolve` is a recursion
  over names *and* caches: it is shown to have a solution by induction on the
  names a cache does not know (`ResolveExportSolves`). An entry is honest only
  outside of circles, and while a lookup runs, not for the names it came through;
  so the induction hypothesis speaks of the lookups that are *pending*, all of
  which lead to the present one (`Pending`, `Learns`), and a name that does not
  lead to itself is never among them. `ResolveExportFacts` is what remains: the
  cache stays sound (`Sound`: outside of circles it has all that is offered, its
  entries are never changed again), and what was learnt on the way is with the
  name asked for. Over the walk, `Kept` says that whatever was looked up is used,
  that of every surface the re-exported names are used and the files behind
  `export *` are surfaces or in the queue; `SurfaceOffers` concludes that what a
  surface offers is in a surface or used. The walk over the queue ends because a
  step marks another file or shortens the queue (`MarkEnds`). `UsedInv` then says
  where the answer comes from. The exception for circles is in the property
  because the code has it (`ScanAnalyses_documented.cfg`); entry points need none.
* **Import cycles** (`CyclesTheorem`, in `ImportCyclesProofs`). `stronglyConnected` is Tarjan's algorithm
  with its own work list. What a step keeps is stated with the reachability of
  the whole graph (`Searching`): the numbers count the visited files, the stack
  and the work list ascend in them (`InOrder`); a file on the work list leads to
  all that was stacked later, and every stacked file leads to an older one that
  is on the work list (`Ways`); a low link is the number of a stacked file it
  leads to and no greater than that of any it could already step to (`Lows`); no
  edge of a visited file was missed and none leads back out of what was left
  (`Complete`); the components so far are the classes of what was left
  (`Grouped`). There is a lemma per way a step can go: it opens a file, passes
  one over, returns from one that is not a root, or closes a component. The
  search ends because a step visits a file, or takes a frame off the work list, or
  takes a neighbour off its last frame (`Progress`, `LeastOfThree`).
  `shortestCycle` is a breadth-first search: each file found has a distance, the
  queue spans at most two of them in order, and the neighbours of what left the
  queue are found (`Spreads`); so the first file with an edge back to the start
  closes a shortest loop, and the chain of predecessors read back from it is that
  loop (`ChainFacts`). `ReachesIn` of the property counts steps up to the number
  of files; that this is all of reachability is `StepsAreEnough`.

The five hold for any finitely many files and names (`ScanConstants`), in any
order (`OrderOfFiles`), any depth (`ScanBound`) and any projects. A file without
an index is told by a value that is no number (`NoIndex`). Of a project
they assume what `Scanned` says (`ScannedProjects`): lists are lists, names and
files are among those given, and ids of declarations and calls are unique. TLC
evaluates that for every project of the runs.

The type invariants of the modules with processes are proved, so they are not
repeated in the runs.

*Recursion.* An induction theorem of the library takes an operator as its
parameter, which the provers cannot instantiate. A lemma in each of
`McpServerProofs`, `DiscoveryProofs` and `ScanAnalysesProofs` stands in for it: a
set of naturals that is not empty has a least element (from the library's facts
about `<`), so a set that holds 0 and with n also n + 1 is `Nat`. A recursive
*function* is `CHOOSE f : f = Body(f)`; a solution is shown to exist by induction
(for loops, `Iteration`: steps can be taken one after the other), and a second induction
says what every solution does. This is how the searches, lookups, loops over
lists, the binary search, globs and ignore rules are reasoned about. No module
that is proved about declares an operator `RECURSIVE`.

Only model-checked: everything under fairness (liveness and `ENABLED` are out of
the prover's reach), and `RowsAreTheMatches`, which compares multiplicities of
rows over two recursions, the plan's and the pattern's, that take the pattern
apart in different orders.

## 5. Not modelled, and the plan

Next, in this order:

1. *More proofs*: the rows of a single pattern.
2. *Live graph*: `Watch` and a manual scan as two writers of one `GraphStore`,
   with the manifest written after the lock is released.
3. *Rest of partly modelled parts*: dependency and import edges between
   packages, interfaces and mixins in resolution, `find_references` and route
   tools, ordering and limits of Cypher results.

The parsers and the framework integrations are left out for good. They are
21,000 of the implementation's 37,000 lines: pattern matching on syntax trees
by node type and text, a function of one file without state, order or failure
of its own. A model of them would be the same table of patterns again; their
results are data to every model here. With printing, argument parsing, export
and the smoke command that leaves about a quarter of the lines in
which the order of steps, a shared file, a cache, an index or a fixpoint can go
wrong, and the share of lines the map covers stays far below that of the
behaviour it covers.

Also not modelled: `mkdir` and permission errors other than the ones above (they
end an operation as the modelled errors do), a `write` without a `reset` (the
program has none), what the manifest file holds, the parser fingerprint (all
scans run the same code), files that change while packages are detected, callbacks that throw, the text of queries (lexer and parser), and
the wildcards `?`, `[...]`, `{a,b}` and `*` inside a name.
