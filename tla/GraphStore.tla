----------------------------- MODULE GraphStore -----------------------------
(***************************************************************************)
(* The graph store directory, the scans that replace its graph and the     *)
(* tool calls that read it (adapters/store/store.ts, persistence.ts and    *)
(* the store part of adapters/cli/scan.ts).                                *)
(*                                                                         *)
(* A graph is the set of segment files that hold it: segments are named by *)
(* the hash of their content, so equal names are equal content.            *)
(*                                                                         *)
(* Every await on the file system is a step boundary: writers and readers  *)
(* are different processes and run between any two of them.  The lock is   *)
(* the abstract one (StoreLock), which WriterLock implements.              *)
(***************************************************************************)
EXTENDS Naturals, FiniteSets

CONSTANTS
  Writers,      \* processes that scan into the store
  Calls,        \* tool calls in flight
  Instances,    \* GraphStore objects of the reading processes
  InstanceOf,   \* the object each call queries
  Segs,         \* segment files
  None,         \* no writer, no answer
  ReadAttempts, \* READ_ATTEMPTS of persistence.ts
  MaxScans,     \* bound: scans that start
  Crashes,      \* a writer may be killed at any moment
  LockErrors,   \* GraphLockError: no --retry-lock, or past the deadline
  Rejects,      \* graph.write may refuse the scan's nodes
  DiskErrors,   \* a commit may fail at any of its file operations
  ReleaseErrors, \* removing the LOCK file may fail
  OldStores,    \* the directory may hold a HEAD of another format
  Deletes       \* someone may delete the directory between two scans

ASSUME StoreConstants ==
  /\ None \notin Writers
  /\ Writers \cap Calls = {}
  /\ InstanceOf \in [Calls -> Instances]
  /\ ReadAttempts \in Nat \ {0}
  /\ MaxScans \in Nat

VARIABLES
  head,         \* HEAD.json
  disk,         \* the files in segments/
  aged,         \* those whose mtime is more than SEGMENT_GRACE_MS ago
  locked,       \* the writer whose LOCK file is there, or None
  left,         \* the writer whose failed release left that file there, or None
  job,          \* per writer, its scan
  load,         \* per writer and call, its loadSnapshot
  view,         \* per instance, the snapshot in memory
  scans,        \* how many scans have started
  since,        \* history: graphs committed since each call in flight began
  answer        \* history: the graph each call was last answered from

files == <<head, disk, aged>>
lock == <<locked, left>>
readers == <<view, since, answer>>
vars == <<files, lock, job, load, readers, scans>>

Graphs == SUBSET Segs
Heads == [gen : Nat, segs : Graphs, format : {"current", "other"}]
NoHead == [gen |-> 0, segs |-> {}, format |-> "current"]

JobSteps == {"idle", "open", "lock", "apply", "segments", "collect", "failed", "dead"}
Jobs == [step : JobSteps,
         round : 1..2,        \* 1: the write, 2: the close after a failed write
         scan : Graphs,       \* the nodes and relationships to write
         graph : Graphs,      \* this.graph
         gen : Nat,           \* the generation of the HEAD read under the lock
         todo : Graphs]       \* segments still to write, or files still to delete
NoJob == [step |-> "idle", round |-> 1, scan |-> {}, graph |-> {}, gen |-> 0,
          todo |-> {}]

Loaders == Writers \cup Calls
Loads == [step : {"none", "check", "compare", "head", "segments"},
          head : Heads,
          left : Graphs,      \* segments whose read is outstanding
          tries : 0..ReadAttempts]
NoLoad == [step |-> "none", head |-> NoHead, left |-> {}, tries |-> 0]

StoreTypeOK ==
  /\ head \in Heads
  /\ aged \subseteq disk /\ disk \subseteq Segs
  /\ locked \in Writers \cup {None}
  /\ left \in Writers \cup {None}
  /\ job \in [Writers -> Jobs]
  /\ load \in [Loaders -> Loads]
  /\ view \in [Instances -> Heads]
  /\ scans \in 0..MaxScans
  /\ since \in [Calls -> SUBSET Graphs]
  /\ answer \in [Calls -> Graphs \cup {None}]

\* An empty directory, or one an older release wrote.
StoreInit ==
  /\ head \in {NoHead} \cup (IF OldStores THEN {[NoHead EXCEPT !.format = "other"]} ELSE {})
  /\ disk = {}
  /\ aged = {}
  /\ locked = None
  /\ left = None
  /\ job = [w \in Writers |-> NoJob]
  /\ load = [l \in Loaders |-> NoLoad]
  /\ view = [i \in Instances |-> NoHead]
  /\ scans = 0
  /\ since = [c \in Calls |-> {}]
  /\ answer = [c \in Calls |-> None]

-----------------------------------------------------------------------------
(* loadSnapshot, used by GraphStore.open and by refresh *)

Loading(l, tries) == load' = [load EXCEPT ![l] = [NoLoad EXCEPT !.step = "head", !.tries = tries]]
Loaded(l) == load' = [load EXCEPT ![l] = NoLoad]

\* readHead rejects a HEAD of another format.
Unsupported == head.format # "current"

\* readHead, then the reads of all segments start.  Without a HEAD there is
\* nothing to read.
LoadHead(l) ==
  /\ load[l].step = "head"
  /\ ~Unsupported
  /\ load' = [load EXCEPT ![l].step = "segments", ![l].head = head, ![l].left = head.segs]
  /\ UNCHANGED <<files, lock, job, readers, scans>>

ReadSegment(l) ==
  /\ load[l].step = "segments"
  /\ \E s \in load[l].left \cap disk : load' = [load EXCEPT ![l].left = @ \ {s}]
  /\ UNCHANGED <<files, lock, job, readers, scans>>

Missing(l) == load[l].step = "segments" /\ load[l].left \ disk # {}

\* ENOENT, and attempts left: start over with the HEAD of that moment.
RetryLoad(l) ==
  /\ Missing(l)
  /\ load[l].tries < ReadAttempts
  /\ load' = [load EXCEPT ![l].step = "head", ![l].left = {}, ![l].tries = @ + 1]
  /\ UNCHANGED <<files, lock, job, readers, scans>>

\* The two ways loadSnapshot rejects.
LoadRejects(l) ==
  \/ load[l].step = "head" /\ Unsupported
  \/ Missing(l) /\ load[l].tries = ReadAttempts

LoadResolves(l) == load[l].step = "segments" /\ load[l].left = {}

-----------------------------------------------------------------------------
(* Readers: GraphStore.query, stats and schemaVersion, all behind refresh *)

Settle(c, graph) ==
  /\ since' = [since EXCEPT ![c] = {}]
  /\ answer' = [answer EXCEPT ![c] = graph]

Ask(c) ==
  /\ since[c] = {}
  /\ since' = [since EXCEPT ![c] = {head.segs}]
  /\ answer' = [answer EXCEPT ![c] = None]
  /\ load' = [load EXCEPT ![c].step = "check"]
  /\ UNCHANGED <<files, lock, job, view, scans>>

\* refresh: readHead.
ReadLatest(c) ==
  /\ load[c].step = "check"
  /\ ~Unsupported
  /\ load' = [load EXCEPT ![c].step = "compare", ![c].head = head]
  /\ UNCHANGED <<files, lock, job, readers, scans>>

\* Mutant of AnswerFromView: any graph in memory is good enough.
AnswerUnrefreshed(c) ==
  /\ load[c].step = "compare"
  /\ Settle(c, view[InstanceOf[c]].segs)
  /\ Loaded(c)
  /\ UNCHANGED <<files, lock, job, view, scans>>

\* The same generation is in memory by now: answered from it at once.
AnswerFromView(c) ==
  /\ load[c].step = "compare"
  /\ load[c].head.gen = view[InstanceOf[c]].gen
  /\ Settle(c, view[InstanceOf[c]].segs)
  /\ Loaded(c)
  /\ UNCHANGED <<files, lock, job, view, scans>>

\* Another generation, older or newer: loadSnapshot.
Refresh(c) ==
  /\ load[c].step = "compare"
  /\ load[c].head.gen # view[InstanceOf[c]].gen
  /\ Loading(c, 1)
  /\ UNCHANGED <<files, lock, job, readers, scans>>

\* The load resolves: the instance takes the snapshot and the call runs on it.
AnswerFromLoad(c) ==
  /\ LoadResolves(c)
  /\ view' = [view EXCEPT ![InstanceOf[c]] = load[c].head]
  /\ Settle(c, load[c].head.segs)
  /\ Loaded(c)
  /\ UNCHANGED <<files, lock, job, scans>>

\* Mutant of CallFails: the error of refresh's readHead goes nowhere.
CallFailsInLoad(c) ==
  /\ LoadRejects(c)
  /\ Settle(c, None)
  /\ Loaded(c)
  /\ UNCHANGED <<files, lock, job, view, scans>>

CallFails(c) ==
  /\ LoadRejects(c) \/ (load[c].step = "check" /\ Unsupported)
  /\ Settle(c, None)
  /\ Loaded(c)
  /\ UNCHANGED <<files, lock, job, view, scans>>

-----------------------------------------------------------------------------
(* Writers: scanIntoStore, GraphStore.reset, write, close and mutate *)

Move(w, step) == job' = [job EXCEPT ![w].step = step]

\* buildGraph is done and the store is opened.
StartScan(w) ==
  /\ job[w].step = "idle"
  /\ scans < MaxScans
  /\ \E g \in Graphs \ {{}} : job' = [job EXCEPT ![w] = [NoJob EXCEPT !.step = "open", !.scan = g]]
  /\ Loading(w, 1)
  /\ scans' = scans + 1
  /\ UNCHANGED <<files, lock, readers>>

\* open resolves; reset empties this.graph and write asks for the lock.
Opened(w) ==
  /\ LoadResolves(w)
  /\ Move(w, "lock")
  /\ Loaded(w)
  /\ UNCHANGED <<files, lock, readers, scans>>

OpenFails(w) ==
  /\ LoadRejects(w)
  /\ job' = [job EXCEPT ![w] = NoJob]
  /\ Loaded(w)
  /\ UNCHANGED <<files, lock, readers, scans>>

\* Mutant of EnterLock: mutate does not take the lock.
EnterAnyway(w) ==
  /\ job[w].step = "lock"
  /\ locked' = w
  /\ left' = None
  /\ Move(w, "apply")
  /\ UNCHANGED <<files, load, readers, scans>>

\* acquireWriteLock resolves: there is no LOCK file, or one to take over, of a
\* process that is gone or left behind more than STALE_AFTER_MS ago.
EnterLock(w) ==
  /\ job[w].step = "lock"
  /\ locked # None => left # None \/ job[locked].step = "dead"
  /\ locked' = w
  /\ left' = None
  /\ Move(w, "apply")
  /\ UNCHANGED <<files, load, readers, scans>>

\* What a failed mutate leads to: write is followed by close, which runs mutate
\* again because the reset is still pending; a failed close ends the scan.
AfterFailure(w) ==
  job' = [job EXCEPT ![w] = IF @.round = 1
                            THEN [@ EXCEPT !.step = "lock", !.round = 2, !.todo = {}]
                            ELSE NoJob]

LockRejected(w) ==
  /\ LockErrors
  /\ job[w].step = "lock"
  /\ locked # None
  /\ AfterFailure(w)
  /\ UNCHANGED <<files, lock, load, readers, scans>>

\* readHead under the lock, then the change: write puts the scan into the
\* graph, close changes nothing.  Segments of the HEAD just read are not
\* written again.
Apply(w) ==
  /\ job[w].step = "apply"
  /\ LET graph == IF job[w].round = 1 THEN job[w].scan ELSE job[w].graph
     IN job' = [job EXCEPT ![w].step = "segments", ![w].graph = graph,
                           ![w].gen = head.gen, ![w].todo = graph \ head.segs]
  /\ UNCHANGED <<files, lock, load, readers, scans>>

\* graph.write throws: the half-applied change is dropped for an empty graph.
ApplyRejects(w) ==
  /\ Rejects
  /\ job[w].step = "apply"
  /\ job[w].round = 1
  /\ job' = [job EXCEPT ![w].step = "failed", ![w].graph = {}]
  /\ UNCHANGED <<files, lock, load, readers, scans>>

\* commitSnapshot: one segment, written beside and renamed into place.
WriteSegment(w) ==
  /\ job[w].step = "segments"
  /\ \E s \in job[w].todo :
       /\ disk' = disk \cup {s}
       /\ aged' = aged \ {s}
       /\ job' = [job EXCEPT ![w].todo = @ \ {s}]
  /\ UNCHANGED <<head, lock, load, readers, scans>>

\* Mutant of RenameHead: the segments are not awaited before the rename.
RenameEarly(w) ==
  /\ job[w].step = "segments"
  /\ head' = [gen |-> job[w].gen + 1, segs |-> job[w].graph, format |-> "current"]
  /\ since' = [c \in Calls |-> IF since[c] = {} THEN {} ELSE since[c] \cup {job[w].graph}]
  /\ job' = [job EXCEPT ![w].step = "collect", ![w].todo = aged \ job[w].graph]
  /\ UNCHANGED <<disk, aged, lock, load, view, answer, scans>>

\* commitSnapshot: HEAD.json is renamed into place; then collectGarbage takes
\* the time and lists the files no longer referenced.
RenameHead(w) ==
  /\ job[w].step = "segments"
  /\ job[w].todo = {}
  /\ head' = [gen |-> job[w].gen + 1, segs |-> job[w].graph, format |-> "current"]
  /\ since' = [c \in Calls |-> IF since[c] = {} THEN {} ELSE since[c] \cup {job[w].graph}]
  /\ job' = [job EXCEPT ![w].step = "collect", ![w].todo = aged \ job[w].graph]
  /\ UNCHANGED <<disk, aged, lock, load, view, answer, scans>>

\* collectGarbage: one unreferenced file older than the grace period.
CollectSegment(w) ==
  /\ job[w].step = "collect"
  /\ \E s \in job[w].todo :
       /\ disk' = disk \ (aged \cap {s})
       /\ aged' = aged \ {s}
       /\ job' = [job EXCEPT ![w].todo = @ \ {s}]
  /\ UNCHANGED <<head, lock, load, readers, scans>>

\* A file operation of commitSnapshot rejects, or the readHead before it.
CommitFails(w) ==
  /\ DiskErrors
  /\ job[w].step \in {"apply", "segments", "collect"}
  /\ Move(w, "failed")
  /\ UNCHANGED <<files, lock, load, readers, scans>>

\* mutate's finally after a commit: the reset is done, so close does nothing.
ReleaseDone(w) ==
  /\ job[w].step = "collect"
  /\ job[w].todo = {}
  /\ locked' = None
  /\ left' = None
  /\ job' = [job EXCEPT ![w] = NoJob]
  /\ UNCHANGED <<files, load, readers, scans>>

\* Mutant of ReleaseFailed: release is not in a finally.
KeepLock(w) ==
  /\ job[w].step = "failed"
  /\ AfterFailure(w)
  /\ UNCHANGED <<files, lock, load, readers, scans>>

\* mutate's finally after an error.
ReleaseFailed(w) ==
  /\ job[w].step = "failed"
  /\ locked' = None
  /\ left' = None
  /\ AfterFailure(w)
  /\ UNCHANGED <<files, load, readers, scans>>

\* release rejects in that finally and the LOCK file of a running process stays.
\* After a commit the write fails with its reset done, so the scan is over; the
\* error of a failed change or commit is replaced by this one.
ReleaseRejects(w) ==
  /\ ReleaseErrors
  /\ \/ /\ job[w].step = "collect"
        /\ job[w].todo = {}
        /\ job' = [job EXCEPT ![w] = NoJob]
     \/ /\ job[w].step = "failed"
        /\ AfterFailure(w)
  /\ left' = w
  /\ UNCHANGED <<files, locked, load, readers, scans>>

-----------------------------------------------------------------------------
(* The environment *)

Crash(w) ==
  /\ Crashes
  /\ job[w].step # "dead"
  /\ job' = [job EXCEPT ![w] = [NoJob EXCEPT !.step = "dead"]]
  /\ Loaded(w)
  /\ UNCHANGED <<files, lock, readers, scans>>

SegmentAges ==
  /\ \E s \in disk \ aged : aged' = aged \cup {s}
  /\ UNCHANGED <<head, disk, lock, job, load, readers, scans>>

DeleteStore ==
  /\ Deletes
  /\ \A w \in Writers : job[w].step = "idle"
  /\ head # NoHead
  /\ head' = NoHead
  /\ disk' = {}
  /\ aged' = {}
  /\ locked' = None
  /\ left' = None
  /\ since' = [c \in Calls |-> IF since[c] = {} THEN {} ELSE since[c] \cup {{}}]
  /\ UNCHANGED <<job, load, view, answer, scans>>

-----------------------------------------------------------------------------

LoadStep(l) == LoadHead(l) \/ ReadSegment(l) \/ RetryLoad(l)

CallStep(c) ==
  \/ LoadStep(c)
  \/ ReadLatest(c)
  \/ AnswerFromView(c)
  \/ Refresh(c)
  \/ AnswerFromLoad(c)
  \/ CallFails(c)

WriterStep(w) ==
  \/ LoadStep(w)
  \/ Opened(w)
  \/ OpenFails(w)
  \/ EnterLock(w)
  \/ LockRejected(w)
  \/ Apply(w)
  \/ ApplyRejects(w)
  \/ WriteSegment(w)
  \/ RenameHead(w)
  \/ CollectSegment(w)
  \/ CommitFails(w)
  \/ ReleaseDone(w)
  \/ ReleaseFailed(w)
  \/ ReleaseRejects(w)

StoreNext ==
  \/ \E c \in Calls : Ask(c) \/ CallStep(c)
  \/ \E w \in Writers : StartScan(w) \/ WriterStep(w) \/ Crash(w)
  \/ SegmentAges
  \/ DeleteStore

StoreSpec == StoreInit /\ [][StoreNext]_vars

\* Processes that run keep running their own code.
FairStoreSpec ==
  /\ StoreSpec
  /\ \A c \in Calls : WF_vars(CallStep(c))
  /\ \A w \in Writers : WF_vars(WriterStep(w))

-----------------------------------------------------------------------------
(* Properties *)

\* Every segment HEAD.json names is on disk, whatever scan crashed or failed
\* where, and whatever was collected: a scan or a server that opens the store
\* can always load it (persistence.ts: commitSnapshot, collectGarbage).
HeadComplete == head.segs \subseteq disk

\* Why HeadComplete holds, as an inductive invariant.  mutate's steps are one
\* writer's at a time; what it read from HEAD.json under the lock is still
\* there when it renames, every segment of its graph is on disk or still to be
\* written, and what it will delete is not part of what it committed.
Inside(w) == job[w].step \in {"apply", "segments", "collect", "failed"}

StoreInv ==
  /\ HeadComplete
  /\ \A w \in Writers :
       /\ Inside(w) => locked = w /\ left = None
       /\ job[w].step = "segments" =>
            job[w].gen = head.gen /\ job[w].graph \subseteq disk \cup job[w].todo
       /\ job[w].step = "collect" => job[w].todo \cap head.segs = {}

\* A scan loads a snapshot only while it opens the store.
OpenInv == \A w \in Writers : load[w].step # "none" => job[w].step = "open"

\* "A segment deleted under us means a newer HEAD exists, so start over"
\* (persistence.ts, loadSnapshot): each attempt works on a newer generation
\* than the one before, so an attempt is only lost to a commit.
RetryReadsNewer ==
  [][\A l \in Loaders : LoadHead(l) /\ load[l].tries > 1 => head.gen > load[l].head.gen]_vars

\* Readers tell snapshots apart by generation only (store.ts, refresh), so no
\* two commits may share one: each is one more than the last.
GenerationsGrow == [][head' # head => head'.gen = head.gen + 1]_vars

\* A call is answered from one whole graph that was the committed one at some
\* moment since it was asked; concurrent calls on one instance, commits,
\* failed scans and lost segments included (store.ts, query and refresh).
Abstract == INSTANCE SnapshotStore WITH NoAnswer <- None, current <- head.segs

ImplementsSnapshotStore == Abstract!Spec

\* The critical section of mutate is used as StoreLock allows, so the lock of
\* lock.ts can take its place.
Lock == INSTANCE StoreLock WITH
  inside <- {w \in Writers : Inside(w)},
  gone <- {w \in Writers : job[w].step = "dead"}

UsesStoreLock == Lock!Spec

\* Why both hold unless the store is deleted, as an inductive invariant with
\* StoreInv.  What was read from HEAD.json is older than the committed snapshot
\* or the same; no two snapshots in memory share a generation; the load of a
\* segment that is gone is of an older one; and a call in flight knows the graph
\* committed now and the one whose HEAD it has read.
Known(snapshot) ==
  /\ snapshot.gen <= head.gen
  /\ snapshot.gen = head.gen => snapshot.segs = head.segs

InMemory == {NoHead} \cup {view[i] : i \in Instances} \cup {load[l].head : l \in Loaders}

OneGraphPerGeneration ==
  \A s, t \in InMemory : s.gen = t.gen => s.segs = t.segs

ViewInv == \A i \in Instances : Known(view[i])

LoadInv ==
  \A l \in Loaders :
    /\ Known(load[l].head)
    /\ load[l].step = "segments" => load[l].left \subseteq load[l].head.segs
    /\ load[l].step = "head" /\ load[l].tries > 1 => load[l].head.gen < head.gen

CallInv ==
  \A c \in Calls :
    /\ since[c] = {} <=> load[c].step = "none"
    /\ since[c] # {} => head.segs \in since[c]
    /\ load[c].step \in {"compare", "segments"} => load[c].head.segs \in since[c]

SnapshotInv ==
  /\ Known(NoHead)
  /\ OneGraphPerGeneration
  /\ ViewInv
  /\ LoadInv
  /\ CallInv

\* Every tool call settles: with an answer or an error (store.ts, refresh;
\* persistence.ts, READ_ATTEMPTS).
CallsSettle == \A c \in Calls : since[c] # {} ~> since[c] = {}

\* Every scan ends, or its process dies, and a LOCK file of a scan that ended is
\* only there because its removal failed, never because nobody tried (store.ts,
\* mutate's finally; scan.ts, close in a finally; lock.ts, release).
ScansEnd ==
  \A w \in Writers : job[w].step \notin {"idle", "dead"} ~>
    \/ job[w].step = "dead"
    \/ job[w].step = "idle" /\ (locked = w => left = w)

\* A scan that fails leaves the committed graph alone: what is committed is
\* what some scan found ("Like a rolled-back transaction: drop the half-applied
\* change", store.ts).
OnlyScansAreCommitted ==
  [][\A w \in Writers : RenameHead(w) => head'.segs = job[w].scan]_vars

\* "A finished scan is picked up on the next tool call; no restart is needed"
\* (docs/mcp-server.md): an answer comes from a graph committed since the call.
FreshAnswers ==
  [][\A c \in Calls : answer'[c] \notin {None, answer[c]} => answer'[c] \in since[c]]_vars
=============================================================================
