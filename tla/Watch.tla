-------------------------------- MODULE Watch --------------------------------
(***************************************************************************)
(* concentrate watch (adapters/cli/watch.ts): file events are debounced by *)
(* a timer, the timer starts a scan unless one is running, and a scan that *)
(* was asked for meanwhile starts when that one ends.                      *)
(*                                                                         *)
(* The closure of startWatch runs on one thread; a step is one callback.   *)
(* The variable `timer` only holds the handle of the last setTimeout: the  *)
(* timeouts the event loop still has to fire are a set of their own.       *)
(***************************************************************************)
EXTENDS Naturals, FiniteSets

CONSTANTS
  Files,        \* source files of the project
  Waiters,      \* callers of idle()
  Handles,      \* bound: timeouts that can be outstanding at once
  Unset,        \* no timer
  MaxVersion,   \* bound: how often a file is written
  ScanFailures, \* a scan may throw or fail fast
  UnnamedEvents \* fs.watch may leave the file name out

ASSUME WatchConstants ==
  /\ Unset \notin Handles
  /\ MaxVersion \in Nat \ {0}
  /\ UnnamedEvents \in BOOLEAN

VARIABLES
  timer,        \* the handle in the closure, or Unset
  timeouts,     \* timeouts that have neither fired nor been cleared
  running,      \* the closure's running promise is not null
  pending,      \* a scan was asked for while one was running
  closed,       \* close() was called
  waiter,       \* what each caller of idle() has
  closing,      \* what the caller of close() has
  scans,        \* scanIntoStore calls in progress
  left,         \* files the scan in progress has not read yet
  found,        \* what it read
  version,      \* the files: how often each was written
  graph,        \* the versions the stored graph was built from
  failed,       \* history: the last scan that ended left the graph as it was
  events        \* file system events not delivered yet

timers == <<timer, timeouts>>
scan == <<left, found>>
stored == <<graph, failed>>
vars == <<timers, running, pending, closed, waiter, closing, scans, scan, version, stored, events>>

Versions == [Files -> 0..MaxVersion]

WatchTypeOK ==
  /\ timer \in Handles \cup {Unset}
  /\ timeouts \subseteq Handles
  /\ running \in BOOLEAN /\ pending \in BOOLEAN /\ closed \in BOOLEAN
  /\ waiter \in [Waiters -> {"none", "waiting", "resolved"}]
  /\ closing \in {"none", "waiting", "resolved"}
  /\ scans \in Nat
  /\ left \subseteq Files
  /\ found \in Versions /\ version \in Versions /\ graph \in Versions
  /\ failed \in BOOLEAN
  /\ events \subseteq {"source", "output", "unnamed"}

\* startWatch: the watcher is set up and the first scan starts at once.
WatchInit ==
  /\ timer = Unset
  /\ timeouts = {}
  /\ running = TRUE
  /\ pending = FALSE
  /\ closed = FALSE
  /\ waiter = [w \in Waiters |-> "none"]
  /\ closing = "none"
  /\ scans = 1
  /\ left = Files
  /\ found = [f \in Files |-> 0]
  /\ version = [f \in Files |-> 1]
  /\ graph = [f \in Files |-> 0]
  /\ failed = FALSE
  /\ events = {}

-----------------------------------------------------------------------------
(* settleIdle, runScan, scanNow and schedule *)

Resolved == [w \in Waiters |-> IF waiter[w] = "waiting" THEN "resolved" ELSE waiter[w]]

\* Mutant of SettleIdle: a running scan is not looked at.
SettleUnderScan ==
  waiter' = IF pending' \/ timer' # Unset THEN waiter ELSE Resolved

\* Mutant of SettleIdle: nobody is told.
SettleNobody == waiter' = waiter

\* settleIdle, as the closure's variables stand at the end of the callback.
SettleIdle ==
  waiter' = IF running' \/ pending' \/ timer' # Unset THEN waiter ELSE Resolved

\* runScan: scanIntoStore is called; its reads follow.
StartScan ==
  /\ running' = TRUE
  /\ left' = Files
  /\ found' = found

\* Mutant of ScanNow: it starts a scan whether or not one is running.
ScanRegardless(h) ==
  /\ h \in timeouts
  /\ timeouts' = timeouts \ {h}
  /\ timer' = Unset
  /\ ~closed
  /\ StartScan
  /\ scans' = scans + 1
  /\ UNCHANGED <<pending, closed, waiter, closing, version, stored, events>>

\* Mutant of ScanNow: a request during a scan is dropped.
ScanOrDrop(h) ==
  /\ h \in timeouts
  /\ timeouts' = timeouts \ {h}
  /\ timer' = Unset
  /\ IF closed \/ running
     THEN UNCHANGED <<running, scans, scan, waiter>>
     ELSE StartScan /\ scans' = scans + 1 /\ waiter' = waiter
  /\ UNCHANGED <<pending, closed, closing, version, stored, events>>

\* scanNow runs on its timeout, which no longer is outstanding.
ScanNow(h) ==
  /\ h \in timeouts
  /\ timeouts' = timeouts \ {h}
  /\ timer' = Unset
  /\ \/ /\ closed
        /\ UNCHANGED <<running, pending, scans, scan>>
        /\ SettleIdle
     \/ /\ ~closed
        /\ running
        /\ pending' = TRUE
        /\ UNCHANGED <<running, scans, scan, waiter>>
     \/ /\ ~closed
        /\ ~running
        /\ StartScan
        /\ scans' = scans + 1
        /\ UNCHANGED <<pending, waiter>>
  /\ UNCHANGED <<closed, closing, version, stored, events>>

\* schedule: the quiet period starts over.
Schedule ==
  \E h \in Handles \ timeouts :
    /\ timer' = h
    /\ timeouts' = (timeouts \ {timer}) \cup {h}

\* fs.watch tells of a scan's own output by its file name, or without a name; a
\* source file counts either way.
OwnEvents == {"output"} \cup {e \in {"unnamed"} : UnnamedEvents}

\* Mutant of Ignored: the scan's own outputs are events like any other.
IgnoreNothing(event) == FALSE

\* fileName && isIgnored: a change of the scan's own outputs does not count, if
\* the event names it.
Ignored(event) == event = "output"

\* The watcher's callback.  A closed watcher delivers nothing.
FileEvent ==
  /\ ~closed
  /\ \E e \in events :
       /\ events' = events \ {e}
       /\ IF Ignored(e) THEN UNCHANGED timers ELSE Schedule
  /\ UNCHANGED <<running, pending, closed, waiter, closing, scans, scan, version, stored>>

-----------------------------------------------------------------------------
(* The scan in progress *)

\* Each file is read at a moment of its own.
ScanReads ==
  /\ scans > 0
  /\ \E f \in left :
       /\ left' = left \ {f}
       /\ found' = [found EXCEPT ![f] = version[f]]
  /\ UNCHANGED <<timers, running, pending, closed, waiter, closing, scans, version, stored, events>>

\* runScan settles and its finally runs: a pending scan starts, through
\* scanNow, which forgets the timer but does not clear it.
Finally ==
  /\ closing' = IF closing = "waiting" THEN "resolved" ELSE closing
  /\ pending' = FALSE
  /\ \/ /\ pending /\ ~closed
        /\ timer' = Unset
        /\ StartScan
        /\ UNCHANGED <<scans, waiter>>
     \/ /\ ~(pending /\ ~closed)
        /\ running' = FALSE
        /\ scans' = scans - 1
        /\ UNCHANGED <<timer, scan>>
        /\ SettleIdle
  /\ UNCHANGED <<timeouts, closed, version>>

\* The store has the new graph and the manifest is written, which changed files
\* under the root.
ScanSucceeds ==
  /\ scans > 0
  /\ left = {}
  /\ graph' = found
  /\ failed' = FALSE
  /\ \E e \in OwnEvents : events' = events \cup {e}
  /\ Finally

\* An error, or a fail-fast scan: cache entries and the manifest may have been
\* written, but not the graph; or the graph is written and giving back its lock
\* or writing the manifest fails.
ScanFails ==
  /\ ScanFailures
  /\ scans > 0
  /\ \/ /\ UNCHANGED graph
        /\ failed' = TRUE
        /\ events' \in {events} \cup {events \cup {e} : e \in OwnEvents}
     \/ /\ left = {}
        /\ graph' = found
        /\ failed' = FALSE
        /\ \E e \in OwnEvents : events' = events \cup {e}
  /\ Finally

-----------------------------------------------------------------------------
(* The handle startWatch returns, and the user who edits *)

Idle(w) ==
  /\ waiter[w] = "none"
  /\ waiter' = IF running \/ pending \/ timer # Unset
               THEN [waiter EXCEPT ![w] = "waiting"]
               ELSE [Resolved EXCEPT ![w] = "resolved"]
  /\ UNCHANGED <<timers, running, pending, closed, closing, scans, scan, version, stored, events>>

\* Mutant of Close: a scan asked for stays asked for.
CloseKeepsPending ==
  /\ closing = "none"
  /\ closed' = TRUE
  /\ timer' = Unset
  /\ timeouts' = timeouts \ {timer}
  /\ closing' = IF running THEN "waiting" ELSE "resolved"
  /\ IF running THEN UNCHANGED waiter ELSE waiter' = Resolved
  /\ UNCHANGED <<running, pending, scans, scan, version, stored, events>>

\* Mutant of Close: the running scan is not awaited.
CloseAtOnce ==
  /\ closing = "none"
  /\ closed' = TRUE
  /\ timer' = Unset
  /\ timeouts' = timeouts \ {timer}
  /\ pending' = FALSE
  /\ closing' = "resolved"
  /\ UNCHANGED <<running, waiter, scans, scan, version, stored, events>>

\* close: with no scan running, awaiting null and settleIdle follow at once.
Close ==
  /\ closing = "none"
  /\ closed' = TRUE
  /\ timer' = Unset
  /\ timeouts' = timeouts \ {timer}
  /\ pending' = FALSE
  /\ closing' = IF running THEN "waiting" ELSE "resolved"
  /\ IF running THEN UNCHANGED waiter ELSE waiter' = Resolved
  /\ UNCHANGED <<running, scans, scan, version, stored, events>>

Edit ==
  /\ \E f \in Files :
       /\ version[f] < MaxVersion
       /\ version' = [version EXCEPT ![f] = @ + 1]
  /\ events' = events \cup {"source"}
  /\ UNCHANGED <<timers, running, pending, closed, waiter, closing, scans, scan, stored>>

-----------------------------------------------------------------------------

ScanStep == ScanReads \/ ScanSucceeds \/ ScanFails

WatchNext ==
  \/ \E h \in Handles : ScanNow(h)
  \/ FileEvent
  \/ ScanStep
  \/ \E w \in Waiters : Idle(w)
  \/ Close
  \/ Edit

WatchSpec == WatchInit /\ [][WatchNext]_vars

\* Timeouts fire, events are delivered and scans end; nobody has to edit,
\* ask or close.
FairWatchSpec ==
  /\ WatchSpec
  /\ \A h \in Handles : WF_vars(ScanNow(h))
  /\ WF_vars(FileEvent)
  /\ WF_vars(ScanStep)

-----------------------------------------------------------------------------
(* Properties *)

\* Scans of one watch never overlap, though timeouts the closure has forgotten
\* still fire: two scanIntoStore calls would race for manifest and cache
\* (watch.ts, scanNow).
OneScanAtATime == scans = (IF running THEN 1 ELSE 0)

\* A scan asked for while another runs is never forgotten: pending outlives
\* only a running scan, so someone is left to start it (watch.ts, finally).
PendingHasScan == pending => running /\ ~closed

\* Once close() has resolved nothing scans any more (watch.ts, close).
CloseIsFinal == closing = "resolved" => scans = 0

\* idle() does not resolve under a scan, whatever stale timeout fires.
IdleOutsideScans ==
  [][\A w \in Waiters : waiter[w] # "resolved" /\ waiter'[w] = "resolved" => scans' = 0]_vars

\* The graph catches up with the last edit, wherever it fell: before, between
\* or after the reads of a scan, unless the last scan failed before it wrote the
\* graph (README: "watch mode keep the graph in step with the code").
GraphCatchesUp == <>[](graph = version \/ closed \/ failed)

\* Rescanning ends when the edits do, although each scan causes events itself,
\* unless fs.watch leaves out the file name of such events again and again:
\* a named event of an own output starts nothing (watch.ts, isIgnored).
ComesToRest == <>[](scans = 0 /\ timeouts = {}) \/ []<>("unnamed" \in events)

\* "its own outputs are ignored" (docs/ROADMAP.md): rescanning ends when the
\* edits do, whatever the events tell.
RescanningEnds == <>[](scans = 0 /\ timeouts = {})

\* Every close() resolves, and when edits stop every idle(), under the condition
\* of ComesToRest: nobody is idle while scans call for scans (watch.ts, settleIdle).
CallersReturn ==
  /\ (\A w \in Waiters : waiter[w] = "waiting" ~> waiter[w] = "resolved")
       \/ []<>("unnamed" \in events)
  /\ closing = "waiting" ~> closing = "resolved"

\* "Resolves when no scan is running or scheduled" (watch.ts, WatchHandle.idle).
IdleMeansNothingScheduled ==
  [][\A w \in Waiters : waiter[w] # "resolved" /\ waiter'[w] = "resolved"
       => scans' = 0 /\ (timeouts' = {} \/ closed')]_vars
=============================================================================
