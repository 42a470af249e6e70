----------------------------- MODULE ParserPool -----------------------------
(***************************************************************************)
(* The pool of parser threads (composition/parser-pool.ts, parse-worker.ts)*)
(* as pass 2 of a scan uses it: runWithConcurrency asks for a few files at *)
(* a time and closes the pool when every file is done (orchestrator.ts).   *)
(*                                                                         *)
(* The main thread handles one event at a time.  A worker's response, its  *)
(* error and its exit are events it may see in any order the runtime can   *)
(* deliver: a response is seen before the exit or not at all.              *)
(***************************************************************************)
EXTENDS Naturals, FiniteSets

CONSTANTS
  Jobs,         \* files to parse
  Workers,      \* worker threads the pool tries to start
  Concurrency   \* files asked for at once

ASSUME PoolConstants == Concurrency \in Nat \ {0}

VARIABLES
  pool,         \* workers: those that could be created
  jobs,         \* entry.jobs of each worker
  failed,       \* entry.failed
  thread,       \* how far each worker has come in dying
  inbox,        \* requests a worker has not parsed
  outbox,       \* responses the main thread has not seen
  mainJobs,     \* how many main thread parses of each file are under way
  asked,        \* files whose parse() was called
  settled,      \* how often the promise of each file was resolved or rejected
  closing       \* close() was called

threads == <<thread, inbox, outbox>>
poolVars == <<pool, jobs, failed, threads, mainJobs, asked, settled, closing>>

PoolTypeOK ==
  /\ pool \subseteq Workers
  /\ jobs \in [Workers -> SUBSET Jobs]
  /\ failed \subseteq Workers
  /\ thread \in [Workers -> {"up", "error", "exit", "gone"}]
  /\ inbox \in [Workers -> SUBSET Jobs]
  /\ outbox \in [Workers -> SUBSET Jobs]
  /\ mainJobs \in [Jobs -> Nat]
  /\ asked \subseteq Jobs
  /\ settled \in [Jobs -> Nat]
  /\ closing \in BOOLEAN

\* createParserPool: a worker whose constructor throws is left out.
PoolInit ==
  /\ pool \in SUBSET Workers
  /\ jobs = [w \in Workers |-> {}]
  /\ failed = {}
  /\ thread = [w \in Workers |-> IF w \in pool THEN "up" ELSE "gone"]
  /\ inbox = [w \in Workers |-> {}]
  /\ outbox = [w \in Workers |-> {}]
  /\ mainJobs = [j \in Jobs |-> 0]
  /\ asked = {}
  /\ settled = [j \in Jobs |-> 0]
  /\ closing = FALSE

Settle(j) == settled' = [settled EXCEPT ![j] = @ + 1]
Unsettled == {j \in asked : settled[j] = 0}
Live == pool \ failed

-----------------------------------------------------------------------------
(* parse *)

\* No live worker: parseOnMainThread.
AskMain(j) ==
  /\ Live = {}
  /\ mainJobs' = [mainJobs EXCEPT ![j] = @ + 1]
  /\ UNCHANGED <<jobs, inbox>>

\* Mutant of AskWorker: failed workers are candidates like any other.
AskAnyWorker(j) ==
  /\ \E w \in pool :
       /\ \A v \in pool : Cardinality(jobs[w]) <= Cardinality(jobs[v])
       /\ jobs' = [jobs EXCEPT ![w] = @ \cup {j}]
       /\ inbox' = IF thread[w] = "up" THEN [inbox EXCEPT ![w] = @ \cup {j}] ELSE inbox
  /\ UNCHANGED mainJobs

\* The live worker with the fewest files in flight.  A message to a thread
\* that is down already is lost.
AskWorker(j) ==
  /\ \E w \in Live :
       /\ \A v \in Live : Cardinality(jobs[w]) <= Cardinality(jobs[v])
       /\ jobs' = [jobs EXCEPT ![w] = @ \cup {j}]
       /\ inbox' = IF thread[w] = "up" THEN [inbox EXCEPT ![w] = @ \cup {j}] ELSE inbox
  /\ UNCHANGED mainJobs

\* runWithConcurrency takes the next file when fewer than Concurrency are out.
Ask(j) ==
  /\ j \notin asked
  /\ Cardinality(Unsettled) < Concurrency
  /\ asked' = asked \cup {j}
  /\ AskMain(j) \/ AskWorker(j)
  /\ UNCHANGED <<pool, failed, thread, outbox, settled, closing>>

MainParses(j) ==
  /\ mainJobs[j] > 0
  /\ mainJobs' = [mainJobs EXCEPT ![j] = @ - 1]
  /\ Settle(j)
  /\ UNCHANGED <<pool, jobs, failed, threads, asked, closing>>

-----------------------------------------------------------------------------
(* Events of the workers on the main thread *)

\* Mutant of Message: whether the worker still has the file is not asked.
MessageSettles(w) ==
  /\ thread[w] # "gone"
  /\ \E j \in outbox[w] :
       /\ outbox' = [outbox EXCEPT ![w] = @ \ {j}]
       /\ jobs' = [jobs EXCEPT ![w] = @ \ {j}]
       /\ Settle(j)
  /\ UNCHANGED <<pool, failed, thread, inbox, mainJobs, asked, closing>>

\* "message": a response for a file this worker no longer has is dropped.
Message(w) ==
  /\ thread[w] # "gone"
  /\ \E j \in outbox[w] :
       /\ outbox' = [outbox EXCEPT ![w] = @ \ {j}]
       /\ jobs' = [jobs EXCEPT ![w] = @ \ {j}]
       /\ IF j \in jobs[w] THEN Settle(j) ELSE UNCHANGED settled
  /\ UNCHANGED <<pool, failed, thread, inbox, mainJobs, asked, closing>>

\* fail: the worker's files go to the main thread, unless the pool is closing.
Fail(w) ==
  IF closing THEN UNCHANGED <<failed, jobs, mainJobs>>
  ELSE /\ failed' = failed \cup {w}
       /\ mainJobs' = [j \in Jobs |-> IF j \in jobs[w] THEN mainJobs[j] + 1 ELSE mainJobs[j]]
       /\ jobs' = [jobs EXCEPT ![w] = {}]

ErrorEvent(w) ==
  /\ thread[w] = "error"
  /\ thread' = [thread EXCEPT ![w] = "exit"]
  /\ Fail(w)
  /\ UNCHANGED <<pool, inbox, outbox, asked, settled, closing>>

\* Mutant of ExitEvent: only "error" is listened to.
ExitUnheard(w) ==
  /\ thread[w] = "exit"
  /\ thread' = [thread EXCEPT ![w] = "gone"]
  /\ outbox' = [outbox EXCEPT ![w] = {}]
  /\ UNCHANGED <<pool, failed, jobs, mainJobs, inbox, asked, settled, closing>>

ExitEvent(w) ==
  /\ thread[w] = "exit"
  /\ thread' = [thread EXCEPT ![w] = "gone"]
  /\ outbox' = [outbox EXCEPT ![w] = {}]
  /\ Fail(w)
  /\ UNCHANGED <<pool, inbox, asked, settled, closing>>

-----------------------------------------------------------------------------
(* The worker threads (parse-worker.ts) *)

WorkerParses(w) ==
  /\ thread[w] = "up"
  /\ \E j \in inbox[w] :
       /\ inbox' = [inbox EXCEPT ![w] = @ \ {j}]
       /\ outbox' = [outbox EXCEPT ![w] = @ \cup {j}]
  /\ UNCHANGED <<pool, jobs, failed, thread, mainJobs, asked, settled, closing>>

\* A thread ends with or without an error; what it had sent may still arrive.
WorkerDies(w) ==
  /\ thread[w] = "up"
  /\ \E last \in {"error", "exit"} : thread' = [thread EXCEPT ![w] = last]
  /\ \E kept \in SUBSET outbox[w] : outbox' = [outbox EXCEPT ![w] = kept]
  /\ inbox' = [inbox EXCEPT ![w] = {}]
  /\ UNCHANGED <<pool, jobs, failed, mainJobs, asked, settled, closing>>

-----------------------------------------------------------------------------

\* orchestrator.ts: close in the finally of a pass whose every file is done;
\* terminate ends the threads that still run.
Close ==
  /\ ~closing
  /\ asked = Jobs /\ Unsettled = {}
  /\ closing' = TRUE
  /\ thread' = [w \in Workers |-> IF thread[w] = "up" THEN "exit" ELSE thread[w]]
  /\ inbox' = [w \in Workers |-> {}]
  /\ UNCHANGED <<pool, jobs, failed, outbox, mainJobs, asked, settled>>

PoolNext ==
  \/ \E j \in Jobs : Ask(j) \/ MainParses(j)
  \/ \E w \in Workers :
       Message(w) \/ ErrorEvent(w) \/ ExitEvent(w) \/ WorkerParses(w) \/ WorkerDies(w)
  \/ Close

PoolSpec == PoolInit /\ [][PoolNext]_poolVars

\* The event loop delivers what it has and threads make progress; nothing says
\* that a thread ever dies.
FairPoolSpec ==
  /\ PoolSpec
  /\ \A j \in Jobs : WF_poolVars(Ask(j)) /\ WF_poolVars(MainParses(j))
  /\ \A w \in Workers :
       WF_poolVars(Message(w)) /\ WF_poolVars(ErrorEvent(w)) /\ WF_poolVars(ExitEvent(w)) /\ WF_poolVars(WorkerParses(w))
  /\ WF_poolVars(Close)

-----------------------------------------------------------------------------
(* Properties *)

Holders(j) == {w \in Workers : j \in jobs[w]}

\* A file that was asked for is in the hands of exactly one worker or of exactly
\* one main thread parse until it settles, and of nobody afterwards: no death
\* loses it, and none has it parsed twice ("A worker that fails to start or dies
\* hands its files to the main thread", parser-pool.ts).
ParsedInOnePlace ==
  \A j \in Jobs :
    Cardinality(Holders(j)) + mainJobs[j] + settled[j] = (IF j \in asked THEN 1 ELSE 0)

\* A file in the hands of a worker is either still on its way through that
\* worker or will be found by an event that is still to come.
NoJobStranded ==
  \A w \in Workers : \A j \in jobs[w] :
    \/ thread[w] = "up" /\ j \in inbox[w] \cup outbox[w]
    \/ thread[w] \in {"error", "exit"} /\ w \notin failed

\* Every file settles, so the scan gets past its parsing pass and the pool ends,
\* whichever workers die (orchestrator.ts, pass 2).
PassCompletes ==
  <>[](closing /\ (\A j \in Jobs : settled[j] = 1) /\ \A w \in Workers : thread[w] = "gone")
=============================================================================
