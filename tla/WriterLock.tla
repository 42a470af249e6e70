----------------------------- MODULE WriterLock -----------------------------
(***************************************************************************)
(* The writer lock of a graph store directory (adapters/store/lock.ts).    *)
(*                                                                         *)
(* The lock is a file LOCK created with open(path, "wx") whose content     *)
(* names the owner.  A contender that finds the file reads the owner,      *)
(* stats the file, asks whether the owner still runs, and either removes   *)
(* the file as stale or waits and tries again.  Each of these is a system  *)
(* call of its own, so each is an action of its own: other processes run   *)
(* between any two of them.                                                *)
(***************************************************************************)
EXTENDS Naturals, FiniteSets

CONSTANTS
  Procs,        \* operating system processes that may write to the store
  None,         \* no process: a missing file, or content without an owner
  HostOf,       \* the host each process runs on
  MaxPolls,     \* bound: waits of one acquisition before its deadline passed
  Crashes,      \* a process may be killed at any moment
  Exits,        \* a process outside an acquisition may end normally
  Ages,         \* a lock file may get older than STALE_AFTER_MS
  WriteErrors,  \* writing the owner record may fail
  UnlinkErrors  \* removing the file may fail, in a take-over and in a release

ASSUME LockConstants == None \notin Procs /\ MaxPolls \in Nat

ASSUME LockSwitches ==
  {Crashes, Exits, Ages, WriteErrors, UnlinkErrors} \subseteq BOOLEAN

VARIABLES
  creator,      \* the process whose open() made the LOCK file, or None
  written,      \* the file holds its creator's owner record
  old,          \* the file's mtime is more than STALE_AFTER_MS ago
  pc,           \* where each process is in acquireWriteLock
  seen,         \* the owner readOwner returned to each process
  polls         \* how often the current acquisition has slept

lockFile == <<creator, written, old>>
lockVars == <<creator, written, old, pc, seen, polls>>

LockSteps == {"idle", "open", "write", "held", "read", "stat", "alive",
              "unlink", "poll", "failed", "dead"}

LockTypeOK ==
  /\ creator \in Procs \cup {None}
  /\ written \in BOOLEAN
  /\ old \in BOOLEAN
  /\ pc \in [Procs -> LockSteps]
  /\ seen \in [Procs -> Procs \cup {None}]
  /\ polls \in [Procs -> 0..MaxPolls]

LockInit ==
  /\ creator = None
  /\ written = FALSE
  /\ old = FALSE
  /\ pc = [p \in Procs |-> "idle"]
  /\ seen = [p \in Procs |-> None]
  /\ polls = [p \in Procs |-> 0]

Goto(p, step) == pc' = [pc EXCEPT ![p] = step]

RemoveFile ==
  /\ creator' = None
  /\ written' = FALSE
  /\ old' = FALSE

-----------------------------------------------------------------------------
(* acquireWriteLock *)

\* mkdir, the deadline, the first turn of the loop.  A process whose last
\* attempt was rejected may call again.
Begin(p) ==
  /\ pc[p] \in {"idle", "failed"}
  /\ Goto(p, "open")
  /\ polls' = [polls EXCEPT ![p] = 0]
  /\ UNCHANGED <<lockFile, seen>>

\* Mutant of Create: open(lockPath, "w") takes a file that is already there.
CreateAnyway(p) ==
  /\ pc[p] = "open"
  /\ creator' = p
  /\ written' = FALSE
  /\ old' = FALSE
  /\ Goto(p, "write")
  /\ UNCHANGED <<seen, polls>>

\* open(lockPath, "wx") makes an empty file: until the owner is written the
\* file is there but its content is not JSON.
Create(p) ==
  /\ pc[p] = "open"
  /\ creator = None
  /\ creator' = p
  /\ written' = FALSE
  /\ old' = FALSE
  /\ Goto(p, "write")
  /\ UNCHANGED <<seen, polls>>

\* open rejects with EEXIST.
Exists(p) ==
  /\ pc[p] = "open"
  /\ creator # None
  /\ Goto(p, "read")
  /\ UNCHANGED <<lockFile, seen, polls>>

\* handle.writeFile goes to the file this process opened; if someone removed
\* it in between, the owner record goes to an unlinked file.
WriteOwner(p) ==
  /\ pc[p] = "write"
  /\ written' = (written \/ creator = p)
  /\ Goto(p, "held")
  /\ UNCHANGED <<creator, old, seen, polls>>

\* writeFile rejects with something other than EEXIST: the error leaves
\* acquireWriteLock and the empty file stays behind.
WriteOwnerFails(p) ==
  /\ WriteErrors
  /\ pc[p] = "write"
  /\ Goto(p, "failed")
  /\ UNCHANGED <<lockFile, seen, polls>>

\* readOwner: null when the file is gone or its content does not parse.
ReadOwner(p) ==
  /\ pc[p] = "read"
  /\ seen' = [seen EXCEPT ![p] = IF written THEN creator ELSE None]
  /\ Goto(p, "stat")
  /\ UNCHANGED <<lockFile, polls>>

\* Mutant of StatFile: a file without an owner record counts as stale.
StatNoOwnerIsStale(p) ==
  /\ pc[p] = "stat"
  /\ Goto(p, CASE creator = None -> "poll"
               [] creator # None /\ (old \/ seen[p] = None) -> "unlink"
               [] creator # None /\ ~old /\ seen[p] # None ->
                    IF HostOf[seen[p]] = HostOf[p] THEN "alive" ELSE "poll")
  /\ UNCHANGED <<lockFile, seen, polls>>

\* Mutant of StatFile: the age of the file is not looked at.
StatIgnoresAge(p) ==
  /\ pc[p] = "stat"
  /\ Goto(p, IF creator # None /\ seen[p] # None /\ HostOf[seen[p]] = HostOf[p]
             THEN "alive" ELSE "poll")
  /\ UNCHANGED <<lockFile, seen, polls>>

\* isStale up to the liveness test: a missing file is not stale, an old one
\* is, a fresh one only if its owner ran on this host.
StatFile(p) ==
  /\ pc[p] = "stat"
  /\ Goto(p, CASE creator = None -> "poll"
               [] creator # None /\ old -> "unlink"
               [] creator # None /\ ~old ->
                    IF seen[p] # None /\ HostOf[seen[p]] = HostOf[p]
                    THEN "alive" ELSE "poll")
  /\ UNCHANGED <<lockFile, seen, polls>>

\* Mutant of TestAlive: any owner on this host counts as gone.
TestNothing(p) ==
  /\ pc[p] = "alive"
  /\ Goto(p, "unlink")
  /\ UNCHANGED <<lockFile, seen, polls>>

\* isAlive: process.kill(pid, 0) on the owner read two steps earlier.
TestAlive(p) ==
  /\ pc[p] = "alive"
  /\ Goto(p, IF pc[seen[p]] = "dead" THEN "unlink" ELSE "poll")
  /\ UNCHANGED <<lockFile, seen, polls>>

\* unlink(lockPath) removes whatever file has that name now.
TakeOver(p) ==
  /\ pc[p] = "unlink"
  /\ RemoveFile
  /\ Goto(p, "open")
  /\ UNCHANGED <<seen, polls>>

\* .catch(() => {}): a failed unlink is ignored and the loop goes on.
TakeOverFails(p) ==
  /\ UnlinkErrors
  /\ pc[p] = "unlink"
  /\ Goto(p, "open")
  /\ UNCHANGED <<lockFile, seen, polls>>

\* Mutant of Wait: each turn of the loop sets a new deadline.
WaitForever(p) ==
  /\ pc[p] = "poll"
  /\ Goto(p, "open")
  /\ UNCHANGED <<lockFile, seen, polls>>

\* sleep(delay) and another turn, while the deadline has not passed.
Wait(p) ==
  /\ pc[p] = "poll"
  /\ polls[p] < MaxPolls
  /\ polls' = [polls EXCEPT ![p] = @ + 1]
  /\ Goto(p, "open")
  /\ UNCHANGED <<lockFile, seen>>

\* GraphLockError: not asked to wait, or past the deadline.
GiveUp(p) ==
  /\ pc[p] = "poll"
  /\ Goto(p, "failed")
  /\ UNCHANGED <<lockFile, seen, polls>>

\* The release function: unlink by name, a missing file is fine.
Release(p) ==
  /\ pc[p] = "held"
  /\ RemoveFile
  /\ Goto(p, "idle")
  /\ UNCHANGED <<seen, polls>>

\* It rethrows any other error: its caller fails outside the section, and the
\* file of a process that still runs stays behind.
ReleaseFails(p) ==
  /\ UnlinkErrors
  /\ pc[p] = "held"
  /\ Goto(p, "idle")
  /\ UNCHANGED <<lockFile, seen, polls>>

-----------------------------------------------------------------------------
(* The environment *)

Crash(p) ==
  /\ Crashes
  /\ pc[p] # "dead"
  /\ Goto(p, "dead")
  /\ UNCHANGED <<lockFile, seen, polls>>

Exit(p) ==
  /\ Exits
  /\ pc[p] \in {"idle", "failed"}
  /\ Goto(p, "dead")
  /\ UNCHANGED <<lockFile, seen, polls>>

LockAges ==
  /\ Ages
  /\ creator # None
  /\ ~old
  /\ old' = TRUE
  /\ UNCHANGED <<creator, written, pc, seen, polls>>

-----------------------------------------------------------------------------

\* What acquireWriteLock does between the call and its settling.
Acquire(p) ==
  \/ Create(p)
  \/ Exists(p)
  \/ WriteOwner(p)
  \/ WriteOwnerFails(p)
  \/ ReadOwner(p)
  \/ StatFile(p)
  \/ TestAlive(p)
  \/ TakeOver(p)
  \/ TakeOverFails(p)
  \/ Wait(p)
  \/ GiveUp(p)

LockNext ==
  \/ \E p \in Procs :
       \/ Begin(p)
       \/ Acquire(p)
       \/ Release(p)
       \/ ReleaseFails(p)
       \/ Crash(p)
       \/ Exit(p)
  \/ LockAges

LockSpec == LockInit /\ [][LockNext]_lockVars

\* A running process keeps executing its own code; a crash, an exit, a new
\* acquisition and the age of a file are never owed to anyone.
LockFairness ==
  \A p \in Procs :
    WF_lockVars(Acquire(p)) /\ WF_lockVars(Release(p) \/ ReleaseFails(p))

FairLockSpec == LockSpec /\ LockFairness

\* A stale file whose removal does not fail every single time.
RemovableLockSpec == FairLockSpec /\ \A p \in Procs : SF_lockVars(TakeOver(p))

\* Writers that come back after each attempt (concentrate watch, or a user who
\* scans again), a clock that passes STALE_AFTER_MS, and an unlink that does
\* not fail every single time.
PersistentLockSpec ==
  /\ RemovableLockSpec
  /\ WF_lockVars(LockAges)
  /\ \A p \in Procs : WF_lockVars(Begin(p))

-----------------------------------------------------------------------------
(* Properties *)

\* At most one process is past acquireWriteLock and before its release:
\* "Writers are serialized by a lock file" (docs/known-limitations.md).
MutualExclusion ==
  \A p, q \in Procs : pc[p] = "held" /\ pc[q] = "held" => p = q

\* While a process holds the lock, the file on disk is the one it made and
\* names it, so that a contender's error message and its stale test are about
\* the process that really writes (lock.ts: readOwner, isStale).
HolderOwnsFile ==
  \A p \in Procs : pc[p] = "held" => creator = p /\ written

\* A contender removes a LOCK file only when no live process is inside the
\* section it guards (lock.ts: the unlink after isStale).
TakeOverIsSafe ==
  [][\A p \in Procs : TakeOver(p) => \A q \in Procs : pc[q] \notin {"write", "held"}]_lockVars

\* Every acquisition ends: with the lock, with an error, or with the process,
\* whatever the owner of the file does (lock.ts: deadline, stale take-over).
\* It holds on two conditions.  The removal of a stale file does not fail every
\* time, as RemovableLockSpec assumes: a take-over, failed or not, starts the
\* loop over without a look at the deadline, so under FairLockSpec it is false.
\* And no file gets old (~Ages): else one turn may find another old file each
\* time, STALE_AFTER_MS apart.
AcquireTerminates ==
  \A p \in Procs :
    pc[p] \in {"open", "write", "read", "stat", "alive", "unlink", "poll"}
      ~> pc[p] \in {"held", "failed", "dead"}

\* A lock file never blocks the store for good: whoever left it behind, on
\* whatever host, and with or without an owner record, it is removed as long as
\* some writer is left to ask (lock.ts: "A lock whose process is gone (same
\* host) or that is older than STALE_AFTER_MS is taken over").
StaleLockIsTakenOver ==
  creator # None ~> creator = None \/ \A p \in Procs : pc[p] = "dead"

\* The lock implements the abstract one: its section is what the release
\* function ends (lock.ts: acquireWriteLock and the function it returns).
Abstract == INSTANCE StoreLock WITH
  Writers <- Procs,
  inside <- {p \in Procs : pc[p] = "held"},
  gone <- {p \in Procs : pc[p] = "dead"}

ImplementsStoreLock == Abstract!Spec

\* The settings in which the lock excludes: nothing is ever old, and either no
\* process ends while others contend, or there are only two processes.
SafeSetting ==
  /\ ~Ages
  /\ \/ ~Crashes /\ ~Exits
     \/ \A p, q, r \in Procs : p = q \/ q = r \/ p = r

\* Why the lock excludes there: nothing is old, the file belongs to whoever is
\* past open(), it names its owner before the owner is in the section, and
\* whoever is about to remove it has seen the death of another process.
LockInv ==
  /\ ~old
  /\ \A p \in Procs :
       /\ pc[p] \in {"write", "held"} => creator = p
       /\ pc[p] = "held" => written
       /\ pc[p] = "alive" => seen[p] \in Procs
       /\ pc[p] = "unlink" => seen[p] \in Procs /\ pc[seen[p]] = "dead"
=============================================================================
