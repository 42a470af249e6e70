-------------------------- MODULE ExclusionProofs --------------------------
(* Proofs that scans and writers wait for each other: what Watch.tla (one     *)
(* process that scans again and again) promises for any project, callers,    *)
(* timeouts, edits and failures, and what WriterLock.tla (the processes at   *)
(* one store) promises for any processes, hosts and number of polls.         *)
EXTENDS Watch, WriterLock, TLAPS

-----------------------------------------------------------------------------
(* The watch mode.                                                           *)

\* Why scans never overlap and close is final: the closure's running is exact,
\* nothing is pending without a running scan to start it, and the three values
\* of close follow what it has set.
WatchInv ==
  /\ scans = (IF running THEN 1 ELSE 0)
  /\ pending => running /\ ~closed
  /\ closing \in {"none", "waiting", "resolved"}
  /\ closing = "none" <=> ~closed
  /\ closing = "resolved" => ~running

\* The flags of the watch mode agree with what runs and waits, in every state.
LEMMA WatchInvariant == WatchSpec => []WatchInv
<1>1. WatchInit => WatchInv
  <2> SUFFICES ASSUME WatchInit PROVE WatchInv
    OBVIOUS
  <2>1. running /\ ~pending /\ ~closed
    BY Zenon DEF WatchInit
  <2>2. scans = 1 /\ closing = "none"
    BY DEF WatchInit
  <2>3. QED
    BY <2>1, <2>2 DEF WatchInv
<1>2. WatchInv /\ [WatchNext]_vars => WatchInv'
  <2> SUFFICES ASSUME WatchInv, [WatchNext]_vars PROVE WatchInv'
    OBVIOUS
  <2> USE DEF WatchInv
  <2>1. ASSUME NEW h \in Handles, ScanNow(h) PROVE WatchInv'
    <3>1. UNCHANGED <<closed, closing>>
      BY <2>1 DEF ScanNow
    <3>2. CASE closed /\ UNCHANGED <<running, pending, scans>>
      BY <3>1, <3>2
    <3>3. CASE ~closed /\ running /\ pending' = TRUE /\ UNCHANGED <<running, scans>>
      <4>1. running' /\ pending' /\ ~closed'
        BY <3>1, <3>3, Zenon
      <4>2. QED
        BY <3>1, <3>3, <4>1
    <3>4. CASE ~closed /\ ~running /\ running' = TRUE /\ scans' = scans + 1 /\ UNCHANGED pending
      <4>1. running' /\ ~pending' /\ ~closed'
        BY <3>1, <3>4, Zenon
      <4>2. scans' = 1 /\ closing' = "none"
        BY <3>1, <3>4
      <4>3. QED
        BY <4>1, <4>2
    <3>5. QED
      BY <2>1, <3>2, <3>3, <3>4, Zenon DEF ScanNow, StartScan
  <2>2. CASE FileEvent
    BY <2>2 DEF FileEvent
  <2>3. CASE ScanReads
    BY <2>3 DEF ScanReads
  <2>4. ASSUME Finally, scans > 0 PROVE WatchInv'
    <3>0. running /\ scans = 1 /\ UNCHANGED closed /\ ~pending'
          /\ closing' = (IF closing = "waiting" THEN "resolved" ELSE closing)
      BY <2>4 DEF Finally
    <3>1. CASE pending /\ ~closed
      <4>1. running' /\ UNCHANGED scans
        BY <2>4, <3>1 DEF Finally, StartScan
      <4>2. QED
        BY <3>0, <3>1, <4>1
    <3>2. CASE ~(pending /\ ~closed)
      <4>1. ~running' /\ scans' = 0
        BY <2>4, <3>0, <3>2 DEF Finally
      <4>2. QED
        BY <3>0, <3>2, <4>1
    <3>3. QED
      BY <3>1, <3>2
  <2>5. CASE ScanSucceeds \/ ScanFails
    BY <2>4, <2>5 DEF ScanSucceeds, ScanFails
  <2>6. ASSUME NEW w \in Waiters, Idle(w) PROVE WatchInv'
    BY <2>6 DEF Idle
  <2>7. CASE Close
    BY <2>7 DEF Close
  <2>8. CASE Edit
    BY <2>8 DEF Edit
  <2>9. CASE UNCHANGED vars
    BY <2>9 DEF vars
  <2>10. QED
    BY <2>1, <2>2, <2>3, <2>5, <2>6, <2>7, <2>8, <2>9 DEF WatchNext, ScanStep
<1>3. QED
  BY <1>1, <1>2, PTL DEF WatchSpec

\* The types of the closure's variables, which callback runs when.
THEOREM WatchTypes == WatchSpec => []WatchTypeOK
<1>1. WatchInit => WatchTypeOK
  <2> SUFFICES ASSUME WatchInit PROVE WatchTypeOK
    OBVIOUS
  <2>1. running \in BOOLEAN /\ pending \in BOOLEAN /\ closed \in BOOLEAN /\ failed \in BOOLEAN
    BY Zenon DEF WatchInit
  <2>2. [f \in Files |-> 0] \in Versions /\ [f \in Files |-> 1] \in Versions
    BY WatchConstants DEF WatchConstants, Versions
  <2>3. QED
    BY <2>1, <2>2 DEF WatchInit, WatchTypeOK
<1>2. WatchTypeOK /\ WatchInv /\ [WatchNext]_vars => WatchTypeOK'
  <2> SUFFICES ASSUME WatchTypeOK, WatchInv, [WatchNext]_vars PROVE WatchTypeOK'
    OBVIOUS
  <2> USE DEF WatchTypeOK, Versions
  <2>0. Resolved \in [Waiters -> {"none", "waiting", "resolved"}]
    BY DEF Resolved
  <2>1. ASSUME NEW h \in Handles, ScanNow(h) PROVE WatchTypeOK'
    <3>1. waiter' = waiter \/ waiter' = Resolved
      BY <2>1, Zenon DEF ScanNow, SettleIdle
    <3>2. running' \in BOOLEAN /\ pending' \in BOOLEAN /\ closed' \in BOOLEAN /\ failed' \in BOOLEAN
      BY <2>1, Zenon DEF ScanNow, StartScan, stored
    <3>3. left' \subseteq Files /\ UNCHANGED found /\ scans' \in Nat
      BY <2>1 DEF ScanNow, StartScan, scan
    <3>4. timer' = Unset /\ timeouts' \subseteq Handles /\ UNCHANGED <<closing, version, graph, events>>
      BY <2>1 DEF ScanNow, stored
    <3>5. QED
      BY <2>0, <3>1, <3>2, <3>3, <3>4
  <2>2. CASE FileEvent
    BY <2>2 DEF FileEvent, Schedule, timers, scan, stored
  <2>3. CASE ScanReads
    BY <2>3 DEF ScanReads, timers, stored
  <2>4. ASSUME Finally, scans > 0 PROVE
          /\ timer' \in Handles \cup {Unset} /\ timeouts' \subseteq Handles
          /\ running' \in BOOLEAN /\ pending' \in BOOLEAN /\ closed' \in BOOLEAN
          /\ waiter' \in [Waiters -> {"none", "waiting", "resolved"}]
          /\ closing' \in {"none", "waiting", "resolved"} /\ scans' \in Nat
          /\ left' \subseteq Files /\ found' \in Versions /\ version' \in Versions
    <3>1. waiter' = waiter \/ waiter' = Resolved
      BY <2>4, Zenon DEF Finally, SettleIdle
    <3>2. running' \in BOOLEAN /\ pending' \in BOOLEAN /\ closed' \in BOOLEAN
      BY <2>4, Zenon DEF Finally, StartScan
    <3>3. left' \subseteq Files /\ UNCHANGED found /\ scans' \in Nat
      BY <2>4 DEF Finally, StartScan, scan
    <3>4. (timer' = Unset \/ timer' = timer) /\ UNCHANGED <<timeouts, version>>
          /\ closing' = (IF closing = "waiting" THEN "resolved" ELSE closing)
      BY <2>4 DEF Finally
    <3>5. QED
      BY <2>0, <3>1, <3>2, <3>3, <3>4
  <2>5. CASE ScanSucceeds \/ ScanFails
    <3>1. Finally /\ scans > 0
      BY <2>5 DEF ScanSucceeds, ScanFails
    <3>2. failed' \in BOOLEAN /\ (UNCHANGED graph \/ graph' = found)
      BY <2>5, Zenon DEF ScanSucceeds, ScanFails
    <3>3. events' = events \/ \E e \in OwnEvents : events' = events \cup {e}
      BY <2>5 DEF ScanSucceeds, ScanFails
    <3>4. events' \subseteq {"source", "output", "unnamed"}
      BY <3>3 DEF OwnEvents
    <3>5. QED
      BY <2>4, <3>1, <3>2, <3>4
  <2>6. ASSUME NEW w \in Waiters, Idle(w) PROVE WatchTypeOK'
    BY <2>0, <2>6 DEF Idle, timers, scan, stored
  <2>7. CASE Close
    BY <2>0, <2>7 DEF Close, scan, stored
  <2>8. CASE Edit
    BY <2>8, WatchConstants DEF Edit, WatchConstants, timers, scan, stored
  <2>9. CASE UNCHANGED vars
    BY <2>9 DEF vars, timers, scan, stored
  <2>10. QED
    BY <2>1, <2>2, <2>3, <2>5, <2>6, <2>7, <2>8, <2>9 DEF WatchNext, ScanStep
<1>3. QED
  BY <1>1, <1>2, WatchInvariant, PTL DEF WatchSpec

\* Scans of one watch never overlap, whatever timeouts the closure forgot.
THEOREM OneScanTheorem == WatchSpec => []OneScanAtATime
<1>1. WatchInv => OneScanAtATime
  BY DEF WatchInv, OneScanAtATime
<1>2. QED
  BY <1>1, WatchInvariant, PTL

\* A scan that was asked for has a running scan that will start it.
THEOREM PendingTheorem == WatchSpec => []PendingHasScan
<1>1. WatchInv => PendingHasScan
  BY DEF WatchInv, PendingHasScan
<1>2. QED
  BY <1>1, WatchInvariant, PTL

\* Nothing scans once close() has resolved.
THEOREM CloseTheorem == WatchSpec => []CloseIsFinal
<1>1. WatchInv => CloseIsFinal
  BY DEF WatchInv, CloseIsFinal
<1>2. QED
  BY <1>1, WatchInvariant, PTL
\* No call of idle() resolves in a step after which a scan is running.
THEOREM IdleTheorem == WatchSpec => IdleOutsideScans
<1> DEFINE Answered == \A w \in Waiters : waiter[w] # "resolved" /\ waiter'[w] = "resolved" => scans' = 0
<1>1. WatchInv /\ WatchInv' /\ [WatchNext]_vars => Answered \/ UNCHANGED vars
  <2> SUFFICES ASSUME WatchInv, WatchInv', WatchNext PROVE Answered
    OBVIOUS
  <2> USE DEF WatchInv
  <2>0. UNCHANGED waiter \/ ~running' => Answered
    BY Zenon DEF WatchInv
  <2>1. ASSUME NEW h \in Handles, ScanNow(h) PROVE Answered
    BY <2>0, <2>1, Zenon DEF ScanNow, SettleIdle
  <2>2. CASE FileEvent
    BY <2>0, <2>2, Zenon DEF FileEvent
  <2>3. CASE ScanReads
    BY <2>0, <2>3, Zenon DEF ScanReads
  <2>4. CASE ScanSucceeds \/ ScanFails
    BY <2>0, <2>4, Zenon DEF ScanSucceeds, ScanFails, Finally
  <2>5. ASSUME NEW w \in Waiters, Idle(w) PROVE Answered
    <3>1. CASE running
      BY <2>5, <3>1 DEF Idle
    <3>2. CASE ~running
      BY <2>0, <2>5, <3>2, Zenon DEF Idle
    <3>3. QED
      BY <3>1, <3>2
  <2>6. CASE Close
    BY <2>0, <2>6, Zenon DEF Close
  <2>7. CASE Edit
    BY <2>0, <2>7, Zenon DEF Edit
  <2>8. QED
    BY <2>1, <2>2, <2>3, <2>4, <2>5, <2>6, <2>7 DEF WatchNext, ScanStep
<1>2. QED
  BY <1>1, WatchInvariant, PTL DEF WatchSpec, IdleOutsideScans

-----------------------------------------------------------------------------
(* The writer lock.                                                          *)

USE DEF lockFile, lockVars, Goto, RemoveFile

\* The type invariant holds in every setting, the unsafe ones included: the
\* loop of acquireWriteLock never leaves the steps it is written in.
THEOREM LockTypeTheorem == LockSpec => []LockTypeOK
<1>1. LockInit => LockTypeOK
  <2> SUFFICES ASSUME LockInit PROVE LockTypeOK
    OBVIOUS
  <2>1. written \in BOOLEAN /\ old \in BOOLEAN
    BY Zenon DEF LockInit
  <2>2. creator \in Procs \cup {None} /\ pc \in [Procs -> LockSteps]
        /\ seen \in [Procs -> Procs \cup {None}] /\ polls \in [Procs -> 0..MaxPolls]
    BY LockConstants DEF LockInit, LockSteps
  <2>3. QED
    BY <2>1, <2>2 DEF LockTypeOK
<1>2. LockTypeOK /\ [LockNext]_lockVars => LockTypeOK'
  <2> SUFFICES ASSUME LockTypeOK, [LockNext]_lockVars PROVE LockTypeOK'
    OBVIOUS
  <2> USE DEF LockTypeOK, LockSteps
  <2>1. ASSUME NEW p \in Procs, Begin(p) PROVE LockTypeOK'
    BY <2>1, LockConstants DEF LockConstants, Begin
  <2>2. ASSUME NEW p \in Procs, Acquire(p) PROVE LockTypeOK'
    <3>1. CASE Create(p)
      BY <3>1 DEF Create
    <3>2. CASE Exists(p)
      BY <3>2 DEF Exists
    <3>3. CASE WriteOwner(p)
      BY <3>3 DEF WriteOwner
    <3>4. CASE WriteOwnerFails(p)
      BY <3>4 DEF WriteOwnerFails
    <3>5. CASE ReadOwner(p)
      BY <3>5 DEF ReadOwner
    <3>6. CASE StatFile(p)
      <4>1. PICK s \in {"poll", "unlink", "alive"} : pc' = [pc EXCEPT ![p] = s]
        BY <3>6 DEF StatFile
      <4>2. QED
        BY <3>6, <4>1 DEF StatFile
    <3>7. CASE TestAlive(p)
      BY <3>7 DEF TestAlive
    <3>8. CASE TakeOver(p)
      BY <3>8 DEF TakeOver
    <3>9. CASE TakeOverFails(p)
      BY <3>9 DEF TakeOverFails
    <3>10. CASE Wait(p)
      BY <3>10, LockConstants DEF LockConstants, Wait
    <3>11. CASE GiveUp(p)
      BY <3>11 DEF GiveUp
    <3>12. QED
      BY <2>2, <3>1, <3>2, <3>3, <3>4, <3>5, <3>6, <3>7, <3>8, <3>9, <3>10, <3>11
         DEF Acquire
  <2>3. ASSUME NEW p \in Procs, Release(p) PROVE LockTypeOK'
    BY <2>3 DEF Release
  <2>9. ASSUME NEW p \in Procs, ReleaseFails(p) PROVE LockTypeOK'
    BY <2>9 DEF ReleaseFails
  <2>4. ASSUME NEW p \in Procs, Crash(p) PROVE LockTypeOK'
    BY <2>4 DEF Crash
  <2>5. ASSUME NEW p \in Procs, Exit(p) PROVE LockTypeOK'
    BY <2>5 DEF Exit
  <2>6. CASE LockAges
    BY <2>6 DEF LockAges
  <2>7. CASE UNCHANGED lockVars
    BY <2>7
  <2>8. QED
    BY <2>1, <2>2, <2>3, <2>4, <2>5, <2>6, <2>7, <2>9 DEF LockNext
<1>3. QED
  BY <1>1, <1>2, PTL DEF LockSpec

-----------------------------------------------------------------------------
(* Mutual exclusion in the safe settings.  LockInv is not inductive alone: it *)
(* needs the types, and that nobody is dead where nobody can die.            *)

SafeInv ==
  /\ LockTypeOK
  /\ LockInv
  /\ ~Crashes /\ ~Exits => \A p \in Procs : pc[p] # "dead"

\* Whoever is about to remove the file has seen another process dead, so there
\* are at most two processes and nobody else is left to be past open().
LEMMA TakeOverAlone ==
  ASSUME SafeSetting, SafeInv, NEW p \in Procs, pc[p] = "unlink", NEW q \in Procs
  PROVE  q = p \/ (q = seen[p] /\ pc[q] = "dead")
<1>1. seen[p] \in Procs /\ pc[seen[p]] = "dead" /\ seen[p] # p
  BY DEF SafeInv, LockInv
<1>2. \A a, b, c \in Procs : a = b \/ b = c \/ a = c
  BY <1>1, Zenon DEF SafeInv, SafeSetting
<1>3. QED
  BY <1>1, <1>2

\* One step inside acquireWriteLock keeps the invariant.
LEMMA AcquireKeepsInv ==
  ASSUME SafeSetting, SafeInv, LockTypeOK', NEW p \in Procs, Acquire(p)
  PROVE  LockInv' /\ (~Crashes /\ ~Exits => \A q \in Procs : pc'[q] # "dead")
<1> USE DEF LockInv, LockTypeOK, LockSteps
<1>0. SafeInv /\ LockTypeOK /\ LockInv
  BY DEF SafeInv
<1>a. (~Crashes /\ ~Exits) => \A q \in Procs : pc[q] # "dead"
  BY DEF SafeInv
<1>1. CASE Create(p)
  BY <1>0, <1>a, <1>1, LockConstants DEF Create
<1>2. CASE Exists(p)
  BY <1>0, <1>a, <1>2 DEF Exists
<1>3. CASE WriteOwner(p)
  <2>1. pc[p] = "write" /\ creator = p
    BY <1>0, <1>3 DEF WriteOwner
  <2>2. written' = (written \/ creator = p)
    BY <1>3 DEF WriteOwner
  <2>3. written'
    BY <2>1, <2>2, Zenon
  <2>4. QED
    BY <1>0, <1>a, <1>3, <2>1, <2>3 DEF WriteOwner
<1>4. CASE WriteOwnerFails(p)
  BY <1>0, <1>a, <1>4 DEF WriteOwnerFails
<1>5. CASE ReadOwner(p)
  BY <1>0, <1>a, <1>5, LockConstants DEF ReadOwner
<1>6. CASE StatFile(p)
  <2>1. CASE pc' = [pc EXCEPT ![p] = "poll"]
    BY <1>0, <1>a, <1>6, <2>1 DEF StatFile
  <2>2. CASE pc' = [pc EXCEPT ![p] = "alive"] /\ seen[p] # None
    BY <1>0, <1>a, <1>6, <2>2 DEF StatFile
  <2>3. QED
    BY <1>0, <1>6, <2>1, <2>2 DEF StatFile
<1>7. CASE TestAlive(p)
  BY <1>0, <1>a, <1>7 DEF TestAlive
<1>8. CASE TakeOver(p)
  <2>1. \A q \in Procs : q = p \/ (q = seen[p] /\ pc[q] = "dead")
    BY <1>0, <1>8, TakeOverAlone DEF TakeOver
  <2>2. QED
    BY <1>0, <1>a, <1>8, <2>1, LockConstants DEF TakeOver
<1>9. CASE TakeOverFails(p)
  BY <1>0, <1>a, <1>9 DEF TakeOverFails
<1>10. CASE Wait(p)
  BY <1>0, <1>a, <1>10 DEF Wait
<1>11. CASE GiveUp(p)
  BY <1>0, <1>a, <1>11 DEF GiveUp
<1>12. QED
  BY <1>1, <1>2, <1>3, <1>4, <1>5, <1>6, <1>7, <1>8, <1>9, <1>10, <1>11 DEF Acquire

\* SafeInv is an invariant of every safe setting.
LEMMA SafeInvariant == ASSUME SafeSetting PROVE LockSpec => []SafeInv
<1>1. LockInit /\ LockTypeOK => SafeInv
  <2> SUFFICES ASSUME LockInit, LockTypeOK PROVE SafeInv
    OBVIOUS
  <2>1. ~old /\ ~written
    BY Zenon DEF LockInit
  <2>2. QED
    BY <2>1, LockConstants DEF LockInit, SafeInv, LockInv
<1>2. SafeInv /\ LockTypeOK' /\ [LockNext]_lockVars => SafeInv'
  <2> SUFFICES ASSUME SafeInv, LockTypeOK', [LockNext]_lockVars PROVE SafeInv'
    OBVIOUS
  <2> USE DEF SafeInv
  <2>1. ASSUME NEW p \in Procs, Begin(p) PROVE SafeInv'
    BY <2>1 DEF Begin, LockInv, LockTypeOK, LockSteps
  <2>2. ASSUME NEW p \in Procs, Acquire(p) PROVE SafeInv'
    BY <2>2, AcquireKeepsInv
  <2>3. ASSUME NEW p \in Procs, Release(p) PROVE SafeInv'
    BY <2>3, LockConstants DEF Release, LockInv, LockTypeOK, LockSteps
  <2>9. ASSUME NEW p \in Procs, ReleaseFails(p) PROVE SafeInv'
    BY <2>9 DEF ReleaseFails, LockInv, LockTypeOK, LockSteps
  <2>4. ASSUME NEW p \in Procs, Crash(p) PROVE SafeInv'
    BY <2>4 DEF Crash, LockInv, LockTypeOK, LockSteps
  <2>5. ASSUME NEW p \in Procs, Exit(p) PROVE SafeInv'
    BY <2>5 DEF Exit, LockInv, LockTypeOK, LockSteps
  <2>6. CASE LockAges
    BY <2>6 DEF LockAges, SafeSetting
  <2>7. CASE UNCHANGED lockVars
    BY <2>7 DEF LockInv
  <2>8. QED
    BY <2>1, <2>2, <2>3, <2>4, <2>5, <2>6, <2>7, <2>9 DEF LockNext
<1>3. QED
  BY <1>1, <1>2, LockTypeTheorem, PTL DEF LockSpec

\* At most one process is between acquireWriteLock and its release, for any
\* number of processes none of which ends, or for two that may end at any time.
THEOREM MutexTheorem == ASSUME SafeSetting PROVE LockSpec => []MutualExclusion
<1>1. SafeInv => MutualExclusion
  BY DEF SafeInv, LockInv, MutualExclusion
<1>2. QED
  BY <1>1, SafeInvariant, PTL

\* There, a process in its section is the one the LOCK file names.
THEOREM HolderTheorem == ASSUME SafeSetting PROVE LockSpec => []HolderOwnsFile
<1>1. SafeInv => HolderOwnsFile
  BY DEF SafeInv, LockInv, HolderOwnsFile
<1>2. QED
  BY <1>1, SafeInvariant, PTL

\* There, no contender removes the file of a live process.
THEOREM TakeOverTheorem == ASSUME SafeSetting PROVE LockSpec => TakeOverIsSafe
<1>1. SafeInv /\ [LockNext]_lockVars =>
        [\A p \in Procs : TakeOver(p) => \A q \in Procs : pc[q] \notin {"write", "held"}]_lockVars
  <2> SUFFICES ASSUME SafeInv, NEW p \in Procs, TakeOver(p), NEW q \in Procs
               PROVE  pc[q] \notin {"write", "held"}
    OBVIOUS
  <2>1. pc[p] = "unlink"
    BY DEF TakeOver
  <2>2. QED
    BY <2>1, TakeOverAlone
<1>2. QED
  BY <1>1, SafeInvariant, PTL DEF LockSpec, TakeOverIsSafe

-----------------------------------------------------------------------------
(* Refinement: the file protocol implements the abstract lock.               *)

\* A step inside acquireWriteLock enters the section or is invisible.
LEMMA AcquireRefines ==
  ASSUME SafeInv, NEW p \in Procs, Acquire(p)
  PROVE  Abstract!Enter(p) \/ UNCHANGED Abstract!vars
<1> DEFINE Held == {q \in Procs : pc[q] = "held"}
           Dead == {q \in Procs : pc[q] = "dead"}
<1>0. LockTypeOK /\ LockInv
  BY DEF SafeInv
<1>1. CASE WriteOwner(p)
  <2>1. pc[p] = "write" /\ pc' = [pc EXCEPT ![p] = "held"]
    BY <1>1 DEF WriteOwner
  <2>2. Held = {}
    BY <1>0, <2>1 DEF LockInv
  <2>3. Held' = {p} /\ Dead' = Dead /\ p \notin Dead
    BY <1>0, <2>1, <2>2 DEF LockTypeOK
  <2>4. QED
    BY <2>2, <2>3 DEF Abstract!Enter
<1>2. CASE ~WriteOwner(p)
  <2>1. PICK s \in {"write", "read", "failed", "stat", "poll", "unlink", "alive", "open"} :
          pc' = [pc EXCEPT ![p] = s]
    BY <1>2 DEF Acquire, Create, Exists, WriteOwnerFails, ReadOwner, StatFile, TestAlive,
                TakeOver, TakeOverFails, Wait, GiveUp
  <2>2. pc[p] \notin {"held", "dead"}
    BY <1>2 DEF Acquire, Create, Exists, WriteOwnerFails, ReadOwner, StatFile, TestAlive,
                TakeOver, TakeOverFails, Wait, GiveUp
  <2>3. Held' = Held /\ Dead' = Dead
    BY <1>0, <2>1, <2>2 DEF LockTypeOK
  <2>4. QED
    BY <2>3 DEF Abstract!vars
<1>3. QED
  BY <1>1, <1>2

\* The lock of lock.ts implements StoreLock in every safe setting.
THEOREM RefinementTheorem == ASSUME SafeSetting PROVE LockSpec => ImplementsStoreLock
<1> DEFINE Held == {q \in Procs : pc[q] = "held"}
           Dead == {q \in Procs : pc[q] = "dead"}
<1>1. LockInit => Abstract!Init
  BY DEF LockInit, Abstract!Init
<1>2. SafeInv /\ [LockNext]_lockVars => [Abstract!Next]_(Abstract!vars)
  <2> SUFFICES ASSUME SafeInv, [LockNext]_lockVars PROVE Abstract!Next \/ UNCHANGED Abstract!vars
    OBVIOUS
  <2>0. LockTypeOK
    BY DEF SafeInv
  <2> USE DEF LockTypeOK
  <2>1. ASSUME NEW p \in Procs, Begin(p) PROVE UNCHANGED Abstract!vars
    <3>1. Held' = Held /\ Dead' = Dead
      BY <2>0, <2>1 DEF Begin
    <3>2. QED
      BY <3>1 DEF Abstract!vars
  <2>2. ASSUME NEW p \in Procs, Acquire(p) PROVE Abstract!Next \/ UNCHANGED Abstract!vars
    BY <2>2, AcquireRefines DEF Abstract!Next
  <2>3. ASSUME NEW p \in Procs, Release(p) \/ ReleaseFails(p) PROVE Abstract!Next
    <3>1. p \in Held /\ Held' = Held \ {p} /\ Dead' = Dead
      BY <2>0, <2>3 DEF Release, ReleaseFails
    <3>2. QED
      BY <3>1 DEF Abstract!Next, Abstract!Leave
  <2>4. ASSUME NEW p \in Procs, Crash(p) \/ Exit(p) PROVE Abstract!Next
    <3>1. p \notin Dead /\ Held' = Held \ {p} /\ Dead' = Dead \cup {p}
      BY <2>0, <2>4 DEF Crash, Exit
    <3>2. QED
      BY <3>1 DEF Abstract!Next, Abstract!Die
  <2>5. CASE LockAges \/ UNCHANGED lockVars
    BY <2>5 DEF LockAges, Abstract!vars
  <2>6. QED
    BY <2>1, <2>2, <2>3, <2>4, <2>5 DEF LockNext
<1>3. QED
  BY <1>1, <1>2, SafeInvariant, PTL DEF LockSpec, ImplementsStoreLock, Abstract!Spec

=============================================================================
