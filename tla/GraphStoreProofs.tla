-------------------------- MODULE GraphStoreProofs --------------------------
(* Proofs about the graph store: what GraphStore.tla promises for any number *)
(* of scanning processes, calls and segments, whatever fails where.          *)
EXTENDS GraphStore, TLAPS

USE DEF files, lock, readers, vars

\* A reader's loading step keeps the types.
LEMMA LoadTypes ==
  ASSUME StoreTypeOK, NEW l \in Loaders, LoadStep(l)
  PROVE  StoreTypeOK'
<1> USE StoreConstants DEF StoreConstants, StoreTypeOK
<1>0. load[l] \in Loads /\ head \in Heads /\ head.segs \in Graphs
  BY DEF Heads
<1>1. CASE LoadHead(l)
  <2>1. [load[l] EXCEPT !.step = "segments", !.head = head, !.left = head.segs] \in Loads
    BY <1>0 DEF Loads
  <2>2. load' = [load EXCEPT ![l] = [load[l] EXCEPT !.step = "segments", !.head = head, !.left = head.segs]]
    BY <1>1 DEF LoadHead
  <2>3. load' \in [Loaders -> Loads]
    BY <2>1, <2>2
  <2>4. QED
    BY <1>1, <2>3 DEF LoadHead
<1>2. CASE ReadSegment(l)
  BY <1>2 DEF ReadSegment, Loads, Graphs
<1>3. CASE RetryLoad(l)
  <2>1. [load[l] EXCEPT !.step = "head", !.left = {}, !.tries = @ + 1] \in Loads
    BY <1>0, <1>3 DEF RetryLoad, Loads, Graphs
  <2>2. load' = [load EXCEPT ![l] = [load[l] EXCEPT !.step = "head", !.left = {}, !.tries = @ + 1]]
    BY <1>3 DEF RetryLoad
  <2>3. load' \in [Loaders -> Loads]
    BY <2>1, <2>2
  <2>4. QED
    BY <1>3, <2>3 DEF RetryLoad
<1>4. QED
  BY <1>1, <1>2, <1>3 DEF LoadStep

\* The records a load or a head starts from are typed.
LEMMA FreshLoads ==
  /\ NoHead \in Heads
  /\ NoLoad \in Loads
  /\ [NoLoad EXCEPT !.step = "check"] \in Loads
  /\ [NoLoad EXCEPT !.step = "head", !.tries = 1] \in Loads
<1>1. NoHead \in Heads /\ {} \in Graphs
  BY DEF NoHead, Heads, Graphs
<1>2. 0 \in 0..ReadAttempts /\ 1 \in 0..ReadAttempts
  BY StoreConstants DEF StoreConstants
<1>3. NoLoad \in Loads
  BY <1>1, <1>2 DEF NoLoad, Loads
<1>4. [NoLoad EXCEPT !.step = "check"] \in Loads
  BY <1>3 DEF Loads
<1>5. [NoLoad EXCEPT !.step = "head", !.tries = 1] \in Loads
  BY <1>2, <1>3 DEF Loads
<1>6. QED
  BY <1>1, <1>3, <1>4, <1>5

\* A tool call of the server, from its question to its answer, keeps the types.
LEMMA CallTypes ==
  ASSUME StoreTypeOK, NEW c \in Calls, Ask(c) \/ CallStep(c)
  PROVE  StoreTypeOK'
<1> USE StoreConstants DEF StoreConstants, StoreTypeOK, Loaded, Settle
<1>0. /\ NoLoad \in Loads
      /\ c \in Loaders
      /\ load[c] \in Loads
      /\ head \in Heads
      /\ head.segs \in Graphs
  BY FreshLoads DEF Heads, Loaders
<1>1. CASE Ask(c)
  <2>1. [load[c] EXCEPT !.step = "check"] \in Loads
    BY <1>0 DEF Loads
  <2>2. load' \in [Loaders -> Loads]
    BY <1>0, <1>1, <2>1 DEF Ask
  <2>3. QED
    BY <1>0, <1>1, <2>2 DEF Ask
<1>2. CASE LoadStep(c)
  BY <1>0, <1>2, LoadTypes
<1>3. CASE AnswerFromView(c)
  <2>1. view[InstanceOf[c]].segs \in Graphs
    BY DEF Heads
  <2>2. QED
    BY <1>0, <1>3, <2>1 DEF AnswerFromView
<1>8. CASE ReadLatest(c)
  <2>1. [load[c] EXCEPT !.step = "compare", !.head = head] \in Loads
    BY <1>0 DEF Loads
  <2>2. load' = [load EXCEPT ![c] = [load[c] EXCEPT !.step = "compare", !.head = head]]
    BY <1>8 DEF ReadLatest
  <2>3. load' \in [Loaders -> Loads]
    BY <1>0, <2>1, <2>2
  <2>4. QED
    BY <1>8, <2>3 DEF ReadLatest
<1>4. CASE Refresh(c)
  <2>1. load' \in [Loaders -> Loads]
    BY <1>0, <1>4, FreshLoads DEF Refresh, Loading
  <2>2. QED
    BY <1>4, <2>1 DEF Refresh
<1>5. CASE AnswerFromLoad(c)
  <2>1. load[c].head \in Heads /\ load[c].head.segs \in Graphs
    BY <1>0 DEF Loads, Heads
  <2>2. QED
    BY <1>0, <1>5, <2>1 DEF AnswerFromLoad
<1>6. CASE CallFails(c)
  BY <1>0, <1>6 DEF CallFails
<1>7. QED
  BY <1>1, <1>2, <1>3, <1>4, <1>5, <1>6, <1>8 DEF CallStep

\* A scan's steps at the store, and its crash, keep the types.
LEMMA WriterTypes ==
  ASSUME StoreTypeOK, NEW w \in Writers, StartScan(w) \/ WriterStep(w) \/ Crash(w)
  PROVE  StoreTypeOK'
<1> USE StoreConstants DEF StoreConstants, StoreTypeOK, Loaded
<1>0. /\ NoLoad \in Loads
      /\ NoJob \in Jobs
      /\ w \in Loaders
      /\ job[w] \in Jobs
      /\ head \in Heads
      /\ head.segs \in Graphs
      /\ head.gen \in Nat
  BY FreshLoads DEF Heads, Loaders, NoJob, Jobs, JobSteps, Graphs
<1>1. CASE StartScan(w)
  <2>1. PICK g \in Graphs \ {{}} : job' = [job EXCEPT ![w] = [NoJob EXCEPT !.step = "open", !.scan = g]]
    BY <1>1 DEF StartScan
  <2>2. [NoJob EXCEPT !.step = "open", !.scan = g] \in Jobs
    BY <1>0 DEF Jobs, JobSteps
  <2>3. load' \in [Loaders -> Loads]
    BY <1>0, <1>1, FreshLoads DEF StartScan, Loading
  <2>4. job' \in [Writers -> Jobs]
    BY <2>1, <2>2
  <2>5. scans' \in 0..MaxScans
    <3>1. scans < MaxScans /\ scans' = scans + 1
      BY <1>1 DEF StartScan
    <3>2. scans \in 0..MaxScans /\ MaxScans \in Nat
      OBVIOUS
    <3> HIDE DEF StoreTypeOK
    <3>3. QED
      BY <3>1, <3>2
  <2>6. QED
    BY <1>1, <2>3, <2>4, <2>5 DEF StartScan
<1>2. CASE LoadStep(w)
  BY <1>0, <1>2, LoadTypes
<1>3. CASE Opened(w)
  <2>1. [job[w] EXCEPT !.step = "lock"] \in Jobs
    BY <1>0 DEF Jobs, JobSteps
  <2>2. QED
    BY <1>0, <1>3, <2>1 DEF Opened, Move
<1>4. CASE OpenFails(w)
  BY <1>0, <1>4 DEF OpenFails
<1>5. CASE EnterLock(w)
  <2>1. [job[w] EXCEPT !.step = "apply"] \in Jobs
    BY <1>0 DEF Jobs, JobSteps
  <2>2. QED
    BY <1>5, <2>1 DEF EnterLock, Move
<1>f. ASSUME AfterFailure(w)
      PROVE  job' \in [Writers -> Jobs]
  <2>1. [job[w] EXCEPT !.step = "lock", !.round = 2, !.todo = {}] \in Jobs
    <3>1. {} \in Graphs /\ 2 \in 1..2
      BY DEF Graphs
    <3>2. QED
      BY <1>0, <3>1 DEF Jobs, JobSteps
  <2>2. CASE job[w].round = 1
    <3>1. job' = [job EXCEPT ![w] = [job[w] EXCEPT !.step = "lock", !.round = 2, !.todo = {}]]
      BY <1>f, <2>2 DEF AfterFailure
    <3>2. QED
      BY <2>1, <3>1
  <2>3. CASE job[w].round # 1
    <3>1. job' = [job EXCEPT ![w] = NoJob]
      BY <1>f, <2>3 DEF AfterFailure
    <3>2. QED
      BY <1>0, <3>1
  <2>4. QED
    BY <2>2, <2>3
<1>6. CASE LockRejected(w)
  BY <1>6, <1>f DEF LockRejected
<1>7. CASE Apply(w)
  <2> DEFINE graph == IF job[w].round = 1 THEN job[w].scan ELSE job[w].graph
             next == [job[w] EXCEPT !.step = "segments", !.graph = graph, !.gen = head.gen,
                                    !.todo = graph \ head.segs]
  <2>1. graph \in Graphs /\ graph \ head.segs \in Graphs
    BY <1>0 DEF Jobs, Graphs
  <2>2. next \in Jobs
    <3> HIDE DEF graph
    <3> QED
      BY <1>0, <2>1 DEF Jobs, JobSteps
  <2>3. job' = [job EXCEPT ![w] = next]
    BY <1>7 DEF Apply
  <2>4. job' \in [Writers -> Jobs]
    <3> HIDE DEF next
    <3> QED
      BY <2>2, <2>3
  <2>5. QED
    BY <1>7, <2>4 DEF Apply
<1>8. CASE ApplyRejects(w)
  <2>1. [job[w] EXCEPT !.step = "failed", !.graph = {}] \in Jobs
    BY <1>0 DEF Jobs, JobSteps, Graphs
  <2>2. job' = [job EXCEPT ![w] = [job[w] EXCEPT !.step = "failed", !.graph = {}]]
    BY <1>8 DEF ApplyRejects
  <2>3. job' \in [Writers -> Jobs]
    BY <2>1, <2>2
  <2>4. QED
    BY <1>8, <2>3 DEF ApplyRejects
<1>9. CASE WriteSegment(w)
  <2>1. PICK s \in job[w].todo : /\ disk' = disk \cup {s}
                                 /\ aged' = aged \ {s}
                                 /\ job' = [job EXCEPT ![w].todo = @ \ {s}]
    BY <1>9 DEF WriteSegment
  <2>2. s \in Segs /\ job[w].todo \ {s} \in Graphs
    BY <1>0 DEF Jobs, Graphs
  <2>3. [job[w] EXCEPT !.todo = @ \ {s}] \in Jobs
    BY <1>0, <2>2 DEF Jobs
  <2>4. job' \in [Writers -> Jobs]
    BY <2>1, <2>3
  <2>5. QED
    BY <1>9, <2>1, <2>2, <2>4 DEF WriteSegment
<1>10. CASE RenameHead(w)
  <2>1. job[w].graph \in Graphs /\ aged \ job[w].graph \in Graphs /\ job[w].gen + 1 \in Nat
    BY <1>0 DEF Jobs, Graphs
  <2>2. head' \in Heads
    BY <1>10, <2>1 DEF RenameHead, Heads
  <2>3. [job[w] EXCEPT !.step = "collect", !.todo = aged \ job[w].graph] \in Jobs
    BY <1>0, <2>1 DEF Jobs, JobSteps
  <2>4. job' = [job EXCEPT ![w] = [job[w] EXCEPT !.step = "collect", !.todo = aged \ job[w].graph]]
    BY <1>10 DEF RenameHead
  <2>5. job' \in [Writers -> Jobs]
    BY <2>3, <2>4
  <2>6. since' \in [Calls -> SUBSET Graphs]
    BY <1>10, <2>1 DEF RenameHead
  <2>7. QED
    BY <1>10, <2>2, <2>5, <2>6 DEF RenameHead
<1>11. CASE CollectSegment(w)
  <2>1. PICK s \in job[w].todo : /\ disk' = disk \ (aged \cap {s})
                                 /\ aged' = aged \ {s}
                                 /\ job' = [job EXCEPT ![w].todo = @ \ {s}]
    BY <1>11 DEF CollectSegment
  <2>2. [job[w] EXCEPT !.todo = @ \ {s}] \in Jobs
    BY <1>0 DEF Jobs, Graphs
  <2>3. job' \in [Writers -> Jobs]
    BY <2>1, <2>2
  <2>4. QED
    BY <1>11, <2>1, <2>3 DEF CollectSegment
<1>12. CASE CommitFails(w)
  <2>1. [job[w] EXCEPT !.step = "failed"] \in Jobs
    BY <1>0 DEF Jobs, JobSteps
  <2>2. QED
    BY <1>12, <2>1 DEF CommitFails, Move
<1>13. CASE ReleaseDone(w)
  BY <1>0, <1>13 DEF ReleaseDone
<1>14. CASE ReleaseFailed(w)
  BY <1>14, <1>f DEF ReleaseFailed
<1>17. CASE ReleaseRejects(w)
  <2>1. job' \in [Writers -> Jobs]
    BY <1>0, <1>17, <1>f DEF ReleaseRejects
  <2>2. QED
    BY <1>17, <2>1 DEF ReleaseRejects
<1>15. CASE Crash(w)
  <2>1. [NoJob EXCEPT !.step = "dead"] \in Jobs
    BY <1>0 DEF Jobs, JobSteps
  <2>2. QED
    BY <1>0, <1>15, <2>1 DEF Crash
<1>16. QED
  BY <1>1, <1>2, <1>3, <1>4, <1>5, <1>6, <1>7, <1>8, <1>9, <1>10, <1>11, <1>12, <1>13,
     <1>14, <1>15, <1>17 DEF WriterStep

\* Whatever fails where, the store's variables keep their types: HEAD.json is a
\* well-formed snapshot, a load never has more attempts than READ_ATTEMPTS
\* (persistence.ts), and only files of segments/ are old enough to collect.
THEOREM StoreTypeTheorem == StoreSpec => []StoreTypeOK
<1>1. StoreInit => StoreTypeOK
  <2> SUFFICES ASSUME StoreInit PROVE StoreTypeOK
    OBVIOUS
  <2>1. NoHead \in Heads /\ [NoHead EXCEPT !.format = "other"] \in Heads
    BY FreshLoads DEF Heads
  <2>2. NoJob \in Jobs
    BY DEF NoJob, Jobs, JobSteps, Graphs
  <2>3. QED
    BY <2>1, <2>2, FreshLoads, StoreConstants DEF StoreInit, StoreTypeOK, StoreConstants
<1>2. StoreTypeOK /\ [StoreNext]_vars => StoreTypeOK'
  <2> SUFFICES ASSUME StoreTypeOK, [StoreNext]_vars PROVE StoreTypeOK'
    OBVIOUS
  <2>1. ASSUME NEW c \in Calls, Ask(c) \/ CallStep(c) PROVE StoreTypeOK'
    BY <2>1, CallTypes
  <2>2. ASSUME NEW w \in Writers, StartScan(w) \/ WriterStep(w) \/ Crash(w) PROVE StoreTypeOK'
    BY <2>2, WriterTypes
  <2>3. CASE SegmentAges
    BY <2>3 DEF SegmentAges, StoreTypeOK
  <2>4. CASE DeleteStore
    BY <2>4, FreshLoads DEF DeleteStore, StoreTypeOK, Graphs
  <2>5. CASE UNCHANGED vars
    BY <2>5 DEF StoreTypeOK
  <2>6. QED
    BY <2>1, <2>2, <2>3, <2>4, <2>5 DEF StoreNext
<1>3. QED
  BY <1>1, <1>2, PTL DEF StoreSpec

\* The steps that touch neither the files, nor the lock, nor a writer's job.
LEMMA ReadersKeepInv ==
  ASSUME StoreInv, UNCHANGED <<head, disk, lock, job>>
  PROVE  StoreInv'
BY DEF StoreInv, HeadComplete, Inside

\* They keep one writer at most at the head and the segments, with the head complete.
LEMMA WriterKeepsInv ==
  ASSUME StoreTypeOK, StoreInv, NEW w \in Writers, StartScan(w) \/ WriterStep(w) \/ Crash(w)
  PROVE  StoreInv'
<1> DEFINE Rest(v) == /\ Inside(v) => locked = v /\ left = None
                      /\ job[v].step = "segments" =>
                           job[v].gen = head.gen /\ job[v].graph \subseteq disk \cup job[v].todo
                      /\ job[v].step = "collect" => job[v].todo \cap head.segs = {}
<1> USE DEF HeadComplete
<1>0. /\ job \in [Writers -> Jobs]
      /\ head.segs \subseteq disk
      /\ \A v \in Writers : Rest(v)
      /\ Inside(w) => \A v \in Writers \ {w} : ~Inside(v)
  BY DEF StoreTypeOK, StoreInv
<1>1. ASSUME UNCHANGED <<head, disk, lock>>, job'[w].step \notin {"apply", "segments", "collect"},
             Inside(w)' => Inside(w),
             \A v \in Writers \ {w} : job'[v] = job[v]
      PROVE  StoreInv'
  BY <1>0, <1>1 DEF StoreInv, Inside
<1>2. CASE StartScan(w) \/ Opened(w) \/ OpenFails(w) \/ Crash(w)
  <2>1. UNCHANGED <<head, disk, lock>>
    BY <1>2 DEF StartScan, Opened, OpenFails, Crash
  <2>2. /\ job'[w].step \in {"open", "lock", "idle", "dead"}
        /\ \A v \in Writers \ {w} : job'[v] = job[v]
    <3>1. CASE StartScan(w)
      BY <1>0, <3>1 DEF StartScan, NoJob
    <3>2. CASE Opened(w)
      BY <1>0, <3>2 DEF Opened, Move, Jobs
    <3>3. CASE OpenFails(w)
      BY <1>0, <3>3 DEF OpenFails, NoJob
    <3>4. CASE Crash(w)
      BY <1>0, <3>4 DEF Crash, NoJob
    <3>5. QED
      BY <1>2, <3>1, <3>2, <3>3, <3>4
  <2>3. QED
    BY <1>1, <2>1, <2>2 DEF Inside
<1>3. CASE LoadStep(w)
  BY <1>3, ReadersKeepInv DEF LoadStep, LoadHead, ReadSegment, RetryLoad
<1>4. CASE EnterLock(w)
  <2>1. \A v \in Writers : ~Inside(v)
    BY <1>0, <1>4, StoreConstants DEF EnterLock, Inside, StoreConstants, StoreTypeOK
  <2>2. /\ UNCHANGED <<head, disk>>
        /\ locked' = w /\ left' = None
        /\ job'[w].step = "apply"
        /\ \A v \in Writers \ {w} : job'[v] = job[v]
    BY <1>0, <1>4 DEF EnterLock, Move
  <2>3. QED
    BY <1>0, <2>1, <2>2 DEF StoreInv, Inside
<1>5. ASSUME AfterFailure(w)
      PROVE  /\ job'[w].step \in {"lock", "idle"}
             /\ \A v \in Writers \ {w} : job'[v] = job[v]
  BY <1>0, <1>5 DEF AfterFailure, NoJob, Jobs
<1>6. CASE LockRejected(w)
  BY <1>1, <1>5, <1>6 DEF LockRejected, Inside
<1>7. CASE Apply(w)
  <2> DEFINE graph == IF job[w].round = 1 THEN job[w].scan ELSE job[w].graph
  <2>1. /\ UNCHANGED <<head, disk, lock>>
        /\ Inside(w)
        /\ job'[w].step = "segments"
        /\ job'[w].gen = head.gen
        /\ job'[w].graph = graph
        /\ job'[w].todo = graph \ head.segs
        /\ \A v \in Writers \ {w} : job'[v] = job[v]
    BY <1>0, <1>7 DEF Apply, Jobs, Inside
  <2> HIDE DEF graph
  <2>2. QED
    BY <1>0, <2>1 DEF StoreInv, Inside
<1>8. CASE ApplyRejects(w) \/ CommitFails(w)
  BY <1>0, <1>1, <1>8 DEF ApplyRejects, CommitFails, Move, Jobs, Inside
<1>9. CASE WriteSegment(w)
  <2>1. PICK s \in job[w].todo : disk' = disk \cup {s} /\ job' = [job EXCEPT ![w].todo = @ \ {s}]
    BY <1>9 DEF WriteSegment
  <2>2. /\ UNCHANGED <<head, lock>>
        /\ Inside(w)
        /\ job[w].step = "segments"
        /\ job'[w].step = "segments"
        /\ job'[w].gen = job[w].gen
        /\ job'[w].graph = job[w].graph
        /\ job'[w].todo = job[w].todo \ {s}
        /\ \A v \in Writers \ {w} : job'[v] = job[v]
    BY <1>0, <1>9, <2>1 DEF WriteSegment, Jobs, Inside
  <2>3. QED
    BY <1>0, <2>1, <2>2 DEF StoreInv, Inside
<1>10. CASE RenameHead(w)
  <2>1. /\ UNCHANGED <<disk, lock>>
        /\ Inside(w)
        /\ job[w].step = "segments"
        /\ job[w].todo = {}
        /\ head'.segs = job[w].graph
        /\ job'[w].step = "collect"
        /\ job'[w].todo = aged \ job[w].graph
        /\ \A v \in Writers \ {w} : job'[v] = job[v]
    BY <1>0, <1>10 DEF RenameHead, Jobs, Inside
  <2>2. QED
    BY <1>0, <2>1 DEF StoreInv, Inside
<1>11. CASE CollectSegment(w)
  <2>1. PICK s \in job[w].todo : disk' = disk \ (aged \cap {s}) /\ job' = [job EXCEPT ![w].todo = @ \ {s}]
    BY <1>11 DEF CollectSegment
  <2>2. /\ UNCHANGED <<head, lock>>
        /\ Inside(w)
        /\ job[w].step = "collect"
        /\ job'[w].step = "collect"
        /\ job'[w].todo = job[w].todo \ {s}
        /\ \A v \in Writers \ {w} : job'[v] = job[v]
    BY <1>0, <1>11, <2>1 DEF CollectSegment, Jobs, Inside
  <2>3. QED
    BY <1>0, <2>1, <2>2 DEF StoreInv, Inside
<1>12. CASE ReleaseDone(w)
  <2>1. /\ UNCHANGED <<head, disk>>
        /\ Inside(w)
        /\ job'[w].step = "idle"
        /\ \A v \in Writers \ {w} : job'[v] = job[v]
    BY <1>0, <1>12 DEF ReleaseDone, NoJob, Inside
  <2>2. QED
    BY <1>0, <2>1 DEF StoreInv, Inside
<1>13. CASE ReleaseFailed(w)
  <2>1. /\ UNCHANGED <<head, disk>>
        /\ Inside(w)
    BY <1>13 DEF ReleaseFailed, Inside
  <2>2. QED
    BY <1>0, <1>5, <1>13, <2>1 DEF ReleaseFailed, StoreInv, Inside
<1>14. CASE ReleaseRejects(w)
  <2>1. /\ UNCHANGED <<head, disk>>
        /\ Inside(w)
        /\ job'[w].step \in {"lock", "idle"}
        /\ \A v \in Writers \ {w} : job'[v] = job[v]
    BY <1>0, <1>5, <1>14 DEF ReleaseRejects, NoJob, Inside
  <2>2. QED
    BY <1>0, <2>1 DEF StoreInv, Inside
<1>15. QED
  BY <1>2, <1>3, <1>4, <1>6, <1>7, <1>8, <1>9, <1>10, <1>11, <1>12, <1>13, <1>14 DEF WriterStep

\* The types and the invariant of the store hold in every state.
LEMMA StoreInvariant == StoreSpec => [](StoreTypeOK /\ StoreInv)
<1>1. StoreInit => StoreInv
  BY DEF StoreInit, StoreInv, HeadComplete, Inside, NoHead, NoJob
<1>2. StoreTypeOK /\ StoreInv /\ [StoreNext]_vars => StoreInv'
  <2> SUFFICES ASSUME StoreTypeOK, StoreInv, [StoreNext]_vars PROVE StoreInv'
    OBVIOUS
  <2>1. ASSUME NEW c \in Calls, Ask(c) \/ CallStep(c) PROVE StoreInv'
    BY <2>1, ReadersKeepInv DEF Ask, CallStep, LoadStep, LoadHead, ReadSegment, RetryLoad,
       ReadLatest, AnswerFromView, Refresh, AnswerFromLoad, CallFails
  <2>2. ASSUME NEW w \in Writers, StartScan(w) \/ WriterStep(w) \/ Crash(w) PROVE StoreInv'
    BY <2>2, WriterKeepsInv
  <2>3. CASE SegmentAges \/ UNCHANGED vars
    BY <2>3, ReadersKeepInv DEF SegmentAges
  <2>4. CASE DeleteStore
    BY <2>4 DEF DeleteStore, StoreInv, HeadComplete, Inside, NoHead
  <2>5. QED
    BY <2>1, <2>2, <2>3, <2>4 DEF StoreNext
<1>3. QED
  BY <1>1, <1>2, StoreTypeTheorem, PTL DEF StoreSpec

\* HEAD.json never names a segment that is not on disk, however many processes
\* scan, crash or fail (persistence.ts, commitSnapshot and collectGarbage).
THEOREM HeadTheorem == StoreSpec => []HeadComplete
<1>1. StoreInv => HeadComplete
  BY DEF StoreInv
<1>2. QED
  BY <1>1, StoreInvariant, PTL

\* Unless someone deletes the store, no two commits share a generation
\* (persistence.ts, commitSnapshot; store.ts, refresh compares only these).
THEOREM GenerationsTheorem ==
  ASSUME ~Deletes
  PROVE  StoreSpec => GenerationsGrow
<1>1. StoreInv /\ [StoreNext]_vars => [head' # head => head'.gen = head.gen + 1]_vars
  <2> SUFFICES ASSUME StoreInv, StoreNext, head' # head PROVE head'.gen = head.gen + 1
    OBVIOUS
  <2>1. PICK w \in Writers : RenameHead(w)
    BY DEF StoreNext, Ask, CallStep, LoadStep, LoadHead, ReadSegment, RetryLoad, ReadLatest,
       AnswerFromView, Refresh, AnswerFromLoad, CallFails, StartScan, WriterStep, Opened, OpenFails, EnterLock,
       LockRejected, Apply, ApplyRejects, WriteSegment, CollectSegment, CommitFails, ReleaseDone,
       ReleaseFailed, ReleaseRejects, Crash, SegmentAges, DeleteStore
  <2>2. job[w].gen = head.gen
    BY <2>1 DEF RenameHead, StoreInv
  <2>3. QED
    BY <2>1, <2>2 DEF RenameHead
<1>2. QED
  BY <1>1, StoreInvariant, PTL DEF StoreSpec, GenerationsGrow

-----------------------------------------------------------------------------
(* The lock *)

\* What a step of one process does to the loads.
LEMMA LoadFrames ==
  ASSUME StoreTypeOK, NEW l \in Loaders,
         \/ LoadStep(l)
         \/ l \in Calls /\ (Ask(l) \/ CallStep(l))
         \/ l \in Writers /\ (StartScan(l) \/ WriterStep(l) \/ Crash(l))
  PROVE  \A m \in Loaders \ {l} : load'[m] = load[m]
<1>1. load \in [Loaders -> Loads]
  BY DEF StoreTypeOK
<1>2. CASE LoadStep(l)
  BY <1>1, <1>2 DEF LoadStep, LoadHead, ReadSegment, RetryLoad
<1>3. CASE Ask(l) \/ ReadLatest(l) \/ AnswerFromView(l) \/ Refresh(l) \/ AnswerFromLoad(l) \/ CallFails(l)
  BY <1>1, <1>3 DEF Ask, ReadLatest, AnswerFromView, Refresh, AnswerFromLoad, CallFails, Loading, Loaded
<1>4. CASE StartScan(l) \/ Opened(l) \/ OpenFails(l) \/ Crash(l)
  BY <1>1, <1>4 DEF StartScan, Opened, OpenFails, Crash, Loading, Loaded
<1>5. CASE \/ EnterLock(l) \/ LockRejected(l) \/ Apply(l) \/ ApplyRejects(l) \/ WriteSegment(l)
           \/ RenameHead(l) \/ CollectSegment(l) \/ CommitFails(l) \/ ReleaseDone(l)
           \/ ReleaseFailed(l) \/ ReleaseRejects(l)
  BY <1>5 DEF EnterLock, LockRejected, Apply, ApplyRejects, WriteSegment, RenameHead,
     CollectSegment, CommitFails, ReleaseDone, ReleaseFailed, ReleaseRejects
<1>6. QED
  BY <1>2, <1>3, <1>4, <1>5 DEF CallStep, WriterStep

\* The steps of a writer by what they do to its scan's place in mutate.
LEMMA WriterMoves ==
  ASSUME StoreTypeOK, OpenInv, NEW w \in Writers, StartScan(w) \/ WriterStep(w) \/ Crash(w)
  PROVE  /\ \A v \in Writers \ {w} : job'[v] = job[v]
         /\ \/ job'[w].step = job[w].step /\ (load'[w].step # "none" => load[w].step # "none")
            \/ job[w].step = "idle" /\ job'[w].step = "open"
            \/ job[w].step \in {"open", "lock"} /\ job'[w].step \in {"lock", "idle"} /\ load'[w].step = "none"
            \/ EnterLock(w) /\ job'[w].step = "apply" /\ load'[w].step = "none"
            \/ Inside(w) /\ Inside(w)' /\ load'[w].step = "none"
            \/ Inside(w) /\ job'[w].step \in {"lock", "idle"} /\ load'[w].step = "none"
            \/ job[w].step # "dead" /\ job'[w].step = "dead" /\ load'[w].step = "none"
<1>0. /\ job \in [Writers -> Jobs] /\ load \in [Loaders -> Loads] /\ w \in Loaders
      /\ load[w].step # "none" => job[w].step = "open"
  BY DEF StoreTypeOK, Loaders, OpenInv
<1>1. CASE StartScan(w)
  BY <1>0, <1>1 DEF StartScan, NoJob
<1>2. CASE LoadStep(w)
  <2>1. UNCHANGED job /\ load[w].step # "none"
    BY <1>2 DEF LoadStep, LoadHead, ReadSegment, RetryLoad, Missing
  <2>2. QED
    BY <2>1
<1>3. CASE Opened(w) \/ OpenFails(w)
  <2>1. load[w].step # "none"
    BY <1>3 DEF Opened, OpenFails, LoadResolves, LoadRejects, Missing
  <2>2. /\ job'[w].step \in {"lock", "idle"}
        /\ \A v \in Writers \ {w} : job'[v] = job[v]
    BY <1>0, <1>3 DEF Opened, OpenFails, Move, NoJob, Jobs
  <2>3. load'[w].step = "none"
    BY <1>0, <1>3 DEF Opened, OpenFails, Loaded, NoLoad
  <2>4. QED
    BY <1>0, <2>1, <2>2, <2>3
<1>4. CASE EnterLock(w)
  <2>1. /\ job[w].step = "lock" /\ job'[w].step = "apply" /\ UNCHANGED load
        /\ \A v \in Writers \ {w} : job'[v] = job[v]
    BY <1>0, <1>4 DEF EnterLock, Move
  <2>2. QED
    BY <1>0, <1>4, <2>1
<1>5. ASSUME AfterFailure(w)
      PROVE  /\ job'[w].step \in {"lock", "idle"}
             /\ \A v \in Writers \ {w} : job'[v] = job[v]
  BY <1>0, <1>5 DEF AfterFailure, NoJob, Jobs
<1>6. CASE LockRejected(w)
  <2>1. job[w].step = "lock" /\ UNCHANGED load
    BY <1>6 DEF LockRejected
  <2>2. QED
    BY <1>0, <1>5, <1>6, <2>1 DEF LockRejected
<1>7. CASE Apply(w) \/ ApplyRejects(w) \/ WriteSegment(w) \/ RenameHead(w) \/ CollectSegment(w)
           \/ CommitFails(w)
  <2>1. Inside(w) /\ UNCHANGED load
    BY <1>7 DEF Apply, ApplyRejects, WriteSegment, RenameHead, CollectSegment, CommitFails, Inside
  <2>2. /\ job'[w].step \in {"segments", "failed", "collect"}
        /\ \A v \in Writers \ {w} : job'[v] = job[v]
    <3>1. CASE Apply(w)
      BY <1>0, <3>1 DEF Apply
    <3>2. CASE ApplyRejects(w) \/ CommitFails(w)
      BY <1>0, <3>2 DEF ApplyRejects, CommitFails, Move, Jobs
    <3>3. CASE WriteSegment(w)
      BY <1>0, <3>3 DEF WriteSegment, Jobs
    <3>4. CASE RenameHead(w)
      BY <1>0, <3>4 DEF RenameHead, Jobs
    <3>5. CASE CollectSegment(w)
      BY <1>0, <3>5 DEF CollectSegment, Jobs
    <3>6. QED
      BY <1>7, <3>1, <3>2, <3>3, <3>4, <3>5
  <2>3. QED
    BY <1>0, <2>1, <2>2 DEF Inside
<1>8. CASE ReleaseDone(w) \/ ReleaseFailed(w) \/ ReleaseRejects(w)
  <2>1. Inside(w) /\ UNCHANGED load
    BY <1>8 DEF ReleaseDone, ReleaseFailed, ReleaseRejects, Inside
  <2>2. /\ job'[w].step \in {"lock", "idle"}
        /\ \A v \in Writers \ {w} : job'[v] = job[v]
    BY <1>0, <1>5, <1>8 DEF ReleaseDone, ReleaseFailed, ReleaseRejects, NoJob
  <2>3. QED
    BY <1>0, <2>1, <2>2 DEF Inside
<1>9. CASE Crash(w)
  <2>1. /\ job[w].step # "dead" /\ job'[w].step = "dead"
        /\ \A v \in Writers \ {w} : job'[v] = job[v]
    BY <1>0, <1>9 DEF Crash, NoJob
  <2>2. load'[w].step = "none"
    BY <1>0, <1>9 DEF Crash, Loaded, NoLoad
  <2>3. QED
    BY <2>1, <2>2
<1>10. QED
  BY <1>1, <1>2, <1>3, <1>4, <1>6, <1>7, <1>8, <1>9 DEF WriterStep

\* A writer loads only while it opens the store, in every state.
LEMMA OpenInvariant == StoreSpec => []OpenInv
<1>1. StoreInit => OpenInv
  BY DEF StoreInit, OpenInv, Loaders, NoLoad
<1>2. StoreTypeOK /\ OpenInv /\ [StoreNext]_vars => OpenInv'
  <2> SUFFICES ASSUME StoreTypeOK, OpenInv, [StoreNext]_vars, NEW v \in Writers,
                      load'[v].step # "none"
               PROVE  job'[v].step = "open"
    BY DEF OpenInv
  <2>0. v \in Loaders /\ (load[v].step # "none" => job[v].step = "open")
    BY DEF OpenInv, Loaders
  <2>1. ASSUME NEW c \in Calls, Ask(c) \/ CallStep(c) PROVE job'[v].step = "open"
    <3>1. c \in Loaders /\ v # c
      BY StoreConstants DEF StoreConstants, Loaders
    <3>2. load'[v] = load[v]
      BY <2>0, <2>1, <3>1, LoadFrames
    <3>3. UNCHANGED job
      BY <2>1 DEF Ask, CallStep, LoadStep, LoadHead, ReadSegment, RetryLoad, ReadLatest,
         AnswerFromView, Refresh, AnswerFromLoad, CallFails
    <3>4. QED
      BY <2>0, <3>2, <3>3
  <2>2. ASSUME NEW w \in Writers, StartScan(w) \/ WriterStep(w) \/ Crash(w), v # w
        PROVE  job'[v].step = "open"
    <3>1. load'[v] = load[v]
      BY <2>0, <2>2, LoadFrames DEF Loaders
    <3>2. job'[v] = job[v]
      BY <2>2, WriterMoves
    <3>3. QED
      BY <2>0, <3>1, <3>2
  <2>3. ASSUME StartScan(v) \/ WriterStep(v) \/ Crash(v) PROVE job'[v].step = "open"
    BY <2>0, <2>3, WriterMoves
  <2>4. CASE SegmentAges \/ DeleteStore \/ UNCHANGED vars
    BY <2>0, <2>4 DEF SegmentAges, DeleteStore
  <2>5. QED
    BY <2>1, <2>2, <2>3, <2>4 DEF StoreNext
<1>3. QED
  BY <1>1, <1>2, StoreTypeTheorem, PTL DEF StoreSpec

\* The writers between acquireWriteLock and its release, whatever crashes or
\* fails, enter and leave as StoreLock allows (store.ts, mutate): one at a time,
\* also after a process that was killed inside.
THEOREM LockUseTheorem == StoreSpec => UsesStoreLock
<1>1. StoreInit => Lock!Init
  BY DEF StoreInit, Lock!Init, Inside, NoJob
<1>2. StoreTypeOK /\ StoreInv /\ OpenInv /\ [StoreNext]_vars => [Lock!Next]_(Lock!vars)
  <2> SUFFICES ASSUME StoreTypeOK, StoreInv, OpenInv, [StoreNext]_vars
               PROVE  [Lock!Next]_(Lock!vars)
    OBVIOUS
  <2>0. locked \in Writers \cup {None} /\ \A v \in Writers : Inside(v) => locked = v /\ left = None
    BY DEF StoreTypeOK, StoreInv
  <2>1. ASSUME UNCHANGED job PROVE UNCHANGED Lock!vars
    BY <2>1 DEF Lock!vars, Inside
  <2>2. ASSUME NEW w \in Writers, StartScan(w) \/ WriterStep(w) \/ Crash(w)
        PROVE  [Lock!Next]_(Lock!vars)
    <3>0. \A v \in Writers \ {w} : job'[v] = job[v]
      BY <2>2, WriterMoves
    <3>1. CASE (Inside(w)' <=> Inside(w)) /\ (job'[w].step = "dead" <=> job[w].step = "dead")
      BY <3>0, <3>1 DEF Lock!vars, Inside
    <3>2. CASE EnterLock(w) /\ job'[w].step = "apply"
      <4>1. \A v \in Writers : ~Inside(v)
        BY <2>0, <3>2, StoreConstants DEF EnterLock, Inside, StoreConstants
      <4>2. Lock!Enter(w)
        BY <3>0, <3>2, <4>1 DEF Lock!Enter, EnterLock, Inside
      <4>3. QED
        BY <4>2 DEF Lock!Next
    <3>3. CASE Inside(w) /\ job'[w].step \in {"lock", "idle"}
      <4>1. Lock!Leave(w)
        BY <3>0, <3>3 DEF Lock!Leave, Inside
      <4>2. QED
        BY <4>1 DEF Lock!Next
    <3>4. CASE job[w].step # "dead" /\ job'[w].step = "dead"
      <4>1. Lock!Die(w)
        BY <3>0, <3>4 DEF Lock!Die, Inside
      <4>2. QED
        BY <4>1 DEF Lock!Next
    <3>5. QED
      BY <2>2, <3>1, <3>2, <3>3, <3>4, WriterMoves DEF Inside
  <2>3. QED
    BY <2>1, <2>2 DEF StoreNext, Ask, CallStep, LoadStep, LoadHead, ReadSegment, RetryLoad,
       ReadLatest, AnswerFromView, Refresh, AnswerFromLoad, CallFails, SegmentAges, DeleteStore
<1>3. QED
  BY <1>1, <1>2, StoreInvariant, OpenInvariant, PTL DEF StoreSpec, UsesStoreLock, Lock!Spec

-----------------------------------------------------------------------------
(* Answers *)

\* Memory holds one graph for each generation, as long as what a step puts there
\* was there before or is the committed snapshot.
LEMMA MemoryKept ==
  ASSUME SnapshotInv,
         \A i \in Instances : view'[i] \in InMemory,
         \A l \in Loaders : load'[l].head \in InMemory \cup {head}
  PROVE  OneGraphPerGeneration'
<1>1. \A s \in InMemory' : s \in InMemory \cup {head}
  BY DEF InMemory, NoHead
<1>2. \A s \in InMemory : Known(s)
  BY DEF InMemory, SnapshotInv, ViewInv, LoadInv
<1>3. \A s, t \in InMemory : s.gen = t.gen => s.segs = t.segs
  BY DEF SnapshotInv, OneGraphPerGeneration
<1> HIDE DEF InMemory
<1>4. \A s, t \in InMemory' : s.gen = t.gen => s.segs = t.segs
  BY <1>1, <1>2, <1>3 DEF Known
<1>5. QED
  BY <1>4 DEF OneGraphPerGeneration

\* The steps of a load under way.
LEMMA LoadsKeepSnapshots ==
  ASSUME StoreTypeOK, HeadComplete, SnapshotInv, NEW l \in Loaders, LoadStep(l)
  PROVE  SnapshotInv'
<1>0. /\ load \in [Loaders -> Loads] /\ load[l] \in Loads
      /\ load[l].tries \in Nat /\ head.gen \in Nat /\ load[l].head.gen \in Nat
      /\ Known(load[l].head)
      /\ load[l].step = "segments" => load[l].left \subseteq load[l].head.segs
  BY StoreConstants DEF StoreTypeOK, SnapshotInv, LoadInv, Loads, Heads, StoreConstants
<1>1. UNCHANGED <<head, view, since, disk>> /\ load[l].step \in {"head", "segments"}
  BY DEF LoadStep, LoadHead, ReadSegment, RetryLoad, Missing
<1>2. \A m \in Loaders \ {l} : load'[m] = load[m]
  BY LoadFrames
<1>3. /\ load'[l].step \in {"head", "segments"}
      /\ Known(load'[l].head)
      /\ load'[l].step = "segments" => load'[l].left \subseteq load'[l].head.segs
      /\ load'[l].step = "head" /\ load'[l].tries > 1 => load'[l].head.gen < head.gen
      /\ load'[l].step = "segments" =>
           \/ load'[l].head = head
           \/ load'[l].head = load[l].head /\ load[l].step = "segments"
      /\ load'[l].head \in {head, load[l].head}
  <2>1. CASE LoadHead(l)
    <3>1. load'[l].step = "segments" /\ load'[l].head = head /\ load'[l].left = head.segs
      BY <1>0, <2>1 DEF LoadHead, Loads
    <3>2. QED
      BY <1>0, <3>1 DEF Known
  <2>2. CASE ReadSegment(l)
    <3>1. PICK s \in load[l].left : load' = [load EXCEPT ![l].left = @ \ {s}]
      BY <2>2 DEF ReadSegment
    <3>2. /\ load'[l].step = "segments" /\ load'[l].head = load[l].head
          /\ load'[l].left = load[l].left \ {s}
      BY <1>0, <2>2, <3>1 DEF ReadSegment, Loads
    <3>3. QED
      BY <1>0, <2>2, <3>2 DEF ReadSegment
  <2>3. CASE RetryLoad(l)
    <3>1. load'[l].step = "head" /\ load'[l].head = load[l].head
      BY <1>0, <2>3 DEF RetryLoad, Loads
    <3>2. load[l].head.segs # head.segs
      BY <1>0, <2>3 DEF RetryLoad, Missing, HeadComplete
    <3>3. load[l].head.gen < head.gen
      BY <1>0, <3>2 DEF Known
    <3>4. QED
      BY <1>0, <3>1, <3>3
  <2>4. QED
    BY <2>1, <2>2, <2>3 DEF LoadStep
<1>4. ViewInv' /\ Known(NoHead)'
  BY <1>1 DEF SnapshotInv, ViewInv, Known, NoHead
<1>5. LoadInv'
  BY <1>1, <1>2, <1>3 DEF SnapshotInv, LoadInv, Known
<1>6. CallInv'
  <2> SUFFICES ASSUME NEW c \in Calls
               PROVE  /\ since[c] = {} <=> load'[c].step = "none"
                      /\ since[c] # {} => head.segs \in since[c]
                      /\ load'[c].step \in {"compare", "segments"} => load'[c].head.segs \in since[c]
    BY <1>1 DEF CallInv
  <2>1. /\ since[c] = {} <=> load[c].step = "none"
        /\ since[c] # {} => head.segs \in since[c]
        /\ load[c].step \in {"compare", "segments"} => load[c].head.segs \in since[c]
    BY DEF SnapshotInv, CallInv
  <2>2. CASE c = l
    BY <1>1, <1>3, <2>1, <2>2
  <2>3. CASE c # l
    BY <1>2, <2>1, <2>3 DEF Loaders
  <2>4. QED
    BY <2>2, <2>3
<1>7. OneGraphPerGeneration'
  <2>1. \A m \in Loaders : load'[m].head \in InMemory \cup {head}
    BY <1>2, <1>3 DEF InMemory
  <2>2. \A i \in Instances : view'[i] \in InMemory
    BY <1>1 DEF InMemory
  <2>3. QED
    BY <2>1, <2>2, MemoryKept
<1>8. QED
  BY <1>4, <1>5, <1>6, <1>7 DEF SnapshotInv

\* The steps of a call besides those.
LEMMA CallsKeepSnapshots ==
  ASSUME StoreTypeOK, SnapshotInv, NEW c \in Calls,
         \/ Ask(c) \/ ReadLatest(c) \/ AnswerFromView(c) \/ Refresh(c)
         \/ AnswerFromLoad(c) \/ CallFails(c)
  PROVE  SnapshotInv'
<1>0. /\ c \in Loaders /\ InstanceOf[c] \in Instances
      /\ load \in [Loaders -> Loads] /\ load[c] \in Loads
      /\ since \in [Calls -> SUBSET Graphs] /\ view \in [Instances -> Heads]
      /\ Known(load[c].head) /\ Known(NoHead)
      /\ since[c] = {} <=> load[c].step = "none"
      /\ since[c] # {} => head.segs \in since[c]
  BY StoreConstants DEF StoreTypeOK, SnapshotInv, LoadInv, CallInv, Loaders, StoreConstants
<1>1. head' = head
  BY DEF Ask, ReadLatest, AnswerFromView, Refresh, AnswerFromLoad, CallFails
<1>2. \A m \in Loaders \ {c} : load'[m] = load[m]
  BY <1>0, LoadFrames DEF CallStep
<1>3. /\ load'[c].step \in {"none", "check", "compare", "head"}
      /\ load'[c].step = "head" => load'[c].tries = 1
      /\ load'[c].step = "compare" => load'[c].head = head
      /\ Known(load'[c].head)
      /\ load'[c].head \in {NoHead, load[c].head, head}
  <2>1. CASE Ask(c)
    <3>1. load'[c].step = "check" /\ load'[c].head = load[c].head
      BY <1>0, <2>1 DEF Ask, Loads
    <3>2. QED
      BY <1>0, <3>1
  <2>2. CASE AnswerFromView(c) \/ AnswerFromLoad(c) \/ CallFails(c)
    <3>1. load'[c] = NoLoad
      BY <1>0, <2>2 DEF AnswerFromView, AnswerFromLoad, CallFails, Loaded
    <3>2. QED
      BY <1>0, <3>1 DEF NoLoad
  <2>3. CASE Refresh(c)
    <3>1. load'[c] = [NoLoad EXCEPT !.step = "head", !.tries = 1]
      BY <1>0, <2>3 DEF Refresh, Loading
    <3>2. QED
      BY <1>0, <3>1 DEF NoLoad
  <2>4. CASE ReadLatest(c)
    <3>1. load'[c].step = "compare" /\ load'[c].head = head
      BY <1>0, <2>4 DEF ReadLatest, Loads
    <3>2. head.gen \in Nat
      BY DEF StoreTypeOK, Heads
    <3>3. QED
      BY <3>1, <3>2 DEF Known
  <2>5. QED
    BY <2>1, <2>2, <2>3, <2>4
<1>4. /\ \A d \in Calls \ {c} : since'[d] = since[d]
      /\ since'[c] = {} <=> load'[c].step = "none"
      /\ since'[c] # {} => head.segs \in since'[c]
  <2>1. CASE Ask(c)
    <3>1. since'[c] = {head.segs} /\ load'[c].step = "check"
      BY <1>0, <2>1 DEF Ask, Loads
    <3>2. QED
      BY <1>0, <2>1, <3>1 DEF Ask
  <2>2. CASE AnswerFromView(c) \/ AnswerFromLoad(c) \/ CallFails(c)
    <3>1. load'[c] = NoLoad /\ since' = [since EXCEPT ![c] = {}]
      BY <1>0, <2>2 DEF AnswerFromView, AnswerFromLoad, CallFails, Loaded, Settle
    <3>2. QED
      BY <1>0, <3>1 DEF NoLoad
  <2>3. CASE Refresh(c)
    <3>1. load'[c].step = "head" /\ UNCHANGED since /\ load[c].step = "compare"
      BY <1>0, <2>3 DEF Refresh, Loading, NoLoad
    <3>2. QED
      BY <1>0, <3>1
  <2>4. CASE ReadLatest(c)
    <3>1. load'[c].step = "compare" /\ UNCHANGED since /\ load[c].step = "check"
      BY <1>0, <2>4 DEF ReadLatest, Loads
    <3>2. QED
      BY <1>0, <3>1
  <2>5. QED
    BY <2>1, <2>2, <2>3, <2>4
<1>5. \A i \in Instances : view'[i] = view[i] \/ view'[i] = load[c].head
  BY <1>0 DEF Ask, ReadLatest, AnswerFromView, Refresh, AnswerFromLoad, CallFails
<1>6. ViewInv' /\ Known(NoHead)'
  BY <1>0, <1>1, <1>5 DEF SnapshotInv, ViewInv, Known, NoHead
<1>7. LoadInv'
  BY <1>1, <1>2, <1>3 DEF SnapshotInv, LoadInv, Known
<1>8. CallInv'
  <2>1. \A d \in Calls \ {c} : load'[d] = load[d]
    BY <1>2 DEF Loaders
  <2>2. QED
    BY <1>1, <1>3, <1>4, <2>1 DEF SnapshotInv, CallInv
<1>9. OneGraphPerGeneration'
  <2>1. \A m \in Loaders : load'[m].head \in InMemory \cup {head}
    BY <1>0, <1>2, <1>3 DEF InMemory
  <2>2. \A i \in Instances : view'[i] \in InMemory
    BY <1>0, <1>5 DEF InMemory
  <2>3. QED
    BY <2>1, <2>2, MemoryKept
<1>10. QED
  BY <1>6, <1>7, <1>8, <1>9 DEF SnapshotInv

\* The steps of a writer besides those: only RenameHead changes the snapshot.
LEMMA WritersKeepSnapshots ==
  ASSUME StoreTypeOK, StoreInv, SnapshotInv, NEW w \in Writers,
         StartScan(w) \/ WriterStep(w) \/ Crash(w), ~LoadStep(w)
  PROVE  SnapshotInv'
<1>0. /\ w \in Loaders /\ \A c \in Calls : c \in Loaders \ {w}
      /\ load \in [Loaders -> Loads] /\ load[w] \in Loads
      /\ Known(load[w].head) /\ Known(NoHead)
      /\ view' = view
  BY StoreConstants DEF StoreTypeOK, SnapshotInv, LoadInv, Loaders, StoreConstants, StartScan,
     WriterStep, Opened, OpenFails, EnterLock, LockRejected, Apply, ApplyRejects, WriteSegment,
     RenameHead, CollectSegment, CommitFails, ReleaseDone, ReleaseFailed, ReleaseRejects, Crash
<1>1. \A m \in Loaders \ {w} : load'[m] = load[m]
  BY <1>0, LoadFrames
<1>2. CASE RenameHead(w)
  <2>1. load' = load /\ head'.gen = head.gen + 1 /\ head'.segs = job[w].graph
    BY <1>2 DEF RenameHead, StoreInv
  <2>2. head.gen \in Nat
    BY DEF StoreTypeOK, Heads
  <2>3. \A s \in Heads : Known(s) => s.gen < head'.gen
    BY <2>1, <2>2 DEF Known, Heads
  <2>4. \A s \in Heads : Known(s) => Known(s)'
    BY <2>1, <2>2 DEF Known, Heads
  <2>5. /\ \A i \in Instances : view[i] \in Heads
        /\ \A l \in Loaders : load[l].head \in Heads
        /\ NoHead \in Heads
    BY FreshLoads DEF StoreTypeOK, Loads
  <2>6. ViewInv' /\ Known(NoHead)'
    <3>1. \A i \in Instances : Known(view[i])'
      BY <1>0, <2>4, <2>5 DEF SnapshotInv, ViewInv
    <3>2. Known(NoHead)'
      BY <1>0, <2>4, <2>5
    <3>3. QED
      BY <3>1, <3>2 DEF ViewInv
  <2>7. LoadInv'
    <3> SUFFICES ASSUME NEW l \in Loaders
                 PROVE  /\ Known(load[l].head)'
                        /\ load[l].step = "segments" => load[l].left \subseteq load[l].head.segs
                        /\ load[l].head.gen < head'.gen
      BY <2>1 DEF LoadInv
    <3>1. /\ load[l].head \in Heads /\ Known(load[l].head)
          /\ load[l].step = "segments" => load[l].left \subseteq load[l].head.segs
      BY <2>5 DEF SnapshotInv, LoadInv
    <3>2. QED
      BY <2>1, <2>3, <2>4, <3>1
  <2>8. CallInv'
    <3> SUFFICES ASSUME NEW c \in Calls
                 PROVE  /\ since'[c] = {} <=> load[c].step = "none"
                        /\ since'[c] # {} => head'.segs \in since'[c]
                        /\ load[c].step \in {"compare", "segments"} => load[c].head.segs \in since'[c]
      BY <2>1 DEF CallInv
    <3>1. since'[c] = IF since[c] = {} THEN {} ELSE since[c] \cup {head'.segs}
      BY <1>2, <2>1 DEF RenameHead
    <3>2. QED
      BY <3>1 DEF SnapshotInv, CallInv
  <2>9. OneGraphPerGeneration'
    BY <1>0, <2>1, MemoryKept DEF InMemory
  <2>10. QED
    BY <2>6, <2>7, <2>8, <2>9 DEF SnapshotInv
<1>3. CASE ~RenameHead(w)
  <2>1. head' = head /\ since' = since
    BY <1>3 DEF StartScan, WriterStep, Opened, OpenFails, EnterLock, LockRejected, Apply,
       ApplyRejects, WriteSegment, CollectSegment, CommitFails, ReleaseDone, ReleaseFailed, ReleaseRejects, Crash
  <2>2. load'[w] \in {load[w], NoLoad, [NoLoad EXCEPT !.step = "head", !.tries = 1]}
    BY <1>0, <1>3 DEF StartScan, WriterStep, Opened, OpenFails, EnterLock, LockRejected, Apply,
       ApplyRejects, WriteSegment, CollectSegment, CommitFails, ReleaseDone, ReleaseFailed, ReleaseRejects,
       Crash, Loading, Loaded
  <2>3. ViewInv' /\ Known(NoHead)'
    BY <1>0, <2>1 DEF SnapshotInv, ViewInv, Known, NoHead
  <2>4. \A s : Known(s)' <=> Known(s)
    BY <2>1 DEF Known
  <2>5. /\ Known(load'[w].head)
        /\ load'[w].step = "segments" => load'[w].left \subseteq load'[w].head.segs
        /\ load'[w].step = "head" /\ load'[w].tries > 1 => load'[w].head.gen < head.gen
        /\ load'[w].head \in {NoHead, load[w].head}
    <3>1. CASE load'[w] = load[w]
      BY <1>0, <3>1 DEF SnapshotInv, LoadInv
    <3>2. CASE load'[w] = NoLoad
      BY <1>0, <3>2 DEF NoLoad
    <3>3. CASE load'[w] = [NoLoad EXCEPT !.step = "head", !.tries = 1]
      BY <1>0, <3>3 DEF NoLoad
    <3>4. QED
      BY <2>2, <3>1, <3>2, <3>3
  <2>6. LoadInv'
    BY <1>1, <2>1, <2>4, <2>5 DEF SnapshotInv, LoadInv, Known
  <2>7. CallInv'
    BY <1>0, <1>1, <2>1 DEF SnapshotInv, CallInv
  <2>8. OneGraphPerGeneration'
    <3>1. \A m \in Loaders : load'[m].head \in InMemory \cup {head}
      BY <1>1, <2>5 DEF InMemory
    <3>2. QED
      BY <1>0, <3>1, MemoryKept DEF InMemory
  <2>9. QED
    BY <2>3, <2>6, <2>7, <2>8 DEF SnapshotInv
<1>4. QED
  BY <1>2, <1>3

\* Unless someone deletes the store, what is loaded and viewed is what a commit wrote.
LEMMA SnapshotInvariant ==
  ASSUME ~Deletes
  PROVE  StoreSpec => []SnapshotInv
<1>1. StoreInit => SnapshotInv
  <2> SUFFICES ASSUME StoreInit PROVE SnapshotInv
    OBVIOUS
  <2>1. head.gen = 0 /\ head.segs = {}
    BY DEF StoreInit, NoHead
  <2>2. Known(NoHead)
    BY <2>1 DEF Known, NoHead
  <2>3. ViewInv
    BY <2>2 DEF StoreInit, ViewInv
  <2>4. LoadInv
    BY <2>2 DEF StoreInit, LoadInv, NoLoad
  <2>5. CallInv
    BY DEF StoreInit, CallInv, NoLoad, Loaders
  <2>6. OneGraphPerGeneration
    BY DEF StoreInit, OneGraphPerGeneration, InMemory, NoLoad, NoHead
  <2>7. QED
    BY <2>2, <2>3, <2>4, <2>5, <2>6 DEF SnapshotInv
<1>2. StoreTypeOK /\ StoreInv /\ SnapshotInv /\ [StoreNext]_vars => SnapshotInv'
  <2> SUFFICES ASSUME StoreTypeOK, StoreInv, SnapshotInv, [StoreNext]_vars PROVE SnapshotInv'
    OBVIOUS
  <2>1. ASSUME NEW c \in Calls, Ask(c) \/ CallStep(c) PROVE SnapshotInv'
    BY <2>1, LoadsKeepSnapshots, CallsKeepSnapshots DEF CallStep, Loaders, StoreInv
  <2>2. ASSUME NEW w \in Writers, StartScan(w) \/ WriterStep(w) \/ Crash(w) PROVE SnapshotInv'
    BY <2>2, LoadsKeepSnapshots, WritersKeepSnapshots DEF Loaders, StoreInv
  <2>3. CASE SegmentAges \/ UNCHANGED vars
    BY <2>3 DEF SegmentAges, SnapshotInv, ViewInv, LoadInv, CallInv, Known, NoHead,
       OneGraphPerGeneration, InMemory
  <2>4. QED
    BY <2>1, <2>2, <2>3 DEF StoreNext, DeleteStore
<1>3. QED
  BY <1>1, <1>2, StoreInvariant, PTL DEF StoreSpec

\* A snapshot in memory and a HEAD that was read with its generation name the
\* same graph, whatever was committed since.
LEMMA SameGraph ==
  ASSUME SnapshotInv, NEW i \in Instances, NEW l \in Loaders, load[l].head.gen = view[i].gen
  PROVE  view[i].segs = load[l].head.segs
BY DEF SnapshotInv, OneGraphPerGeneration, InMemory

\* Unless someone deletes the store, an attempt to load it is only lost to a
\* commit that came after its HEAD (persistence.ts, loadSnapshot: "A segment
\* deleted under us means a newer HEAD exists").
THEOREM RetryTheorem ==
  ASSUME ~Deletes
  PROVE  StoreSpec => RetryReadsNewer
<1>1. StoreTypeOK /\ SnapshotInv =>
        [\A l \in Loaders : LoadHead(l) /\ load[l].tries > 1 => head.gen > load[l].head.gen]_vars
  <2> SUFFICES ASSUME StoreTypeOK, SnapshotInv, NEW l \in Loaders, LoadHead(l), load[l].tries > 1
               PROVE  head.gen > load[l].head.gen
    OBVIOUS
  <2>1. load[l].head.gen < head.gen
    BY DEF LoadHead, SnapshotInv, LoadInv
  <2>2. head.gen \in Nat /\ load[l].head.gen \in Nat
    BY DEF StoreTypeOK, Loads, Heads
  <2>3. QED
    BY <2>1, <2>2
<1>2. QED
  BY <1>1, SnapshotInvariant, StoreTypeTheorem, PTL DEF RetryReadsNewer

\* Unless someone deletes the store, a call is answered from one whole graph
\* that was the committed one at some moment since it was asked, whatever other
\* calls load into the same object and whatever is committed, collected or
\* fails meanwhile (store.ts, query and refresh).
THEOREM AnswerTheorem ==
  ASSUME ~Deletes
  PROVE  StoreSpec => ImplementsSnapshotStore
<1>1. StoreInit => Abstract!Init
  <2> SUFFICES ASSUME StoreInit PROVE Abstract!Init
    OBVIOUS
  <2>1. head.segs = {} /\ {} \in Graphs
    BY DEF StoreInit, NoHead, Graphs
  <2>2. QED
    BY <2>1 DEF StoreInit, Abstract!Init
<1>2. StoreTypeOK /\ SnapshotInv /\ [StoreNext]_vars => [Abstract!Next]_(Abstract!vars)
  <2> SUFFICES ASSUME StoreTypeOK, SnapshotInv, [StoreNext]_vars
               PROVE  [Abstract!Next]_(Abstract!vars)
    OBVIOUS
  <2>1. ASSUME NEW c \in Calls, Ask(c) PROVE Abstract!Ask(c)
    BY <2>1 DEF Ask, Abstract!Ask
  <2>2. ASSUME NEW c \in Calls, AnswerFromView(c) \/ AnswerFromLoad(c) \/ CallFails(c)
        PROVE  Abstract!Reply(c)
    <3>0. /\ InstanceOf[c] \in Instances
          /\ since[c] = {} <=> load[c].step = "none"
          /\ since[c] # {} => head.segs \in since[c]
          /\ load[c].step \in {"compare", "segments"} => load[c].head.segs \in since[c]
      BY StoreConstants DEF StoreConstants, SnapshotInv, CallInv
    <3>1. head' = head /\ load[c].step # "none"
      BY <2>2 DEF AnswerFromView, AnswerFromLoad, CallFails, LoadResolves, LoadRejects, Missing
    <3>2. \E g \in since[c] \cup {None} : Settle(c, g)
      <4>1. CASE AnswerFromView(c)
        <5>1. view[InstanceOf[c]].segs = load[c].head.segs
          BY <3>0, <4>1, SameGraph DEF AnswerFromView, Loaders
        <5>2. QED
          BY <3>0, <3>1, <4>1, <5>1 DEF AnswerFromView
      <4>2. CASE AnswerFromLoad(c)
        BY <3>0, <4>2 DEF AnswerFromLoad, LoadResolves
      <4>3. CASE CallFails(c)
        BY <4>3 DEF CallFails
      <4>4. QED
        BY <2>2, <4>1, <4>2, <4>3
    <3>3. QED
      BY <3>0, <3>1, <3>2 DEF Abstract!Reply, Settle
  <2>3. ASSUME NEW w \in Writers, RenameHead(w) PROVE Abstract!Commit
    <3>1. job[w].graph \in Graphs
      BY DEF StoreTypeOK, Jobs
    <3>2. QED
      BY <2>3, <3>1 DEF RenameHead, Abstract!Commit
  <2>4. ASSUME UNCHANGED <<head, since, answer>> PROVE UNCHANGED Abstract!vars
    BY <2>4 DEF Abstract!vars
  <2>5. CASE \E l \in Loaders : LoadStep(l)
    BY <2>4, <2>5 DEF LoadStep, LoadHead, ReadSegment, RetryLoad
  <2>6. CASE \E c \in Calls : ReadLatest(c) \/ Refresh(c)
    BY <2>4, <2>6 DEF ReadLatest, Refresh
  <2>7. ASSUME NEW w \in Writers, StartScan(w) \/ WriterStep(w) \/ Crash(w), ~LoadStep(w), ~RenameHead(w)
        PROVE  UNCHANGED Abstract!vars
    BY <2>4, <2>7 DEF StartScan, WriterStep, Opened, OpenFails, EnterLock, LockRejected, Apply,
       ApplyRejects, WriteSegment, CollectSegment, CommitFails, ReleaseDone, ReleaseFailed, ReleaseRejects, Crash
  <2>8. CASE SegmentAges \/ UNCHANGED vars
    BY <2>4, <2>8 DEF SegmentAges
  <2>9. QED
    BY <2>1, <2>2, <2>3, <2>5, <2>6, <2>7, <2>8
    DEF StoreNext, CallStep, Loaders, DeleteStore, Abstract!Next
<1>3. QED
  BY <1>1, <1>2, SnapshotInvariant, StoreTypeTheorem, PTL
  DEF StoreSpec, ImplementsSnapshotStore, Abstract!Spec

\* Unless someone deletes the store, an answer never comes from a graph that was
\* replaced before the call (docs/mcp-server.md: "A finished scan is picked up
\* on the next tool call"; store.ts, refresh).
THEOREM FreshTheorem ==
  ASSUME ~Deletes
  PROVE  StoreSpec => FreshAnswers
<1>1. StoreTypeOK /\ SnapshotInv /\ [StoreNext]_vars =>
        [\A c \in Calls : answer'[c] \notin {None, answer[c]} => answer'[c] \in since[c]]_vars
  <2> SUFFICES ASSUME StoreTypeOK, SnapshotInv, StoreNext, NEW c \in Calls,
                      answer'[c] \notin {None, answer[c]}
               PROVE  answer'[c] \in since[c]
    OBVIOUS
  <2>0. /\ answer \in [Calls -> Graphs \cup {None}] /\ InstanceOf[c] \in Instances
        /\ since[c] = {} <=> load[c].step = "none"
        /\ since[c] # {} => head.segs \in since[c]
        /\ load[c].step \in {"compare", "segments"} => load[c].head.segs \in since[c]
    BY StoreConstants DEF StoreConstants, StoreTypeOK, SnapshotInv, CallInv
  <2>1. PICK d \in Calls : Ask(d) \/ AnswerFromView(d) \/ AnswerFromLoad(d) \/ CallFails(d)
    BY DEF StoreNext, CallStep, LoadStep, LoadHead, ReadSegment, RetryLoad, ReadLatest, Refresh,
       StartScan, WriterStep, Opened, OpenFails, EnterLock, LockRejected, Apply, ApplyRejects, WriteSegment,
       RenameHead, CollectSegment, CommitFails, ReleaseDone, ReleaseFailed, ReleaseRejects, Crash,
       SegmentAges, DeleteStore
  <2>2. AnswerFromView(c) \/ AnswerFromLoad(c)
    BY <2>0, <2>1 DEF Ask, AnswerFromView, AnswerFromLoad, CallFails, Settle
  <2>3. CASE AnswerFromView(c)
    <3>1. view[InstanceOf[c]].segs = load[c].head.segs
      BY <2>0, <2>3, SameGraph DEF AnswerFromView, Loaders
    <3>2. QED
      BY <2>0, <2>3, <3>1 DEF AnswerFromView, Settle
  <2>4. CASE AnswerFromLoad(c)
    BY <2>0, <2>4 DEF AnswerFromLoad, LoadResolves, Settle
  <2>5. QED
    BY <2>2, <2>3, <2>4
<1>2. QED
  BY <1>1, SnapshotInvariant, StoreTypeTheorem, PTL DEF StoreSpec, FreshAnswers

\* Where neither the lock, nor the nodes, nor the disk make a write fail, only
\* what a scan found is ever committed, however many scans run and are killed
\* (store.ts, mutate; the failed write is the one way to commit less).
THEOREM CommitTheorem ==
  ASSUME ~LockErrors, ~Rejects, ~DiskErrors
  PROVE  StoreSpec => OnlyScansAreCommitted
<1> DEFINE FirstRound == \A w \in Writers :
             /\ job[w].round = 1
             /\ job[w].step # "failed"
             /\ job[w].step \in {"segments", "collect"} => job[w].graph = job[w].scan
<1>1. StoreInit => FirstRound
  BY DEF StoreInit, NoJob
<1>2. StoreTypeOK /\ FirstRound /\ [StoreNext]_vars => FirstRound'
  <2> SUFFICES ASSUME StoreTypeOK, FirstRound, [StoreNext]_vars PROVE FirstRound'
    OBVIOUS
  <2>0. job \in [Writers -> Jobs]
    BY DEF StoreTypeOK
  <2>1. ASSUME NEW w \in Writers, StartScan(w) \/ WriterStep(w) \/ Crash(w) PROVE FirstRound'
    <3> DEFINE Steady == /\ job'[w].round = 1
                         /\ job'[w].step # "failed"
                         /\ job'[w].step \in {"segments", "collect"} => job'[w].graph = job'[w].scan
    <3>1. \A v \in Writers \ {w} : job'[v] = job[v]
      <4>1. CASE StartScan(w)
        BY <2>0, <4>1 DEF StartScan
      <4>2. CASE WriterStep(w) \/ Crash(w)
        BY <2>0, <4>2 DEF WriterStep, LoadStep, LoadHead, ReadSegment, RetryLoad, Opened, OpenFails,
           EnterLock, LockRejected, Apply, ApplyRejects, WriteSegment, RenameHead, CollectSegment,
           CommitFails, ReleaseDone, ReleaseFailed, ReleaseRejects, Crash, Move, AfterFailure
      <4>3. QED
        BY <2>1, <4>1, <4>2
    <3>2. Steady
      <4>1. CASE StartScan(w)
        BY <2>0, <4>1 DEF StartScan, NoJob
      <4>2. CASE OpenFails(w) \/ ReleaseDone(w)
        BY <2>0, <4>2 DEF OpenFails, ReleaseDone, NoJob
      <4>10. CASE ReleaseRejects(w)
        <5>1. job' = [job EXCEPT ![w] = NoJob]
          BY <4>10 DEF ReleaseRejects
        <5>2. QED
          BY <2>0, <5>1 DEF NoJob
      <4>3. CASE Crash(w)
        BY <2>0, <4>3 DEF Crash, NoJob
      <4>4. CASE LoadStep(w)
        BY <4>4 DEF LoadStep, LoadHead, ReadSegment, RetryLoad
      <4>5. CASE Opened(w) \/ EnterLock(w)
        BY <2>0, <4>5 DEF Opened, EnterLock, Move, Jobs
      <4>6. CASE Apply(w)
        BY <2>0, <4>6 DEF Apply, Jobs
      <4>7. CASE WriteSegment(w)
        BY <2>0, <4>7 DEF WriteSegment, Jobs
      <4>8. CASE RenameHead(w) \/ CollectSegment(w)
        BY <2>0, <4>8 DEF RenameHead, CollectSegment, Jobs
      <4>9. QED
        BY <2>1, <4>1, <4>2, <4>4, <4>5, <4>6, <4>7, <4>8, <4>3, <4>10
        DEF WriterStep, LockRejected, ApplyRejects, CommitFails, ReleaseFailed
    <3>3. QED
      BY <3>1, <3>2
  <2>2. CASE UNCHANGED job
    BY <2>2
  <2>3. QED
    BY <2>1, <2>2 DEF StoreNext, Ask, CallStep, LoadStep, LoadHead, ReadSegment, RetryLoad,
       ReadLatest, AnswerFromView, Refresh, AnswerFromLoad, CallFails, SegmentAges, DeleteStore
<1>3. FirstRound => [\A w \in Writers : RenameHead(w) => head'.segs = job[w].scan]_vars
  BY DEF RenameHead
<1>4. QED
  BY <1>1, <1>2, <1>3, StoreTypeTheorem, PTL DEF StoreSpec, OnlyScansAreCommitted
=============================================================================
