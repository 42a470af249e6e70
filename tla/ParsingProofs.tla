--------------------------- MODULE ParsingProofs ---------------------------
(* Proofs about how files get parsed: what ParserPool.tla (parser-pool.ts)    *)
(* promises for any files and workers, whichever of them start or die, and    *)
(* any concurrency; and what ParseCache.tla (the parse cache of a scan)       *)
(* promises for any files, contents, edits and scans that share the cache.    *)
EXTENDS ParserPool, ParseCache, FiniteSetTheorems, TLAPS

(* The parser pool.                                                          *)

\* The types of the pool's state; the two counters stay natural because a main
\* thread parse ends only if one was under way.
THEOREM PoolTypes == PoolSpec => []PoolTypeOK
<1>1. PoolInit => PoolTypeOK
  <2> SUFFICES ASSUME PoolInit PROVE PoolTypeOK
    OBVIOUS
  <2>1. closing \in BOOLEAN
    BY Zenon DEF PoolInit
  <2>2. QED
    BY <2>1 DEF PoolInit, PoolTypeOK
<1>2. PoolTypeOK /\ [PoolNext]_poolVars => PoolTypeOK'
  <2> SUFFICES ASSUME PoolTypeOK, [PoolNext]_poolVars PROVE PoolTypeOK'
    OBVIOUS
  <2> USE DEF PoolTypeOK, threads
  <2>1. ASSUME NEW j \in Jobs, Ask(j) PROVE PoolTypeOK'
    BY <2>1 DEF Ask, AskMain, AskWorker, Live
  <2>2. ASSUME NEW j \in Jobs, MainParses(j) PROVE PoolTypeOK'
    BY <2>2 DEF MainParses, Settle
  <2>3. ASSUME NEW w \in Workers, Message(w) PROVE PoolTypeOK'
    BY <2>3 DEF Message, Settle
  <2>4. ASSUME NEW w \in Workers, ErrorEvent(w) \/ ExitEvent(w) PROVE PoolTypeOK'
    BY <2>4 DEF ErrorEvent, ExitEvent, Fail
  <2>5. ASSUME NEW w \in Workers, WorkerParses(w) \/ WorkerDies(w) PROVE PoolTypeOK'
    BY <2>5 DEF WorkerParses, WorkerDies
  <2>6. CASE Close
    BY <2>6 DEF Close
  <2>7. CASE UNCHANGED poolVars
    BY <2>7 DEF poolVars
  <2>8. QED
    BY <2>1, <2>2, <2>3, <2>4, <2>5, <2>6, <2>7 DEF PoolNext
<1>3. QED
  BY <1>1, <1>2, PTL DEF PoolSpec

\* Where a file is, without counting: nowhere before it is asked for, then with
\* one worker or in one main thread parse, then settled.  Why closing starts
\* nothing: it comes when every file has settled.
PlaceInv ==
  /\ \A j \in Jobs : j \notin asked => mainJobs[j] = 0 /\ settled[j] = 0
  /\ \A j \in Jobs : mainJobs[j] + settled[j] <= 1
  /\ \A w \in Workers : \A j \in jobs[w] : j \in asked /\ mainJobs[j] = 0 /\ settled[j] = 0
  /\ \A v, w \in Workers : \A j \in Jobs : j \in jobs[v] /\ j \in jobs[w] => v = w
  /\ \A j \in asked : mainJobs[j] = 0 /\ settled[j] = 0 => \E w \in Workers : j \in jobs[w]
  /\ closing => asked = Jobs /\ \A j \in Jobs : settled[j] = 1

\* So a file is in one place at a time, in every state.
LEMMA PlaceInvariant == PoolSpec => []PlaceInv
<1>1. PoolInit => PlaceInv
  BY DEF PoolInit, PlaceInv
<1>2. PoolTypeOK /\ PlaceInv /\ [PoolNext]_poolVars => PlaceInv'
  <2> SUFFICES ASSUME PoolTypeOK, PlaceInv, [PoolNext]_poolVars PROVE PlaceInv'
    OBVIOUS
  <2> USE DEF PoolTypeOK, PlaceInv, threads
  <2>1. ASSUME NEW j \in Jobs, Ask(j) PROVE PlaceInv'
    <3>0. j \notin asked /\ ~closing /\ asked' = asked \cup {j} /\ UNCHANGED <<settled, closing>>
      BY <2>1 DEF Ask
    <3>1. CASE AskMain(j)
      BY <3>0, <3>1 DEF AskMain
    <3>2. CASE AskWorker(j)
      <4>1. PICK w \in Workers : jobs' = [jobs EXCEPT ![w] = @ \cup {j}]
        BY <3>2 DEF AskWorker, Live
      <4>2. UNCHANGED mainJobs
        BY <3>2 DEF AskWorker
      <4>3. jobs'[w] = jobs[w] \cup {j} /\ \A v \in Workers \ {w} : jobs'[v] = jobs[v]
        BY <4>1
      <4>4. \A v \in Workers : j \notin jobs[v]
        BY <3>0
      <4>5. \A v \in Workers : \A i \in Jobs : i \in jobs'[v] <=> i \in jobs[v] \/ (i = j /\ v = w)
        BY <4>3
      <4>6. \A v \in Workers : jobs'[v] \subseteq Jobs
        BY <4>3
      <4>7. mainJobs[j] = 0 /\ settled[j] = 0 /\ w \in Workers
        BY <3>0
      <4>8. \A i \in Jobs : i \notin asked' => mainJobs'[i] = 0 /\ settled'[i] = 0
        BY <3>0, <4>2
      <4>9. \A v \in Workers : \A i \in jobs'[v] : i \in asked' /\ mainJobs'[i] = 0 /\ settled'[i] = 0
        BY <3>0, <4>2, <4>5, <4>6, <4>7
      <4>10. \A u, v \in Workers : \A i \in Jobs : i \in jobs'[u] /\ i \in jobs'[v] => u = v
        BY <4>4, <4>5
      <4>11. \A i \in asked' : mainJobs'[i] = 0 /\ settled'[i] = 0 => \E v \in Workers : i \in jobs'[v]
        BY <3>0, <4>2, <4>5, <4>7
      <4>12. QED
        BY <3>0, <4>2, <4>8, <4>9, <4>10, <4>11
    <3>3. QED
      BY <2>1, <3>1, <3>2 DEF Ask
  <2>2. ASSUME NEW j \in Jobs, MainParses(j) PROVE PlaceInv'
    BY <2>2 DEF MainParses, Settle
  <2>3. ASSUME NEW w \in Workers, Message(w) PROVE PlaceInv'
    <3>0. UNCHANGED <<mainJobs, asked, closing>>
      BY <2>3 DEF Message
    <3>1. PICK j \in outbox[w] :
            /\ jobs' = [jobs EXCEPT ![w] = @ \ {j}]
            /\ IF j \in jobs[w] THEN Settle(j) ELSE UNCHANGED settled
      BY <2>3 DEF Message
    <3>2. j \in Jobs /\ jobs'[w] = jobs[w] \ {j} /\ \A v \in Workers \ {w} : jobs'[v] = jobs[v]
      BY <3>1
    <3>3. CASE j \in jobs[w]
      <4>1. \A i \in Jobs : settled'[i] = IF i = j THEN 1 ELSE settled[i]
        BY <3>1, <3>2, <3>3 DEF Settle
      <4>2. j \in asked /\ mainJobs[j] = 0 /\ ~closing /\ \A v \in Workers : j \in jobs[v] => v = w
        BY <3>2, <3>3
      <4>3. \A v \in Workers : jobs'[v] \subseteq jobs[v] /\ j \notin jobs'[v]
        BY <3>2, <4>2
      <4>4. \A i \in asked' : mainJobs'[i] = 0 /\ settled'[i] = 0 => \E v \in Workers : i \in jobs'[v]
        <5>1. SUFFICES ASSUME NEW i \in asked, i # j, mainJobs[i] = 0, settled[i] = 0
                       PROVE  \E v \in Workers : i \in jobs'[v]
          BY <3>0, <4>1, <4>2
        <5>2. PICK v \in Workers : i \in jobs[v]
          BY <5>1
        <5>3. i \in jobs'[v]
          BY <3>2, <5>1, <5>2
        <5>4. QED
          BY <5>3
      <4>5. \A i \in Jobs : i \notin asked' => mainJobs'[i] = 0 /\ settled'[i] = 0
        BY <3>0, <4>1, <4>2
      <4>6. \A i \in Jobs : mainJobs'[i] + settled'[i] <= 1
        BY <3>0, <4>1, <4>2
      <4>7. \A v \in Workers : \A i \in jobs'[v] : i \in asked' /\ mainJobs'[i] = 0 /\ settled'[i] = 0
        <5>1. SUFFICES ASSUME NEW v \in Workers, NEW i \in jobs'[v]
                       PROVE  i \in asked' /\ mainJobs'[i] = 0 /\ settled'[i] = 0
          OBVIOUS
        <5>2. i \in jobs[v] /\ i # j /\ i \in Jobs
          BY <4>3
        <5>3. QED
          BY <3>0, <4>1, <5>2
      <4>8. \A u, v \in Workers : \A i \in Jobs : i \in jobs'[u] /\ i \in jobs'[v] => u = v
        BY <4>3
      <4>9. QED
        BY <3>0, <4>2, <4>4, <4>5, <4>6, <4>7, <4>8
    <3>4. CASE j \notin jobs[w]
      BY <3>0, <3>1, <3>2, <3>4
    <3>5. QED
      BY <3>3, <3>4
  <2>4. ASSUME NEW w \in Workers, ErrorEvent(w) \/ ExitEvent(w) PROVE PlaceInv'
    <3>0. UNCHANGED <<asked, settled, closing>> /\ Fail(w)
      BY <2>4 DEF ErrorEvent, ExitEvent
    <3>1. CASE closing
      BY <3>0, <3>1 DEF Fail
    <3>2. CASE ~closing
      <4>1. \A j \in Jobs : mainJobs'[j] = IF j \in jobs[w] THEN mainJobs[j] + 1 ELSE mainJobs[j]
        BY <3>0, <3>2 DEF Fail
      <4>2. \A v \in Workers : jobs'[v] = IF v = w THEN {} ELSE jobs[v]
        BY <3>0, <3>2 DEF Fail
      <4>3. QED
        BY <3>0, <3>2, <4>1, <4>2
    <3>3. QED
      BY <3>1, <3>2
  <2>5. ASSUME NEW w \in Workers, WorkerParses(w) \/ WorkerDies(w) PROVE PlaceInv'
    BY <2>5 DEF WorkerParses, WorkerDies
  <2>6. CASE Close
    BY <2>6 DEF Close, Unsettled
  <2>7. CASE UNCHANGED poolVars
    BY <2>7 DEF poolVars
  <2>8. QED
    BY <2>1, <2>2, <2>3, <2>4, <2>5, <2>6, <2>7 DEF PoolNext
<1>3. QED
  BY <1>1, <1>2, PoolTypes, PTL DEF PoolSpec

\* A file is in the hands of exactly one worker or one main thread parse from
\* the moment it is asked for until it settles, whichever workers die.
THEOREM OnePlaceTheorem == PoolSpec => []ParsedInOnePlace
<1>1. PoolTypeOK /\ PlaceInv => ParsedInOnePlace
  <2> SUFFICES ASSUME PoolTypeOK, PlaceInv, NEW j \in Jobs
               PROVE  Cardinality(Holders(j)) + mainJobs[j] + settled[j] = (IF j \in asked THEN 1 ELSE 0)
    BY DEF ParsedInOnePlace
  <2> USE DEF PoolTypeOK, PlaceInv
  <2>1. CASE \E w \in Workers : j \in jobs[w]
    <3>1. PICK w \in Workers : j \in jobs[w]
      BY <2>1
    <3>2. Holders(j) = {w}
      BY <3>1 DEF Holders
    <3>3. Cardinality(Holders(j)) = 1
      BY <3>2, FS_Singleton
    <3>4. QED
      BY <3>1, <3>3
  <2>2. CASE ~\E w \in Workers : j \in jobs[w]
    <3>1. Holders(j) = {}
      BY <2>2 DEF Holders
    <3>2. Cardinality(Holders(j)) = 0
      BY <3>1, FS_EmptySet
    <3>3. mainJobs[j] \in Nat /\ settled[j] \in Nat
      OBVIOUS
    <3>4. CASE j \in asked
      <4>1. ~(mainJobs[j] = 0 /\ settled[j] = 0) /\ mainJobs[j] + settled[j] <= 1
        BY <2>2, <3>4
      <4> HIDE DEF PoolTypeOK, PlaceInv
      <4>2. QED
        BY <3>2, <3>3, <3>4, <4>1
    <3>5. CASE j \notin asked
      BY <3>2, <3>5
    <3>6. QED
      BY <3>4, <3>5
  <2>3. QED
    BY <2>1, <2>2
<1>2. QED
  BY <1>1, PlaceInvariant, PoolTypes, PTL

\* Why no file is stranded: a worker that is given a file has not been given up,
\* and one that was given up, or whose end has been seen, holds none.
ThreadInv ==
  /\ \A w \in Workers : thread[w] = "up" => w \notin failed
  /\ \A w \in pool : thread[w] = "gone" => w \in failed \/ closing
  /\ NoJobStranded

\* Every file a worker holds is on its way through it, or an event is still to
\* come that takes it away from the worker.
THEOREM NoJobStrandedTheorem == PoolSpec => []NoJobStranded
<1>1. PoolInit => ThreadInv
  BY DEF PoolInit, ThreadInv, NoJobStranded
<1>2. PoolTypeOK /\ PlaceInv /\ ThreadInv /\ [PoolNext]_poolVars => ThreadInv'
  <2> SUFFICES ASSUME PoolTypeOK, PlaceInv, ThreadInv, [PoolNext]_poolVars PROVE ThreadInv'
    OBVIOUS
  <2> USE DEF PoolTypeOK, ThreadInv, NoJobStranded, threads
  <2>0. closing => \A w \in Workers : jobs[w] = {}
    BY DEF PlaceInv
  <2>1. ASSUME NEW j \in Jobs, Ask(j) PROVE ThreadInv'
    <3>0. ~closing /\ UNCHANGED <<pool, failed, thread, outbox, closing>>
      BY <2>1 DEF Ask, PlaceInv
    <3>1. CASE AskMain(j)
      BY <3>0, <3>1 DEF AskMain
    <3>2. CASE AskWorker(j)
      <4>1. PICK w \in pool \ failed :
              /\ jobs' = [jobs EXCEPT ![w] = @ \cup {j}]
              /\ inbox' = IF thread[w] = "up" THEN [inbox EXCEPT ![w] = @ \cup {j}] ELSE inbox
        BY <3>2 DEF AskWorker, Live
      <4>2. w \in Workers /\ thread[w] # "gone"
        BY <3>0, <4>1
      <4>3. QED
        BY <3>0, <4>1, <4>2
    <3>3. QED
      BY <2>1, <3>1, <3>2 DEF Ask
  <2>2. ASSUME NEW j \in Jobs, MainParses(j) PROVE ThreadInv'
    BY <2>2 DEF MainParses
  <2>3. ASSUME NEW w \in Workers, Message(w) PROVE ThreadInv'
    BY <2>3 DEF Message
  <2>4. ASSUME NEW w \in Workers, ErrorEvent(w) PROVE ThreadInv'
    BY <2>0, <2>4 DEF ErrorEvent, Fail
  <2>5. ASSUME NEW w \in Workers, ExitEvent(w) PROVE ThreadInv'
    BY <2>0, <2>5 DEF ExitEvent, Fail
  <2>6. ASSUME NEW w \in Workers, WorkerParses(w) PROVE ThreadInv'
    BY <2>6 DEF WorkerParses
  <2>7. ASSUME NEW w \in Workers, WorkerDies(w) PROVE ThreadInv'
    BY <2>7 DEF WorkerDies
  <2>8. CASE Close
    <3>1. \A w \in Workers : jobs[w] = {}
      BY <2>8 DEF Close, Unsettled, PlaceInv
    <3>2. QED
      BY <2>8, <3>1 DEF Close
  <2>9. CASE UNCHANGED poolVars
    BY <2>9 DEF poolVars
  <2>10. QED
    BY <2>1, <2>2, <2>3, <2>4, <2>5, <2>6, <2>7, <2>8, <2>9 DEF PoolNext
<1>3. ThreadInv => NoJobStranded
  BY DEF ThreadInv
<1>4. QED
  BY <1>1, <1>2, <1>3, PoolTypes, PlaceInvariant, PTL DEF PoolSpec

-----------------------------------------------------------------------------
(* The parse cache.                                                          *)

USE DEF disk, local, vars

(* The types do not carry themselves: a lookup needs a hash for its file.    *)

TypeInv ==
  /\ CacheTypeOK
  /\ \A s \in Scans : step[s] \in {"lookup", "parse"} => todo[s] \subseteq Supported(s)

\* A scan's steps at the cache keep the types.
LEMMA ScanKeepsTypes ==
  ASSUME TypeInv, NEW s \in Scans, Start(s) \/ ScanStep(s)
  PROVE  TypeInv'
<1> USE CacheConstants
    DEF CacheConstants, TypeInv, CacheTypeOK, ScanSteps, Maybe, Supported, history
<1>1. CASE Start(s)
  BY <1>1 DEF Start
<1>2. CASE HashFile(s)
  BY <1>2 DEF HashFile
<1>3. CASE HashFails(s)
  BY <1>3 DEF HashFails
<1>4. CASE BeginLookup(s)
  BY <1>4 DEF BeginLookup
<1>5. CASE Lookup(s)
  <2>1. PICK f \in todo[s] :
          /\ todo' = [todo EXCEPT ![s] = @ \ {f}]
          /\ \/ result' = [result EXCEPT ![s][f] = cache[<<f, hash[s][f]>>]]
             \/ UNCHANGED result
    BY <1>5 DEF Lookup
  <2>2. f \in Files /\ hash[s][f] \in Contents
    BY <1>5, <2>1 DEF Lookup
  <2>3. cache[<<f, hash[s][f]>>] \in Maybe \ Broken
    BY <2>2 DEF Keys
  <2>4. result' \in [Scans -> [Files -> Maybe \ Broken]]
    <3> DEFINE hit == cache[<<f, hash[s][f]>>]
    <3>1. hit \in Maybe \ Broken
      BY <2>3
    <3>2. [result EXCEPT ![s][f] = hit] \in [Scans -> [Files -> Maybe \ Broken]]
      <4> HIDE DEF hit
      <4>1. QED
        BY <3>1
    <3>3. QED
      BY <2>1, <3>2
  <2>5. QED
    BY <1>5, <2>1, <2>4 DEF Lookup
<1>6. CASE BeginParse(s)
  BY <1>6 DEF BeginParse
<1>7. CASE Parse(s)
  BY <1>7 DEF Parse
<1>8. CASE ParseFails(s)
  BY <1>8 DEF ParseFails
<1>9. CASE Check(s)
  <2>1. PICK f \in todo[s] :
          /\ todo' = [todo EXCEPT ![s] = @ \ {f}]
          /\ parsed' = [parsed EXCEPT ![s][f] = Absent]
          /\ result' = [result EXCEPT ![s][f] = parsed[s][f]]
          /\ \/ cache' = [cache EXCEPT ![<<f, hash[s][f]>>] = parsed[s][f]]
             \/ cache' = cache
    BY <1>9 DEF Check
  <2>2. cache' \in [Keys -> Maybe \ Broken]
    <3>1. parsed[s][f] \in Maybe \ Broken
      BY <2>1
    <3> DEFINE key == <<f, hash[s][f]>>
    <3>2. cache \in [Keys -> Maybe \ Broken]
      OBVIOUS
    <3>3. [cache EXCEPT ![key] = parsed[s][f]] \in [Keys -> Maybe \ Broken]
      <4> HIDE DEF key
      <4>1. QED
        BY <3>1, <3>2
    <3>4. QED
      BY <2>1, <3>2, <3>3
  <2>3. QED
    BY <1>9, <2>1, <2>2 DEF Check
<1>10. CASE CheckFails(s)
  BY <1>10 DEF CheckFails
<1>11. CASE CheckUnsaved(s)
  <2>1. PICK f \in todo[s] :
          /\ todo' = [todo EXCEPT ![s] = @ \ {f}]
          /\ parsed' = [parsed EXCEPT ![s][f] = Absent]
          /\ result' \in {result, [result EXCEPT ![s][f] = parsed[s][f]]}
          /\ unsaved' = [unsaved EXCEPT ![s] = @ \cup {f}]
    BY <1>11 DEF CheckUnsaved
  <2>2. result' \in [Scans -> [Files -> Maybe \ Broken]]
    <3>1. parsed[s][f] \in Maybe \ Broken
      OBVIOUS
    <3>2. [result EXCEPT ![s][f] = parsed[s][f]] \in [Scans -> [Files -> Maybe \ Broken]]
      BY <3>1
    <3>3. QED
      BY <2>1, <3>2
  <2>3. unsaved' \in [Scans -> SUBSET Files]
    BY <2>1
  <2>4. QED
    BY <1>11, <2>1, <2>2, <2>3 DEF CheckUnsaved
<1>12. CASE PruneFails(s)
  BY <1>12 DEF PruneFails
<1>13. CASE Finish(s)
  <2>1. stale' \in [Scans -> SUBSET Keys]
    <3>1. PICK due \in SUBSET Keys : stale' = [stale EXCEPT ![s] = due]
      BY <1>13 DEF Finish, Entries
    <3>2. QED
      BY <3>1
  <2>2. QED
    BY <1>13, <2>1 DEF Finish
<1>14. CASE FailFast(s)
  BY <1>14 DEF FailFast
<1>15. CASE PruneEntry(s)
  <2>1. PICK k \in stale[s] : /\ stale' = [stale EXCEPT ![s] = @ \ {k}]
                              /\ cache' = [cache EXCEPT ![k] = Absent]
    BY <1>15 DEF PruneEntry
  <2>2. cache' \in [Keys -> Maybe \ Broken]
    BY <2>1
  <2>3. QED
    BY <1>15, <2>1, <2>2 DEF PruneEntry
<1>16. CASE EndPrune(s)
  BY <1>16 DEF EndPrune
<1>17. QED
  BY <1>1, <1>2, <1>3, <1>4, <1>5, <1>6, <1>7, <1>8, <1>9, <1>10, <1>11, <1>12, <1>13,
     <1>14, <1>15, <1>16
     DEF ScanStep

\* So the types hold in every state.
LEMMA TypeInvariant == CacheSpec => []TypeInv
<1>1. CacheInit => TypeInv
  BY CacheConstants
     DEF CacheConstants, CacheInit, Nothing, TypeInv, CacheTypeOK, ScanSteps, Maybe
<1>2. TypeInv /\ [CacheNext]_vars => TypeInv'
  <2> SUFFICES ASSUME TypeInv, [CacheNext]_vars PROVE TypeInv'
    OBVIOUS
  <2>1. ASSUME NEW s \in Scans, Start(s) \/ ScanStep(s) PROVE TypeInv'
    BY <2>1, ScanKeepsTypes
  <2>2. ASSUME NEW f \in Files, Edit(f) PROVE TypeInv'
    BY <2>2, CacheConstants
       DEF CacheConstants, Edit, TypeInv, CacheTypeOK, ScanSteps, Maybe, Supported
  <2>3. CASE UNCHANGED vars
    BY <2>3 DEF TypeInv, CacheTypeOK, Supported, vars, history
  <2>4. QED
    BY <2>1, <2>2, <2>3 DEF CacheNext
<1>3. QED
  BY <1>1, <1>2, PTL DEF CacheSpec

\* Types hold whatever is edited; in particular a content that does not parse
\* is never cached and never part of a graph.
THEOREM CacheTypeTheorem == CacheSpec => []CacheTypeOK
<1>1. TypeInv => CacheTypeOK
  BY DEF TypeInv
<1>2. QED
  BY <1>1, TypeInvariant, PTL

-----------------------------------------------------------------------------
(* Why the cache is honest when no edit is undone between a parse and its     *)
(* check: a content that then equals the manifest's hash was parsed as such.  *)

HonestInv ==
  /\ CacheIsHonest
  /\ \A s \in Scans : \A f \in Files :
       /\ step[s] \in {"idle", "manifest", "lookup"} => parsed[s][f] = Absent
       /\ parsed[s][f] # Absent /\ hash[s][f] # Absent /\ content[f] = hash[s][f]
            => parsed[s][f] = hash[s][f]

\* A scan's steps keep the cache honest.
LEMMA ScanKeepsHonest ==
  ASSUME TypeInv, HonestInv, NEW s \in Scans, Start(s) \/ ScanStep(s)
  PROVE  HonestInv'
<1> USE DEF TypeInv, CacheTypeOK, HonestInv, ScanSteps, history
<1>1. CASE Start(s)
  BY <1>1 DEF Start, CacheIsHonest
<1>2. CASE HashFile(s)
  BY <1>2 DEF HashFile, CacheIsHonest
<1>3. CASE HashFails(s) \/ BeginLookup(s) \/ Lookup(s) \/ BeginParse(s) \/ ParseFails(s) \/ FailFast(s)
  BY <1>3 DEF HashFails, BeginLookup, Lookup, BeginParse, ParseFails, FailFast, CacheIsHonest
<1>4. CASE CheckUnsaved(s)
  <2>1. PICK f \in todo[s] : parsed' = [parsed EXCEPT ![s][f] = Absent]
    BY <1>4 DEF CheckUnsaved
  <2>2. UNCHANGED <<content, cache, step, hash>> /\ step[s] = "parse"
    BY <1>4 DEF CheckUnsaved
  <2>3. QED
    BY <2>1, <2>2 DEF CacheIsHonest
<1>5. CASE PruneFails(s)
  BY <1>5 DEF PruneFails, CacheIsHonest
<1>6. CASE Parse(s)
  BY <1>6 DEF Parse, CacheIsHonest
<1>7. CASE Check(s)
  <2>1. PICK f \in todo[s] :
          /\ parsed[s][f] # Absent /\ content[f] # Absent
          /\ parsed' = [parsed EXCEPT ![s][f] = Absent]
          /\ cache' = IF content[f] = hash[s][f]
                      THEN [cache EXCEPT ![<<f, hash[s][f]>>] = parsed[s][f]]
                      ELSE cache
    BY <1>7 DEF Check
  <2>2. CacheIsHonest'
    <3>1. CASE content[f] = hash[s][f]
      <4>1. parsed[s][f] = hash[s][f]
        BY <2>1, <3>1
      <4>2. cache' = [cache EXCEPT ![<<f, hash[s][f]>>] = hash[s][f]]
        BY <2>1, <3>1, <4>1
      <4>3. QED
        BY <4>2 DEF CacheIsHonest
    <3>2. CASE content[f] # hash[s][f]
      BY <2>1, <3>2 DEF CacheIsHonest
    <3>3. QED
      BY <3>1, <3>2
  <2>3. QED
    BY <1>7, <2>1, <2>2 DEF Check
<1>8. CASE CheckFails(s)
  BY <1>8 DEF CheckFails, CacheIsHonest
<1>9. CASE Finish(s) \/ EndPrune(s)
  BY <1>9 DEF Finish, EndPrune, CacheIsHonest
<1>10. CASE PruneEntry(s)
  <2>1. \A k \in Keys : cache'[k] \in {cache[k], Absent}
    BY <1>10 DEF PruneEntry
  <2>2. CacheIsHonest'
    BY <2>1 DEF CacheIsHonest
  <2>3. QED
    BY <1>10, <2>2 DEF PruneEntry
<1>11. QED
  BY <1>1, <1>2, <1>3, <1>4, <1>5, <1>6, <1>7, <1>8, <1>9, <1>10 DEF ScanStep

\* The cache is honest in every state, while no edit is undone under a parse.
LEMMA HonestInvariant ==
  ASSUME ~Reverts
  PROVE  CacheSpec => []HonestInv
<1>1. CacheInit => HonestInv
  BY CacheConstants DEF CacheConstants, CacheInit, HonestInv, CacheIsHonest, Nothing
<1>2. TypeInv /\ HonestInv /\ [CacheNext]_vars => HonestInv'
  <2> SUFFICES ASSUME TypeInv, HonestInv, [CacheNext]_vars PROVE HonestInv'
    OBVIOUS
  <2>1. ASSUME NEW s \in Scans, Start(s) \/ ScanStep(s) PROVE HonestInv'
    BY <2>1, ScanKeepsHonest
  <2>2. ASSUME NEW f \in Files, Edit(f) PROVE HonestInv'
    BY <2>2 DEF Edit, Undoes, HonestInv, CacheIsHonest, TypeInv, CacheTypeOK, Maybe
  <2>3. CASE UNCHANGED vars
    BY <2>3 DEF HonestInv, CacheIsHonest
  <2>4. QED
    BY <2>1, <2>2, <2>3 DEF CacheNext
<1>3. QED
  BY <1>1, <1>2, TypeInvariant, PTL DEF CacheSpec

\* Where no edit is undone between a parse and its check, every entry of the cache
\* holds what parsing the content it is keyed by gives (parse-cache.ts).
THEOREM HonestTheorem == ASSUME ~Reverts PROVE CacheSpec => []CacheIsHonest
<1>1. HonestInv => CacheIsHonest
  BY DEF HonestInv
<1>2. QED
  BY <1>1, HonestInvariant, PTL

-----------------------------------------------------------------------------
(* Whatever a scan hashed, parsed or found in the cache is from its own time:  *)
(* a hit is the content of this scan's manifest, because the cache is honest.  *)

ThisScanInv ==
  /\ ResultsAreOfThisScan
  /\ \A s \in Scans : \A f \in Files :
       /\ step[s] = "idle" => hash[s][f] = Absent /\ parsed[s][f] = Absent /\ result[s][f] = Absent
       /\ Running(s) => content[f] \in during[s][f] \cup {Absent}
       /\ hash[s][f] \in during[s][f] \cup {Absent}
       /\ parsed[s][f] \in during[s][f] \cup {Absent}

\* A scan's steps keep its results from its own time.
LEMMA ScanKeepsThisScan ==
  ASSUME TypeInv, CacheIsHonest, ThisScanInv, NEW s \in Scans, Start(s) \/ ScanStep(s)
  PROVE  ThisScanInv'
<1> USE DEF TypeInv, CacheTypeOK, ThisScanInv, ResultsAreOfThisScan, ScanSteps, Running, history
<1>1. CASE Start(s)
  BY <1>1 DEF Start, Maybe
<1>2. CASE HashFile(s)
  BY <1>2 DEF HashFile
<1>3. CASE HashFails(s) \/ FailFast(s)
  BY <1>3 DEF HashFails, FailFast
<1>4. CASE BeginLookup(s)
  BY <1>4 DEF BeginLookup
<1>5. CASE BeginParse(s)
  BY <1>5 DEF BeginParse
<1>6. CASE ParseFails(s)
  BY <1>6 DEF ParseFails
<1>7. CASE Lookup(s)
  <2>1. PICK f \in todo[s] : \/ result' = [result EXCEPT ![s][f] = cache[<<f, hash[s][f]>>]]
                             \/ UNCHANGED result
    BY <1>7 DEF Lookup
  <2>2. f \in Files /\ hash[s][f] \in Contents
    BY <1>7, <2>1 DEF Lookup, Supported, Maybe
  <2>3. cache[<<f, hash[s][f]>>] \in {Absent, hash[s][f]}
    BY <2>2 DEF CacheIsHonest, Keys
  <2>4. cache[<<f, hash[s][f]>>] \in during[s][f] \cup {Absent}
    BY <2>2, <2>3
  <2>5. ResultsAreOfThisScan'
    <3>1. UNCHANGED during
      BY <1>7 DEF Lookup
    <3>2. CASE UNCHANGED result
      BY <3>1, <3>2
    <3>3. CASE result' = [result EXCEPT ![s][f] = cache[<<f, hash[s][f]>>]]
      BY <2>2, <2>4, <3>1, <3>3
    <3>4. QED
      BY <2>1, <3>2, <3>3
  <2>6. /\ step[s] = "lookup" /\ UNCHANGED <<step, hash, parsed, content, during>>
        /\ \A t \in Scans \ {s} : result'[t] = result[t]
    BY <1>7, <2>1 DEF Lookup
  <2>7. \A t \in Scans, g \in Files : step[t] = "idle" => result'[t][g] = result[t][g]
    BY <2>6
  <2>8. QED
    BY <2>5, <2>6, <2>7
<1>8. CASE Parse(s)
  BY <1>8 DEF Parse
<1>9. CASE Check(s)
  BY <1>9 DEF Check
<1>10. CASE CheckFails(s)
  BY <1>10 DEF CheckFails
<1>11. CASE Finish(s)
  <2>1. step' = [step EXCEPT ![s] = "prune"] /\ step[s] = "parse"
    BY <1>11 DEF Finish
  <2>2. UNCHANGED <<content, hash, parsed, result, during>>
    BY <1>11 DEF Finish
  <2>3. QED
    BY <2>1, <2>2
<1>12. CASE PruneEntry(s)
  BY <1>12 DEF PruneEntry
<1>13. CASE PruneFails(s)
  BY <1>13 DEF PruneFails
<1>14. CASE EndPrune(s)
  BY <1>14 DEF EndPrune
<1>15. CASE CheckUnsaved(s)
  <2>1. PICK f \in todo[s] :
          /\ parsed' = [parsed EXCEPT ![s][f] = Absent]
          /\ result' \in {result, [result EXCEPT ![s][f] = parsed[s][f]]}
    BY <1>15 DEF CheckUnsaved
  <2>2. UNCHANGED <<content, hash, step, during>> /\ step[s] = "parse"
    BY <1>15 DEF CheckUnsaved
  <2>3. QED
    BY <2>1, <2>2
<1>16. QED
  BY <1>1, <1>2, <1>3, <1>4, <1>5, <1>6, <1>7, <1>8, <1>9, <1>10, <1>11, <1>12, <1>13, <1>14, <1>15
     DEF ScanStep

\* A scan's hash, parses and results are from its own time in every state, while
\* no edit is undone under a parse.
LEMMA ThisScanInvariant ==
  ASSUME ~Reverts
  PROVE  CacheSpec => []ThisScanInv
<1>1. CacheInit => ThisScanInv
  BY DEF CacheInit, ThisScanInv, ResultsAreOfThisScan, Nothing, Running
<1>2. TypeInv /\ HonestInv /\ ThisScanInv /\ [CacheNext]_vars => ThisScanInv'
  <2> SUFFICES ASSUME TypeInv, HonestInv, ThisScanInv, [CacheNext]_vars PROVE ThisScanInv'
    OBVIOUS
  <2>1. ASSUME NEW s \in Scans, Start(s) \/ ScanStep(s) PROVE ThisScanInv'
    BY <2>1, ScanKeepsThisScan DEF HonestInv
  <2>2. ASSUME NEW f \in Files, Edit(f) PROVE ThisScanInv'
    <3>1. PICK c \in Maybe \ {content[f]} :
            /\ content' = [content EXCEPT ![f] = c]
            /\ during' = [s \in Scans |->
                 IF Running(s) THEN [during[s] EXCEPT ![f] = @ \cup ({c} \ {Absent})] ELSE during[s]]
      BY <2>2 DEF Edit
    <3>2. \A s \in Scans, g \in Files : during[s][g] \subseteq during'[s][g]
      BY <3>1 DEF TypeInv, CacheTypeOK
    <3>3. \A s \in Scans : Running(s) => c \in during'[s][f] \cup {Absent}
      BY <3>1 DEF TypeInv, CacheTypeOK
    <3>4. \A g \in Files \ {f} : content'[g] = content[g]
      BY <3>1
    <3>5. content'[f] = c
      BY <3>1 DEF TypeInv, CacheTypeOK
    <3>6. UNCHANGED <<step, hash, parsed, result>> /\ \A s \in Scans : Running(s)' <=> Running(s)
      BY <2>2 DEF Edit, local, Running
    <3>7. QED
      BY <3>2, <3>3, <3>4, <3>5, <3>6 DEF ThisScanInv, ResultsAreOfThisScan
  <2>3. CASE UNCHANGED vars
    BY <2>3 DEF ThisScanInv, ResultsAreOfThisScan, Running, vars, disk, local, history
  <2>4. QED
    BY <2>1, <2>2, <2>3 DEF CacheNext
<1>3. QED
  BY <1>1, <1>2, TypeInvariant, HonestInvariant, PTL DEF CacheSpec

\* Where no edit is undone between a parse and its check, nothing in a scan's graph
\* was parsed from a content its file did not have during that scan, whichever
\* scans share the cache (orchestrator.ts, passes 1 and 2).
THEOREM ThisScanTheorem == ASSUME ~Reverts PROVE CacheSpec => []ResultsAreOfThisScan
<1>1. ThisScanInv => ResultsAreOfThisScan
  BY DEF ThisScanInv
<1>2. QED
  BY <1>1, ThisScanInvariant, PTL

-----------------------------------------------------------------------------
(* Why the cache is warm: while no other scan has run, the result of a file    *)
(* nobody edited came with its entry, unless writing that failed, and pruning  *)
(* keeps those.                                                                *)

Alone(s) == \A t \in Scans \ {s} : step[t] = "idle"

WarmInv ==
  \A s \in Scans :
    /\ step[s] = "prune" => stale[s] \cap Used(s) = {}
    /\ \A f \in Files :
         /\ step[s] \in {"idle", "manifest"} => result[s][f] = Absent
         /\ result[s][f] # Absent => hash[s][f] # Absent
         /\ Alone(s) /\ result[s][f] # Absent /\ during[s][f] = {hash[s][f]}
              => f \in unsaved[s] \/ cache[<<f, hash[s][f]>>] = hash[s][f]

\* A scan's steps keep the entries that its results came with.
LEMMA ScanKeepsWarm ==
  ASSUME TypeInv, HonestInv, ThisScanInv, WarmInv, NEW s \in Scans, Start(s) \/ ScanStep(s)
  PROVE  WarmInv'
<1> USE DEF TypeInv, CacheTypeOK, WarmInv, ScanSteps
<1> DEFINE Cached(f) == f \in unsaved[s] \/ cache[<<f, hash[s][f]>>] = hash[s][f]
           Own == /\ step[s] = "prune" => stale[s] \cap Used(s) = {}
                  /\ \A f \in Files :
                       /\ step[s] \in {"idle", "manifest"} => result[s][f] = Absent
                       /\ result[s][f] # Absent => hash[s][f] # Absent
                       /\ Alone(s) /\ result[s][f] # Absent /\ during[s][f] = {hash[s][f]}
                            => Cached(f)
<1>1. /\ step'[s] # "idle"
      /\ \A t \in Scans \ {s} : /\ step'[t] = step[t] /\ stale'[t] = stale[t]
                                /\ hash'[t] = hash[t] /\ result'[t] = result[t]
  <2>1. CASE Start(s) \/ HashFile(s) \/ HashFails(s) \/ BeginLookup(s)
    BY <2>1 DEF Start, HashFile, HashFails, BeginLookup
  <2>2. CASE Lookup(s) \/ BeginParse(s) \/ Parse(s) \/ ParseFails(s)
    BY <2>2 DEF Lookup, BeginParse, Parse, ParseFails
  <2>3. CASE Check(s) \/ CheckUnsaved(s) \/ CheckFails(s) \/ Finish(s)
    BY <2>3 DEF Check, CheckUnsaved, CheckFails, Finish
  <2>4. CASE PruneEntry(s) \/ PruneFails(s) \/ EndPrune(s) \/ FailFast(s)
    BY <2>4 DEF PruneEntry, PruneFails, EndPrune, FailFast
  <2>5. QED
    BY <2>1, <2>2, <2>3, <2>4 DEF ScanStep
<1>2. Alone(s)' <=> Alone(s)
  BY <1>1 DEF Alone
<1>3. Own
  BY DEF WarmInv
<1>4. Own'
  <2>1. CASE Start(s) \/ HashFile(s) \/ HashFails(s) \/ BeginLookup(s)
    BY <1>3, <2>1 DEF Start, HashFile, HashFails, BeginLookup
  <2>2. CASE Lookup(s)
    <3>0. UNCHANGED <<cache, step, hash, stale, during, unsaved>> /\ step[s] = "lookup"
      BY <2>2 DEF Lookup, history
    <3> SUFFICES ASSUME ~UNCHANGED result PROVE Own'
      BY <1>2, <1>3, <3>0 DEF Used
    <3>1. PICK f \in todo[s] : result' = [result EXCEPT ![s][f] = cache[<<f, hash[s][f]>>]]
      BY <2>2 DEF Lookup
    <3>2. f \in Files /\ hash[s][f] \in Contents
      BY <2>2, <3>1 DEF Lookup, Supported, Maybe
    <3>3. cache[<<f, hash[s][f]>>] \in {Absent, hash[s][f]}
      BY <3>2 DEF HonestInv, CacheIsHonest, Keys
    <3>4. /\ result'[s][f] = cache[<<f, hash[s][f]>>]
          /\ \A g \in Files \ {f} : result'[s][g] = result[s][g]
      BY <3>1, <3>2
    <3>5. hash[s][f] # Absent
      BY <3>2, CacheConstants DEF CacheConstants
    <3>6. QED
      BY <1>2, <1>3, <3>0, <3>3, <3>4, <3>5
  <2>3. CASE BeginParse(s) \/ Parse(s) \/ ParseFails(s) \/ CheckFails(s) \/ FailFast(s) \/ PruneFails(s)
    BY <1>2, <1>3, <2>3 DEF BeginParse, Parse, ParseFails, CheckFails, FailFast, PruneFails, history
  <2>4. CASE Check(s)
    <3>1. PICK f \in todo[s] :
            /\ parsed[s][f] # Absent /\ content[f] # Absent
            /\ result' = [result EXCEPT ![s][f] = parsed[s][f]]
            /\ cache' = IF content[f] = hash[s][f]
                        THEN [cache EXCEPT ![<<f, hash[s][f]>>] = parsed[s][f]]
                        ELSE cache
      BY <2>4 DEF Check
    <3>2. f \in Files /\ hash[s][f] \in Contents /\ hash[s][f] # Absent
      BY <2>4, <3>1 DEF Check, Supported, Maybe
    <3>3. \A g \in Files \ {f} : result'[s][g] = result[s][g]
      BY <3>1
    <3>4. during[s][f] = {hash[s][f]} => cache'[<<f, hash[s][f]>>] = hash[s][f]
      <4> SUFFICES ASSUME during[s][f] = {hash[s][f]} PROVE cache'[<<f, hash[s][f]>>] = hash[s][f]
        OBVIOUS
      <4>1. content[f] = hash[s][f] /\ parsed[s][f] = hash[s][f]
        BY <2>4, <3>1, <3>2 DEF Check, ThisScanInv, Running
      <4>2. <<f, hash[s][f]>> \in Keys
        BY <3>2 DEF Keys
      <4>3. QED
        BY <3>1, <4>1, <4>2
    <3>5. \A g \in Files \ {f} : cache'[<<g, hash[s][g]>>] = cache[<<g, hash[s][g]>>]
      <4> SUFFICES ASSUME NEW g \in Files \ {f}
                   PROVE  cache'[<<g, hash[s][g]>>] = cache[<<g, hash[s][g]>>]
        OBVIOUS
      <4>1. CASE hash[s][g] = Absent
        BY <3>1
      <4>2. QED
        BY <3>1
    <3>6. UNCHANGED <<step, hash, stale, during, unsaved>> /\ step[s] = "parse"
      BY <2>4 DEF Check, history
    <3>7. QED
      BY <1>2, <1>3, <3>2, <3>3, <3>4, <3>5, <3>6
  <2>5. CASE CheckUnsaved(s)
    <3>1. PICK f \in todo[s] :
            /\ result' \in {result, [result EXCEPT ![s][f] = parsed[s][f]]}
            /\ unsaved' = [unsaved EXCEPT ![s] = @ \cup {f}]
      BY <2>5 DEF CheckUnsaved
    <3>2. f \in Files /\ hash[s][f] # Absent
      BY <2>5, <3>1 DEF CheckUnsaved, Supported
    <3>3. /\ \A g \in Files \ {f} : result'[s][g] = result[s][g]
          /\ unsaved'[s] = unsaved[s] \cup {f}
      BY <3>1
    <3>4. UNCHANGED <<step, cache, hash, stale, during>> /\ step[s] = "parse"
      BY <2>5 DEF CheckUnsaved
    <3>5. QED
      BY <1>2, <1>3, <3>2, <3>3, <3>4
  <2>6. CASE Finish(s)
    <3>1. stale'[s] \cap Used(s) = {} /\ UNCHANGED <<hash, cache, result, during, unsaved>>
      BY <2>6 DEF Finish, history
    <3>2. step[s] = "parse" /\ step'[s] = "prune"
      BY <2>6 DEF Finish
    <3>3. QED
      BY <1>2, <1>3, <3>1, <3>2 DEF Used
  <2>7. CASE PruneEntry(s)
    <3>1. PICK k \in stale[s] : /\ stale' = [stale EXCEPT ![s] = @ \ {k}]
                                /\ cache' = [cache EXCEPT ![k] = Absent]
      BY <2>7 DEF PruneEntry
    <3>2. k \in Keys /\ k \notin Used(s)
      BY <1>3, <2>7, <3>1 DEF PruneEntry
    <3>3. \A f \in Files : k # <<f, hash[s][f]>>
      BY <3>2 DEF Used
    <3>4. \A f \in Files : cache'[<<f, hash[s][f]>>] = cache[<<f, hash[s][f]>>]
      BY <3>1, <3>3
    <3>5. /\ UNCHANGED <<step, hash, result, during, unsaved>>
          /\ step[s] = "prune" /\ stale'[s] \subseteq stale[s]
      BY <2>7, <3>1 DEF PruneEntry, history
    <3>6. QED
      BY <1>2, <1>3, <3>4, <3>5 DEF Used
  <2>8. CASE EndPrune(s)
    BY <1>2, <1>3, <2>8 DEF EndPrune, history
  <2>9. QED
    BY <2>1, <2>2, <2>3, <2>4, <2>5, <2>6, <2>7, <2>8 DEF ScanStep
<1>5. \A t \in Scans \ {s} : ~Alone(t)'
  BY <1>1 DEF Alone
<1>6. \A t \in Scans \ {s} :
        /\ step'[t] = "prune" => stale'[t] \cap Used(t)' = {}
        /\ \A f \in Files :
             /\ step'[t] \in {"idle", "manifest"} => result'[t][f] = Absent
             /\ result'[t][f] # Absent => hash'[t][f] # Absent
  <2> TAKE t \in Scans \ {s}
  <2>1. Used(t)' = Used(t)
    BY <1>1 DEF Used
  <2>2. /\ step[t] = "prune" => stale[t] \cap Used(t) = {}
        /\ \A f \in Files : /\ step[t] \in {"idle", "manifest"} => result[t][f] = Absent
                            /\ result[t][f] # Absent => hash[t][f] # Absent
    OBVIOUS
  <2>3. QED
    BY <1>1, <2>1, <2>2
<1>7. QED
  <2> SUFFICES ASSUME NEW t \in Scans
               PROVE  (/\ step[t] = "prune" => stale[t] \cap Used(t) = {}
                       /\ \A f \in Files :
                            /\ step[t] \in {"idle", "manifest"} => result[t][f] = Absent
                            /\ result[t][f] # Absent => hash[t][f] # Absent
                            /\ Alone(t) /\ result[t][f] # Absent /\ during[t][f] = {hash[t][f]}
                                 => f \in unsaved[t] \/ cache[<<f, hash[t][f]>>] = hash[t][f])'
    OBVIOUS
  <2>1. CASE t = s
    BY <1>4, <2>1
  <2>2. CASE t # s
    BY <1>5, <1>6, <2>2
  <2>3. QED
    BY <2>1, <2>2

\* Where no edit is undone between a parse and its check, the first scan leaves
\* the cache warm for the next: every file that parsed and was not edited while the
\* scan ran has its entry, unless writing that failed (orchestrator.ts, pass 2;
\* parse-cache.ts, write and prune).
THEOREM WarmTheorem == ASSUME ~Reverts PROVE CacheSpec => []WarmAfterScan
<1>1. CacheInit => WarmInv
  BY DEF CacheInit, WarmInv, Nothing
<1>2. TypeInv /\ HonestInv /\ ThisScanInv /\ WarmInv /\ [CacheNext]_vars => WarmInv'
  <2> SUFFICES ASSUME TypeInv, HonestInv, ThisScanInv, WarmInv, [CacheNext]_vars PROVE WarmInv'
    OBVIOUS
  <2>1. ASSUME NEW s \in Scans, Start(s) \/ ScanStep(s) PROVE WarmInv'
    BY <2>1, ScanKeepsWarm
  <2>2. ASSUME NEW f \in Files, Edit(f) PROVE WarmInv'
    <3>1. UNCHANGED <<cache, local, unsaved>>
      BY <2>2 DEF Edit
    <3>2. \A s \in Scans, g \in Files : during[s][g] \subseteq during'[s][g]
      BY <2>2 DEF Edit, TypeInv, CacheTypeOK
    <3>3. \A s \in Scans, g \in Files :
            result[s][g] # Absent /\ during'[s][g] = {hash[s][g]} => during[s][g] = {hash[s][g]}
      BY <3>2 DEF ThisScanInv, ResultsAreOfThisScan
    <3>4. QED
      BY <3>1, <3>3 DEF WarmInv, Alone, Used, local
  <2>3. CASE UNCHANGED vars
    BY <2>3 DEF WarmInv, Alone, Used, vars, local, history
  <2>4. QED
    BY <2>1, <2>2, <2>3 DEF CacheNext
<1>3. WarmInv => WarmAfterScan
  BY DEF WarmInv, WarmAfterScan, Alone
<1>4. QED
  BY <1>1, <1>2, <1>3, TypeInvariant, HonestInvariant, ThisScanInvariant, PTL DEF CacheSpec
=============================================================================
