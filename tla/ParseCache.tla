----------------------------- MODULE ParseCache -----------------------------
(***************************************************************************)
(* Scans that share a parse cache while files are edited                   *)
(* (core/scan/orchestrator.ts, parse-cache.ts, manifest.ts,                *)
(* parse-results.ts).                                                      *)
(*                                                                         *)
(* A scan reads a file up to three times: for the manifest, to parse it,   *)
(* and to check that it still is what the manifest hashed.  The user edits *)
(* between any two reads, and another scan may use the same cache.  A hash *)
(* stands for the content it is computed from, a parse result for the      *)
(* content that was parsed; all scans run the same code, so the parser     *)
(* fingerprint is the same in every key.                                   *)
(***************************************************************************)
EXTENDS Naturals, FiniteSets

CONSTANTS
  Scans,        \* scans, of one process after another or of several
  Files,        \* the supported source files
  Contents,     \* what a file can contain
  Broken,       \* the contents whose parse throws
  Absent,       \* a file that was deleted; no content
  Reverts,      \* an edit may be undone between the parse of a file and its check
  CacheErrors,  \* reading, writing and deleting entries may fail
  MaxEdits,     \* bound: edits
  ContinueOnError \* the scans run with --continue-on-error

ASSUME CacheConstants ==
  /\ Absent \notin Contents
  /\ Broken \subseteq Contents
  /\ MaxEdits \in Nat
  /\ CacheErrors \in BOOLEAN
  /\ ContinueOnError \subseteq Scans

VARIABLES
  content,      \* what each file contains now
  edits,        \* how many edits were made
  cache,        \* the entries: per file and content hash, what was parsed
  step,         \* where each scan is
  todo,         \* files its current pass has not finished
  hash,         \* its manifest
  parsed,       \* per file, the content its parse read and the cache check will see
  result,       \* per file, the content its part of the graph was parsed from
  stale,        \* entries its prune will delete
  during,       \* history: what each file contained while the scan ran
  unsaved       \* history: files whose result the scan failed to write to the cache

disk == <<content, edits>>
local == <<step, todo, hash, parsed, result, stale>>
history == <<during, unsaved>>
vars == <<disk, cache, local, history>>

Maybe == Contents \cup {Absent}
Keys == Files \X Contents

ScanSteps == {"idle", "manifest", "lookup", "parse", "prune", "done", "failed"}

CacheTypeOK ==
  /\ content \in [Files -> Maybe]
  /\ edits \in 0..MaxEdits
  /\ cache \in [Keys -> Maybe \ Broken]
  /\ step \in [Scans -> ScanSteps]
  /\ todo \in [Scans -> SUBSET Files]
  /\ hash \in [Scans -> [Files -> Maybe]]
  /\ parsed \in [Scans -> [Files -> Maybe \ Broken]]
  /\ result \in [Scans -> [Files -> Maybe \ Broken]]
  /\ stale \in [Scans -> SUBSET Keys]
  /\ during \in [Scans -> [Files -> SUBSET Contents]]
  /\ unsaved \in [Scans -> SUBSET Files]

Nothing == [f \in Files |-> Absent]

CacheInit ==
  /\ content \in [Files -> Contents]
  /\ edits = 0
  /\ cache = [k \in Keys |-> Absent]
  /\ step = [s \in Scans |-> "idle"]
  /\ todo = [s \in Scans |-> {}]
  /\ hash = [s \in Scans |-> Nothing]
  /\ parsed = [s \in Scans |-> Nothing]
  /\ result = [s \in Scans |-> Nothing]
  /\ stale = [s \in Scans |-> {}]
  /\ during = [s \in Scans |-> [f \in Files |-> {}]]
  /\ unsaved = [s \in Scans |-> {}]

-----------------------------------------------------------------------------

\* buildCodeGraph: discoverFiles found the files that exist.
Start(s) ==
  /\ step[s] = "idle"
  /\ step' = [step EXCEPT ![s] = "manifest"]
  /\ todo' = [todo EXCEPT ![s] = {f \in Files : content[f] # Absent}]
  /\ during' = [during EXCEPT ![s] = [f \in Files |-> {content[f]} \ {Absent}]]
  /\ UNCHANGED <<disk, cache, hash, parsed, result, stale, unsaved>>

\* createScanManifestFile: the file is read and hashed.
HashFile(s) ==
  /\ step[s] = "manifest"
  /\ \E f \in todo[s] :
       /\ content[f] # Absent
       /\ hash' = [hash EXCEPT ![s][f] = content[f]]
       /\ todo' = [todo EXCEPT ![s] = @ \ {f}]
  /\ UNCHANGED <<disk, cache, step, parsed, result, stale, history>>

\* A file that is gone by then rejects the Promise.all and the whole scan.
HashFails(s) ==
  /\ step[s] = "manifest"
  /\ \E f \in todo[s] : content[f] = Absent
  /\ step' = [step EXCEPT ![s] = "failed"]
  /\ UNCHANGED <<disk, cache, todo, hash, parsed, result, stale, history>>

Supported(s) == {f \in Files : hash[s][f] # Absent}

BeginLookup(s) ==
  /\ step[s] = "manifest"
  /\ todo[s] = {}
  /\ step' = [step EXCEPT ![s] = "lookup"]
  /\ todo' = [todo EXCEPT ![s] = Supported(s)]
  /\ UNCHANGED <<disk, cache, hash, parsed, result, stale, history>>

\* Mutant of Lookup: entries are found by path, whatever the content hash.
LookupByPath(s) ==
  /\ step[s] = "lookup"
  /\ \E f \in todo[s] : \E c \in Contents :
       /\ todo' = [todo EXCEPT ![s] = @ \ {f}]
       /\ result' = [result EXCEPT ![s][f] = cache[<<f, c>>]]
  /\ UNCHANGED <<disk, cache, step, hash, parsed, stale, history>>

\* Pass 1: a hit is the result; a miss, also of an entry that cannot be read, is
\* left for pass 2.
Lookup(s) ==
  /\ step[s] = "lookup"
  /\ \E f \in todo[s] :
       /\ todo' = [todo EXCEPT ![s] = @ \ {f}]
       /\ \/ result' = [result EXCEPT ![s][f] = cache[<<f, hash[s][f]>>]]
          \/ CacheErrors /\ UNCHANGED result
  /\ UNCHANGED <<disk, cache, step, hash, parsed, stale, history>>

BeginParse(s) ==
  /\ step[s] = "lookup"
  /\ todo[s] = {}
  /\ step' = [step EXCEPT ![s] = "parse"]
  /\ todo' = [todo EXCEPT ![s] = {f \in Supported(s) : result[s][f] = Absent}]
  /\ UNCHANGED <<disk, cache, hash, parsed, result, stale, history>>

\* Pass 2: the parser reads the file.
Parse(s) ==
  /\ step[s] = "parse"
  /\ \E f \in todo[s] :
       /\ parsed[s][f] = Absent
       /\ content[f] \in Contents \ Broken
       /\ parsed' = [parsed EXCEPT ![s][f] = content[f]]
  /\ UNCHANGED <<disk, cache, step, todo, hash, result, stale, history>>

\* The parser throws, or the file is gone: the file has no result.
ParseFails(s) ==
  /\ step[s] = "parse"
  /\ \E f \in todo[s] :
       /\ parsed[s][f] = Absent
       /\ content[f] \in Broken \cup {Absent}
       /\ todo' = [todo EXCEPT ![s] = @ \ {f}]
  /\ UNCHANGED <<disk, cache, step, hash, parsed, result, stale, history>>

\* Mutant of Check: the file is not hashed again before its result is cached.
CheckNothing(s) ==
  /\ step[s] = "parse"
  /\ \E f \in todo[s] :
       /\ parsed[s][f] # Absent
       /\ content[f] # Absent
       /\ todo' = [todo EXCEPT ![s] = @ \ {f}]
       /\ parsed' = [parsed EXCEPT ![s][f] = Absent]
       /\ result' = [result EXCEPT ![s][f] = parsed[s][f]]
       /\ cache' = [cache EXCEPT ![<<f, hash[s][f]>>] = parsed[s][f]]
  /\ UNCHANGED <<disk, step, hash, stale, history>>

\* hashFile: the file is read again, and the result is cached if its content is
\* the one of the manifest.
Check(s) ==
  /\ step[s] = "parse"
  /\ \E f \in todo[s] :
       /\ parsed[s][f] # Absent
       /\ content[f] # Absent
       /\ todo' = [todo EXCEPT ![s] = @ \ {f}]
       /\ parsed' = [parsed EXCEPT ![s][f] = Absent]
       /\ result' = [result EXCEPT ![s][f] = parsed[s][f]]
       /\ cache' = IF content[f] = hash[s][f]
                   THEN [cache EXCEPT ![<<f, hash[s][f]>>] = parsed[s][f]]
                   ELSE cache
  /\ UNCHANGED <<disk, step, hash, stale, history>>

\* The entry is due and cannot be written.  write swallows that, and its file has
\* a result without an entry, unless removing the temporary file fails too: then
\* the file counts as failed.
CheckUnsaved(s) ==
  /\ CacheErrors
  /\ step[s] = "parse"
  /\ \E f \in todo[s] :
       /\ parsed[s][f] # Absent
       /\ content[f] = hash[s][f]
       /\ todo' = [todo EXCEPT ![s] = @ \ {f}]
       /\ parsed' = [parsed EXCEPT ![s][f] = Absent]
       /\ result' \in {result, [result EXCEPT ![s][f] = parsed[s][f]]}
       /\ unsaved' = [unsaved EXCEPT ![s] = @ \cup {f}]
  /\ UNCHANGED <<disk, cache, step, hash, stale, during>>

\* hashFile rejects inside the same try: the file counts as failed although it
\* was parsed.
CheckFails(s) ==
  /\ step[s] = "parse"
  /\ \E f \in todo[s] :
       /\ parsed[s][f] # Absent
       /\ content[f] = Absent
       /\ todo' = [todo EXCEPT ![s] = @ \ {f}]
       /\ parsed' = [parsed EXCEPT ![s][f] = Absent]
  /\ UNCHANGED <<disk, cache, step, hash, result, stale, history>>

AllParsed(s) == \A f \in Supported(s) : result[s][f] # Absent

Entries == {k \in Keys : cache[k] # Absent}
Used(s) == {k \in Keys : hash[s][k[1]] = k[2]}

\* Mutant of Finish: prune drops the entries the scan did look up.
FinishPrunesUsed(s) ==
  /\ step[s] = "parse"
  /\ todo[s] = {}
  /\ AllParsed(s) \/ s \in ContinueOnError
  /\ step' = [step EXCEPT ![s] = "prune"]
  /\ stale' = [stale EXCEPT ![s] = Entries \cap Used(s)]
  /\ UNCHANGED <<disk, cache, todo, hash, parsed, result, history>>

\* addParseResultsToGraph accepts; prune lists the entries this scan did not look
\* up, of whatever scan they are, or gives up.
Finish(s) ==
  /\ step[s] = "parse"
  /\ todo[s] = {}
  /\ AllParsed(s) \/ s \in ContinueOnError
  /\ step' = [step EXCEPT ![s] = "prune"]
  /\ \/ stale' = [stale EXCEPT ![s] = Entries \ Used(s)]
     \/ CacheErrors /\ stale' = [stale EXCEPT ![s] = {}]
  /\ UNCHANGED <<disk, cache, todo, hash, parsed, result, history>>

\* prune: one entry is deleted; one that is gone already is fine.
PruneEntry(s) ==
  /\ step[s] = "prune"
  /\ \E k \in stale[s] :
       /\ stale' = [stale EXCEPT ![s] = @ \ {k}]
       /\ cache' = [cache EXCEPT ![k] = Absent]
  /\ UNCHANGED <<disk, step, todo, hash, parsed, result, history>>

\* An entry cannot be deleted: the whole scan rejects.
PruneFails(s) ==
  /\ CacheErrors
  /\ step[s] = "prune"
  /\ stale[s] # {}
  /\ step' = [step EXCEPT ![s] = "failed"]
  /\ UNCHANGED <<disk, cache, todo, hash, parsed, result, stale, history>>

EndPrune(s) ==
  /\ step[s] = "prune"
  /\ stale[s] = {}
  /\ step' = [step EXCEPT ![s] = "done"]
  /\ UNCHANGED <<disk, cache, todo, hash, parsed, result, stale, history>>

\* A failed file and no --continue-on-error: the scan fails fast, nothing is
\* pruned and nothing will be written to the store.
FailFast(s) ==
  /\ step[s] = "parse"
  /\ todo[s] = {}
  /\ ~AllParsed(s) /\ s \notin ContinueOnError
  /\ step' = [step EXCEPT ![s] = "failed"]
  /\ UNCHANGED <<disk, cache, todo, hash, parsed, result, stale, history>>

Running(s) == step[s] \notin {"idle", "done", "failed"}

\* The edit brings back what a scan hashed, while what it parsed in between still
\* waits for its check.
Undoes(f, c) ==
  \E s \in Scans : parsed[s][f] \notin {Absent, c} /\ hash[s][f] = c

\* The user saves, deletes or restores a file.
Edit(f) ==
  /\ edits < MaxEdits
  /\ edits' = edits + 1
  /\ \E c \in Maybe \ {content[f]} :
       /\ Reverts \/ ~Undoes(f, c)
       /\ content' = [content EXCEPT ![f] = c]
       /\ during' = [s \in Scans |->
            IF Running(s) THEN [during[s] EXCEPT ![f] = @ \cup ({c} \ {Absent})] ELSE during[s]]
  /\ UNCHANGED <<cache, local, unsaved>>

ScanStep(s) ==
  \/ HashFile(s)
  \/ HashFails(s)
  \/ BeginLookup(s)
  \/ Lookup(s)
  \/ BeginParse(s)
  \/ Parse(s)
  \/ ParseFails(s)
  \/ Check(s)
  \/ CheckUnsaved(s)
  \/ CheckFails(s)
  \/ Finish(s)
  \/ PruneEntry(s)
  \/ PruneFails(s)
  \/ EndPrune(s)
  \/ FailFast(s)

CacheNext ==
  \/ \E s \in Scans : Start(s) \/ ScanStep(s)
  \/ \E f \in Files : Edit(f)

CacheSpec == CacheInit /\ [][CacheNext]_vars

-----------------------------------------------------------------------------
(* Properties *)

\* A cache entry holds what parsing its key's content gives, whichever scans share
\* the cache and whatever is edited between the reads of a file, edits that are
\* undone between the parse and the check excepted (Reverts, without which it is
\* false): "a cached scan produces the same graph as a full one" (parse-cache.ts).
CacheIsHonest == \A k \in Keys : cache[k] \in {Absent, k[2]}

\* Each part of a scan's graph was parsed from a content its file had while that
\* scan ran: under the same condition on the edits, no older parse gets in through
\* the cache, though files return to contents of former scans (orchestrator.ts,
\* passes 1 and 2).
ResultsAreOfThisScan ==
  \A s \in Scans : \A f \in Files : result[s][f] \in during[s][f] \cup {Absent}

\* After the first scan, and until another one starts, the cache is warm: a file
\* that parsed and was not edited while the scan ran has its entry, unless writing
\* it failed, so the next scan does not parse it again (orchestrator.ts, pass 2;
\* parse-cache.ts, write and prune).
WarmAfterScan ==
  \A s \in Scans : \A f \in Files \ unsaved[s] :
    /\ step[s] = "done"
    /\ \A t \in Scans \ {s} : step[t] = "idle"
    /\ result[s][f] # Absent
    /\ during[s][f] = {hash[s][f]}
    => cache[<<f, hash[s][f]>>] = hash[s][f]
=============================================================================
