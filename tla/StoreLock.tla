----------------------------- MODULE StoreLock -----------------------------
(***************************************************************************)
(* What the writer lock of a graph store promises: "Only writers lock;     *)
(* readers use snapshots" (adapters/store/lock.ts) and "Writers are        *)
(* serialized by a lock file" (docs/known-limitations.md).  A writer may   *)
(* die at any moment, also while it writes; the lock is then free again.   *)
(***************************************************************************)
CONSTANT Writers

VARIABLES
  inside,       \* live writers between acquireWriteLock and its release
  gone          \* writers whose process has ended

vars == <<inside, gone>>

Init ==
  /\ inside = {}
  /\ gone = {}

Enter(w) ==
  /\ inside = {}
  /\ w \notin gone
  /\ inside' = {w}
  /\ UNCHANGED gone

Leave(w) ==
  /\ w \in inside
  /\ inside' = inside \ {w}
  /\ UNCHANGED gone

Die(w) ==
  /\ w \notin gone
  /\ inside' = inside \ {w}
  /\ gone' = gone \cup {w}

Next == \E w \in Writers : Enter(w) \/ Leave(w) \/ Die(w)

Spec == Init /\ [][Next]_vars
=============================================================================
