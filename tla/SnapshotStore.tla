--------------------------- MODULE SnapshotStore ---------------------------
(***************************************************************************)
(* What a graph store promises its readers: "Writers take the directory    *)
(* lock and commit a new snapshot generation; readers pick up a newer      *)
(* generation on their next call" (adapters/store/store.ts).  A call is    *)
(* answered from one whole graph that was the committed one at some moment *)
(* between the question and the answer, or it fails.                       *)
(***************************************************************************)
CONSTANTS
  Calls,        \* calls readers have in flight
  Graphs,       \* the graphs a store can hold
  NoAnswer      \* a call that was never answered, or failed

VARIABLES
  current,      \* the committed graph
  since,        \* per call, the graphs committed at some time since it began
  answer        \* per call, the graph its last answer was computed from

vars == <<current, since, answer>>

Init ==
  /\ current \in Graphs
  /\ since = [c \in Calls |-> {}]
  /\ answer = [c \in Calls |-> NoAnswer]

Commit ==
  \E g \in Graphs :
    /\ current' = g
    /\ since' = [c \in Calls |-> IF since[c] = {} THEN {} ELSE since[c] \cup {g}]
    /\ UNCHANGED answer

Ask(c) ==
  /\ since[c] = {}
  /\ since' = [since EXCEPT ![c] = {current}]
  /\ answer' = [answer EXCEPT ![c] = NoAnswer]
  /\ UNCHANGED current

Reply(c) ==
  /\ since[c] # {}
  /\ since' = [since EXCEPT ![c] = {}]
  /\ \E g \in since[c] \cup {NoAnswer} : answer' = [answer EXCEPT ![c] = g]
  /\ UNCHANGED current

Next == Commit \/ \E c \in Calls : Ask(c) \/ Reply(c)

Spec == Init /\ [][Next]_vars
=============================================================================
