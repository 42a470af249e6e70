---------------------------- MODULE MCWriterLock ----------------------------
(* Small instances of WriterLock for TLC. *)
EXTENDS WriterLock, TLC

CONSTANTS w1, w2, w3

\* Every process on one host, and one process on another host.
OneHost == [p \in Procs |-> "host"]
TwoHosts == [p \in Procs |-> IF p = w1 THEN "elsewhere" ELSE "host"]

Symmetry == Permutations(Procs)
=============================================================================
