------------------------------- MODULE MCWatch -------------------------------
(* Small instances of Watch for TLC. *)
EXTENDS Watch

CONSTANTS f1, f2, w1, w2, t1, t2, t3
=============================================================================
