---------------------------- MODULE MCParserPool ----------------------------
(* Small instances of ParserPool for TLC. *)
EXTENDS ParserPool, TLC

CONSTANTS j1, j2, j3, w1, w2

Symmetry == Permutations(Jobs) \cup Permutations(Workers)
=============================================================================
