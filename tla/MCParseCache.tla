---------------------------- MODULE MCParseCache ----------------------------
(* Small instances of ParseCache for TLC. *)
EXTENDS ParseCache, TLC

CONSTANTS s1, s2, f1, f2, a, b, bad

\* Files are interchangeable; scans are not, they run with different options.
Symmetry == Permutations(Files)
=============================================================================
