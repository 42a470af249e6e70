---------------------------- MODULE MCGraphStore ----------------------------
(* Small instances of GraphStore for TLC. *)
EXTENDS GraphStore, TLC

CONSTANTS s1, s2, w1, w2, c1, c2, server

\* One MCP server: every call in flight queries the same GraphStore object.
OneServer == [c \in Calls |-> server]

\* Segments, scanning processes and calls are interchangeable.
Symmetry == Permutations(Segs) \cup Permutations(Writers) \cup Permutations(Calls)
=============================================================================
