---------------------------- MODULE MCQueryStore ----------------------------
(* QueryStore on a small instance for TLC. *)
EXTENDS QueryStore, TLC

\* The calls are interchangeable, and so are the databases.
Symmetry == Permutations(Runs) \cup Permutations(Databases)
=============================================================================
