------------------------ MODULE MCConnectionStorage ------------------------
(* ConnectionStorage on a small instance for TLC. *)
EXTENDS ConnectionStorage, TLC

\* Calls are interchangeable, and so are connections.
Symmetry == Permutations(Procs) \cup Permutations(Ids)
=============================================================================
