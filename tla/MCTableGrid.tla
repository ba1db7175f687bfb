---------------------------- MODULE MCTableGrid ----------------------------
(* TableGrid on a small instance for TLC. *)
EXTENDS TableGrid, TLC

\* Scopes are interchangeable.
Symmetry == Permutations(Scopes)
=============================================================================
