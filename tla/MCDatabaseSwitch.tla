-------------------------- MODULE MCDatabaseSwitch --------------------------
(* DatabaseSwitch on a small instance for TLC. *)
EXTENDS DatabaseSwitch, TLC

\* Connections of the pool are interchangeable in every safety property.
Symmetry == Permutations(Conns)
=============================================================================
