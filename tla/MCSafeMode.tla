----------------------------- MODULE MCSafeMode -----------------------------
(* SafeMode on a small instance for TLC. *)
EXTENDS SafeMode, TLC

\* Runs and workspaces are interchangeable in the safety properties.
Symmetry == Permutations(Runs) \cup Permutations(Workspaces)
=============================================================================
