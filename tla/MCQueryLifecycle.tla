-------------------------- MODULE MCQueryLifecycle --------------------------
(***************************************************************************)
(* Small instances of QueryLifecycle.                                      *)
(***************************************************************************)
EXTENDS QueryLifecycle, TLC

Symmetry == Permutations(Conns)
=============================================================================
