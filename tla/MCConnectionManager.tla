------------------------ MODULE MCConnectionManager ------------------------
(***************************************************************************)
(* Small instances of ConnectionManager.                                   *)
(***************************************************************************)
EXTENDS ConnectionManager, TLC

\* A profile with nothing, and one with everything the tables record.
Profiles ==
  {[read_only |-> b, ssh |-> b, timeout |-> b] : b \in BOOLEAN}

Symmetry == Permutations(Attempts)
=============================================================================
