--------------------------- MODULE MCSchemaCache ---------------------------
(* SchemaCache on a small instance for TLC. *)
EXTENDS SchemaCache, TLC

\* The tables and the objects of a scope have the same key, one name.
NamesOfKinds == [kind \in Kinds |-> "scope"]

\* Callers are interchangeable in every safety property.
Symmetry == Permutations(Callers)
=============================================================================
