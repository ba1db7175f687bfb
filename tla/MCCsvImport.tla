----------------------------- MODULE MCCsvImport -----------------------------
(* CsvImport on a small instance for TLC. *)
EXTENDS CsvImport
=============================================================================
