---------------------------- MODULE MCIngestion ----------------------------
(* Small instances of Ingestion for TLC. *)
EXTENDS Ingestion, TLC

Symmetry == Permutations(Workers) \cup Permutations(Contents) \cup Permutations(Generations)
=============================================================================
