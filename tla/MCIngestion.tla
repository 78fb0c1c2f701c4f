----------------------------- MODULE MCIngestion -----------------------------
(* Ingestion with interchangeable documents, for TLC.                      *)
EXTENDS Ingestion, TLC

Symmetry == Permutations(Docs)
=============================================================================
