----------------------------- MODULE MCIndexerLease ---------------------------
(***************************************************************************)
(* Instances of IndexerLease.  Workers are interchangeable.                *)
(***************************************************************************)
EXTENDS IndexerLease, TLC

Interchangeable == Permutations(Workers)
===============================================================================
