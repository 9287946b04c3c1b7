------------------------------ MODULE MCCatalog ------------------------------
(***************************************************************************)
(* Catalog with its requests, ids and slugs interchangeable.               *)
(***************************************************************************)
EXTENDS Catalog, TLC

Interchangeable ==
  Permutations(Requests) \cup Permutations(Categories) \cup Permutations(Products)
    \cup Permutations(MarkIds) \cup Permutations(Slugs)
=============================================================================
