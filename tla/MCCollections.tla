--------------------------- MODULE MCCollections ---------------------------
(***************************************************************************)
(* Collections with an empty title and the title "-1", which makes the     *)
(* slug that the empty title makes with a number.                          *)
(***************************************************************************)
EXTENDS Collections, TLC

CONSTANTS t1, b0, b1

SlugifyApart == (Untitled :> b0) @@ (t1 :> b1)

SpelledAlike ==
  [slug \in Slug |-> IF slug = [base |-> b0, suffix |-> 1] THEN [base |-> b1, suffix |-> 0] ELSE slug]

Interchangeable == Permutations(Requests) \cup Permutations(Ids) \cup Permutations(Products)
=============================================================================
