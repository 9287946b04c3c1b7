----------------------------- MODULE MCSessions -----------------------------
(***************************************************************************)
(* Sessions with its requests interchangeable.                             *)
(***************************************************************************)
EXTENDS Sessions, TLC

AnyRequest == Permutations(Requests)
=============================================================================
