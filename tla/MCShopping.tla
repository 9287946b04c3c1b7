----------------------------- MODULE MCShopping -----------------------------
(***************************************************************************)
(* Shopping with its requests, customers and ids interchangeable, and a    *)
(* discount that leaves some prices whole and others not.                  *)
(***************************************************************************)
EXTENDS Shopping, TLC

ThreeEach  == [p \in Products |-> 3]
TenPercent == [p \in Products |-> 10]

Interchangeable ==
  Permutations(Requests) \cup Permutations(Customers) \cup Permutations(LineIds)
    \cup Permutations(AddressIds)
=============================================================================
