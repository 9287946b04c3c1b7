----------------------------- MODULE MCCheckout -----------------------------
(***************************************************************************)
(* Small instances of Checkout for TLC.                                    *)
(***************************************************************************)
EXTENDS Checkout, TLC

OneUnitEach  == [p \in Products |-> 1]
TwoUnitsEach == [p \in Products |-> 2]

\* Requests, customers and order ids are interchangeable: no formula of the
\* safety runs tells two of them apart.
Symmetry == Permutations(Requests) \cup Permutations(Users) \cup Permutations(OrderIds)
=============================================================================
