-------------------------------- MODULE Cart --------------------------------
(***************************************************************************)
(* What a customer may rely on about carts, without lines, handlers or     *)
(* races: one thing happens at a time, to one product of one cart or to    *)
(* one cart as a whole; a cart holds only what is offered, and no more of  *)
(* it than there ever was.  Shopping implements it with the rows of        *)
(* CartItem.                                                               *)
(***************************************************************************)
EXTENDS Integers

CONSTANTS
  Customers,
  Products,
  Levels      \* stocks that are ever written

VARIABLES
  quantity,  \* what each cart holds of each product
  offered,   \* products that can be in a cart
  ceiling    \* the most that was ever in stock

vars == <<quantity, offered, ceiling>>

Nothing == [p \in Products |-> 0]

Init ==
  /\ quantity = [u \in Customers |-> Nothing]
  /\ offered \subseteq Products
  /\ ceiling \in [Products -> Nat]

\* A product is added, changed or removed.
Set(u, p, n) ==
  /\ p \in offered
  /\ quantity' = [quantity EXCEPT ![u][p] = n]
  /\ UNCHANGED <<offered, ceiling>>

\* The customer or a checkout clears the cart.
Empty(u) ==
  /\ quantity' = [quantity EXCEPT ![u] = Nothing]
  /\ UNCHANGED <<offered, ceiling>>

\* A product leaves the shop, and every cart with it.
Withdraw(p) ==
  /\ offered' = offered \ {p}
  /\ quantity' = [u \in Customers |-> [quantity[u] EXCEPT ![p] = 0]]
  /\ UNCHANGED ceiling

Restock(p, n) ==
  /\ n > ceiling[p]
  /\ ceiling' = [ceiling EXCEPT ![p] = n]
  /\ UNCHANGED <<quantity, offered>>

Next ==
  \/ \E u \in Customers : Empty(u) \/ \E p \in Products : \E n \in 0..ceiling[p] : Set(u, p, n)
  \/ \E p \in Products : Withdraw(p) \/ \E n \in Levels : Restock(p, n)

Spec == Init /\ [][Next]_vars
=============================================================================
