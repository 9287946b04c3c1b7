---------------------------- MODULE OrderPayment ----------------------------
(***************************************************************************)
(* What the shop promises about the payment of an order, without handlers, *)
(* callbacks or a database: an order waits for its money, is decided once, *)
(* is PAID only with its money settled, and success is announced only of a *)
(* paid order.  Checkout implements it.                                    *)
(***************************************************************************)
CONSTANT OrderIds

VARIABLES
  payment,    \* NONE until the order is placed
  settled,    \* orders whose money the gateway has settled
  announced   \* orders a customer was told are paid

vars == <<payment, settled, announced>>

Init ==
  /\ payment = [o \in OrderIds |-> "NONE"]
  /\ settled = {}
  /\ announced = {}

\* A checkout commits.
Place(o) ==
  /\ payment[o] = "NONE"
  /\ payment' = [payment EXCEPT ![o] = "UNPAID"]
  /\ UNCHANGED <<settled, announced>>

\* The gateway settles, whatever was decided of the order before.
Settle(o) ==
  /\ payment[o] # "NONE"
  /\ settled' = settled \cup {o}
  /\ UNCHANGED <<payment, announced>>

\* The payment is recorded, and announced in the same response.
Confirm(o) ==
  /\ payment[o] = "UNPAID"
  /\ o \in settled
  /\ payment' = [payment EXCEPT ![o] = "PAID"]
  /\ announced' = announced \cup {o}
  /\ UNCHANGED settled

\* The customer gave up, or the gateway said no or nothing.
Decline(o) ==
  /\ payment[o] = "UNPAID"
  /\ payment' = [payment EXCEPT ![o] = "FAILED"]
  /\ UNCHANGED <<settled, announced>>

\* A repeated callback is answered.
Announce(o) ==
  /\ payment[o] = "PAID"
  /\ announced' = announced \cup {o}
  /\ UNCHANGED <<payment, settled>>

Next ==
  \E o \in OrderIds :
    Place(o) \/ Settle(o) \/ Confirm(o) \/ Decline(o) \/ Announce(o)

Spec == Init /\ [][Next]_vars
=============================================================================
