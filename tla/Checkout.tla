------------------------------ MODULE Checkout ------------------------------
(***************************************************************************)
(* Checkout, payment and cancellation of orders: CheckoutService,          *)
(* OrdersService, PaymentService and ZarinpalService over one PostgreSQL   *)
(* database, with the payment gateway and its customer as environment.     *)
(*                                                                         *)
(* An HTTP request in flight is a member of Requests.  A handler runs from *)
(* one await to the next, so one step is one database statement, one       *)
(* transaction or one call to the gateway; any number of other handlers    *)
(* may run between two of them.  What a handler remembers across an await  *)
(* is job[r], where it stands is pc[r].                                    *)
(***************************************************************************)
EXTENDS Integers, FiniteSets, Functions

CONSTANTS
  Requests,       \* requests the server may be handling at the same time
  Users,          \* customers
  Products,       \* products in the catalogue
  OrderIds,       \* bound: ids of the orders that may be created
  Nobody,         \* the customer of an order that does not exist
  NoOrder,        \* the order of a request that has none yet
  MaxQty,         \* bound: quantity of a product in a cart
  CartQuantities, \* bound: the quantities the customers choose, 0 to remove
  InitialStock,   \* stock of each product at the start
  Restockable,    \* products whose stock the administrator overwrites
  StockLevels,    \* bound: the values the administrator writes
  Methods,        \* bound: payment methods the customers choose
  AdminStatuses,  \* bound: statuses the administrator writes
  MaxReturns,     \* bound: cancellations of one order
  MaxDay,         \* bound: days the model runs for
  Faults          \* may a request be dropped at an await (crash, lost connection)?

OnlineMethods  == {"ZARINPAL", "NEXTPAY"}
GatewayMethods == {"ZARINPAL"}  \* PaymentService throws for NextPay
OfflineMethods == {"CASH_ON_DELIVERY", "BANK_TRANSFER"}
PaymentMethod  == OnlineMethods \cup OfflineMethods

OrderStatus == {"PENDING", "CONFIRMED", "PROCESSING", "SHIPPED", "DELIVERED",
                "CANCELLED", "REFUNDED"}

\* updatePaymentStatus, the only writer of the two refund states, has no caller.
PaymentStatus == {"UNPAID", "PAID", "FAILED"}

Absent == "ABSENT"   \* status of an order id with no row behind it

ASSUME NamesAssumption ==
  /\ Nobody \notin Users
  /\ NoOrder \notin OrderIds

ASSUME FiniteAssumption ==
  IsFiniteSet(Requests) /\ Requests # {} /\ IsFiniteSet(OrderIds)

ASSUME StockAssumption ==
  /\ MaxQty \in Nat
  /\ CartQuantities \subseteq 0..MaxQty
  /\ InitialStock \in [Products -> Nat]
  /\ Restockable \subseteq Products
  /\ StockLevels \subseteq Nat

ASSUME ChoiceAssumption ==
  /\ Methods \subseteq PaymentMethod
  /\ AdminStatuses \subseteq OrderStatus
  /\ MaxReturns \in Nat
  /\ MaxDay \in Nat
  /\ Faults \in BOOLEAN

-----------------------------------------------------------------------------

VARIABLES
  stock,     \* Product.stock
  cart,      \* CartItem.quantity of every customer and product, 0 for no line
  order,     \* the rows of the Order table with their OrderItems
  day,       \* the date of the server's clock
  gateway,   \* Zarinpal's side of an order: none, session, paid, settled
  known,     \* orders whose payment authority has left the server
  pc,        \* the await each request stands at
  job,       \* the local variables of each request
  told,      \* history: orders for which verifyPayment answered success
  returned   \* history: how often cancel has returned an order's stock

db      == <<stock, cart, order>>
world   == <<day, gateway, known>>
handler == <<pc, job>>
history == <<told, returned>>
vars    == <<db, world, handler, history>>

Quantities == [Products -> 0..MaxQty]
NoItems    == [p \in Products |-> 0]

Row ==
  [status : OrderStatus \cup {Absent}, payment : PaymentStatus,
   method : PaymentMethod, authority : BOOLEAN, user : Users \cup {Nobody},
   items : Quantities, day : Nat, seq : Nat, created : Nat]

NoRow ==
  [status |-> Absent, payment |-> "UNPAID", method |-> "ZARINPAL",
   authority |-> FALSE, user |-> Nobody, items |-> NoItems,
   day |-> 0, seq |-> 0, created |-> 0]

Job ==
  [user : Users \cup {Nobody}, items : Quantities, passed : SUBSET Products,
   method : PaymentMethod, day : Nat, seq : Nat, order : OrderIds \cup {NoOrder}]

NoJob ==
  [user |-> Nobody, items |-> NoItems, passed |-> {}, method |-> "ZARINPAL",
   day |-> 0, seq |-> 0, order |-> NoOrder]

Steps == {"idle", "check", "insert", "request", "store", "clear", "reply",
          "verify", "fail", "mark", "cancel"}

GatewayStates == {"none", "session", "paid", "settled"}

Init ==
  /\ stock = InitialStock
  /\ cart = [u \in Users |-> NoItems]
  /\ order = [o \in OrderIds |-> NoRow]
  /\ day = 1
  /\ gateway = [o \in OrderIds |-> "none"]
  /\ known = {}
  /\ pc = [r \in Requests |-> "idle"]
  /\ job = [r \in Requests |-> NoJob]
  /\ told = {}
  /\ returned = [o \in OrderIds |-> 0]

-----------------------------------------------------------------------------
(* What the handlers ask of the database, and the guards of their branches. *)

Placed == {o \in OrderIds : order[o].status # Absent}

CreatedOn(d) == {o \in Placed : order[o].created = d}

\* Mutant of NumberTaken: the column is not @unique.
NumberNotUnique(d, n) == FALSE

\* orderNumber is @unique; the number is a date and a sequence number.
NumberTaken(d, n) == \E o \in Placed : order[o].day = d /\ order[o].seq = n

Ordered(items) == {p \in Products : items[p] > 0}

Unchecked(r) == Ordered(job[r].items) \ job[r].passed

HasStock(p, quantity) == stock[p] >= quantity

Cancellable(o) ==
  /\ order[o].status \notin {"SHIPPED", "DELIVERED"}
  /\ order[o].payment # "PAID"

\* The bounds on the model's own counters.
Creating == {r \in Requests : pc[r] \in {"check", "insert"}}

RoomForOrder == Cardinality(Placed) + Cardinality(Creating) < Cardinality(OrderIds)

Cancelling(o) == {r \in Requests : pc[r] = "cancel" /\ job[r].order = o}

RoomForCancel(o) == returned[o] + Cardinality(Cancelling(o)) < MaxReturns

Goto(r, step) == pc' = [pc EXCEPT ![r] = step]

\* The handler returns or throws: nothing of it is left.
Finish(r) ==
  /\ pc' = [pc EXCEPT ![r] = "idle"]
  /\ job' = [job EXCEPT ![r] = NoJob]

-----------------------------------------------------------------------------
(* POST /checkout: CheckoutService.checkout, OrdersService.create.          *)

\* The address is found and the cart is read; an empty cart is refused.
StartCheckout(r, u, method) ==
  /\ pc[r] = "idle"
  /\ cart[u] # NoItems
  /\ RoomForOrder
  /\ Goto(r, "check")
  /\ job' = [job EXCEPT ![r] = [NoJob EXCEPT !.user = u, !.items = cart[u],
                                             !.method = method]]
  /\ UNCHANGED <<db, world, history>>

\* One turn of the loop over the items: the product is read, and the stock suffices at
\* this moment (two reads in a row; nothing the first returns is compared with the second).
CheckItem(r, p) ==
  /\ pc[r] = "check"
  /\ p \in Unchecked(r)
  /\ HasStock(p, job[r].items[p])
  /\ job' = [job EXCEPT ![r].passed = @ \cup {p}]
  /\ UNCHANGED <<db, world, pc, history>>

\* The other turns of the loop: the product is short, inactive or deleted.
RefuseItem(r) ==
  /\ pc[r] = "check"
  /\ Unchecked(r) # {}
  /\ Finish(r)
  /\ UNCHANGED <<db, world, history>>

\* generateOrderNumber: one more than the orders created today.
NextSeq(d) == Cardinality(CreatedOn(d)) + 1

CountOrders(r) ==
  /\ pc[r] = "check"
  /\ Unchecked(r) = {}
  /\ Goto(r, "insert")
  /\ job' = [job EXCEPT ![r].day = day, ![r].seq = NextSeq(day)]
  /\ UNCHANGED <<db, world, history>>

\* Mutant of NewRow: the two status enums are mixed up.
NewRowPending(r) ==
  [status |-> "PENDING", payment |-> "PENDING", method |-> job[r].method,
   authority |-> FALSE, user |-> job[r].user, items |-> job[r].items,
   day |-> job[r].day, seq |-> job[r].seq, created |-> day]

NewRow(r) ==
  [status |-> "PENDING", payment |-> "UNPAID", method |-> job[r].method,
   authority |-> FALSE, user |-> job[r].user, items |-> job[r].items,
   day |-> job[r].day, seq |-> job[r].seq, created |-> day]

\* Mutants of StockAfterSale: decremented with the order and again in the loop; the
\* decrement stops at zero.
StockTwice(items) == [p \in Products |-> stock[p] - 2 * items[p]]

StockClamped(items) ==
  [p \in Products |-> IF stock[p] < items[p] THEN 0 ELSE stock[p] - items[p]]

StockAfterSale(items) == [p \in Products |-> stock[p] - items[p]]

\* The transaction: the order is created and every product decremented.
InsertOrder(r, o) ==
  /\ pc[r] = "insert"
  /\ o \notin Placed
  /\ ~NumberTaken(job[r].day, job[r].seq)
  /\ order' = [order EXCEPT ![o] = NewRow(r)]
  /\ stock' = StockAfterSale(job[r].items)
  /\ Goto(r, IF job[r].method \in OfflineMethods THEN "clear" ELSE "request")
  /\ job' = [job EXCEPT ![r].order = o]
  /\ UNCHANGED <<cart, world, history>>

\* Mutant of RefuseNumber: the insert is retried with the same number.
RetryNumber(r) ==
  /\ pc[r] = "insert"
  /\ NumberTaken(job[r].day, job[r].seq)
  /\ UNCHANGED vars

\* Another order took the number since it was counted: P2002, rolled back.
RefuseNumber(r) ==
  /\ pc[r] = "insert"
  /\ NumberTaken(job[r].day, job[r].seq)
  /\ Finish(r)
  /\ UNCHANGED <<db, world, history>>

\* Zarinpal answers code 100 with an authority.
RequestPayment(r) ==
  /\ pc[r] = "request"
  /\ job[r].method \in GatewayMethods
  /\ gateway' = [gateway EXCEPT ![job[r].order] = "session"]
  /\ Goto(r, "store")
  /\ UNCHANGED <<db, day, known, job, history>>

\* Mutant of RequestFails: the cart is cleared although there is no payment.
RequestFailsClears(r) ==
  /\ pc[r] = "request"
  /\ Goto(r, "clear")
  /\ UNCHANGED <<db, world, job, history>>

\* Zarinpal refuses or is not reached, NextPay is not implemented: checkout
\* throws, the order and its stock stay as they are.  (A lost answer may leave a session
\* at Zarinpal; nobody has its authority, so nobody can pay in it.)
RequestFails(r) ==
  /\ pc[r] = "request"
  /\ Finish(r)
  /\ UNCHANGED <<db, world, history>>

\* Mutant of StoreAuthority: the link is handed out without storing it.
SkipAuthority(r) ==
  /\ pc[r] = "store"
  /\ Goto(r, "clear")
  /\ UNCHANGED <<db, world, job, history>>

StoreAuthority(r) ==
  /\ pc[r] = "store"
  /\ order' = [order EXCEPT ![job[r].order].authority = TRUE]
  /\ Goto(r, "clear")
  /\ UNCHANGED <<stock, cart, world, job, history>>

\* clearCart deletes every line the cart has by now.
ClearCart(r) ==
  /\ pc[r] = "clear"
  /\ cart' = [cart EXCEPT ![job[r].user] = NoItems]
  /\ Goto(r, "reply")
  /\ UNCHANGED <<stock, order, world, job, history>>

\* The response; that of an online order carries the authority and its link.
Reply(r) ==
  /\ pc[r] = "reply"
  /\ known' = known \cup (IF job[r].method \in OnlineMethods THEN {job[r].order} ELSE {})
  /\ Finish(r)
  /\ UNCHANGED <<db, day, gateway, history>>

-----------------------------------------------------------------------------
(* GET /checkout/verify: CheckoutService.verifyPayment.                     *)

\* The order is found by its authority; a paid order is confirmed again.
VerifyPaidOrder(r, o) ==
  /\ pc[r] = "idle"
  /\ o \in known
  /\ order[o].authority
  /\ order[o].payment = "PAID"
  /\ told' = told \cup {o}
  /\ UNCHANGED <<db, world, handler, returned>>

\* Otherwise Status = 'OK' leads to the gateway, any other to the refusal.
StartVerify(r, o) ==
  /\ pc[r] = "idle"
  /\ o \in known
  /\ order[o].authority
  /\ order[o].payment # "PAID"
  /\ \E step \in {"verify", "fail"} : Goto(r, step)
  /\ job' = [job EXCEPT ![r] = [NoJob EXCEPT !.order = o]]
  /\ UNCHANGED <<db, world, history>>

\* Zarinpal settles a payment the customer made (100), or did before (101).
GatewayAccepts(r) ==
  /\ pc[r] = "verify"
  /\ gateway[job[r].order] \in {"paid", "settled"}
  /\ gateway' = [gateway EXCEPT ![job[r].order] = "settled"]
  /\ Goto(r, "mark")
  /\ UNCHANGED <<db, day, known, job, history>>

\* Nothing was paid.
GatewayRefuses(r) ==
  /\ pc[r] = "verify"
  /\ gateway[job[r].order] \notin {"paid", "settled"}
  /\ Goto(r, "fail")
  /\ UNCHANGED <<db, world, job, history>>

\* Mutant of GatewayUnreachable: an error of the call counts as success.
GatewayTrusted(r) ==
  /\ pc[r] = "verify"
  /\ Goto(r, "mark")
  /\ UNCHANGED <<db, world, job, history>>

\* The call fails, before or after the gateway settled the payment.
GatewayUnreachable(r) ==
  /\ pc[r] = "verify"
  /\ \/ UNCHANGED gateway
     \/ /\ gateway[job[r].order] = "paid"
        /\ gateway' = [gateway EXCEPT ![job[r].order] = "settled"]
  /\ Goto(r, "fail")
  /\ UNCHANGED <<db, day, known, job, history>>

\* Mutant of MarkFailed: without the update.
MarkNothing(r) ==
  /\ pc[r] = "fail"
  /\ Finish(r)
  /\ UNCHANGED <<db, world, history>>

\* updateMany where UNPAID, then the exception.
MarkFailed(r) ==
  /\ pc[r] = "fail"
  /\ order' = IF order[job[r].order].payment = "UNPAID"
              THEN [order EXCEPT ![job[r].order].payment = "FAILED"]
              ELSE order
  /\ Finish(r)
  /\ UNCHANGED <<stock, cart, world, history>>

\* The transaction: updateMany where UNPAID finds the order.
MarkPaid(r) ==
  /\ pc[r] = "mark"
  /\ order[job[r].order].payment = "UNPAID"
  /\ order' = [order EXCEPT ![job[r].order].payment = "PAID",
                            ![job[r].order].status = "CONFIRMED"]
  /\ told' = told \cup {job[r].order}
  /\ Finish(r)
  /\ UNCHANGED <<stock, cart, world, returned>>

\* Mutant of AlreadyDecided: a FAILED order is marked PAID after all.
MarkPaidLate(r) ==
  /\ pc[r] = "mark"
  /\ order[job[r].order].payment # "UNPAID"
  /\ order' = [order EXCEPT ![job[r].order].payment = "PAID"]
  /\ told' = told \cup {job[r].order}
  /\ Finish(r)
  /\ UNCHANGED <<stock, cart, world, returned>>

\* It finds none: success if the order has been paid meanwhile, else refusal.
AlreadyDecided(r) ==
  /\ pc[r] = "mark"
  /\ order[job[r].order].payment # "UNPAID"
  /\ told' = told \cup {o \in {job[r].order} : order[o].payment = "PAID"}
  /\ Finish(r)
  /\ UNCHANGED <<db, world, returned>>

-----------------------------------------------------------------------------
(* DELETE /orders/:id: OrdersService.cancel.                                *)

\* The order is read and its state checked, outside the transaction.
StartCancel(r, o) ==
  /\ pc[r] = "idle"
  /\ o \in Placed
  /\ Cancellable(o)
  /\ RoomForCancel(o)
  /\ Goto(r, "cancel")
  /\ job' = [job EXCEPT ![r] = [NoJob EXCEPT !.order = o]]
  /\ UNCHANGED <<db, world, history>>

StockAfterReturn(items) == [p \in Products |-> stock[p] + items[p]]

\* The transaction: the stock comes back and the status is overwritten.
CommitCancel(r) ==
  /\ pc[r] = "cancel"
  /\ stock' = StockAfterReturn(order[job[r].order].items)
  /\ order' = [order EXCEPT ![job[r].order].status = "CANCELLED"]
  /\ returned' = [returned EXCEPT ![job[r].order] = @ + 1]
  /\ Finish(r)
  /\ UNCHANGED <<cart, world, told>>

-----------------------------------------------------------------------------
(* The other writers of the same rows.                                      *)

\* PATCH /orders/:id/status: any status may follow any other.
UpdateStatus(o, status) ==
  /\ o \in Placed
  /\ order' = [order EXCEPT ![o].status = status]
  /\ UNCHANGED <<stock, cart, world, handler, history>>

\* PATCH /products/:id writes the stock the administrator typed.
UpdateStock(p, level) ==
  /\ stock' = [stock EXCEPT ![p] = level]
  /\ UNCHANGED <<cart, order, world, handler, history>>

\* CartService adds, changes or removes a line of the customer's cart.
ChangeCart(u, p, quantity) ==
  /\ cart' = [cart EXCEPT ![u][p] = quantity]
  /\ UNCHANGED <<stock, order, world, handler, history>>

\* GET /orders/:id returns the row to its customer, authority included.
ReadOrder(o) ==
  /\ order[o].authority
  /\ known' = known \cup {o}
  /\ UNCHANGED <<db, day, gateway, handler, history>>

\* The customer pays on the gateway's page, whatever became of the order.
CustomerPays(o) ==
  /\ o \in known
  /\ gateway[o] = "session"
  /\ gateway' = [gateway EXCEPT ![o] = "paid"]
  /\ UNCHANGED <<db, day, known, handler, history>>

Midnight ==
  /\ day < MaxDay
  /\ day' = day + 1
  /\ UNCHANGED <<db, gateway, known, handler, history>>

\* A database error, a dropped connection or a restart ends the handler; an
\* open transaction rolls back.
Abort(r) ==
  /\ Faults
  /\ pc[r] # "idle"
  /\ Finish(r)
  /\ UNCHANGED <<db, world, history>>

-----------------------------------------------------------------------------

CheckoutStep(r) ==
  \/ \E p \in Products : CheckItem(r, p)
  \/ RefuseItem(r)
  \/ CountOrders(r)
  \/ \E o \in OrderIds : InsertOrder(r, o)
  \/ RefuseNumber(r)
  \/ RequestPayment(r)
  \/ RequestFails(r)
  \/ StoreAuthority(r)
  \/ ClearCart(r)
  \/ Reply(r)

VerifyStep(r) ==
  \/ GatewayAccepts(r)
  \/ GatewayRefuses(r)
  \/ GatewayUnreachable(r)
  \/ MarkFailed(r)
  \/ MarkPaid(r)
  \/ AlreadyDecided(r)

HandlerStep(r) == CheckoutStep(r) \/ VerifyStep(r) \/ CommitCancel(r)

Arrival(r) ==
  \/ \E u \in Users, method \in Methods : StartCheckout(r, u, method)
  \/ \E o \in OrderIds : VerifyPaidOrder(r, o) \/ StartVerify(r, o) \/ StartCancel(r, o)

Environment ==
  \/ \E o \in OrderIds, status \in AdminStatuses : UpdateStatus(o, status)
  \/ \E p \in Restockable, level \in StockLevels : UpdateStock(p, level)
  \/ \E u \in Users, p \in Products, quantity \in CartQuantities : ChangeCart(u, p, quantity)
  \/ \E o \in OrderIds : ReadOrder(o) \/ CustomerPays(o)
  \/ Midnight

Next ==
  \/ \E r \in Requests : Arrival(r) \/ HandlerStep(r) \/ Abort(r)
  \/ Environment

Spec == Init /\ [][Next]_vars

\* The server schedules every handler it has accepted, and a call to the
\* gateway ends with an answer or an error.
FairSpec == Spec /\ \A r \in Requests : WF_vars(HandlerStep(r))
-----------------------------------------------------------------------------
(* What must be true of it.                                                 *)

\* The rows, the gateway and the handlers' locals keep their types
\* (prisma/schema.prisma; stock is a plain Int, so it may be negative).
TypeOK ==
  /\ stock \in [Products -> Int]
  /\ cart \in [Users -> Quantities]
  /\ order \in [OrderIds -> Row]
  /\ day \in Nat
  /\ gateway \in [OrderIds -> GatewayStates]
  /\ known \subseteq OrderIds
  /\ pc \in [Requests -> Steps]
  /\ job \in [Requests -> Job]
  /\ told \subseteq OrderIds
  /\ returned \in [OrderIds -> Nat]

\* An order is marked PAID only with the customer's money settled at the
\* gateway, whatever callbacks, replays and lost answers came before.
PaidMeansSettled ==
  \A o \in OrderIds : order[o].payment = "PAID" => gateway[o] = "settled"

\* Money at the gateway always belongs to an order that its authority finds,
\* so a callback can be matched: the authority is stored before the customer
\* sees the link, and no restart in between leaves a payment without an order.
MoneyFindable ==
  \A o \in OrderIds :
    gateway[o] \in {"paid", "settled"} => o \in Placed /\ order[o].authority

\* Whoever verifyPayment answered success has an order that is PAID, in the
\* transaction, in its second read and in the early return alike.
VerifyAnswerTruthful == \A o \in told : order[o].payment = "PAID"

\* Racing callbacks decide a payment once: no step overwrites PAID or FAILED.
PaymentDecidedOnce ==
  [][\A o \in OrderIds : order[o].payment # "UNPAID"
        => order'[o].payment = order[o].payment]_vars

\* Two orders never share a number, and the number a request would count now
\* is free: the scheme can lose a race but not lock itself for the day, even
\* when an order numbered before midnight is created after it.
OrderNumbers ==
  /\ \A o1, o2 \in Placed :
       (order[o1].day = order[o2].day /\ order[o1].seq = order[o2].seq) => o1 = o2
  /\ ~NumberTaken(day, NextSeq(day))

\* What each order took of p, less what its cancellations brought back.
Held(p) ==
  [o \in OrderIds |-> order[o].items[p] - returned[o] * order[o].items[p]]

\* No unit of stock is lost or invented: decrements and increments of racing
\* orders and cancellations all count (unless an administrator overwrites).
StockLedger ==
  \A p \in Products \ Restockable : stock[p] = InitialStock[p] - SumFunction(Held(p))

\* checkStock runs outside the transaction, so stock can fall below zero, but
\* by no more than what the requests that passed the check together can take.
OversellBounded ==
  \A p \in Products \ Restockable :
    stock[p] >= - ((Cardinality(Requests) - 1) * MaxQty)

\* checkout empties a cart only when the order made of it is committed for the
\* same customer and the same items, and can be paid: offline, or by a stored
\* authority.
ClearedCartHasOrder ==
  \A r \in Requests : pc[r] = "clear" =>
    LET o == job[r].order IN
      /\ o \in Placed
      /\ order[o].user = job[r].user
      /\ order[o].items = job[r].items
      /\ order[o].method \in OnlineMethods => order[o].authority

-----------------------------------------------------------------------------
(* What the customer sees of it.                                            *)

Payment == INSTANCE OrderPayment WITH
  payment   <- [o \in OrderIds |-> IF o \in Placed THEN order[o].payment ELSE "NONE"],
  settled   <- {o \in OrderIds : gateway[o] = "settled"},
  announced <- told

\* All of checkout, verify, cancel and the administrator's writes together
\* keep the promise of OrderPayment.
ImplementsOrderPayment == Payment!Spec

-----------------------------------------------------------------------------
(* What the repository says of it and the interleavings refute.             *)

\* "Check stock": an order for more than there is, is refused
\* (orders.service.ts:54-57).
StockNeverNegative == \A p \in Products : stock[p] >= 0

\* "Return stock" (orders.service.ts:306): an order brings its stock back once.
StockReturnedOnce == \A o \in OrderIds : returned[o] <= 1

\* A paid order cannot be cancelled (orders.service.ts:300-303): the
\* transaction of cancel never finds a paid order.
CancelSparesPaid ==
  [][\A o \in OrderIds : returned'[o] # returned[o] => order[o].payment # "PAID"]_vars

\* The backend confirms the payment with the gateway and updates the order
\* (markdown/API_GUIDE.md:378): an order whose money is settled is not FAILED.
SettledIsNotFailed ==
  \A o \in OrderIds : ~(gateway[o] = "settled" /\ order[o].payment = "FAILED")

-----------------------------------------------------------------------------
(* What must happen.                                                        *)

\* Every handler ends: no branch waits for another request.
HandlersFinish == \A r \in Requests : pc[r] # "idle" ~> pc[r] = "idle"

\* A callback on its way to the gateway decides the payment, if the server
\* does not drop the request.
CallbackDecides ==
  \A r \in Requests, o \in OrderIds :
    (pc[r] \in {"verify", "fail", "mark"} /\ job[r].order = o)
      ~> order[o].payment # "UNPAID"
=============================================================================
