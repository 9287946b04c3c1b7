--------------------------- MODULE CheckoutProofs ---------------------------
(***************************************************************************)
(* Theorems of Checkout, for any number of requests, customers, products   *)
(* and orders: what becomes of payments, then of carts, order numbers and  *)
(* the stock, and what one request at a time would never do.               *)
(***************************************************************************)
EXTENDS Checkout, Sums

-----------------------------------------------------------------------------
(* The typing invariant.                                                    *)

\* Once its order is inserted, and in verify and cancel, a handler works on a
\* row that exists.
Working == {"request", "store", "clear", "reply", "verify", "fail", "mark", "cancel"}

WorksOnOrder == \A r \in Requests : pc[r] \in Working => job[r].order \in Placed

\* Nothing is written to a row before it is created.
AbsentRows ==
  \A o \in OrderIds \ Placed : order[o].payment = "UNPAID" /\ ~order[o].authority

Typed == TypeOK /\ WorksOnOrder /\ AbsentRows

\* Writes of one field keep a row and a job well typed.
LEMMA RowFields ==
  ASSUME NEW row \in Row
  PROVE  /\ \A s \in OrderStatus : [row EXCEPT !.status = s] \in Row
         /\ \A s \in PaymentStatus : [row EXCEPT !.payment = s] \in Row
         /\ [row EXCEPT !.payment = "PAID", !.status = "CONFIRMED"] \in Row
         /\ [row EXCEPT !.authority = TRUE] \in Row
  BY DEF Row, OrderStatus, PaymentStatus

\* The same for the local variables of a handler.
LEMMA JobFields ==
  ASSUME NEW j \in Job
  PROVE  /\ \A p \in Products : [j EXCEPT !.passed = @ \cup {p}] \in Job
         /\ \A d, n \in Nat : [j EXCEPT !.day = d, !.seq = n] \in Job
         /\ \A o \in OrderIds : [j EXCEPT !.order = o] \in Job
  BY DEF Job

\* An empty cart is a typed cart.
LEMMA NoItemsTyped == NoItems \in Quantities
  BY StockAssumption DEF NoItems, Quantities

\* The locals a handler starts with and is left with.
LEMMA NewJobs ==
  /\ NoJob \in Job
  /\ \A o \in OrderIds : [NoJob EXCEPT !.order = o] \in Job
  BY NoItemsTyped DEF NoJob, Job, PaymentMethod, OnlineMethods

\* generateOrderNumber's next number is a number.
LEMMA Counting ==
  /\ IsFiniteSet(Placed)
  /\ \A d : IsFiniteSet(CreatedOn(d)) /\ NextSeq(d) \in Nat
  BY FiniteAssumption, FS_Subset, FS_CardinalityType DEF Placed, CreatedOn, NextSeq

\* The row that create inserts has the columns of Order.
LEMMA NewRowTyped ==
  ASSUME TypeOK, NEW r \in Requests
  PROVE  NewRow(r) \in Row /\ NewRow(r).status # Absent
  BY DEF TypeOK, NewRow, Row, Job, OrderStatus, PaymentStatus, Absent

\* Ending a handler keeps its locals typed.
LEMMA FinishTyped ==
  ASSUME TypeOK, NEW r \in Requests, Finish(r)
  PROVE  /\ pc' \in [Requests -> Steps] /\ job' \in [Requests -> Job]
         /\ pc'[r] = "idle"
         /\ \A x \in Requests \ {r} : pc'[x] = pc[x] /\ job'[x] = job[x]
  BY NewJobs DEF TypeOK, Finish, Steps

\* So does going on to the next await.
LEMMA GotoTyped ==
  ASSUME TypeOK, NEW r \in Requests, NEW step \in Steps, Goto(r, step)
  PROVE  /\ pc' \in [Requests -> Steps]
         /\ pc'[r] = step
         /\ \A x \in Requests \ {r} : pc'[x] = pc[x]
  BY DEF TypeOK, Goto

\* The typing invariant holds of the empty shop.
LEMMA InitTyped == Init => Typed
<1> SUFFICES ASSUME Init PROVE Typed
  OBVIOUS
<1>1. NoRow \in Row
  BY NoItemsTyped DEF NoRow, Row, PaymentStatus, PaymentMethod, OnlineMethods
<1>2. TypeOK
  BY <1>1, NoItemsTyped, NewJobs, StockAssumption DEF Init, TypeOK, Steps, GatewayStates
<1>3. WorksOnOrder
  BY DEF Init, WorksOnOrder, Working
<1>4. AbsentRows
  BY DEF Init, AbsentRows, NoRow
<1>. QED
  BY <1>2, <1>3, <1>4 DEF Typed

\* Every step of every handler keeps it: one case per action.
LEMMA TypedStep == Typed /\ [Next]_vars => Typed'
<1> SUFFICES ASSUME Typed, [Next]_vars PROVE Typed'
  OBVIOUS
<1> USE NamesAssumption, FiniteAssumption, StockAssumption, ChoiceAssumption
    DEF Typed, TypeOK, WorksOnOrder, AbsentRows, Working, Placed, vars, db, world, handler, history
<1>1. ASSUME NEW r \in Requests, NEW p \in Products, CheckItem(r, p) PROVE Typed'
  <2>1. job' \in [Requests -> Job]
    <3>1. [job[r] EXCEPT !.passed = @ \cup {p}] \in Job
      BY JobFields
    <3>. QED
      BY <1>1, <3>1 DEF CheckItem
  <2>2. \A x \in Requests : job'[x].order = job[x].order
    BY <1>1 DEF CheckItem
  <2>. QED
    BY <1>1, <2>1, <2>2 DEF CheckItem
<1>2. ASSUME NEW r \in Requests, RefuseItem(r) PROVE Typed'
  BY <1>2, FinishTyped DEF RefuseItem
<1>3. ASSUME NEW r \in Requests, CountOrders(r) PROVE Typed'
  <2>1. job' \in [Requests -> Job]
    <3>1. [job[r] EXCEPT !.day = day, !.seq = NextSeq(day)] \in Job
      BY JobFields, Counting
    <3>. QED
      BY <1>3, <3>1 DEF CountOrders
  <2>2. pc' \in [Requests -> Steps] /\ pc'[r] = "insert"
    BY <1>3, GotoTyped DEF CountOrders, Steps
  <2>3. \A x \in Requests \ {r} : job'[x] = job[x] /\ pc'[x] = pc[x]
    BY <1>3, GotoTyped DEF CountOrders, Steps
  <2>. QED
    BY <1>3, <2>1, <2>2, <2>3 DEF CountOrders
<1>4. ASSUME NEW r \in Requests, NEW o \in OrderIds, InsertOrder(r, o) PROVE Typed'
  <2>1. order' \in [OrderIds -> Row] /\ order'[o].status # Absent
    BY <1>4, NewRowTyped DEF InsertOrder
  <2>2. \A x \in OrderIds \ {o} : order'[x] = order[x]
    BY <1>4 DEF InsertOrder
  <2>3. stock' \in [Products -> Int]
    <3>1. job[r].items \in [Products -> Int]
      BY DEF Job, Quantities
    <3>. QED
      BY <1>4, <3>1 DEF InsertOrder, StockAfterSale
  <2>4. job' \in [Requests -> Job] /\ job'[r].order = o
    <3>1. [job[r] EXCEPT !.order = o] \in Job
      BY JobFields
    <3>2. job[r] \in Job
      OBVIOUS
    <3>. QED
      BY <1>4, <3>1, <3>2 DEF InsertOrder, Job
  <2>5. pc' \in [Requests -> Steps]
    BY <1>4, GotoTyped DEF InsertOrder, Steps
  <2>6. \A x \in Requests \ {r} : job'[x] = job[x] /\ pc'[x] = pc[x]
    BY <1>4, GotoTyped DEF InsertOrder, Steps
  <2>. QED
    BY <1>4, <2>1, <2>2, <2>3, <2>4, <2>5, <2>6 DEF InsertOrder
<1>5. ASSUME NEW r \in Requests, RefuseNumber(r) PROVE Typed'
  BY <1>5, FinishTyped DEF RefuseNumber
<1>6. ASSUME NEW r \in Requests, RequestPayment(r) PROVE Typed'
  <2>1. gateway' \in [OrderIds -> GatewayStates]
    BY <1>6 DEF RequestPayment, GatewayStates
  <2>. QED
    BY <1>6, <2>1, GotoTyped DEF RequestPayment, Steps
<1>7. ASSUME NEW r \in Requests, RequestFails(r) PROVE Typed'
  BY <1>7, FinishTyped DEF RequestFails
<1>8. ASSUME NEW r \in Requests, StoreAuthority(r) PROVE Typed'
  <2>1. order' \in [OrderIds -> Row]
    BY <1>8, RowFields DEF StoreAuthority
  <2>2. \A x \in OrderIds : order'[x].status = order[x].status
    BY <1>8 DEF StoreAuthority, Row
  <2>3. pc' \in [Requests -> Steps]
    BY <1>8, GotoTyped DEF StoreAuthority, Steps
  <2>. QED
    BY <1>8, <2>1, <2>2, <2>3, GotoTyped DEF StoreAuthority, Steps
<1>9. ASSUME NEW r \in Requests, ClearCart(r) PROVE Typed'
  <2>1. cart' \in [Users -> Quantities]
    BY <1>9, NoItemsTyped DEF ClearCart
  <2>2. pc' \in [Requests -> Steps]
    BY <1>9, GotoTyped DEF ClearCart, Steps
  <2>. QED
    BY <1>9, <2>1, <2>2, GotoTyped DEF ClearCart, Steps
<1>10. ASSUME NEW r \in Requests, Reply(r) PROVE Typed'
  BY <1>10, FinishTyped DEF Reply
<1>11. ASSUME NEW r \in Requests, GatewayAccepts(r) PROVE Typed'
  <2>1. gateway' \in [OrderIds -> GatewayStates]
    BY <1>11 DEF GatewayAccepts, GatewayStates
  <2>. QED
    BY <1>11, <2>1, GotoTyped DEF GatewayAccepts, Steps
<1>12. ASSUME NEW r \in Requests, GatewayRefuses(r) PROVE Typed'
  BY <1>12, GotoTyped DEF GatewayRefuses, Steps
<1>13. ASSUME NEW r \in Requests, GatewayUnreachable(r) PROVE Typed'
  <2>1. gateway' \in [OrderIds -> GatewayStates]
    BY <1>13 DEF GatewayUnreachable, GatewayStates
  <2>2. pc' \in [Requests -> Steps]
    BY <1>13, GotoTyped DEF GatewayUnreachable, Steps
  <2>. QED
    BY <1>13, <2>1, <2>2, GotoTyped DEF GatewayUnreachable, Steps
<1>14. ASSUME NEW r \in Requests, MarkFailed(r) PROVE Typed'
  <2>1. order' \in [OrderIds -> Row]
    BY <1>14, RowFields DEF MarkFailed, PaymentStatus
  <2>2. \A x \in OrderIds : order'[x].status = order[x].status
    BY <1>14 DEF MarkFailed, Row
  <2>3. pc' \in [Requests -> Steps] /\ job' \in [Requests -> Job]
    BY <1>14, FinishTyped DEF MarkFailed, Steps
  <2>4. pc'[r] = "idle"
    BY <1>14, FinishTyped DEF MarkFailed
  <2>. QED
    BY <1>14, <2>1, <2>2, <2>3, <2>4, FinishTyped DEF MarkFailed
<1>15. ASSUME NEW r \in Requests, MarkPaid(r) PROVE Typed'
  <2>1. order' \in [OrderIds -> Row]
    BY <1>15, RowFields DEF MarkPaid
  <2>2. \A x \in OrderIds : order[x].status # Absent => order'[x].status # Absent
    BY <1>15 DEF MarkPaid, Row, Absent
  <2>3. pc' \in [Requests -> Steps] /\ job' \in [Requests -> Job]
    BY <1>15, FinishTyped DEF MarkPaid, Steps
  <2>4. pc'[r] = "idle"
    BY <1>15, FinishTyped DEF MarkPaid
  <2>5. told' \subseteq OrderIds
    BY <1>15 DEF MarkPaid
  <2>. QED
    BY <1>15, <2>1, <2>2, <2>3, <2>4, <2>5, FinishTyped DEF MarkPaid
<1>16. ASSUME NEW r \in Requests, AlreadyDecided(r) PROVE Typed'
  BY <1>16, FinishTyped DEF AlreadyDecided
<1>17. ASSUME NEW r \in Requests, CommitCancel(r) PROVE Typed'
  <2> DEFINE o == job[r].order
  <2>1. o \in OrderIds
    BY <1>17 DEF CommitCancel
  <2>2. order' \in [OrderIds -> Row]
    BY <1>17, <2>1, RowFields DEF CommitCancel, OrderStatus
  <2>3. \A x \in OrderIds : order[x].status # Absent => order'[x].status # Absent
    BY <1>17 DEF CommitCancel, Row, Absent
  <2>4. pc' \in [Requests -> Steps] /\ job' \in [Requests -> Job]
    BY <1>17, FinishTyped DEF CommitCancel, Steps
  <2>5. pc'[r] = "idle"
    BY <1>17, FinishTyped DEF CommitCancel
  <2>6. stock' \in [Products -> Int]
    <3>1. order[o].items \in [Products -> Int]
      BY <2>1 DEF Row, Quantities
    <3>. QED
      BY <1>17, <3>1 DEF CommitCancel, StockAfterReturn
  <2>7. returned' \in [OrderIds -> Nat]
    BY <1>17 DEF CommitCancel
  <2>. QED
    BY <1>17, <2>2, <2>3, <2>4, <2>5, <2>6, <2>7, FinishTyped DEF CommitCancel
<1>18. ASSUME NEW r \in Requests, Abort(r) PROVE Typed'
  BY <1>18, FinishTyped DEF Abort
<1>19. ASSUME NEW r \in Requests, NEW u \in Users, NEW m \in Methods, StartCheckout(r, u, m) PROVE Typed'
  <2>1. [NoJob EXCEPT !.user = u, !.items = cart[u], !.method = m] \in Job
    BY NoItemsTyped DEF NoJob, Job
  <2>. QED
    BY <1>19, <2>1, GotoTyped DEF StartCheckout, Steps
<1>20. ASSUME NEW r \in Requests, NEW o \in OrderIds, VerifyPaidOrder(r, o) PROVE Typed'
  BY <1>20 DEF VerifyPaidOrder
<1>21. ASSUME NEW r \in Requests, NEW o \in OrderIds, StartVerify(r, o) PROVE Typed'
  <2>1. job' \in [Requests -> Job]
    BY <1>21, NewJobs DEF StartVerify
  <2>2. pc' \in [Requests -> Steps]
    BY <1>21, GotoTyped DEF StartVerify, Steps
  <2>3. job'[r].order = o
    BY <1>21 DEF StartVerify, NoJob
  <2>4. order[o].status # Absent
    BY <1>21 DEF StartVerify
  <2>. QED
    BY <1>21, <2>1, <2>2, <2>3, <2>4, GotoTyped DEF StartVerify, Steps
<1>22. ASSUME NEW r \in Requests, NEW o \in OrderIds, StartCancel(r, o) PROVE Typed'
  <2>1. job' \in [Requests -> Job]
    BY <1>22, NewJobs DEF StartCancel
  <2>2. pc' \in [Requests -> Steps]
    BY <1>22, GotoTyped DEF StartCancel, Steps
  <2>3. job'[r].order = o
    BY <1>22 DEF StartCancel, NoJob
  <2>. QED
    BY <1>22, <2>1, <2>2, <2>3, GotoTyped DEF StartCancel, Steps
<1>23. ASSUME NEW o \in OrderIds, NEW s \in AdminStatuses, UpdateStatus(o, s) PROVE Typed'
  <2>1. order' \in [OrderIds -> Row]
    BY <1>23, RowFields DEF UpdateStatus
  <2>2. \A x \in OrderIds : order[x].status # Absent => order'[x].status # Absent
    BY <1>23 DEF UpdateStatus, OrderStatus, Absent, Row
  <2>. QED
    BY <1>23, <2>1, <2>2 DEF UpdateStatus
<1>24. ASSUME NEW p \in Restockable, NEW n \in StockLevels, UpdateStock(p, n) PROVE Typed'
  BY <1>24 DEF UpdateStock
<1>25. ASSUME NEW u \in Users, NEW p \in Products, NEW q \in CartQuantities, ChangeCart(u, p, q) PROVE Typed'
  <2>1. cart' \in [Users -> Quantities]
    BY <1>25 DEF ChangeCart, Quantities
  <2>. QED
    BY <1>25, <2>1 DEF ChangeCart
<1>26. ASSUME NEW o \in OrderIds, ReadOrder(o) PROVE Typed'
  BY <1>26 DEF ReadOrder
<1>27. ASSUME NEW o \in OrderIds, CustomerPays(o) PROVE Typed'
  <2>1. gateway' \in [OrderIds -> GatewayStates]
    BY <1>27 DEF CustomerPays, GatewayStates
  <2>. QED
    BY <1>27, <2>1 DEF CustomerPays
<1>28. ASSUME Midnight PROVE Typed'
  BY <1>28 DEF Midnight
<1>29. CASE UNCHANGED vars
  BY <1>29
<1>. QED
  BY <1>1, <1>2, <1>3, <1>4, <1>5, <1>6, <1>7, <1>8, <1>9, <1>10, <1>11, <1>12, <1>13, <1>14,
     <1>15, <1>16, <1>17, <1>18, <1>19, <1>20, <1>21, <1>22, <1>23, <1>24, <1>25, <1>26, <1>27,
     <1>28, <1>29 DEF Next, Arrival, HandlerStep, CheckoutStep, VerifyStep, Environment
-----------------------------------------------------------------------------
(* What no step does to a row.                                              *)

\* What a step leaves of a row: the decided payment, the stored authority and
\* everything the insert wrote but the status.
RowKept(o) ==
  /\ o \in Placed => o \in Placed'
  /\ order[o].payment # "UNPAID" => order'[o].payment = order[o].payment
  /\ order[o].authority => order'[o].authority
  /\ o \in Placed => /\ order'[o].user = order[o].user
                     /\ order'[o].items = order[o].items
                     /\ order'[o].method = order[o].method

\* Only six actions write rows.
RowsKept == \A o \in OrderIds : RowKept(o)

\* No step overwrites what a row has decided.
LEMMA RowsStep == Typed /\ [Next]_vars => RowsKept
<1> SUFFICES ASSUME Typed, [Next]_vars PROVE RowsKept
  OBVIOUS
<1> USE DEF RowsKept, RowKept, Typed, TypeOK, Placed
<1>1. CASE UNCHANGED order
  BY <1>1
<1>2. ASSUME NEW r \in Requests, NEW o \in OrderIds, InsertOrder(r, o) PROVE RowsKept
  <2>1. \A x \in OrderIds \ {o} : order'[x] = order[x]
    BY <1>2 DEF InsertOrder
  <2>2. order[o].payment = "UNPAID" /\ ~order[o].authority
    BY <1>2 DEF InsertOrder, AbsentRows
  <2>3. o \notin Placed /\ order'[o] = NewRow(r)
    BY <1>2 DEF InsertOrder
  <2>. QED
    BY <2>1, <2>2, <2>3
<1>3. ASSUME NEW r \in Requests, StoreAuthority(r) PROVE RowsKept
  BY <1>3 DEF StoreAuthority, Row
<1>4. ASSUME NEW r \in Requests, MarkFailed(r) PROVE RowsKept
  BY <1>4 DEF MarkFailed, Row
<1>5. ASSUME NEW r \in Requests, MarkPaid(r) PROVE RowsKept
  BY <1>5 DEF MarkPaid, Row, Absent
<1>6. ASSUME NEW r \in Requests, CommitCancel(r) PROVE RowsKept
  BY <1>6 DEF CommitCancel, Row, Absent
<1>7. ASSUME NEW o \in OrderIds, NEW s \in AdminStatuses, UpdateStatus(o, s) PROVE RowsKept
  BY <1>7, ChoiceAssumption DEF UpdateStatus, Row, Absent, OrderStatus
<1>. QED
  BY <1>1, <1>2, <1>3, <1>4, <1>5, <1>6, <1>7
  DEF Next, Arrival, HandlerStep, CheckoutStep, VerifyStep, Environment, vars, db,
      CheckItem, RefuseItem, CountOrders, RefuseNumber, RequestPayment, RequestFails,
      ClearCart, Reply, GatewayAccepts, GatewayRefuses, GatewayUnreachable,
      AlreadyDecided, Abort, StartCheckout, VerifyPaidOrder, StartVerify, StartCancel,
      UpdateStock, ChangeCart, ReadOrder, CustomerPays, Midnight

-----------------------------------------------------------------------------
(* Money: the inductive invariant behind the payment properties.            *)

\* A request between its insert and the storing of its authority is alone on
\* its order, which nobody else can have an authority for.
Fresh == {"request", "store"}

FreshOrders ==
  \A r \in Requests : pc[r] \in Fresh =>
    /\ ~order[job[r].order].authority
    /\ \A x \in Requests \ {r} : pc[x] \in Fresh => job[x].order # job[r].order

\* An order's authority is stored before anybody learns it, and known before
\* anybody pays.
AuthorityFirst ==
  /\ \A r \in Requests :
       pc[r] \in {"clear", "reply"} /\ job[r].method \in OnlineMethods
         => order[job[r].order].authority
  /\ \A o \in known : order[o].authority
  /\ \A o \in OrderIds : gateway[o] \in {"paid", "settled"} => o \in known

\* A handler about to mark an order paid has seen the gateway settle it.
MarkedAfterSettled ==
  \A r \in Requests : pc[r] = "mark" => gateway[job[r].order] = "settled"

Money ==
  /\ FreshOrders
  /\ AuthorityFirst
  /\ MarkedAfterSettled
  /\ PaidMeansSettled
  /\ VerifyAnswerTruthful

\* No order, no money.
LEMMA InitMoney == Init => Money
  BY DEF Init, Money, FreshOrders, Fresh, AuthorityFirst, MarkedAfterSettled,
         PaidMeansSettled, VerifyAnswerTruthful, NoRow

\* Every step keeps what is known of payments: the gateway's steps and
\* verifyPayment's are the ones that matter.
LEMMA MoneyStep == Typed /\ Money /\ [Next]_vars => Money'
<1> SUFFICES ASSUME Typed, Money, [Next]_vars PROVE Money'
  OBVIOUS
<1>0. RowsKept /\ Typed'
  BY RowsStep, TypedStep
<1> USE DEF Money, FreshOrders, Fresh, AuthorityFirst, MarkedAfterSettled,
            PaidMeansSettled, VerifyAnswerTruthful, RowsKept, RowKept, Typed, TypeOK,
            vars, db, world, handler, history
<1>1. ASSUME NEW r \in Requests, NEW o \in OrderIds, InsertOrder(r, o) PROVE Money'
  <2>1. \A x \in OrderIds \ {o} : order'[x] = order[x]
    BY <1>1 DEF InsertOrder
  <2>2. ~order'[o].authority /\ order'[o].payment = "UNPAID" /\ ~order[o].authority
    BY <1>1, <1>0 DEF InsertOrder, NewRow, AbsentRows
  <2>3. \A x \in Requests \ {r} : pc[x] \in Working => job[x].order \in OrderIds \ {o}
    BY <1>1 DEF InsertOrder, WorksOnOrder, Placed
  <2>4. job'[r].order = o /\ job'[r].method = job[r].method
    BY <1>1 DEF InsertOrder, Job
  <2>5. \A x \in Requests \ {r} : job'[x] = job[x] /\ pc'[x] = pc[x]
    BY <1>1 DEF InsertOrder, Goto
  <2>6. /\ pc'[r] \in {"clear", "request"}
        /\ pc'[r] = "clear" => job'[r].method \notin OnlineMethods
    BY <1>1, <2>4 DEF InsertOrder, Goto, OnlineMethods, OfflineMethods
  <2>7. UNCHANGED <<gateway, known, told>>
    BY <1>1 DEF InsertOrder
  <2>8. FreshOrders'
    BY <2>1, <2>2, <2>3, <2>4, <2>5, <2>6 DEF Working
  <2>9. AuthorityFirst'
    BY <2>1, <2>3, <2>5, <2>6, <2>7, <2>2 DEF Working
  <2>10. MarkedAfterSettled'
    BY <2>5, <2>6, <2>7
  <2>11. PaidMeansSettled'
    BY <2>1, <2>2, <2>7
  <2>12. VerifyAnswerTruthful'
    BY <1>0, <2>7
  <2>. QED
    BY <2>8, <2>9, <2>10, <2>11, <2>12
<1>2. ASSUME NEW r \in Requests, RequestPayment(r) PROVE Money'
  BY <1>0, <1>2 DEF RequestPayment, Goto, Finish
<1>3. ASSUME NEW r \in Requests, StoreAuthority(r) PROVE Money'
  BY <1>0, <1>3 DEF StoreAuthority, Goto, Finish
<1>4. ASSUME NEW r \in Requests, ClearCart(r) PROVE Money'
  BY <1>0, <1>4 DEF ClearCart, Goto, Finish
<1>5. ASSUME NEW r \in Requests, Reply(r) PROVE Money'
  BY <1>0, <1>5 DEF Reply, Goto, Finish
<1>6. ASSUME NEW r \in Requests, GatewayAccepts(r) PROVE Money'
  BY <1>0, <1>6 DEF GatewayAccepts, Goto, Finish
<1>7. ASSUME NEW r \in Requests, GatewayRefuses(r) PROVE Money'
  BY <1>0, <1>7 DEF GatewayRefuses, Goto, Finish
<1>8. ASSUME NEW r \in Requests, GatewayUnreachable(r) PROVE Money'
  <2>1. /\ \A x \in OrderIds : gateway'[x] # gateway[x]
             => gateway[x] = "paid" /\ gateway'[x] = "settled"
        /\ UNCHANGED <<order, known, told, job>>
    BY <1>8 DEF GatewayUnreachable
  <2>2. /\ pc'[r] = "fail"
        /\ \A x \in Requests \ {r} : pc'[x] = pc[x]
    BY <1>8 DEF GatewayUnreachable, Goto
  <2>3. \A x \in Requests : pc[x] \in Working => job[x].order \in OrderIds
    BY DEF WorksOnOrder, Placed
  <2>. QED
    BY <2>1, <2>2, <2>3 DEF Working
<1>9. ASSUME NEW r \in Requests, MarkFailed(r) PROVE Money'
  BY <1>0, <1>9 DEF MarkFailed, Goto, Finish
<1>10. ASSUME NEW r \in Requests, MarkPaid(r) PROVE Money'
  <2> DEFINE o == job[r].order
  <2>1. o \in OrderIds /\ order'[o].payment = "PAID" /\ gateway[o] = "settled"
    BY <1>10 DEF MarkPaid, WorksOnOrder, Working, Placed, Row
  <2>2. \A x \in OrderIds \ {o} : order'[x] = order[x]
    BY <1>10 DEF MarkPaid
  <2>3. \A x \in OrderIds : order'[x].authority = order[x].authority
    BY <1>10 DEF MarkPaid, Row
  <2>4. told' = told \cup {o} /\ UNCHANGED <<gateway, known>>
    BY <1>10 DEF MarkPaid
  <2>5. /\ pc'[r] = "idle"
        /\ \A x \in Requests \ {r} : pc'[x] = pc[x] /\ job'[x] = job[x]
    BY <1>10, FinishTyped DEF MarkPaid
  <2>6. \A x \in Requests : pc[x] \in Working => job[x].order \in OrderIds
    BY DEF WorksOnOrder, Placed
  <2>7. FreshOrders'
    BY <2>3, <2>5, <2>6 DEF Working
  <2>8. AuthorityFirst'
    BY <2>3, <2>4, <2>5, <2>6 DEF Working
  <2>9. MarkedAfterSettled'
    BY <2>4, <2>5
  <2>10. PaidMeansSettled' /\ VerifyAnswerTruthful'
    BY <1>0, <2>1, <2>2, <2>4
  <2>. QED
    BY <2>7, <2>8, <2>9, <2>10
<1>11. ASSUME NEW r \in Requests, AlreadyDecided(r) PROVE Money'
  BY <1>0, <1>11 DEF AlreadyDecided, Goto, Finish
<1>12. ASSUME NEW r \in Requests, CommitCancel(r) PROVE Money'
  BY <1>0, <1>12 DEF CommitCancel, Goto, Finish
<1>13. ASSUME NEW r \in Requests, NEW o \in OrderIds, VerifyPaidOrder(r, o) PROVE Money'
  BY <1>0, <1>13 DEF VerifyPaidOrder, Goto, Finish
<1>14. ASSUME NEW r \in Requests, NEW o \in OrderIds, StartVerify(r, o) PROVE Money'
  BY <1>0, <1>14 DEF StartVerify, Goto, Finish
<1>15. ASSUME NEW o \in OrderIds, ReadOrder(o) PROVE Money'
  BY <1>0, <1>15 DEF ReadOrder, Goto, Finish
<1>16. ASSUME NEW o \in OrderIds, CustomerPays(o) PROVE Money'
  BY <1>0, <1>16 DEF CustomerPays, Goto, Finish
<1>17. ASSUME NEW o \in OrderIds, NEW s \in AdminStatuses, UpdateStatus(o, s) PROVE Money'
  BY <1>0, <1>17 DEF UpdateStatus, Goto, Finish
<1>18. ASSUME NEW r \in Requests, NEW p \in Products, CheckItem(r, p) PROVE Money'
  BY <1>0, <1>18 DEF CheckItem, Goto, Finish
<1>19. ASSUME NEW r \in Requests, RefuseItem(r) PROVE Money'
  BY <1>0, <1>19 DEF RefuseItem, Goto, Finish
<1>20. ASSUME NEW r \in Requests, CountOrders(r) PROVE Money'
  BY <1>0, <1>20 DEF CountOrders, Goto, Finish
<1>21. ASSUME NEW r \in Requests, RefuseNumber(r) PROVE Money'
  BY <1>0, <1>21 DEF RefuseNumber, Goto, Finish
<1>22. ASSUME NEW r \in Requests, RequestFails(r) PROVE Money'
  BY <1>0, <1>22 DEF RequestFails, Goto, Finish
<1>23. ASSUME NEW r \in Requests, Abort(r) PROVE Money'
  BY <1>0, <1>23 DEF Abort, Goto, Finish
<1>24. ASSUME NEW r \in Requests, NEW u \in Users, NEW m \in Methods, StartCheckout(r, u, m) PROVE Money'
  BY <1>0, <1>24 DEF StartCheckout, Goto, Finish
<1>25. ASSUME NEW r \in Requests, NEW o \in OrderIds, StartCancel(r, o) PROVE Money'
  BY <1>0, <1>25 DEF StartCancel, Goto, Finish
<1>26. ASSUME NEW p \in Restockable, NEW n \in StockLevels, UpdateStock(p, n) PROVE Money'
  BY <1>0, <1>26 DEF UpdateStock, Goto, Finish
<1>27. ASSUME NEW u \in Users, NEW p \in Products, NEW q \in CartQuantities, ChangeCart(u, p, q) PROVE Money'
  BY <1>0, <1>27 DEF ChangeCart, Goto, Finish
<1>28. ASSUME Midnight PROVE Money'
  BY <1>0, <1>28 DEF Midnight, Goto, Finish
<1>29. CASE UNCHANGED vars
  BY <1>29
<1>. QED
  BY <1>1, <1>2, <1>3, <1>4, <1>5, <1>6, <1>7, <1>8, <1>9, <1>10, <1>11, <1>12, <1>13, <1>14,
     <1>15, <1>16, <1>17, <1>18, <1>19, <1>20, <1>21, <1>22, <1>23, <1>24, <1>25, <1>26, <1>27,
     <1>28, <1>29 DEF Next, Arrival, HandlerStep, CheckoutStep, VerifyStep, Environment

-----------------------------------------------------------------------------
(* Checkout implements OrderPayment, step by step.                          *)

\* The payment as OrderPayment sees it.
PaymentOf == [o \in OrderIds |-> IF o \in Placed THEN order[o].payment ELSE "NONE"]
Settled == {o \in OrderIds : gateway[o] = "settled"}

\* Steps that decide, settle and announce nothing.
LEMMA Unseen ==
  ASSUME Typed,
         UNCHANGED <<gateway, told>>,
         \A o \in OrderIds : /\ o \in Placed <=> o \in Placed'
                             /\ order'[o].payment = order[o].payment
  PROVE  UNCHANGED Payment!vars
  BY DEF Payment!vars

\* An empty shop is a shop without payments.
LEMMA InitImplements == Init => Payment!Init
  BY DEF Init, Payment!Init, Placed, NoRow, GatewayStates

\* A step of a handler is a step of OrderPayment on one order, or invisible to it.
LEMMA StepImplements == Typed /\ Money /\ [Next]_vars => [Payment!Next]_(Payment!vars)
<1> SUFFICES ASSUME Typed, Money, [Next]_vars
             PROVE  [Payment!Next]_(Payment!vars)
  OBVIOUS
<1>0. RowsKept
  BY RowsStep
<1> USE DEF Typed, TypeOK
<1>1. CASE UNCHANGED <<order, gateway, told>>
  BY <1>1, Unseen DEF Placed
<1>2. ASSUME NEW r \in Requests, NEW o \in OrderIds, InsertOrder(r, o) PROVE [Payment!Next]_(Payment!vars)
  <2>1. o \notin Placed /\ o \in Placed' /\ order'[o].payment = "UNPAID"
    BY <1>2, NewRowTyped DEF InsertOrder, NewRow, Placed
  <2>2. \A x \in OrderIds \ {o} : order'[x] = order[x] /\ (x \in Placed <=> x \in Placed')
    BY <1>2 DEF InsertOrder, Placed
  <2>3. UNCHANGED <<gateway, told>>
    BY <1>2 DEF InsertOrder, world, history
  <2>. QED
    BY <2>1, <2>2, <2>3 DEF Payment!Next, Payment!Place
<1>3. ASSUME NEW r \in Requests, GatewayAccepts(r) PROVE [Payment!Next]_(Payment!vars)
  <2>1. job[r].order \in Placed /\ job[r].order \in OrderIds
    BY <1>3 DEF GatewayAccepts, WorksOnOrder, Working, Placed
  <2>2. UNCHANGED <<order, told>>
    BY <1>3 DEF GatewayAccepts, db, history
  <2>3. Settled' = Settled \cup {job[r].order}
    BY <1>3, <2>1 DEF GatewayAccepts, Settled
  <2>. QED
    BY <2>1, <2>2, <2>3 DEF Payment!Next, Payment!Settle, Settled, Placed, Row, PaymentStatus
<1>4. ASSUME NEW r \in Requests, GatewayUnreachable(r)
      PROVE  [Payment!Next]_(Payment!vars)
  <2>1. job[r].order \in Placed /\ job[r].order \in OrderIds
    BY <1>4 DEF GatewayUnreachable, WorksOnOrder, Working, Placed
  <2>2. UNCHANGED <<order, told>>
    BY <1>4 DEF GatewayUnreachable, db, history
  <2>3. CASE UNCHANGED gateway
    BY <2>2, <2>3, Unseen DEF Placed
  <2>4. CASE ~UNCHANGED gateway
    <3>1. Settled' = Settled \cup {job[r].order}
      BY <1>4, <2>1, <2>4 DEF GatewayUnreachable, Settled
    <3>. QED
      BY <2>1, <2>2, <3>1 DEF Payment!Next, Payment!Settle, Settled, Placed, Row, PaymentStatus
  <2>. QED
    BY <2>3, <2>4
<1>5. ASSUME NEW r \in Requests, MarkFailed(r)
      PROVE  [Payment!Next]_(Payment!vars)
  <2> DEFINE o == job[r].order
  <2>1. o \in Placed /\ o \in OrderIds
    BY <1>5 DEF MarkFailed, WorksOnOrder, Working, Placed
  <2>2. UNCHANGED <<gateway, told>> /\ Placed' = Placed
    BY <1>5 DEF MarkFailed, world, history, Placed, Row
  <2>3. CASE order[o].payment # "UNPAID"
    BY <1>5, <2>2, <2>3, Unseen DEF MarkFailed
  <2>4. CASE order[o].payment = "UNPAID"
    <3>1. \A x \in OrderIds : order'[x].payment = IF x = o THEN "FAILED" ELSE order[x].payment
      BY <1>5, <2>4 DEF MarkFailed, Row
    <3>. QED
      BY <2>1, <2>2, <2>4, <3>1 DEF Payment!Next, Payment!Decline
  <2>. QED
    BY <2>3, <2>4
<1>6. ASSUME NEW r \in Requests, MarkPaid(r) PROVE [Payment!Next]_(Payment!vars)
  <2> DEFINE o == job[r].order
  <2>1. o \in Placed /\ o \in OrderIds /\ order[o].payment = "UNPAID"
    BY <1>6 DEF MarkPaid, WorksOnOrder, Working, Placed
  <2>2. UNCHANGED gateway /\ Placed' = Placed /\ told' = told \cup {o}
    BY <1>6, <2>1 DEF MarkPaid, world, Placed, Row, Absent
  <2>3. \A x \in OrderIds : order'[x].payment = IF x = o THEN "PAID" ELSE order[x].payment
    BY <1>6 DEF MarkPaid, Row
  <2>4. gateway[o] = "settled"
    BY <1>6 DEF MarkPaid, Money, MarkedAfterSettled
  <2>. QED
    BY <2>1, <2>2, <2>3, <2>4 DEF Payment!Next, Payment!Confirm
<1>7. ASSUME NEW o \in OrderIds, order[o].payment = "PAID", told' = told \cup {o},
             UNCHANGED <<order, gateway>>
      PROVE  Payment!Announce(o)
  BY <1>7 DEF Payment!Announce, AbsentRows, Placed
<1>8. ASSUME NEW r \in Requests, AlreadyDecided(r)
      PROVE  [Payment!Next]_(Payment!vars)
  <2>1. job[r].order \in OrderIds /\ UNCHANGED <<order, gateway>>
    BY <1>8 DEF AlreadyDecided, WorksOnOrder, Working, Placed, db, world
  <2>2. CASE order[job[r].order].payment = "PAID"
    <3>1. told' = told \cup {job[r].order}
      BY <1>8, <2>2 DEF AlreadyDecided
    <3>. QED
      BY <1>7, <2>1, <2>2, <3>1 DEF Payment!Next
  <2>3. CASE order[job[r].order].payment # "PAID"
    <3>1. told' = told
      BY <1>8, <2>3 DEF AlreadyDecided
    <3>. QED
      BY <2>1, <3>1, Unseen DEF Placed
  <2>. QED
    BY <2>2, <2>3
<1>9. ASSUME NEW r \in Requests, NEW o \in OrderIds, VerifyPaidOrder(r, o)
      PROVE  [Payment!Next]_(Payment!vars)
  BY <1>7, <1>9 DEF VerifyPaidOrder, db, world, Payment!Next
<1>10. ASSUME NEW r \in Requests, StoreAuthority(r) \/ CommitCancel(r)
       PROVE  UNCHANGED Payment!vars
  <2>1. /\ UNCHANGED <<gateway, told>>
        /\ \A o \in OrderIds : order'[o].payment = order[o].payment
    BY <1>10 DEF StoreAuthority, CommitCancel, world, history, Row
  <2>2. \A o \in OrderIds : o \in Placed <=> o \in Placed'
    <3>1. CASE StoreAuthority(r)
      BY <3>1 DEF StoreAuthority, Placed, Row
    <3>2. CASE CommitCancel(r)
      BY <3>2 DEF CommitCancel, WorksOnOrder, Working, Placed, Row, Absent
    <3>. QED
      BY <1>10, <3>1, <3>2
  <2>. QED
    BY <2>1, <2>2, Unseen
<1>11. ASSUME NEW o \in OrderIds, NEW s \in AdminStatuses, UpdateStatus(o, s)
       PROVE  UNCHANGED Payment!vars
  <2>1. /\ UNCHANGED <<gateway, told>>
        /\ \A x \in OrderIds : order'[x].payment = order[x].payment
    BY <1>11 DEF UpdateStatus, world, history, Row
  <2>2. \A x \in OrderIds : x \in Placed <=> x \in Placed'
    BY <1>11, ChoiceAssumption DEF UpdateStatus, Placed, Row, Absent, OrderStatus
  <2>. QED
    BY <2>1, <2>2, Unseen
<1>12. ASSUME NEW r \in Requests, RequestPayment(r) PROVE UNCHANGED Payment!vars
  <2>1. Settled' = Settled
    BY <1>12 DEF RequestPayment, Money, FreshOrders, Fresh, AuthorityFirst, Settled
  <2>. QED
    BY <1>12, <2>1 DEF RequestPayment, db, history, Settled, Payment!vars, Placed
<1>13. ASSUME NEW o \in OrderIds, CustomerPays(o) PROVE UNCHANGED Payment!vars
  <2>1. Settled' = Settled
    BY <1>13 DEF CustomerPays, Settled
  <2>. QED
    BY <1>13, <2>1 DEF CustomerPays, db, history, Settled, Payment!vars, Placed
<1>14. ASSUME NEW r \in Requests,
              \/ \E p \in Products : CheckItem(r, p)
              \/ RefuseItem(r) \/ CountOrders(r) \/ RefuseNumber(r) \/ RequestFails(r)
              \/ ClearCart(r) \/ Reply(r) \/ GatewayRefuses(r) \/ Abort(r)
              \/ \E u \in Users, m \in Methods : StartCheckout(r, u, m)
              \/ \E o \in OrderIds : StartVerify(r, o) \/ StartCancel(r, o)
       PROVE  UNCHANGED <<order, gateway, told>>
  BY <1>14 DEF CheckItem, RefuseItem, CountOrders, RefuseNumber, RequestFails, ClearCart,
               Reply, GatewayRefuses, Abort, StartCheckout, StartVerify, StartCancel,
               db, world, history
<1>15. ASSUME \/ \E p \in Restockable, n \in StockLevels : UpdateStock(p, n)
              \/ \E u \in Users, p \in Products, q \in CartQuantities : ChangeCart(u, p, q)
              \/ \E o \in OrderIds : ReadOrder(o)
              \/ Midnight
       PROVE  UNCHANGED <<order, gateway, told>>
  BY <1>15 DEF UpdateStock, ChangeCart, ReadOrder, Midnight, db, world, history
<1>16. CASE UNCHANGED vars
  BY <1>1, <1>16 DEF vars, db, world, history
<1>17. ASSUME NEW r \in Requests, HandlerStep(r) PROVE [Payment!Next]_(Payment!vars)
  BY <1>1, <1>2, <1>3, <1>4, <1>5, <1>6, <1>8, <1>10, <1>12, <1>14, <1>17
  DEF HandlerStep, CheckoutStep, VerifyStep
<1>18. ASSUME NEW r \in Requests, Arrival(r) \/ Abort(r)
       PROVE  [Payment!Next]_(Payment!vars)
  BY <1>1, <1>9, <1>14, <1>18 DEF Arrival
<1>19. ASSUME Environment PROVE [Payment!Next]_(Payment!vars)
  BY <1>1, <1>11, <1>13, <1>15, <1>19 DEF Environment
<1>. QED
  BY <1>16, <1>17, <1>18, <1>19 DEF Next

-----------------------------------------------------------------------------
(* The theorems.                                                            *)

\* Both invariants together hold throughout.
THEOREM Inductive == Spec => [](Typed /\ Money)
<1>1. Init => Typed /\ Money
  BY InitTyped, InitMoney
<1>2. Typed /\ Money /\ [Next]_vars => (Typed /\ Money)'
  BY TypedStep, MoneyStep
<1>. QED
  BY <1>1, <1>2, PTL DEF Spec

\* Every variable keeps its type, in particular the rows of the Order table and
\* the locals of every handler.
THEOREM TypeCorrect == Spec => []TypeOK
<1>1. Typed => TypeOK
  BY DEF Typed
<1>. QED
  BY <1>1, Inductive, PTL

\* verifyPayment marks an order PAID only with its money settled, whichever
\* callbacks, answers and restarts interleave.
THEOREM PaidIsSettled == Spec => []PaidMeansSettled
<1>1. Money => PaidMeansSettled
  BY DEF Money
<1>. QED
  BY <1>1, Inductive, PTL

\* A payment at the gateway belongs to an order that its authority finds.
THEOREM MoneyIsFindable == Spec => []MoneyFindable
<1>1. Typed /\ Money => MoneyFindable
  BY DEF Typed, AbsentRows, Money, AuthorityFirst, MoneyFindable
<1>. QED
  BY <1>1, Inductive, PTL

\* A success answer of verifyPayment is true for good.
THEOREM AnswersAreTrue == Spec => []VerifyAnswerTruthful
<1>1. Money => VerifyAnswerTruthful
  BY DEF Money
<1>. QED
  BY <1>1, Inductive, PTL

\* No step of any handler overwrites a decided payment.
THEOREM DecidedOnce == Spec => PaymentDecidedOnce
<1>1. Typed /\ [Next]_vars
        => [\A o \in OrderIds : order[o].payment # "UNPAID"
              => order'[o].payment = order[o].payment]_vars
  BY RowsStep DEF RowsKept, RowKept
<1>. QED
  BY <1>1, Inductive, PTL DEF Spec, PaymentDecidedOnce

\* The whole of Checkout is a refinement of the abstract payment.
THEOREM Implements == Spec => ImplementsOrderPayment
<1>1. Init => Payment!Init
  BY InitImplements
<1>2. Typed /\ Money /\ [Next]_vars => [Payment!Next]_(Payment!vars)
  BY StepImplements
<1>. QED
  BY <1>1, <1>2, Inductive, PTL DEF Spec, ImplementsOrderPayment, Payment!Spec

-----------------------------------------------------------------------------
(* What most steps do not touch.                                            *)

\* The columns that only the insert writes.
RowSame(o) ==
  /\ o \in Placed' <=> o \in Placed
  /\ order'[o].user = order[o].user /\ order'[o].items = order[o].items
  /\ order'[o].method = order[o].method
  /\ order'[o].day = order[o].day /\ order'[o].seq = order[o].seq
  /\ order'[o].created = order[o].created

\* The steps that do not write the stock, the date, or what a handler checked or
\* counted.
Other ==
  \/ \E r \in Requests :
       \/ RefuseItem(r) \/ RefuseNumber(r) \/ RequestPayment(r) \/ RequestFails(r)
       \/ StoreAuthority(r) \/ ClearCart(r) \/ Reply(r)
       \/ VerifyStep(r) \/ Abort(r)
       \/ \E u \in Users, m \in Methods : StartCheckout(r, u, m)
       \/ \E o \in OrderIds : VerifyPaidOrder(r, o) \/ StartVerify(r, o)
  \/ \E o \in OrderIds, s \in AdminStatuses : UpdateStatus(o, s)
  \/ \E u \in Users, p \in Products, q \in CartQuantities : ChangeCart(u, p, q)
  \/ \E o \in OrderIds : ReadOrder(o) \/ CustomerPays(o)
  \/ UNCHANGED vars

\* A step moves one handler at most.
Moved(x) == pc'[x] # pc[x] \/ job'[x] # job[x]

\* Where such a step leaves a handler.
Moves(x) ==
  \/ pc'[x] = pc[x] /\ job'[x] = job[x]
  \/ pc'[x] \in {"idle", "reply", "verify", "fail", "mark"}
  \/ job'[x] = job[x] /\ \/ pc[x] = "request" /\ pc'[x] = "store"
                         \/ pc[x] = "store" /\ pc'[x] = "clear"
  \/ pc'[x] = "check" /\ job'[x].passed = {}

\* Every step is one of eight kinds.
LEMMA Kinds ==
  ASSUME [Next]_vars
  PROVE  \/ Other
         \/ \E r \in Requests :
              \/ \E p \in Products : CheckItem(r, p)
              \/ CountOrders(r) \/ CommitCancel(r)
              \/ \E o \in OrderIds : InsertOrder(r, o) \/ StartCancel(r, o)
         \/ \E p \in Restockable, n \in StockLevels : UpdateStock(p, n)
         \/ Midnight
  BY DEF Next, Arrival, HandlerStep, CheckoutStep, Environment, Other

\* All but the insert leave these columns.
LEMMA RowsStay ==
  ASSUME Typed,
         \/ Other \/ Midnight
         \/ \E p \in Restockable, n \in StockLevels : UpdateStock(p, n)
         \/ \E r \in Requests :
              \/ \E p \in Products : CheckItem(r, p)
              \/ CountOrders(r) \/ CommitCancel(r)
              \/ \E o \in OrderIds : StartCancel(r, o)
  PROVE  \A o \in OrderIds : RowSame(o)
<1> USE DEF RowSame, Typed, TypeOK, Placed
<1>1. CASE UNCHANGED order
  BY <1>1
<1>2. ASSUME NEW r \in Requests, StoreAuthority(r) PROVE \A o \in OrderIds : RowSame(o)
  BY <1>2 DEF StoreAuthority, Row
<1>3. ASSUME NEW r \in Requests, MarkFailed(r) PROVE \A o \in OrderIds : RowSame(o)
  BY <1>3 DEF MarkFailed, Row
<1>4. ASSUME NEW r \in Requests, MarkPaid(r) PROVE \A o \in OrderIds : RowSame(o)
  BY <1>4 DEF MarkPaid, Row, Absent, WorksOnOrder, Working
<1>5. ASSUME NEW r \in Requests, CommitCancel(r) PROVE \A o \in OrderIds : RowSame(o)
  BY <1>5 DEF CommitCancel, Row, Absent, WorksOnOrder, Working
<1>6. ASSUME NEW o \in OrderIds, NEW s \in AdminStatuses, UpdateStatus(o, s)
      PROVE  \A x \in OrderIds : RowSame(x)
  BY <1>6, ChoiceAssumption DEF UpdateStatus, Row, Absent, OrderStatus
<1>. QED
  BY <1>1, <1>2, <1>3, <1>4, <1>5, <1>6
  DEF Other, VerifyStep, vars, db,
      CheckItem, RefuseItem, CountOrders, RefuseNumber, RequestPayment, RequestFails,
      ClearCart, Reply, GatewayAccepts, GatewayRefuses, GatewayUnreachable,
      AlreadyDecided, Abort, StartCheckout, VerifyPaidOrder, StartVerify, StartCancel,
      UpdateStock, ChangeCart, ReadOrder, CustomerPays, Midnight

\* The other steps leave stock, date and counters, and move handlers as Moves says.
LEMMA OtherStep ==
  ASSUME Typed, Other
  PROVE  /\ UNCHANGED <<stock, day, returned>>
         /\ \A x \in Requests : Moves(x)
         /\ \A x, y \in Requests : Moved(x) /\ Moved(y) => x = y
<1> DEFINE OneMoves == /\ \A x \in Requests : Moves(x)
                       /\ \A x, y \in Requests : Moved(x) /\ Moved(y) => x = y
<1> USE DEF Moves, Moved, Typed, TypeOK
<1>1. UNCHANGED <<stock, day, returned>>
  BY DEF Other, VerifyStep, vars, db, world, history,
      RefuseItem, RefuseNumber, RequestPayment, RequestFails, StoreAuthority,
      ClearCart, Reply, GatewayAccepts, GatewayRefuses, GatewayUnreachable, MarkFailed, MarkPaid,
      AlreadyDecided, Abort, StartCheckout, VerifyPaidOrder, StartVerify,
      ChangeCart, ReadOrder, CustomerPays, UpdateStatus
<1>2. CASE UNCHANGED handler
  BY <1>1, <1>2 DEF handler
<1>3. ASSUME NEW r \in Requests, Finish(r) PROVE OneMoves
  BY <1>3, FinishTyped
<1>4. ASSUME NEW r \in Requests, UNCHANGED job,
             \/ pc[r] = "request" /\ Goto(r, "store")
             \/ pc[r] = "store" /\ Goto(r, "clear")
             \/ \E s \in {"reply", "verify", "fail", "mark"} : Goto(r, s)
      PROVE  OneMoves
  BY <1>4 DEF Goto
<1>5. ASSUME NEW r \in Requests, NEW u \in Users, NEW m \in Methods, StartCheckout(r, u, m)
      PROVE  OneMoves
  BY <1>5 DEF StartCheckout, Goto, NoJob
<1>6. ASSUME NEW r \in Requests, NEW o \in OrderIds, StartVerify(r, o)
      PROVE  OneMoves
  BY <1>6 DEF StartVerify, Goto
<1>. QED
  BY <1>1, <1>2, <1>3, <1>4, <1>5, <1>6
  DEF Other, VerifyStep, vars, RefuseItem, RefuseNumber, RequestPayment, RequestFails,
      StoreAuthority, ClearCart, Reply, GatewayAccepts, GatewayRefuses, GatewayUnreachable, MarkFailed, MarkPaid,
      AlreadyDecided, Abort, VerifyPaidOrder, ChangeCart, ReadOrder, CustomerPays, UpdateStatus

-----------------------------------------------------------------------------
(* The cart is cleared for an order that is there.                          *)

\* A handler on its way from the insert to the clearing of the cart has the order it
\* asked for.
Bought ==
  \A r \in Requests : pc[r] \in {"request", "store", "clear"} =>
    LET o == job[r].order IN
      /\ order[o].user = job[r].user
      /\ order[o].items = job[r].items
      /\ order[o].method = job[r].method

\* The order stays what it was, whoever writes its status and payment meanwhile.
LEMMA BoughtStep == Typed /\ Bought /\ [Next]_vars => Bought'
<1> SUFFICES ASSUME Typed, Bought, [Next]_vars PROVE Bought'
  OBVIOUS
<1> USE DEF Bought, Typed, TypeOK
<1>1. \A x \in Requests : pc[x] \in Working => job[x].order \in OrderIds
  BY DEF WorksOnOrder, Placed
<1>2. ASSUME NEW r \in Requests, NEW o \in OrderIds, InsertOrder(r, o) PROVE Bought'
  <2>1. job'[r] = [job[r] EXCEPT !.order = o] /\ order'[o] = NewRow(r)
    BY <1>2 DEF InsertOrder
  <2>2. /\ order'[o].user = job'[r].user /\ order'[o].items = job'[r].items
        /\ order'[o].method = job'[r].method /\ job'[r].order = o
    BY <2>1 DEF NewRow, Job
  <2>3. \A x \in Requests \ {r} : job'[x] = job[x] /\ pc'[x] = pc[x]
    BY <1>2 DEF InsertOrder, Goto
  <2>4. \A x \in OrderIds \ {o} : order'[x] = order[x]
    BY <1>2 DEF InsertOrder
  <2>5. \A x \in Requests : pc[x] \in Working => job[x].order # o
    BY <1>2 DEF InsertOrder, WorksOnOrder
  <2>. QED
    BY <1>1, <2>2, <2>3, <2>4, <2>5 DEF Working
<1>3. CASE Other
  BY <1>1, <1>3, OtherStep, RowsStay DEF Moves, RowSame, Working
<1>4. ASSUME \A o \in OrderIds : RowSame(o),
             \A x \in Requests :
               (pc'[x] = pc[x] /\ job'[x] = job[x]) \/ pc'[x] \in {"check", "insert", "cancel", "idle"}
      PROVE  Bought'
  BY <1>1, <1>4 DEF RowSame, Working
<1>5. ASSUME NEW r \in Requests, NEW p \in Products, CheckItem(r, p) PROVE Bought'
  BY <1>4, <1>5, RowsStay DEF CheckItem
<1>6. ASSUME NEW r \in Requests, CountOrders(r) PROVE Bought'
  BY <1>4, <1>6, RowsStay DEF CountOrders, Goto
<1>7. ASSUME NEW r \in Requests, CommitCancel(r) PROVE Bought'
  BY <1>4, <1>7, RowsStay DEF CommitCancel, Finish
<1>8. ASSUME NEW r \in Requests, NEW o \in OrderIds, StartCancel(r, o) PROVE Bought'
  BY <1>4, <1>8, RowsStay DEF StartCancel, Goto
<1>9. ASSUME NEW p \in Restockable, NEW n \in StockLevels, UpdateStock(p, n) PROVE Bought'
  BY <1>4, <1>9, RowsStay DEF UpdateStock, handler
<1>10. CASE Midnight
  BY <1>4, <1>10, RowsStay DEF Midnight, handler
<1>. QED
  BY <1>2, <1>3, <1>5, <1>6, <1>7, <1>8, <1>9, <1>10, Kinds

\* checkout empties a cart only for a committed order of the same customer and
\* items that can be paid.
THEOREM ClearedForOrder == Spec => []ClearedCartHasOrder
<1>1. Init => Bought
  BY DEF Init, Bought
<1>2. Typed /\ Money /\ Bought => ClearedCartHasOrder
  BY DEF Typed, WorksOnOrder, Working, Money, AuthorityFirst, Bought, ClearedCartHasOrder
<1>. QED
  BY <1>1, <1>2, BoughtStep, Inductive, PTL DEF Spec

-----------------------------------------------------------------------------
(* The numbers of the orders.                                               *)

\* An order is created on the day of its number or later; those of today are numbered up
\* to how many there are, and a handler that has counted asks for one more at most.
Numbered ==
  /\ \A o \in Placed :
       /\ order[o].day <= order[o].created /\ order[o].created <= day
       /\ order[o].day = day => order[o].seq <= Cardinality(CreatedOn(day))
  /\ \A o, x \in Placed : order[o].day = order[x].day /\ order[o].seq = order[x].seq => o = x
  /\ \A r \in Requests : pc[r] = "insert" =>
       /\ job[r].day <= day
       /\ job[r].day = day => job[r].seq <= NextSeq(day)

\* Rows of columns that are the same are the same numbers.
LEMMA SameNumbers ==
  ASSUME \A o \in OrderIds : RowSame(o), UNCHANGED day
  PROVE  Placed' = Placed /\ CreatedOn(day)' = CreatedOn(day) /\ NextSeq(day)' = NextSeq(day)
<1>1. Placed' = Placed
  BY DEF RowSame, Placed
<1>2. CreatedOn(day)' = CreatedOn(day)
  BY <1>1 DEF RowSame, CreatedOn, Placed
<1>. QED
  BY <1>1, <1>2 DEF NextSeq

\* The insert takes the number that was counted if nobody took it; a new day begins
\* without numbers.
LEMMA NumberedStep == Typed /\ Numbered /\ [Next]_vars => Numbered'
<1> SUFFICES ASSUME Typed, Numbered, [Next]_vars PROVE Numbered'
  OBVIOUS
<1>0. Typed'
  BY TypedStep
<1> USE DEF Numbered, Typed, TypeOK
<1>1. ASSUME NEW r \in Requests, NEW o \in OrderIds, InsertOrder(r, o) PROVE Numbered'
  <2>1. /\ order'[o] = NewRow(r) /\ o \notin Placed /\ UNCHANGED day
        /\ pc[r] = "insert" /\ ~NumberTaken(job[r].day, job[r].seq)
    BY <1>1 DEF InsertOrder, world
  <2>2. order'[o].day = job[r].day /\ order'[o].seq = job[r].seq /\ order'[o].created = day
    BY <2>1 DEF NewRow
  <2>3. \A x \in OrderIds \ {o} : order'[x] = order[x]
    BY <1>1 DEF InsertOrder
  <2>4. Placed' = Placed \cup {o}
    BY <2>1, <2>3, NewRowTyped DEF Placed
  <2>5. CreatedOn(day)' = CreatedOn(day) \cup {o} /\ o \notin CreatedOn(day)
    BY <2>1, <2>2, <2>3, <2>4 DEF CreatedOn, Placed
  <2>6. /\ Cardinality(CreatedOn(day))' = Cardinality(CreatedOn(day)) + 1
        /\ Cardinality(CreatedOn(day)) \in Nat
    BY <2>5, Counting, FS_AddElement, FS_CardinalityType
  <2>7. NextSeq(day)' = NextSeq(day) + 1 /\ NextSeq(day) = Cardinality(CreatedOn(day)) + 1
    BY <2>6, <2>1 DEF NextSeq
  <2>8. job[r] \in Job
    OBVIOUS
  <2>9. /\ \A x \in Requests \ {r} : job'[x] = job[x] /\ pc'[x] = pc[x]
        /\ pc'[r] # "insert"
    BY <1>1 DEF InsertOrder, Goto
  <2>10. \A x \in Placed : order[x] \in Row /\ order'[x] = order[x]
    BY <2>1, <2>3 DEF Placed
  <2>11. \A x \in Placed' :
           /\ order'[x].day <= order'[x].created /\ order'[x].created <= day'
           /\ order'[x].day = day' => order'[x].seq <= Cardinality(CreatedOn(day))'
    <3> TAKE x \in Placed'
    <3>1. CASE x = o
      BY <2>1, <2>2, <2>6, <2>7, <2>8, <3>1 DEF Job
    <3>2. CASE x # o
      BY <2>1, <2>4, <2>6, <2>10, <3>2 DEF Row
    <3>. QED
      BY <3>1, <3>2
  <2>12. \A x, y \in Placed' :
           order'[x].day = order'[y].day /\ order'[x].seq = order'[y].seq => x = y
    BY <2>1, <2>2, <2>4, <2>10 DEF NumberTaken
  <2>13. \A x \in Requests : pc'[x] = "insert" =>
           /\ job'[x].day <= day'
           /\ job'[x].day = day' => job'[x].seq <= NextSeq(day)'
    BY <2>1, <2>6, <2>7, <2>9 DEF Job
  <2>. QED
    BY <2>11, <2>12, <2>13
<1>2. ASSUME \A o \in OrderIds : RowSame(o), UNCHANGED day,
             \A x \in Requests :
               (pc'[x] = pc[x] /\ job'[x] = job[x]) \/ pc'[x] # "insert"
      PROVE  Numbered'
  BY <1>2, SameNumbers DEF RowSame, Placed
<1>3. CASE Other
  BY <1>2, <1>3, OtherStep, RowsStay DEF Moves
<1>4. ASSUME NEW r \in Requests, CountOrders(r) PROVE Numbered'
  <2>1. /\ \A o \in OrderIds : RowSame(o)
        /\ UNCHANGED day
    BY <1>4, RowsStay DEF CountOrders, world
  <2>2. job'[r].day = day /\ job'[r].seq = NextSeq(day) /\ NextSeq(day) \in Nat
    BY <1>4, Counting DEF CountOrders, Job
  <2>3. \A x \in Requests \ {r} : job'[x] = job[x] /\ pc'[x] = pc[x]
    BY <1>4 DEF CountOrders, Goto
  <2>. QED
    BY <2>1, <2>2, <2>3, SameNumbers DEF RowSame, Placed
<1>5. ASSUME NEW r \in Requests, NEW p \in Products, CheckItem(r, p) PROVE Numbered'
  BY <1>2, <1>5, RowsStay DEF CheckItem, world
<1>6. ASSUME NEW r \in Requests, CommitCancel(r) PROVE Numbered'
  BY <1>2, <1>6, RowsStay DEF CommitCancel, Finish, world
<1>7. ASSUME NEW r \in Requests, NEW o \in OrderIds, StartCancel(r, o) PROVE Numbered'
  BY <1>2, <1>7, RowsStay DEF StartCancel, Goto, world
<1>8. ASSUME NEW p \in Restockable, NEW n \in StockLevels, UpdateStock(p, n) PROVE Numbered'
  BY <1>2, <1>8, RowsStay DEF UpdateStock, handler, world
<1>9. CASE Midnight
  <2>1. /\ \A o \in OrderIds : RowSame(o)
        /\ day' = day + 1 /\ UNCHANGED <<pc, job>>
    BY <1>9, RowsStay DEF Midnight, handler
  <2>2. Placed' = Placed /\ \A o \in Placed : order[o] \in Row
    BY <2>1 DEF RowSame, Placed
  <2>3. \A x \in Requests : job[x] \in Job
    OBVIOUS
  <2>. QED
    BY <2>1, <2>2, <2>3 DEF RowSame, Placed, Row, Job
<1>. QED
  BY <1>1, <1>3, <1>4, <1>5, <1>6, <1>7, <1>8, <1>9, Kinds

\* No two orders share a number, and the next number is free: a day never locks up.
THEOREM NumbersAreFree == Spec => []OrderNumbers
<1>1. Init => Numbered
  BY DEF Init, Numbered, Placed, NoRow
<1>2. Typed /\ Numbered => OrderNumbers
  <2> SUFFICES ASSUME Typed, Numbered PROVE OrderNumbers
    OBVIOUS
  <2>1. Cardinality(CreatedOn(day)) \in Nat /\ \A o \in Placed : order[o] \in Row
    BY Counting, FS_CardinalityType DEF Typed, TypeOK, Placed
  <2>. QED
    BY <2>1 DEF Numbered, OrderNumbers, NumberTaken, NextSeq, Row
<1>. QED
  BY <1>1, <1>2, NumberedStep, Inductive, PTL DEF Spec

-----------------------------------------------------------------------------
(* How far the stock can fall.                                              *)

\* The requests that have checked the stock of p and not yet taken of it.
Pledged(p) == {r \in Requests : pc[r] \in {"check", "insert"} /\ p \in job[r].passed}

\* Of the requests that have pledged, the last that checked found the stock for itself:
\* since then only the others have taken, MaxQty each at most.
Covered(p) ==
  \/ Pledged(p) = {} /\ stock[p] >= - (MaxQty * (Cardinality(Requests) - 1))
  \/ \E r \in Pledged(p) :
       stock[p] - job[r].items[p]
         >= - (MaxQty * (Cardinality(Requests) - Cardinality(Pledged(p))))

\* What is ordered was checked.
AllChecked == \A r \in Requests : pc[r] = "insert" => Ordered(job[r].items) \subseteq job[r].passed

Overselling == AllChecked /\ \A p \in Products \ Restockable : Covered(p)

\* One more request may take MaxQty more.
LEMMA OneMore ==
  /\ \A n \in Int : MaxQty * n \in Int /\ MaxQty * (n + 1) = MaxQty * n + MaxQty
  /\ \A n \in Nat : MaxQty * n >= 0
  BY StockAssumption

\* Requests that have pledged are some of all.
LEMMA Pledges ==
  ASSUME NEW p \in Products
  PROVE  /\ IsFiniteSet(Pledged(p)) /\ Cardinality(Pledged(p)) \in Nat
         /\ Cardinality(Requests) \in Nat /\ Cardinality(Pledged(p)) <= Cardinality(Requests)
         /\ Cardinality(Pledged(p)) = 0 <=> Pledged(p) = {}
  BY FiniteAssumption, FS_Subset, FS_CardinalityType, FS_EmptySet DEF Pledged

\* A handler keeps its items between check and insert.
LEMMA ItemsTyped ==
  ASSUME TypeOK, NEW r \in Requests, NEW p \in Products
  PROVE  job[r].items[p] \in Nat /\ job[r].items[p] <= MaxQty
  BY StockAssumption DEF TypeOK, Job, Quantities

\* A step by which nobody pledges or takes.
LEMMA CoverKept ==
  ASSUME TypeOK, NEW p \in Products, Covered(p),
         Pledged(p)' = Pledged(p), stock'[p] >= stock[p], stock'[p] \in Int,
         \A r \in Pledged(p) : job'[r].items[p] = job[r].items[p]
  PROVE  Covered(p)'
<1> DEFINE C == Cardinality(Requests)
           K == Cardinality(Pledged(p))
<1>1. C \in Nat /\ K \in Nat /\ stock[p] \in Int /\ K' = K
  BY Pledges DEF TypeOK
<1>2. MaxQty * (C - 1) \in Int /\ MaxQty * (C - K) \in Int
  BY <1>1, OneMore
<1>3. CASE Pledged(p) = {} /\ stock[p] >= - (MaxQty * (C - 1))
  BY <1>1, <1>2, <1>3 DEF Covered
<1>4. CASE \E r \in Pledged(p) : stock[p] - job[r].items[p] >= - (MaxQty * (C - K))
  <2>1. PICK r \in Pledged(p) : stock[p] - job[r].items[p] >= - (MaxQty * (C - K))
    BY <1>4
  <2>2. job[r].items[p] \in Nat
    BY ItemsTyped DEF Pledged
  <2>3. stock'[p] - job'[r].items[p] >= - (MaxQty * (C - K'))
    BY <1>1, <1>2, <2>1, <2>2
  <2>. QED
    BY <2>1, <2>3 DEF Covered
<1>. QED
  BY <1>3, <1>4 DEF Covered

\* A request takes what it pledged, or gives up.
LEMMA CoverReleased ==
  ASSUME TypeOK, NEW p \in Products, Covered(p), NEW s \in Pledged(p),
         Pledged(p)' = Pledged(p) \ {s},
         stock'[p] >= stock[p] - job[s].items[p], stock'[p] \in Int,
         \A r \in Pledged(p) \ {s} : job'[r].items[p] = job[r].items[p]
  PROVE  Covered(p)'
<1> DEFINE C == Cardinality(Requests)
           K == Cardinality(Pledged(p))
           n == C - K
<1>1. /\ C \in Nat /\ K \in Nat /\ n \in Int /\ n >= 0 /\ stock[p] \in Int
      /\ K' = K - 1 /\ C - K' = n + 1
  <2>1. Cardinality(Pledged(p) \ {s}) = K - 1
    BY Pledges, FS_RemoveElement
  <2>. QED
    BY <2>1, Pledges DEF TypeOK
<1>2. MaxQty * n \in Int /\ MaxQty * (n + 1) = MaxQty * n + MaxQty /\ MaxQty \in Nat
  BY <1>1, OneMore, StockAssumption
<1>3. PICK w \in Pledged(p) : stock[p] - job[w].items[p] >= - (MaxQty * n)
  BY DEF Covered
<1>4. \A r \in Pledged(p) : job[r].items[p] \in Nat /\ job[r].items[p] <= MaxQty
  BY ItemsTyped DEF Pledged
<1>5. \A r \in Pledged(p) \ {s} :
        (r = w \/ w = s) => stock'[p] - job'[r].items[p] >= - (MaxQty * (n + 1))
  BY <1>1, <1>2, <1>3, <1>4
<1>6. CASE Pledged(p) \ {s} = {}
  <2>1. w = s /\ K' = 0
    BY <1>3, <1>6, FS_EmptySet
  <2>2. stock'[p] >= - (MaxQty * n) /\ n = C - 1
    BY <1>1, <1>2, <1>3, <1>4, <2>1
  <2>. QED
    BY <1>6, <2>2 DEF Covered
<1>7. CASE Pledged(p) \ {s} # {}
  <2>1. PICK r \in Pledged(p) \ {s} : r = w \/ w = s
    BY <1>3, <1>7
  <2>2. stock'[p] - job'[r].items[p] >= - (MaxQty * (C - K'))
    BY <1>1, <1>5, <2>1
  <2>. QED
    BY <2>1, <2>2 DEF Covered
<1>. QED
  BY <1>6, <1>7

\* A request finds the stock for itself.
LEMMA CoverPledged ==
  ASSUME TypeOK, TypeOK', NEW p \in Products, NEW s \in Requests \ Pledged(p),
         Pledged(p)' = Pledged(p) \cup {s},
         stock'[p] >= job'[s].items[p], stock'[p] \in Int
  PROVE  Covered(p)'
<1> DEFINE C == Cardinality(Requests)
           K == Cardinality(Pledged(p))
<1>1. IsFiniteSet(Pledged(p)') /\ Pledged(p)' \subseteq Requests
  <2>1. IsFiniteSet(Pledged(p) \cup {s})
    BY Pledges, FS_AddElement
  <2>. QED
    BY <2>1 DEF Pledged
<1>2. C \in Nat /\ K' \in Nat /\ C - K' \in Nat
  BY <1>1, Pledges, FiniteAssumption, FS_Subset, FS_CardinalityType
<1>3. MaxQty * (C - K') \in Int /\ MaxQty * (C - K') >= 0
  BY <1>2, OneMore
<1>4. job'[s].items[p] \in Nat
  BY StockAssumption DEF TypeOK, Job, Quantities
<1>5. stock'[p] - job'[s].items[p] >= - (MaxQty * (C - K'))
  BY <1>3, <1>4
<1>. QED
  BY <1>5 DEF Covered

\* Only checks pledge, and only an insert takes.
LEMMA OversellingStep == Typed /\ Overselling /\ [Next]_vars => Overselling'
<1> SUFFICES ASSUME Typed, Overselling, [Next]_vars PROVE Overselling'
  OBVIOUS
<1>0. TypeOK /\ TypeOK' /\ \A p \in Products : stock[p] \in Int /\ stock'[p] \in Int
  BY TypedStep DEF Typed, TypeOK
<1> USE DEF Overselling, AllChecked
<1>1. ASSUME NEW r \in Requests, NEW o \in OrderIds, InsertOrder(r, o) PROVE Overselling'
  <2>1. /\ \A x \in Requests \ {r} : job'[x] = job[x] /\ pc'[x] = pc[x]
        /\ pc[r] = "insert" /\ pc'[r] \notin {"check", "insert"}
    BY <1>1, <1>0 DEF InsertOrder, Goto, TypeOK
  <2>2. AllChecked'
    BY <2>1 DEF Ordered
  <2>3. ASSUME NEW p \in Products \ Restockable PROVE Covered(p)'
    <3>1. stock'[p] = stock[p] - job[r].items[p] /\ job[r].items[p] \in Nat
      BY <1>1, <1>0, ItemsTyped DEF InsertOrder, StockAfterSale
    <3>2. CASE r \in Pledged(p)
      <4>1. Pledged(p)' = Pledged(p) \ {r}
        BY <2>1 DEF Pledged
      <4>. QED
        BY <1>0, <2>1, <3>1, <3>2, <4>1, CoverReleased DEF Pledged
    <3>3. CASE r \notin Pledged(p)
      <4>1. job[r].items[p] = 0
        BY <2>1, <3>1, <3>3 DEF Pledged, Ordered
      <4>2. Pledged(p)' = Pledged(p)
        BY <2>1, <3>3 DEF Pledged
      <4>. QED
        BY <1>0, <2>1, <3>1, <3>3, <4>1, <4>2, CoverKept DEF Pledged
    <3>. QED
      BY <3>2, <3>3
  <2>. QED
    BY <2>2, <2>3
<1>2. ASSUME NEW r \in Requests, NEW p \in Products, CheckItem(r, p) PROVE Overselling'
  <2>1. /\ job'[r] = [job[r] EXCEPT !.passed = @ \cup {p}] /\ UNCHANGED <<stock, pc>>
        /\ pc[r] = "check" /\ p \notin job[r].passed /\ stock[p] >= job[r].items[p]
        /\ \A x \in Requests \ {r} : job'[x] = job[x]
    BY <1>2, <1>0 DEF CheckItem, Unchecked, HasStock, TypeOK, db
  <2>2. /\ \A x \in Requests : job'[x].items = job[x].items
        /\ job'[r].passed = job[r].passed \cup {p}
    BY <2>1, <1>0 DEF Job, TypeOK
  <2>3. AllChecked'
    BY <2>1, <2>2 DEF Ordered
  <2>4. ASSUME NEW q \in Products \ Restockable PROVE Covered(q)'
    <3>1. CASE q = p
      <4>1. Pledged(p)' = Pledged(p) \cup {r} /\ r \notin Pledged(p)
        BY <2>1, <2>2 DEF Pledged
      <4>. QED
        BY <1>0, <2>1, <2>2, <3>1, <4>1, CoverPledged
    <3>2. CASE q # p
      <4>1. Pledged(q)' = Pledged(q)
        BY <2>1, <2>2, <3>2 DEF Pledged
      <4>. QED
        BY <1>0, <2>1, <2>2, <4>1, CoverKept DEF Pledged
    <3>. QED
      BY <3>1, <3>2
  <2>. QED
    BY <2>3, <2>4
<1>3. CASE Other
  <2>1. /\ UNCHANGED stock
        /\ \A x \in Requests : Moves(x)
        /\ \A x, y \in Requests : Moved(x) /\ Moved(y) => x = y
    BY <1>3, OtherStep
  <2>2. AllChecked'
    BY <2>1 DEF Moves, Ordered
  <2>3. ASSUME NEW p \in Products \ Restockable PROVE Covered(p)'
    <3>1. \A x \in Requests : x \in Pledged(p)' => x \in Pledged(p) /\ job'[x] = job[x]
      BY <2>1 DEF Moves, Pledged
    <3>2. CASE \E s \in Pledged(p) : s \notin Pledged(p)'
      <4>1. PICK s \in Pledged(p) : s \notin Pledged(p)'
        BY <3>2
      <4>2. \A x \in Pledged(p) \ {s} : pc'[x] = pc[x] /\ job'[x] = job[x]
        BY <2>1, <4>1 DEF Pledged, Moved
      <4>3. Pledged(p)' = Pledged(p) \ {s}
        BY <3>1, <4>1, <4>2 DEF Pledged
      <4>4. stock'[p] >= stock[p] - job[s].items[p]
        BY <1>0, <2>1, ItemsTyped DEF Pledged
      <4>. QED
        BY <1>0, <4>2, <4>3, <4>4, CoverReleased
    <3>3. CASE \A s \in Pledged(p) : s \in Pledged(p)'
      <4>1. Pledged(p)' = Pledged(p)
        BY <3>1, <3>3 DEF Pledged
      <4>. QED
        BY <1>0, <2>1, <3>1, <4>1, CoverKept DEF Pledged
    <3>. QED
      BY <3>2, <3>3
  <2>. QED
    BY <2>2, <2>3
<1>4. ASSUME AllChecked',
             \A p \in Products \ Restockable :
               Pledged(p)' = Pledged(p) /\ stock'[p] >= stock[p],
             \A x \in Requests : job'[x].items = job[x].items \/ pc[x] \notin {"check", "insert"}
      PROVE  Overselling'
  BY <1>0, <1>4, CoverKept DEF Pledged
<1>5. ASSUME NEW r \in Requests, CountOrders(r) PROVE Overselling'
  <2>1. /\ pc[r] = "check" /\ pc'[r] = "insert" /\ UNCHANGED stock
        /\ Ordered(job[r].items) \subseteq job[r].passed
        /\ \A x \in Requests : job'[x].items = job[x].items /\ job'[x].passed = job[x].passed
        /\ \A x \in Requests \ {r} : pc'[x] = pc[x]
    BY <1>5, <1>0 DEF CountOrders, Unchecked, Goto, db, TypeOK, Job
  <2>2. AllChecked'
    BY <2>1 DEF Ordered
  <2>. QED
    BY <1>0, <1>4, <2>1, <2>2 DEF Pledged
<1>6. ASSUME NEW r \in Requests, CommitCancel(r) PROVE Overselling'
  <2>1. /\ pc[r] = "cancel" /\ pc'[r] = "idle"
        /\ \A x \in Requests \ {r} : pc'[x] = pc[x] /\ job'[x] = job[x]
    BY <1>6, <1>0 DEF CommitCancel, Finish, TypeOK
  <2>2. \A p \in Products : stock'[p] >= stock[p]
    <3>1. order[job[r].order] \in Row
      BY <2>1, <1>0 DEF TypeOK, Typed, WorksOnOrder, Working, Placed
    <3>2. \A p \in Products : order[job[r].order].items[p] \in Nat
      BY <3>1, StockAssumption DEF Row, Quantities
    <3>. QED
      BY <1>6, <1>0, <3>2 DEF CommitCancel, StockAfterReturn
  <2>. QED
    BY <1>4, <2>1, <2>2 DEF Pledged, Ordered
<1>7. ASSUME NEW r \in Requests, NEW o \in OrderIds, StartCancel(r, o) PROVE Overselling'
  <2>1. /\ pc[r] = "idle" /\ pc'[r] = "cancel" /\ UNCHANGED stock
        /\ \A x \in Requests \ {r} : pc'[x] = pc[x] /\ job'[x] = job[x]
    BY <1>7, <1>0 DEF StartCancel, Goto, TypeOK, db
  <2>. QED
    BY <1>0, <1>4, <2>1 DEF Pledged, Ordered
<1>8. ASSUME NEW p \in Restockable, NEW n \in StockLevels, UpdateStock(p, n) PROVE Overselling'
  <2>1. UNCHANGED <<pc, job>> /\ \A q \in Products \ Restockable : stock'[q] = stock[q]
    BY <1>8, <1>0 DEF UpdateStock, handler, TypeOK
  <2>. QED
    BY <1>0, <1>4, <2>1 DEF Pledged, Ordered
<1>9. CASE Midnight
  BY <1>0, <1>4, <1>9 DEF Midnight, handler, db, Pledged, Ordered
<1>. QED
  BY <1>1, <1>2, <1>3, <1>5, <1>6, <1>7, <1>8, <1>9, Kinds

\* The stock never falls further below zero than all requests but one can take
\* together.
THEOREM OversellIsBounded == Spec => []OversellBounded
<1>1. Init => Overselling
  <2> SUFFICES ASSUME Init PROVE Overselling
    OBVIOUS
  <2>1. AllChecked /\ \A p \in Products : Pledged(p) = {}
    BY DEF Init, AllChecked, Pledged
  <2>2. Cardinality(Requests) - 1 \in Nat
    BY FiniteAssumption, FS_EmptySet, FS_CardinalityType
  <2>3. MaxQty * (Cardinality(Requests) - 1) \in Int /\ MaxQty * (Cardinality(Requests) - 1) >= 0
    BY <2>2, OneMore
  <2>4. \A p \in Products : stock[p] \in Nat
    BY StockAssumption DEF Init
  <2>5. \A p \in Products : stock[p] >= - (MaxQty * (Cardinality(Requests) - 1))
    BY <2>3, <2>4
  <2>. QED
    BY <2>1, <2>5 DEF Overselling, Covered
<1>2. Typed /\ Overselling => OversellBounded
  <2> SUFFICES ASSUME Typed, Overselling, NEW p \in Products \ Restockable
               PROVE  stock[p] >= - ((Cardinality(Requests) - 1) * MaxQty)
    BY DEF OversellBounded
  <2> DEFINE C == Cardinality(Requests)
             K == Cardinality(Pledged(p))
  <2>1. stock[p] \in Int /\ C \in Nat /\ K \in Nat /\ C - K \in Nat
    BY Pledges DEF Typed, TypeOK
  <2>2. (C - 1) * MaxQty = MaxQty * (C - 1)
    BY <2>1, StockAssumption
  <2>3. CASE Pledged(p) = {} /\ stock[p] >= - (MaxQty * (C - 1))
    BY <2>2, <2>3
  <2>4. CASE \E r \in Pledged(p) : stock[p] - job[r].items[p] >= - (MaxQty * (C - K))
    <3>1. PICK r \in Pledged(p) : stock[p] - job[r].items[p] >= - (MaxQty * (C - K))
      BY <2>4
    <3>2. K >= 1 /\ job[r].items[p] \in Nat
      <4>1. K # 0
        BY <3>1, Pledges
      <4>2. job[r].items[p] \in Nat
        BY <3>1, ItemsTyped DEF Pledged, Typed
      <4>. QED
        BY <2>1, <4>1, <4>2
    <3>3. /\ MaxQty * (C - K) \in Int /\ MaxQty * (C - 1) \in Int
          /\ MaxQty * (C - K) <= MaxQty * (C - 1)
      <4>1. /\ C - 1 = (C - K) + (K - 1) /\ K - 1 \in Nat
            /\ MaxQty * ((C - K) + (K - 1)) = MaxQty * (C - K) + MaxQty * (K - 1)
        BY <2>1, <3>2, StockAssumption
      <4>. QED
        BY <2>1, <4>1, OneMore
    <3>. QED
      BY <2>1, <2>2, <3>1, <3>2, <3>3
  <2>. QED
    BY <2>3, <2>4 DEF Overselling, Covered
<1>. QED
  BY <1>1, <1>2, OversellingStep, Inductive, PTL DEF Spec

-----------------------------------------------------------------------------
(* Every unit is accounted for.                                             *)

\* A row that does not exist has no items and was not cancelled.
Unused == \A o \in OrderIds \ Placed : returned[o] = 0 /\ order[o].items = NoItems

Ledger == Unused /\ StockLedger

\* What an order holds of a product, before and after a step.
LEMMA HeldTyped ==
  ASSUME TypeOK, NEW p \in Products, NEW o \in OrderIds
  PROVE  /\ order[o].items[p] \in Nat /\ returned[o] \in Nat
         /\ returned[o] * order[o].items[p] \in Nat
         /\ Held(p)[o] = order[o].items[p] - returned[o] * order[o].items[p]
         /\ Held(p)[o] \in Int
<1>1. order[o].items[p] \in Nat /\ returned[o] \in Nat
  <2>1. order[o].items \in [Products -> 0..MaxQty]
    BY DEF TypeOK, Row, Quantities
  <2>2. order[o].items[p] \in 0..MaxQty
    BY <2>1
  <2>. QED
    BY <2>2, StockAssumption DEF TypeOK
<1>2. \A m, n \in Nat : m * n \in Nat
  OBVIOUS
<1>3. returned[o] * order[o].items[p] \in Nat
  BY <1>1, <1>2
<1>. QED
  BY <1>1, <1>3 DEF Held

\* Where one order takes n more of a product and the stock falls by n, the sum still holds.
LEMMA LedgerMoves ==
  ASSUME TypeOK, StockLedger, NEW p \in Products \ Restockable, NEW o \in OrderIds, NEW n \in Int,
         \A x \in OrderIds \ {o} : Held(p)'[x] = Held(p)[x],
         Held(p)'[o] = Held(p)[o] + n, stock'[p] = stock[p] - n
  PROVE  stock'[p] = InitialStock[p] - SumFunction(Held(p)')
<1>1. \A x \in OrderIds : Held(p)[x] \in Int
  BY HeldTyped
<1>2. SumFunctionOnSet(Held(p)', OrderIds)
        = SumFunctionOnSet(Held(p), OrderIds) + Held(p)'[o] - Held(p)[o]
  BY <1>1, FiniteAssumption, SumChanges
<1>3. SumFunctionOnSet(Held(p), OrderIds) \in Int
  BY <1>1, FiniteAssumption, SumIsInt
<1>4. /\ SumFunction(Held(p)) = SumFunctionOnSet(Held(p), OrderIds)
      /\ SumFunction(Held(p)') = SumFunctionOnSet(Held(p)', OrderIds)
  BY SumFunctionDef DEF Held
<1>5. stock[p] = InitialStock[p] - SumFunction(Held(p)) /\ InitialStock[p] \in Nat
  BY StockAssumption DEF StockLedger
<1>. QED
  BY <1>1, <1>2, <1>3, <1>4, <1>5

\* A step that writes no items, cancels nothing and leaves the stock.
LEMMA LedgerKept ==
  ASSUME Ledger, \A o \in OrderIds : RowSame(o), UNCHANGED returned,
         \A p \in Products \ Restockable : stock'[p] = stock[p]
  PROVE  Ledger'
<1>1. \A p \in Products : Held(p)' = Held(p)
  BY DEF RowSame, Held
<1>2. Unused'
  BY DEF Ledger, Unused, RowSame, Placed
<1>. QED
  BY <1>1, <1>2 DEF Ledger, StockLedger

\* An insert takes its units, a cancellation brings them back.
LEMMA LedgerStep == Typed /\ Ledger /\ [Next]_vars => Ledger'
<1> SUFFICES ASSUME Typed, Ledger, [Next]_vars PROVE Ledger'
  OBVIOUS
<1>0. /\ TypeOK /\ TypeOK'
      /\ \A x \in Requests : pc[x] \in Working => job[x].order \in Placed
  BY TypedStep DEF Typed, WorksOnOrder
<1>1. ASSUME NEW r \in Requests, NEW o \in OrderIds, InsertOrder(r, o) PROVE Ledger'
  <2>1. /\ o \notin Placed /\ order' = [order EXCEPT ![o] = NewRow(r)] /\ returned' = returned
        /\ stock' = [p \in Products |-> stock[p] - job[r].items[p]]
        /\ order[o].items = NoItems /\ returned[o] = 0
    BY <1>1 DEF InsertOrder, StockAfterSale, history, Ledger, Unused
  <2>2. /\ order'[o].items = job[r].items /\ o \in Placed'
        /\ \A x \in OrderIds \ {o} : order'[x] = order[x]
    BY <1>0, <2>1, NewRowTyped DEF NewRow, TypeOK, Placed
  <2>3. ASSUME NEW p \in Products \ Restockable
        PROVE  stock'[p] = InitialStock[p] - SumFunction(Held(p)')
    <3> DEFINE n == job[r].items[p]
    <3>1. n \in Nat /\ stock'[p] = stock[p] - n
      BY <1>0, <2>1, ItemsTyped
    <3>2. Held(p)[o] = 0
      BY <2>1 DEF Held, NoItems
    <3>3. Held(p)'[o] = n
      BY <2>1, <2>2, <3>1 DEF Held
    <3>4. \A x \in OrderIds \ {o} : Held(p)'[x] = Held(p)[x]
      BY <2>1, <2>2 DEF Held
    <3>. HIDE DEF n
    <3>5. Held(p)'[o] = Held(p)[o] + n
      BY <3>1, <3>2, <3>3
    <3>. QED
      BY <1>0, <3>1, <3>4, <3>5, LedgerMoves DEF Ledger
  <2>4. Unused'
    BY <2>1, <2>2 DEF Ledger, Unused, Placed
  <2>. QED
    BY <2>3, <2>4 DEF Ledger, StockLedger
<1>2. ASSUME NEW r \in Requests, CommitCancel(r) PROVE Ledger'
  <2>0. PICK o \in OrderIds : o = job[r].order /\ o \in Placed
    BY <1>0, <1>2 DEF CommitCancel, Placed, Working
  <2>1. /\ returned' = [returned EXCEPT ![o] = @ + 1]
        /\ stock' = [p \in Products |-> stock[p] + order[o].items[p]]
    BY <1>2, <2>0 DEF CommitCancel, StockAfterReturn
  <2>2. \A x \in OrderIds : RowSame(x)
    BY <1>2, RowsStay
  <2>3. ASSUME NEW p \in Products \ Restockable
        PROVE  stock'[p] = InitialStock[p] - SumFunction(Held(p)')
    <3> DEFINE n == order[o].items[p]
               c == returned[o]
    <3>1. n \in Nat /\ c \in Nat /\ c * n \in Nat /\ Held(p)[o] = n - c * n /\ stock[p] \in Int
      BY <1>0, HeldTyped DEF TypeOK
    <3>2. order'[o].items[p] = n /\ returned'[o] = c + 1 /\ stock'[p] = stock[p] + n
      BY <1>0, <2>1, <2>2 DEF RowSame, TypeOK
    <3>3. Held(p)'[o] = n - (c + 1) * n
      BY <3>2 DEF Held
    <3>4. \A x \in OrderIds \ {o} : Held(p)'[x] = Held(p)[x]
      BY <1>0, <2>1, <2>2 DEF Held, RowSame, TypeOK
    <3>. HIDE DEF n, c
    <3>5. (c + 1) * n = c * n + n
      BY <3>1
    <3>6. Held(p)'[o] = Held(p)[o] + (0 - n) /\ stock'[p] = stock[p] - (0 - n) /\ 0 - n \in Int
      BY <3>1, <3>2, <3>3, <3>5
    <3>. QED
      BY <1>0, <3>4, <3>6, LedgerMoves DEF Ledger
  <2>4. Unused'
    BY <1>0, <2>0, <2>1, <2>2 DEF RowSame, Ledger, Unused, TypeOK
  <2>. QED
    BY <2>3, <2>4 DEF Ledger, StockLedger
<1>3. ASSUME NEW r \in Requests, NEW o \in OrderIds, StartCancel(r, o) PROVE Ledger'
  BY <1>3, RowsStay, LedgerKept DEF StartCancel, db, history
<1>4. CASE Other
  BY <1>0, <1>4, OtherStep, RowsStay, LedgerKept DEF Typed
<1>5. ASSUME NEW r \in Requests, NEW p \in Products, CheckItem(r, p) PROVE Ledger'
  BY <1>5, RowsStay, LedgerKept DEF CheckItem, db, history
<1>6. ASSUME NEW r \in Requests, CountOrders(r) PROVE Ledger'
  BY <1>6, RowsStay, LedgerKept DEF CountOrders, db, history
<1>7. ASSUME NEW p \in Restockable, NEW n \in StockLevels, UpdateStock(p, n) PROVE Ledger'
  <2>1. \A q \in Products \ Restockable : stock'[q] = stock[q]
    BY <1>0, <1>7 DEF UpdateStock, TypeOK
  <2>. QED
    BY <1>7, <2>1, RowsStay, LedgerKept DEF UpdateStock, handler, history
<1>8. CASE Midnight
  BY <1>8, RowsStay, LedgerKept DEF Midnight, handler, db, history
<1>. QED
  BY <1>1, <1>2, <1>3, <1>4, <1>5, <1>6, <1>7, <1>8, Kinds

\* Before there is an order nothing is held.
LEMMA InitLedger == Init => Ledger
<1> SUFFICES ASSUME Init PROVE Ledger
  OBVIOUS
<1>1. \A o \in OrderIds : order[o].items = NoItems /\ returned[o] = 0
  BY DEF Init, NoRow
<1>2. ASSUME NEW p \in Products
      PROVE  SumFunction(Held(p)) = 0
  <2>1. DOMAIN Held(p) = OrderIds /\ \A o \in OrderIds : Held(p)[o] = 0
    BY <1>1 DEF Held, NoItems
  <2>2. SumFunctionOnSet(Held(p), OrderIds) = 0
    BY <2>1, FiniteAssumption, SumOfZeros
  <2>. QED
    BY <2>1, <2>2, SumFunctionDef
<1>. QED
  BY <1>1, <1>2, StockAssumption DEF Init, Ledger, Unused, StockLedger

\* No unit is lost or invented by orders and cancellations, however they race: the stock
\* is always what it was, less what every order took and its cancellations did not bring
\* back (orders.service.ts).
THEOREM UnitsAccounted == Spec => []StockLedger
<1>1. Ledger => StockLedger
  BY DEF Ledger
<1>. QED
  BY <1>1, InitLedger, LedgerStep, Inductive, PTL DEF Spec

-----------------------------------------------------------------------------
(* One request at a time.                                                   *)

\* Two of the interleavings that the violated runs exhibit take two requests.  A server
\* that handled one request at a time, over a stock that only orders and cancellations
\* write, would never sell more than there is: the check of create is outside its
\* transaction, and that is the only thing wrong with it (orders.service.ts:54-57).
THEOREM AloneNeverOversells ==
  ASSUME Cardinality(Requests) = 1, Restockable = {}
  PROVE  Spec => []StockNeverNegative
<1>1. TypeOK /\ OversellBounded => StockNeverNegative
  <2> SUFFICES ASSUME TypeOK, OversellBounded, NEW p \in Products
               PROVE  stock[p] >= 0
    BY DEF StockNeverNegative
  <2>1. stock[p] >= -((Cardinality(Requests) - 1) * MaxQty) /\ stock[p] \in Int /\ MaxQty \in Int
    BY StockAssumption DEF OversellBounded, TypeOK
  <2>2. (Cardinality(Requests) - 1) * MaxQty = 0
    BY <2>1
  <2>. QED
    BY <2>1, <2>2
<1>. QED
  BY <1>1, OversellIsBounded, TypeCorrect, PTL

\* A cancellation in hand is of an order that is not paid.
Unpaid == \A r \in Requests : pc[r] = "cancel" => order[job[r].order].payment # "PAID"

\* With one request there is nobody to mark the order PAID behind its back.
LEMMA UnpaidStep ==
  ASSUME Cardinality(Requests) = 1
  PROVE  Typed /\ Unpaid /\ [Next]_vars => Unpaid'
<1> SUFFICES ASSUME Typed, Unpaid, [Next]_vars PROVE Unpaid'
  OBVIOUS
<1> USE DEF Typed, TypeOK
<1>1. PICK a : Requests = {a}
  BY FiniteAssumption, FS_Singleton
<1>2. pc'[a] # "cancel" => Unpaid'
  BY <1>1 DEF Unpaid
<1>3. ASSUME pc' = pc, job' = job,
             \A o \in OrderIds : order'[o].payment = order[o].payment
      PROVE  Unpaid'
  <2>1. pc[a] = "cancel" => job[a].order \in OrderIds
    BY <1>1 DEF WorksOnOrder, Working, Placed
  <2>. QED
    BY <1>1, <1>3, <2>1 DEF Unpaid
<1>4. CASE UNCHANGED vars
  BY <1>3, <1>4 DEF vars, handler, db
<1>5. CASE Environment
  <2>1. pc' = pc /\ job' = job
    BY <1>5 DEF Environment, UpdateStatus, UpdateStock, ChangeCart, ReadOrder, CustomerPays,
       Midnight, handler
  <2>2. \A o \in OrderIds : order'[o].payment = order[o].payment
    BY <1>5 DEF Environment, UpdateStatus, UpdateStock, ChangeCart, ReadOrder, CustomerPays,
       Midnight, db, Row
  <2>. QED
    BY <1>3, <2>1, <2>2
<1>6. ASSUME NEW o \in OrderIds, StartCancel(a, o)
      PROVE  Unpaid'
  <2>1. order[o].payment # "PAID" /\ order' = order /\ job'[a].order = o
    BY <1>1, <1>6 DEF StartCancel, Cancellable, db, NoJob
  <2>. QED
    BY <1>1, <2>1 DEF Unpaid
<1>7. ASSUME Arrival(a) \/ HandlerStep(a) \/ Abort(a), ~ \E o \in OrderIds : StartCancel(a, o)
      PROVE  Unpaid'
  <2>1. CASE Arrival(a)
    BY <1>1, <1>2, <1>7, <2>1 DEF Arrival, StartCheckout, VerifyPaidOrder, StartVerify, Goto,
       handler
  <2>2. CASE CheckoutStep(a)
    BY <1>1, <1>2, <2>2 DEF CheckoutStep, CheckItem, RefuseItem, CountOrders, InsertOrder,
       RefuseNumber, RequestPayment, RequestFails, StoreAuthority, ClearCart, Reply, Goto, Finish
  <2>3. CASE VerifyStep(a)
    BY <1>1, <1>2, <2>3 DEF VerifyStep, GatewayAccepts, GatewayRefuses, GatewayUnreachable,
       MarkFailed, MarkPaid, AlreadyDecided, Goto, Finish
  <2>4. CASE CommitCancel(a) \/ Abort(a)
    BY <1>1, <1>2, <2>4 DEF CommitCancel, Abort, Finish
  <2>. QED
    BY <1>7, <2>1, <2>2, <2>3, <2>4 DEF HandlerStep
<1>. QED
  BY <1>1, <1>4, <1>5, <1>6, <1>7 DEF Next

\* Nor would it ever cancel an order that is paid: what lets cancel do so is only that it
\* reads the payment before its transaction (orders.service.ts:300-303).  That the stock
\* comes back twice, and that settled money ends in FAILED, needs no second request.
THEOREM AloneSparesPaid ==
  ASSUME Cardinality(Requests) = 1
  PROVE  Spec => CancelSparesPaid
<1>1. Init => Unpaid
  BY DEF Init, Unpaid
<1>2. Typed /\ Unpaid /\ [Next]_vars
        => [\A o \in OrderIds : returned'[o] # returned[o] => order[o].payment # "PAID"]_vars
  <2> SUFFICES ASSUME Typed, Unpaid, [Next]_vars, NEW o \in OrderIds, returned'[o] # returned[o]
               PROVE  order[o].payment # "PAID"
    OBVIOUS
  <2>1. PICK r \in Requests : CommitCancel(r)
    <3>1. ~Other
      BY OtherStep
    <3>2. ASSUME NEW r \in Requests,
                 \/ \E p \in Products : CheckItem(r, p)
                 \/ CountOrders(r)
                 \/ \E x \in OrderIds : InsertOrder(r, x) \/ StartCancel(r, x)
          PROVE  FALSE
      BY <3>2 DEF CheckItem, CountOrders, InsertOrder, StartCancel, history
    <3>3. ~Midnight /\ ~ \E p \in Restockable, n \in StockLevels : UpdateStock(p, n)
      BY DEF Midnight, UpdateStock, history
    <3>. QED
      BY <3>1, <3>2, <3>3, Kinds
  <2>2. pc[r] = "cancel" /\ job[r].order = o
    BY <2>1 DEF CommitCancel, Typed, TypeOK
  <2>. QED
    BY <2>2 DEF Unpaid
<1>. QED
  BY <1>1, <1>2, UnpaidStep, Inductive, PTL DEF Spec, CancelSparesPaid

=============================================================================
