---------------------------- MODULE ShoppingProofs ----------------------------
(***************************************************************************)
(* Proofs of what Shopping promises for any number of requests, customers  *)
(* and products.                                                           *)
(***************************************************************************)
EXTENDS Shopping, Sums

Adding == {"checkStock", "findCart", "findLine", "checkSum", "updateLine", "insertLine"}
Level  == {"checkLevel", "setLine"}
Buying == {"findAddress", "readProducts", "insertOrder"}

Creating == {"clearDefault", "insertAddress"}
Changing == {"clearOthers", "updateAddress"}

\* The tables' part of the type invariant.
Tables ==
  /\ listed \subseteq Products
  /\ stock \in [Products -> Int] /\ peak \in [Products -> Nat] /\ price \in [Products -> Prices]
  /\ carts \subseteq Customers
  /\ DOMAIN line \subseteq LineIds /\ \A l \in DOMAIN line : line[l] \in Line
  /\ DOMAIN address \subseteq AddressIds /\ \A a \in DOMAIN address : address[a] \in Address
  /\ changed \in 0..MaxChanges
  /\ touched \in [Requests -> SUBSET LineIds]

\* The handlers' part.
Handlers == pc \in [Requests -> Steps] /\ job \in [Requests -> Job] /\ arrived \in 0..MaxArrivals

\* No product has more stock than its peak.
PeakHolds == \A p \in Products : stock[p] <= peak[p]

\* A handler's product, customer and cart are what its step needs, and what it will
\* write was checked against a stock.
Checked(r) ==
  LET j == job[r] IN
  /\ pc[r] # "idle" => j.user \in Customers
  /\ pc[r] \in Adding \cup Level => j.product \in Products
  /\ pc[r] \in {"findCart", "findLine", "checkSum", "insertLine", "setLine"}
       \/ (pc[r] = "insertCart" /\ j.product # None) =>
       j.product \in Products /\ j.quantity <= peak[j.product]
  /\ pc[r] = "updateLine" => Sum(r) <= peak[j.product]
  /\ pc[r] = "readCart" => j.product = None
  /\ pc[r] \in Creating \cup Changing => j.row \in AddressIds
  /\ pc[r] \in Creating => j.default \in BOOLEAN
  /\ pc[r] \in {"findLine", "checkSum", "updateLine", "insertLine"} => j.user \in carts

\* The line it has in hand is still the one it read, if it is there at all.
InHand(r) ==
  LET j == job[r] IN
  pc[r] \in {"checkSum", "updateLine"} \cup Level /\ j.row \in DOMAIN line =>
    Holds(j.row, j.user, j.product)

\* What it read of the cart is still so, but for the lines written since.
Current(r) ==
  LET j == job[r] IN
  /\ pc[r] \in {"checkSum", "updateLine"} /\ j.row \in DOMAIN line =>
       line[j.row].quantity = j.found \/ j.row \in touched[r]
  /\ pc[r] \in Buying \/ (pc[r] = "deleteLines" /\ j.row # None) =>
       \A l \in DOMAIN line :
         line[l].user = j.user => j.items[line[l].product] = line[l].quantity \/ l \in touched[r]

HandlerOk(r) == Checked(r) /\ InHand(r) /\ Current(r)

Inv ==
  /\ Tables /\ Handlers
  /\ PeakHolds /\ CartHolds
  /\ \A r \in Requests : HandlerOk(r)

LEMMA Types == TypeOK <=> Tables /\ Handlers
BY DEF TypeOK, Tables, Handlers

LEMMA BlankTyped == Blank \in Job /\ Blank.row = None /\ Blank.product = None
BY DEF Blank, Job, NoItems, Unread

\* Lines are written only where others will know, and with fresh ids.
LineStep(r) ==
  /\ \A l \in DOMAIN line' :
       \/ l \in DOMAIN line /\ line'[l] = line[l]
       \/ /\ \A x \in Readers \ {r} : l \in touched'[x]
          /\ IF l \in DOMAIN line THEN line'[l].user = line[l].user /\ line'[l].product = line[l].product
             ELSE Fresh(l)
  /\ \A x \in Readers \ {r} : touched[x] \subseteq touched'[x]

\* Carts stay and peaks rise.
Growing ==
  /\ carts \subseteq carts'
  /\ \A p \in Products : peak[p] <= peak'[p]

\* The handlers that do not move are all right still.
LEMMA OthersStay ==
  ASSUME Inv, NEW r, LineStep(r), Growing, peak' \in [Products -> Nat],
         NEW x \in Requests \ {r}, pc'[x] = pc[x], job'[x] = job[x]
  PROVE  HandlerOk(x)'
<1> DEFINE j == job[x]
<1>1. HandlerOk(x) /\ j \in Job /\ job'[x] = j /\ pc'[x] = pc[x]
  BY DEF Inv, Handlers
<1>2. Checked(x)'
  <2>1. Sum(x)' = Sum(x)
    BY DEF Sum
  <2>2. j.quantity \in Nat /\ Sum(x) \in Nat
    BY <1>1 DEF Job, Sum
  <2>3. \A p \in Products : peak[p] \in Nat /\ peak'[p] \in Nat
    BY DEF Inv, Tables
  <2>4. pc[x] \in {"findCart", "findLine", "checkSum", "insertLine", "setLine"}
          \/ (pc[x] = "insertCart" /\ j.product # None)
          => j.product \in Products /\ j.quantity <= peak'[j.product]
    BY <1>1, <2>2, <2>3 DEF HandlerOk, Checked, Growing
  <2>5. pc[x] = "updateLine" => Sum(x) <= peak'[j.product]
    BY <1>1, <2>2, <2>3 DEF HandlerOk, Checked, Growing, Adding
  <2>. QED
    BY <1>1, <2>1, <2>4, <2>5 DEF HandlerOk, Checked, Growing
<1>3. InHand(x)'
  BY <1>1 DEF HandlerOk, InHand, Holds, LineStep, Fresh
<1>4. Current(x)'
  <2>1. pc[x] \in {"checkSum", "updateLine"} \cup Buying \/ (pc[x] = "deleteLines" /\ j.row # None) => x \in Readers
    BY DEF Readers, Buying
  <2>2. ASSUME pc[x] \in {"checkSum", "updateLine"}, j.row \in DOMAIN line'
        PROVE  line'[j.row].quantity = j.found \/ j.row \in touched'[x]
    BY <1>1, <2>1, <2>2 DEF HandlerOk, Current, LineStep
  <2>3. ASSUME pc[x] \in Buying \/ (pc[x] = "deleteLines" /\ j.row # None),
               NEW l \in DOMAIN line', line'[l].user = j.user
        PROVE  j.items[line'[l].product] = line'[l].quantity \/ l \in touched'[x]
    BY <1>1, <2>1, <2>3 DEF HandlerOk, Current, LineStep
  <2>. QED
    BY <1>1, <2>2, <2>3 DEF Current
<1>. QED
  BY <1>2, <1>3, <1>4 DEF HandlerOk

\* A handler that moves to a step with its variables.
LEMMA Moves ==
  ASSUME Handlers, NEW r \in Requests, NEW step \in Steps, NEW j \in Job,
         pc' = [pc EXCEPT ![r] = step], job' = [job EXCEPT ![r] = j], arrived' \in 0..MaxArrivals
  PROVE  /\ Handlers'
         /\ pc'[r] = step /\ job'[r] = j
         /\ \A x \in Requests \ {r} : pc'[x] = pc[x] /\ job'[x] = job[x]
BY DEF Handlers

\* The same, when only its step changes.
LEMMA Walks ==
  ASSUME Handlers, NEW r \in Requests, NEW step \in Steps,
         pc' = [pc EXCEPT ![r] = step], job' = job, arrived' = arrived
  PROVE  /\ Handlers'
         /\ pc'[r] = step /\ job'[r] = job[r]
         /\ \A x \in Requests \ {r} : pc'[x] = pc[x] /\ job'[x] = job[x]
BY DEF Handlers

\* A handler that ends.
LEMMA Ends ==
  ASSUME Handlers, NEW r \in Requests, NEW from, Finish(r, from)
  PROVE  /\ Handlers'
         /\ HandlerOk(r)'
         /\ pc[r] = from
         /\ \A x \in Requests \ {r} : pc'[x] = pc[x] /\ job'[x] = job[x]
<1>1. /\ Handlers'
      /\ pc'[r] = "idle"
      /\ \A x \in Requests \ {r} : pc'[x] = pc[x] /\ job'[x] = job[x]
  BY Moves, BlankTyped DEF Finish, Goto, Steps, Handlers
<1>. QED
  BY <1>1 DEF HandlerOk, Checked, InHand, Current, Adding, Level, Buying, Creating, Changing,
     Finish, Goto

\* Nothing of the shop or the cart changes, but for r reading the cart.
Quiet(r) ==
  /\ UNCHANGED <<listed, stock, peak, price, changed, carts, line>>
  /\ touched' = touched \/ ReadBy(r)

\* A step that leaves the shop and the carts alone has to fit its own handler only.
LEMMA QuietKeeps ==
  ASSUME Inv, NEW r \in Requests, Quiet(r), Handlers', HandlerOk(r)',
         DOMAIN address' \subseteq AddressIds, \A a \in DOMAIN address' : address'[a] \in Address,
         \A x \in Requests \ {r} : pc'[x] = pc[x] /\ job'[x] = job[x]
  PROVE  Inv'
<1>1. touched' \in [Requests -> SUBSET LineIds] /\ \A x \in Requests \ {r} : touched'[x] = touched[x]
  BY DEF Quiet, ReadBy, Inv, Tables
<1>2. Tables'
  BY <1>1 DEF Quiet, Inv, Tables
<1>3. PeakHolds' /\ CartHolds'
  BY DEF Quiet, Inv, PeakHolds, CartHolds, Holds
<1>4. LineStep(r)
  BY <1>1 DEF Quiet, LineStep, Readers
<1>5. Growing /\ peak' \in [Products -> Nat]
  BY DEF Quiet, Growing, Inv, Tables
<1>6. \A x \in Requests \ {r} : HandlerOk(x)'
  BY <1>4, <1>5, OthersStay
<1>. QED
  BY <1>2, <1>3, <1>6 DEF Inv

-----------------------------------------------------------------------------
(* Handlers that arrive, look and end.                                      *)

\* The end of a handler that changes nothing.
LEMMA FailKeeps ==
  ASSUME Inv, NEW r \in Requests, Fail(r)
  PROVE  Inv'
<1>1. Handlers' /\ HandlerOk(r)' /\ \A x \in Requests \ {r} : pc'[x] = pc[x] /\ job'[x] = job[x]
  BY Ends DEF Fail, Inv
<1>2. Quiet(r) /\ address' = address
  BY DEF Fail, Quiet, shop, basket
<1>. QED
  BY <1>1, <1>2, QuietKeeps DEF Inv, Tables

\* A request begins with what its step needs.
LEMMA StartKeeps ==
  ASSUME Inv, NEW r \in Requests, NEW step \in Steps, NEW j \in Job, Start(r, step, j),
         HandlerOk(r)'
  PROVE  Inv'
<1>1. arrived' \in 0..MaxArrivals
  BY BoundsAssumption DEF Start, Inv, Handlers
<1>2. Handlers' /\ \A x \in Requests \ {r} : pc'[x] = pc[x] /\ job'[x] = job[x]
  BY <1>1, Moves DEF Start, Inv
<1>3. Quiet(r) /\ address' = address
  BY DEF Start, Quiet, shop, basket
<1>. QED
  BY <1>2, <1>3, QuietKeeps DEF Inv, Tables

\* What a request's step and variables are once it began.
LEMMA Begins ==
  ASSUME Inv, NEW r \in Requests, NEW step, NEW j, Start(r, step, j)
  PROVE  pc'[r] = step /\ job'[r] = j
BY DEF Start, Inv, Handlers

LEMMA CartArrivalKeeps ==
  ASSUME Inv, NEW r \in Requests, NEW u \in Customers, CartArrival(r, u)
  PROVE  Inv'
<1>0. Quantities \subseteq Nat
  BY AmountsAssumption
<1>1. ASSUME NEW p \in Products, NEW quantity \in Quantities, AddToCart(r, u, p, quantity)
      PROVE  Inv'
  <2> DEFINE j == [Blank EXCEPT !.user = u, !.product = p, !.quantity = quantity]
  <2>1. j \in Job /\ j.user = u /\ j.product = p
    BY <1>0, BlankTyped DEF Job, Blank
  <2>2. Start(r, "checkStock", j)
    BY <1>1 DEF AddToCart
  <2>3. pc'[r] = "checkStock" /\ job'[r] = j
    BY <2>2, Begins
  <2>4. HandlerOk(r)'
    BY <2>1, <2>3 DEF HandlerOk, Checked, InHand, Current, Adding, Level, Buying, Creating,
       Changing
  <2>. QED
    BY <2>1, <2>2, <2>4, StartKeeps DEF Steps
<1>2. ASSUME GetCart(r, u)
      PROVE  Inv'
  <2> DEFINE j == [Blank EXCEPT !.user = u]
  <2>1. j \in Job /\ j.user = u /\ j.product = None
    BY BlankTyped DEF Job, Blank
  <2>2. Start(r, "insertCart", j)
    BY <1>2 DEF GetCart
  <2>3. pc'[r] = "insertCart" /\ job'[r] = j
    BY <2>2, Begins
  <2>4. HandlerOk(r)'
    BY <2>1, <2>3 DEF HandlerOk, Checked, InHand, Current, Adding, Level, Buying, Creating,
       Changing
  <2>. QED
    BY <2>1, <2>2, <2>4, StartKeeps DEF Steps
<1>3. ASSUME ClearCart(r, u)
      PROVE  Inv'
  <2> DEFINE j == [Blank EXCEPT !.user = u]
  <2>1. j \in Job /\ j.user = u /\ j.row = None
    BY BlankTyped DEF Job, Blank
  <2>2. Start(r, "deleteLines", j)
    BY <1>3 DEF ClearCart
  <2>3. pc'[r] = "deleteLines" /\ job'[r] = j
    BY <2>2, Begins
  <2>4. HandlerOk(r)'
    BY <2>1, <2>3 DEF HandlerOk, Checked, InHand, Current, Adding, Level, Buying, Creating,
       Changing
  <2>. QED
    BY <2>1, <2>2, <2>4, StartKeeps DEF Steps
<1>4. ASSUME NEW l \in LineIds, NEW quantity \in Quantities, UpdateCartItem(r, u, l, quantity)
      PROVE  Inv'
  <2> DEFINE j == [Blank EXCEPT !.user = u, !.row = l, !.quantity = quantity,
                                !.product = line[l].product]
  <2>0. l \in DOMAIN line /\ line[l].user = u /\ line[l].product \in Products
    BY <1>4 DEF UpdateCartItem, OwnLine, Inv, Tables, Line
  <2>1. j \in Job /\ j.user = u /\ j.product = line[l].product /\ j.row = l
    BY <1>0, <2>0, BlankTyped DEF Job, Blank
  <2>2. Start(r, "checkLevel", j)
    BY <1>4 DEF UpdateCartItem
  <2>3. pc'[r] = "checkLevel" /\ job'[r] = j /\ line' = line
    BY <2>2, Begins DEF Start, basket
  <2>4. HandlerOk(r)'
    BY <2>0, <2>1, <2>3 DEF HandlerOk, Checked, InHand, Current, Holds, Adding, Level, Buying,
       Creating, Changing
  <2>. QED
    BY <2>1, <2>2, <2>4, StartKeeps DEF Steps
<1>5. ASSUME NEW l \in LineIds, RemoveFromCart(r, u, l)
      PROVE  Inv'
  <2> DEFINE j == [Blank EXCEPT !.user = u, !.row = l]
  <2>1. j \in Job /\ j.user = u
    BY BlankTyped DEF Job, Blank
  <2>2. Start(r, "deleteLine", j)
    BY <1>5 DEF RemoveFromCart
  <2>3. pc'[r] = "deleteLine" /\ job'[r] = j
    BY <2>2, Begins
  <2>4. HandlerOk(r)'
    BY <2>1, <2>3 DEF HandlerOk, Checked, InHand, Current, Adding, Level, Buying, Creating,
       Changing
  <2>. QED
    BY <2>1, <2>2, <2>4, StartKeeps DEF Steps
<1>. QED
  BY <1>1, <1>2, <1>3, <1>4, <1>5 DEF CartArrival

LEMMA AddressArrivalKeeps ==
  ASSUME Inv, NEW r \in Requests, NEW u \in Customers, AddressArrival(r, u)
  PROVE  Inv'
<1>1. PICK a \in AddressIds :
        \/ \E default \in BOOLEAN : CreateAddress(r, u, a, default)
        \/ \E default \in BOOLEAN \cup {Keep} : UpdateAddress(r, u, a, default)
        \/ RemoveAddress(r, u, a) \/ StartCheckout(r, u, a)
  BY DEF AddressArrival
<1> DEFINE Asked(default) == [Blank EXCEPT !.user = u, !.row = a, !.default = default]
           Named == [Blank EXCEPT !.user = u, !.row = a]
<1>2. \A default \in BOOLEAN \cup {Keep} : 
             /\ Asked(default) \in Job /\ Asked(default).user = u /\ Asked(default).product = None
             /\ Asked(default).row = a /\ Asked(default).default = default
  BY BlankTyped DEF Job, Blank
<1>3. Named \in Job /\ Named.user = u /\ Named.product = None
  BY BlankTyped DEF Job, Blank
<1> HIDE DEF Asked, Named
<1>4. PICK step \in {"clearDefault", "insertAddress", "clearOthers", "updateAddress",
                    "deleteAddress", "readCart"}, j \in Job :
        /\ Start(r, step, j) /\ j.user = u /\ j.product = None
        /\ step \in Creating \cup Changing => j.row \in AddressIds
        /\ step \in Creating => j.default \in BOOLEAN
  <2>1. ASSUME NEW default \in BOOLEAN, CreateAddress(r, u, a, default)
        PROVE  \E step \in {"clearDefault", "insertAddress"} : Start(r, step, Asked(default))
    <3>1. Start(r, IF default THEN "clearDefault" ELSE "insertAddress", Asked(default))
      BY <2>1 DEF CreateAddress, Asked
    <3>. QED
      BY <3>1
  <2>2. ASSUME NEW default \in BOOLEAN \cup {Keep}, UpdateAddress(r, u, a, default)
        PROVE  \E step \in {"clearOthers", "updateAddress"} : Start(r, step, Asked(default))
    <3>1. Start(r, IF default = TRUE THEN "clearOthers" ELSE "updateAddress", Asked(default))
      BY <2>2 DEF UpdateAddress, Asked
    <3>. QED
      BY <3>1
  <2>3. ASSUME RemoveAddress(r, u, a) \/ StartCheckout(r, u, a)
        PROVE  \E step \in {"deleteAddress", "readCart"} : Start(r, step, Named)
    BY <2>3 DEF RemoveAddress, StartCheckout, Named
  <2>4. CASE \E default \in BOOLEAN : CreateAddress(r, u, a, default)
    <3>1. PICK default \in BOOLEAN : CreateAddress(r, u, a, default)
      BY <2>4
    <3>. QED
      BY <3>1, <1>2, <2>1 DEF Creating, Changing
  <2>5. CASE \E default \in BOOLEAN \cup {Keep} : UpdateAddress(r, u, a, default)
    <3>1. PICK default \in BOOLEAN \cup {Keep} : UpdateAddress(r, u, a, default)
      BY <2>5
    <3>. QED
      BY <3>1, <1>2, <2>2 DEF Creating, Changing
  <2>6. CASE RemoveAddress(r, u, a) \/ StartCheckout(r, u, a)
    BY <1>3, <2>3, <2>6 DEF Creating, Changing
  <2>. QED
    BY <1>1, <2>4, <2>5, <2>6
<1>5. pc'[r] = step /\ job'[r] = j
  BY <1>4, Begins
<1>6. HandlerOk(r)'
  BY <1>4, <1>5 DEF HandlerOk, Checked, InHand, Current, Adding, Level, Buying, Creating, Changing
<1>. QED
  BY <1>4, <1>6, StartKeeps DEF Steps

-----------------------------------------------------------------------------
(* The steps of the handlers.                                               *)

\* A step that fits the tables and its own handler.
LEMMA StepKeeps ==
  ASSUME Inv, NEW r \in Requests, Tables', Handlers', PeakHolds', CartHolds', LineStep(r), Growing,
         HandlerOk(r)', \A x \in Requests \ {r} : pc'[x] = pc[x] /\ job'[x] = job[x]
  PROVE  Inv'
<1>1. \A x \in Requests \ {r} : HandlerOk(x)'
  BY OthersStay DEF Tables
<1>. QED
  BY <1>1 DEF Inv

\* A look that is passed.
LEMMA PassKeeps ==
  ASSUME Inv, NEW r \in Requests, NEW from, NEW to \in Steps, NEW passed, Pass(r, from, to, passed),
         HandlerOk(r)'
  PROVE  Inv'
<1>1. Handlers' /\ \A x \in Requests \ {r} : pc'[x] = pc[x] /\ job'[x] = job[x]
  BY Walks DEF Pass, Goto, Inv
<1>2. Quiet(r) /\ address' = address
  BY DEF Pass, Quiet, shop, basket
<1>. QED
  BY <1>1, <1>2, QuietKeeps DEF Inv, Tables

LEMMA Passes ==
  ASSUME Inv, NEW r \in Requests, NEW from, NEW to, NEW passed, Pass(r, from, to, passed)
  PROVE  /\ passed /\ HandlerOk(r) /\ job[r] \in Job
         /\ pc[r] = from /\ pc'[r] = to /\ job'[r] = job[r]
         /\ UNCHANGED <<listed, stock, peak, carts, line, touched>>
BY DEF Pass, Goto, Inv, Handlers, shop, basket

\* What is in stock is no more than the peak.
LEMMA StockSmall ==
  ASSUME Inv, NEW p, NEW quantity \in Nat, HasStock(p, quantity)
  PROVE  p \in Products /\ quantity <= peak[p]
<1>1. p \in Products
  BY DEF HasStock, Inv, Tables
<1>2. stock[p] \in Int /\ peak[p] \in Nat /\ stock[p] <= peak[p]
  BY <1>1 DEF Inv, Tables, PeakHolds
<1>. QED
  BY <1>1, <1>2 DEF HasStock

LEMMA LooksKeep ==
  ASSUME Inv, NEW r \in Requests,
         CheckStock(r) \/ FindCart(r) \/ CheckSum(r) \/ CheckLevel(r) \/ FindAddress(r) \/ EndLoop(r)
  PROVE  Inv'
<1>1. CASE CheckStock(r)
  <2>1. pc[r] = "checkStock" /\ pc'[r] = "findCart" /\ job'[r] = job[r] /\ job[r] \in Job /\ HandlerOk(r)
        /\ HasStock(job[r].product, job[r].quantity) /\ UNCHANGED <<peak, carts, line, touched>>
    BY <1>1, Passes DEF CheckStock
  <2>2. job[r].product \in Products /\ job[r].quantity <= peak[job[r].product]
    BY <2>1, StockSmall DEF Job
  <2>3. HandlerOk(r)'
    BY <2>1, <2>2 DEF HandlerOk, Checked, InHand, Current, Adding, Level, Buying, Creating,
       Changing
  <2>. QED
    BY <1>1, <2>3, PassKeeps DEF CheckStock, Steps
<1>2. CASE FindCart(r)
  <2> DEFINE to == IF job[r].user \in carts THEN "findLine" ELSE "insertCart"
  <2>1. Pass(r, "findCart", to, TRUE)
    BY <1>2 DEF FindCart, Pass
  <2>2. pc[r] = "findCart" /\ pc'[r] = to /\ job'[r] = job[r] /\ job[r] \in Job /\ HandlerOk(r)
        /\ UNCHANGED <<peak, carts, line, touched>>
    BY <2>1, Passes
  <2>3. HandlerOk(r)'
    BY <2>2 DEF HandlerOk, Checked, InHand, Current, Adding, Level, Buying, Creating, Changing
  <2>. QED
    BY <2>1, <2>3, PassKeeps DEF Steps
<1>3. CASE CheckSum(r)
  <2>1. pc[r] = "checkSum" /\ pc'[r] = "updateLine" /\ job'[r] = job[r] /\ job[r] \in Job /\ HandlerOk(r)
        /\ HasStock(job[r].product, Sum(r)) /\ UNCHANGED <<peak, carts, line, touched>>
    BY <1>3, Passes DEF CheckSum
  <2>2. job[r].product \in Products /\ Sum(r) <= peak[job[r].product]
    BY <2>1, StockSmall DEF Job, Sum
  <2>3. HandlerOk(r)'
    BY <2>1, <2>2 DEF HandlerOk, Checked, InHand, Current, Adding, Level, Buying, Creating,
       Changing, Sum, Holds
  <2>. QED
    BY <1>3, <2>3, PassKeeps DEF CheckSum, Steps
<1>4. CASE CheckLevel(r)
  <2>1. pc[r] = "checkLevel" /\ pc'[r] = "setLine" /\ job'[r] = job[r] /\ job[r] \in Job /\ HandlerOk(r)
        /\ HasStock(job[r].product, job[r].quantity) /\ UNCHANGED <<peak, carts, line, touched>>
    BY <1>4, Passes DEF CheckLevel
  <2>2. job[r].product \in Products /\ job[r].quantity <= peak[job[r].product]
    BY <2>1, StockSmall DEF Job
  <2>3. HandlerOk(r)'
    BY <2>1, <2>2 DEF HandlerOk, Checked, InHand, Current, Adding, Level, Buying, Creating,
       Changing, Holds
  <2>. QED
    BY <1>4, <2>3, PassKeeps DEF CheckLevel, Steps
<1>5. CASE FindAddress(r)
  <2>1. pc[r] = "findAddress" /\ pc'[r] = "readProducts" /\ job'[r] = job[r] /\ job[r] \in Job
        /\ HandlerOk(r) /\ UNCHANGED <<peak, carts, line, touched>>
    BY <1>5, Passes DEF FindAddress
  <2>2. HandlerOk(r)'
    BY <2>1 DEF HandlerOk, Checked, InHand, Current, Adding, Level, Buying, Creating, Changing
  <2>. QED
    BY <1>5, <2>2, PassKeeps DEF FindAddress, Steps
<1>6. CASE EndLoop(r)
  <2>1. pc[r] = "readProducts" /\ pc'[r] = "insertOrder" /\ job'[r] = job[r] /\ job[r] \in Job
        /\ HandlerOk(r) /\ UNCHANGED <<peak, carts, line, touched>>
    BY <1>6, Passes DEF EndLoop
  <2>2. HandlerOk(r)'
    BY <2>1 DEF HandlerOk, Checked, InHand, Current, Adding, Level, Buying, Creating, Changing
  <2>. QED
    BY <1>6, <2>2, PassKeeps DEF EndLoop, Steps
<1>. QED
  BY <1>1, <1>2, <1>3, <1>4, <1>5, <1>6

\* A handler that goes on with other variables and leaves the shop and the carts alone.
LEMMA GoKeeps ==
  ASSUME Inv, NEW r \in Requests, NEW from, NEW to \in Steps, NEW j \in Job, Goto(r, from, to),
         job' = [job EXCEPT ![r] = j], Quiet(r), address' = address, HandlerOk(r)'
  PROVE  Inv'
<1>1. arrived' \in 0..MaxArrivals
  BY DEF Goto, Inv, Handlers
<1>2. Handlers' /\ \A x \in Requests \ {r} : pc'[x] = pc[x] /\ job'[x] = job[x]
  BY <1>1, Moves DEF Goto, Inv
<1>. QED
  BY <1>2, QuietKeeps DEF Inv, Tables

LEMMA FindLineKeeps ==
  ASSUME Inv, NEW r \in Requests, FindLine(r)
  PROVE  Inv'
<1> DEFINE u == job[r].user
           p == job[r].product
           Found == {l \in DOMAIN line : Holds(l, u, p)}
<1>1. job[r] \in Job /\ HandlerOk(r) /\ pc[r] = "findLine" /\ Quiet(r) /\ address' = address
      /\ peak' = peak /\ carts' = carts /\ line' = line
  BY DEF FindLine, Goto, Inv, Handlers, Quiet, shop
<1>2. ASSUME NEW l \in Found, Goto(r, "findLine", "checkSum"),
             job' = [job EXCEPT ![r].row = l, ![r].found = line[l].quantity]
      PROVE  Inv'
  <2> DEFINE j == [job[r] EXCEPT !.row = l, !.found = line[l].quantity]
  <2>1. l \in LineIds /\ line[l].quantity \in Nat
    BY DEF Inv, Tables, Line
  <2>2. j \in Job /\ j.user = u /\ j.product = p /\ j.row = l /\ j.found = line[l].quantity
        /\ j.quantity = job[r].quantity
    BY <1>1, <2>1 DEF Job
  <2>3. job' = [job EXCEPT ![r] = j]
    BY <1>2 DEF Inv, Handlers
  <2>4. pc'[r] = "checkSum" /\ job'[r] = j
    BY <1>2, <2>3 DEF Goto, Inv, Handlers
  <2>5. HandlerOk(r)'
    BY <1>1, <2>2, <2>4 DEF HandlerOk, Checked, InHand, Current, Holds, Adding, Level, Buying,
       Creating, Changing
  <2>. QED
    BY <1>1, <1>2, <2>2, <2>3, <2>5, GoKeeps DEF Steps
<1>3. ASSUME Found = {}, Goto(r, "findLine", "insertLine"), job' = job
      PROVE  Inv'
  <2>1. job' = [job EXCEPT ![r] = job[r]] /\ pc'[r] = "insertLine" /\ job'[r] = job[r]
    BY <1>3 DEF Goto, Inv, Handlers
  <2>2. HandlerOk(r)'
    BY <1>1, <2>1 DEF HandlerOk, Checked, InHand, Current, Adding, Level, Buying, Creating,
       Changing
  <2>. QED
    BY <1>1, <1>3, <2>1, <2>2, GoKeeps DEF Steps
<1>. QED
  BY <1>2, <1>3 DEF FindLine

\* The basket shows the quantity of every line of a customer.
LEMMA BasketShows ==
  ASSUME Inv, NEW u
  PROVE  /\ Basket(u) \in [Products -> Nat]
         /\ \A l \in DOMAIN line : line[l].user = u => Basket(u)[line[l].product] = line[l].quantity
<1> DEFINE Found(p) == {l \in LinesOf(u) : line[l].product = p}
<1>1. \A l \in DOMAIN line : line[l].quantity \in Nat /\ line[l].product \in Products
  BY DEF Inv, Tables, Line
<1>2. \A p : Found(p) # {} => (CHOOSE l \in Found(p) : TRUE) \in Found(p)
  OBVIOUS
<1>3. \A l \in DOMAIN line : line[l].user = u => Found(line[l].product) = {l}
  BY DEF LinesOf, Inv, CartHolds, Holds
<1>4. \A p \in Products : Basket(u)[p] = IF Found(p) = {} THEN 0
                                         ELSE line[CHOOSE l \in Found(p) : TRUE].quantity
  BY DEF Basket
<1>5. \A p \in Products : Basket(u)[p] \in Nat
  BY <1>1, <1>2, <1>4 DEF LinesOf
<1>6. ASSUME NEW l \in DOMAIN line, line[l].user = u
      PROVE  Basket(u)[line[l].product] = line[l].quantity
  BY <1>1, <1>2, <1>3, <1>4, <1>6
<1>. QED
  BY <1>5, <1>6 DEF Basket

LEMMA ReadCartKeeps ==
  ASSUME Inv, NEW r \in Requests, ReadCart(r)
  PROVE  Inv'
<1>1. CASE Pass(r, "readCart", "insertCart", job[r].user \notin carts)
  <2>1. pc[r] = "readCart" /\ pc'[r] = "insertCart" /\ job'[r] = job[r] /\ HandlerOk(r)
        /\ UNCHANGED <<peak, carts, line, touched>>
    BY <1>1, Passes
  <2>2. HandlerOk(r)'
    BY <2>1 DEF HandlerOk, Checked, InHand, Current, Adding, Level, Buying, Creating, Changing
  <2>. QED
    BY <1>1, <2>2, PassKeeps DEF Steps
<1>2. ASSUME Goto(r, "readCart", "findAddress"),
             job' = [job EXCEPT ![r].items = Basket(job[r].user)], ReadBy(r),
             UNCHANGED <<shop, carts, line, address, orders>>
      PROVE  Inv'
  <2> DEFINE j == [job[r] EXCEPT !.items = Basket(job[r].user)]
  <2>1. job[r] \in Job /\ HandlerOk(r) /\ pc[r] = "readCart" /\ Quiet(r) /\ address' = address
        /\ line' = line
    BY <1>2 DEF Goto, Inv, Handlers, Quiet, shop
  <2>2. j \in Job /\ j.user = job[r].user /\ j.items = Basket(j.user)
    BY <2>1, BasketShows DEF Job
  <2>3. job' = [job EXCEPT ![r] = j] /\ pc'[r] = "findAddress"
    BY <1>2 DEF Goto, Inv, Handlers
  <2>4. job'[r] = j
    BY <2>3 DEF Inv, Handlers
  <2>5. \A l \in DOMAIN line : line[l].user = j.user => j.items[line[l].product] = line[l].quantity
    BY <2>2, BasketShows
  <2> HIDE DEF j
  <2>6. HandlerOk(r)'
    BY <2>1, <2>2, <2>3, <2>4, <2>5 DEF HandlerOk, Checked, InHand, Current, Adding, Level,
       Buying, Creating, Changing
  <2>. QED
    BY <1>2, <2>1, <2>2, <2>3, <2>6, GoKeeps DEF Steps
<1>. QED
  BY <1>1, <1>2 DEF ReadCart

\* The variables of the loop keep their types.
LEMMA ChargedTyped ==
  ASSUME NEW j \in Job, NEW p \in Products, NEW amount \in Nat, Percent[p] \in Nat
  PROVE  /\ Charged(j, p, amount) \in Job
         /\ Charged(j, p, amount).user = j.user /\ Charged(j, p, amount).items = j.items
         /\ Charged(j, p, amount).bill = [j.bill EXCEPT ![p] = amount]
         /\ Charged(j, p, amount).subtotal = j.subtotal + amount * j.items[p]
         /\ Charged(j, p, amount).discount = j.discount + amount * Percent[p] * j.items[p]
<1>1. j.items[p] \in Nat /\ j.subtotal \in Nat /\ j.discount \in Nat
  BY DEF Job
<1>2. amount * j.items[p] \in Nat /\ amount * Percent[p] * j.items[p] \in Nat
  <2>1. \A m, n \in Nat : m * n \in Nat
    OBVIOUS
  <2>. QED
    BY <1>1, <2>1
<1> DEFINE k == Charged(j, p, amount)
<1>3. /\ k.bill = [j.bill EXCEPT ![p] = amount]
      /\ k.subtotal = j.subtotal + amount * j.items[p]
      /\ k.discount = j.discount + amount * Percent[p] * j.items[p]
      /\ k.user = j.user /\ k.items = j.items
  BY DEF Charged, Job
<1>4. k.bill \in [Products -> Nat \cup {None}]
  BY <1>3 DEF Job
<1>5. k.subtotal \in Nat /\ k.discount \in Nat
  BY <1>1, <1>2, <1>3
<1>6. k \in Job
  <2>1. k = [j EXCEPT !.bill = k.bill, !.subtotal = k.subtotal, !.discount = k.discount]
    BY DEF Charged, Job
  <2>. HIDE DEF k
  <2>. QED
    BY <1>4, <1>5, <2>1 DEF Job
<1>. QED
  BY <1>3, <1>6

LEMMA ReadProductKeeps ==
  ASSUME Inv, NEW r \in Requests, NEW p \in Products, ReadProduct(r, p)
  PROVE  Inv'
<1> DEFINE j == Charged(job[r], p, price[p])
<1>1. job[r] \in Job /\ HandlerOk(r) /\ pc[r] = "readProducts" /\ Quiet(r) /\ address' = address
      /\ line' = line /\ touched' = touched
  BY DEF ReadProduct, Goto, Inv, Handlers, Quiet, shop, basket
<1>2. price[p] \in Nat /\ Percent[p] \in Nat /\ job[r].items[p] \in Nat
  <2>1. price[p] \in Prices /\ Prices \subseteq Nat /\ Percent[p] \in 0..100
    BY AmountsAssumption DEF Inv, Tables
  <2>2. job[r].items \in [Products -> Nat]
    BY <1>1 DEF Job
  <2>3. job[r].items[p] \in Nat
    BY <2>2
  <2>4. price[p] \in Nat
    BY <2>1
  <2>5. Percent[p] \in Nat
    BY <2>1
  <2>. QED
    BY <2>3, <2>4, <2>5
<1>3. j \in Job /\ j.user = job[r].user /\ j.items = job[r].items
  BY <1>1, <1>2, ChargedTyped
<1>4. job' = [job EXCEPT ![r] = j] /\ pc'[r] = "readProducts"
  BY DEF ReadProduct, Goto, Inv, Handlers
<1> HIDE DEF j
<1>5. job'[r] = j
  BY <1>4 DEF Inv, Handlers
<1>6. HandlerOk(r)'
  BY <1>1, <1>3, <1>4, <1>5 DEF HandlerOk, Checked, InHand, Current, Adding, Level, Buying,
     Creating, Changing
<1>. QED
  BY <1>1, <1>3, <1>4, <1>6, GoKeeps DEF ReadProduct, Steps

-----------------------------------------------------------------------------
(* The writes.                                                              *)

\* The line in hand takes a quantity that was checked.
LEMMA SetQuantityKeeps ==
  ASSUME Inv, NEW r \in Requests, NEW from \in {"updateLine", "setLine"}, NEW quantity \in Nat,
         SetQuantity(r, from, quantity), quantity <= peak[job[r].product]
  PROVE  Inv'
<1> DEFINE l == job[r].row
<1>1. l \in DOMAIN line /\ UNCHANGED <<listed, stock, peak, price, changed, carts, address>>
      /\ line' = [line EXCEPT ![l].quantity = quantity] /\ Touch(r, l)
  BY DEF SetQuantity, shop
<1>2. Finish(r, from)
  BY DEF SetQuantity
<1>3. Handlers' /\ HandlerOk(r)' /\ pc[r] = from
      /\ \A x \in Requests \ {r} : pc'[x] = pc[x] /\ job'[x] = job[x]
  BY <1>2, Ends DEF Inv
<1>4. line[l].user = job[r].user /\ line[l].product = job[r].product
  BY <1>1, <1>3 DEF Inv, HandlerOk, InHand, Level, Holds
<1>5. /\ DOMAIN line' = DOMAIN line
      /\ \A m \in DOMAIN line : m # l => line'[m] = line[m]
      /\ line'[l] = [line[l] EXCEPT !.quantity = quantity]
  BY <1>1
<1>6. /\ line[l] \in Line /\ line'[l] \in Line
      /\ line'[l].user = line[l].user /\ line'[l].product = line[l].product
      /\ line'[l].quantity = quantity
  BY <1>1, <1>5 DEF Inv, Tables, Line
<1>7. touched' \in [Requests -> SUBSET LineIds]
      /\ \A x \in Readers \ {r} : touched'[x] = touched[x] \cup {l}
  BY <1>1 DEF Touch, Inv, Tables, Readers
<1>8. Tables'
  BY <1>1, <1>5, <1>6, <1>7 DEF Inv, Tables
<1>9. CartHolds'
  <2>1. \A m \in DOMAIN line : line'[m].user = line[m].user /\ line'[m].product = line[m].product
    BY <1>5, <1>6
  <2>2. \A m, n \in DOMAIN line' : Holds(m, line[n].user, line[n].product)' => m = n
    BY <1>5, <2>1 DEF Inv, CartHolds, Holds
  <2>3. \A m \in DOMAIN line' : line'[m].quantity <= peak'[line'[m].product]
    BY <1>1, <1>4, <1>5, <1>6 DEF Inv, CartHolds
  <2>. QED
    BY <1>1, <1>5, <2>1, <2>2, <2>3 DEF Inv, CartHolds, Holds
<1>10. PeakHolds'
  BY <1>1 DEF Inv, PeakHolds
<1>11. LineStep(r)
  BY <1>5, <1>6, <1>7 DEF LineStep
<1>12. Growing
  BY <1>1 DEF Growing, Inv, Tables
<1>. QED
  BY <1>3, <1>8, <1>9, <1>10, <1>11, <1>12, StepKeeps

LEMMA WritesKeep ==
  ASSUME Inv, NEW r \in Requests, UpdateLine(r) \/ SetLine(r)
  PROVE  Inv'
<1>1. job[r] \in Job /\ HandlerOk(r)
  BY DEF Inv, Handlers
<1>2. CASE UpdateLine(r)
  <2>1. pc[r] = "updateLine" /\ Sum(r) \in Nat
    BY <1>1, <1>2 DEF UpdateLine, SetQuantity, Finish, Goto, Sum, Job
  <2>2. Sum(r) <= peak[job[r].product]
    BY <1>1, <2>1 DEF HandlerOk, Checked
  <2>. QED
    BY <1>2, <2>1, <2>2, SetQuantityKeeps DEF UpdateLine
<1>3. CASE SetLine(r)
  <2>1. pc[r] = "setLine" /\ job[r].quantity \in Nat
    BY <1>1, <1>3 DEF SetLine, SetQuantity, Finish, Goto, Job
  <2>2. job[r].quantity <= peak[job[r].product]
    BY <1>1, <2>1 DEF HandlerOk, Checked
  <2>. QED
    BY <1>3, <2>1, <2>2, SetQuantityKeeps DEF SetLine
<1>. QED
  BY <1>2, <1>3

LEMMA InsertCartKeeps ==
  ASSUME Inv, NEW r \in Requests, InsertCart(r)
  PROVE  Inv'
<1>1. job[r] \in Job /\ HandlerOk(r) /\ pc[r] = "insertCart"
      /\ carts' = carts \cup {job[r].user}
      /\ UNCHANGED <<listed, stock, peak, price, changed, line, touched, address>>
  BY DEF InsertCart, Finish, Goto, Inv, Handlers, shop
<1>2. Handlers' /\ HandlerOk(r)' /\ \A x \in Requests \ {r} : pc'[x] = pc[x] /\ job'[x] = job[x]
  <2>1. CASE job[r].product = None
    BY <2>1, Ends DEF InsertCart, Inv
  <2>2. CASE job[r].product # None
    <3>1. Goto(r, "insertCart", "findLine") /\ job' = job
      BY <2>2 DEF InsertCart
    <3>2. Handlers' /\ pc'[r] = "findLine" /\ job'[r] = job[r]
          /\ \A x \in Requests \ {r} : pc'[x] = pc[x] /\ job'[x] = job[x]
      BY <3>1, Walks DEF Goto, Inv, Steps
    <3>3. HandlerOk(r)'
      BY <1>1, <2>2, <3>2 DEF HandlerOk, Checked, InHand, Current, Adding, Level, Buying,
         Creating, Changing
    <3>. QED
      BY <3>2, <3>3
  <2>. QED
    BY <2>1, <2>2
<1>3. job[r].user \in Customers
  BY <1>1 DEF HandlerOk, Checked
<1>4. Tables'
  BY <1>1, <1>3 DEF Inv, Tables
<1>5. PeakHolds' /\ CartHolds'
  BY <1>1 DEF Inv, PeakHolds, CartHolds, Holds
<1>6. LineStep(r) /\ Growing
  BY <1>1 DEF LineStep, Growing, Readers, Inv, Tables
<1>. QED
  BY <1>2, <1>4, <1>5, <1>6, StepKeeps

LEMMA InsertLineKeeps ==
  ASSUME Inv, NEW r \in Requests, NEW l \in LineIds, InsertLine(r, l)
  PROVE  Inv'
<1> DEFINE j == job[r]
           new == [user |-> j.user, product |-> j.product, quantity |-> j.quantity]
<1>1. job[r] \in Job /\ HandlerOk(r) /\ pc[r] = "insertLine"
      /\ l \notin DOMAIN line /\ Fresh(l) /\ j.product \in listed /\ LineFree(j.user, j.product)
      /\ line' = Put(line, l, new) /\ Touch(r, l)
      /\ UNCHANGED <<listed, stock, peak, price, changed, carts, address>>
  BY DEF InsertLine, Finish, Goto, Inv, Handlers, shop
<1>2. Finish(r, "insertLine")
  BY DEF InsertLine
<1>3. Handlers' /\ HandlerOk(r)' /\ \A x \in Requests \ {r} : pc'[x] = pc[x] /\ job'[x] = job[x]
  BY <1>2, Ends DEF Inv
<1>4. j.user \in Customers /\ j.user \in carts /\ j.product \in Products /\ j.quantity \in Nat
      /\ j.quantity <= peak[j.product]
  BY <1>1 DEF HandlerOk, Checked, Job, Adding
<1>5. /\ DOMAIN line' = DOMAIN line \cup {l} /\ line'[l] = new
      /\ \A m \in DOMAIN line : line'[m] = line[m]
  BY <1>1 DEF Put
<1>6. new \in Line /\ new.user = j.user /\ new.product = j.product /\ new.quantity = j.quantity
  BY <1>4 DEF Line
<1> HIDE DEF new, j
<1>7. touched' \in [Requests -> SUBSET LineIds]
      /\ \A x \in Readers \ {r} : touched'[x] = touched[x] \cup {l}
  BY <1>1 DEF Touch, Inv, Tables, Readers
<1>8. Tables'
  BY <1>1, <1>5, <1>6, <1>7 DEF Inv, Tables
<1>9. CartHolds'
  BY <1>1, <1>4, <1>5, <1>6 DEF Inv, CartHolds, Holds, LineFree
<1>10. PeakHolds'
  BY <1>1 DEF Inv, PeakHolds
<1>11. LineStep(r)
  BY <1>1, <1>5, <1>7 DEF LineStep
<1>12. Growing
  BY <1>1 DEF Growing, Inv, Tables
<1>. QED
  BY <1>3, <1>8, <1>9, <1>10, <1>11, <1>12, StepKeeps

\* Rows that go leave the rest as it is.
LEMMA FewerLines ==
  ASSUME Inv, NEW D \in SUBSET DOMAIN line, line' = Only(line, D), NEW r,
         UNCHANGED <<peak, carts, touched>>
  PROVE  /\ DOMAIN line' = D /\ \A l \in D : line'[l] = line[l]
         /\ DOMAIN line' \subseteq LineIds /\ \A l \in DOMAIN line' : line'[l] \in Line
         /\ \A l, m \in DOMAIN line' : Holds(l, line[m].user, line[m].product)' => l = m
         /\ \A l \in DOMAIN line' : line'[l].quantity <= peak'[line'[l].product]
         /\ LineStep(r) /\ Growing
<1>1. DOMAIN line' = D /\ \A l \in D : line'[l] = line[l]
  BY DEF Only
<1>2. DOMAIN line' \subseteq LineIds /\ \A l \in DOMAIN line' : line'[l] \in Line
  BY <1>1 DEF Inv, Tables
<1>3. \A l, m \in DOMAIN line' : Holds(l, line[m].user, line[m].product)' => l = m
  BY <1>1 DEF Inv, CartHolds, Holds
<1>4. \A l \in DOMAIN line' : line'[l].quantity <= peak'[line'[l].product]
  BY <1>1 DEF Inv, CartHolds
<1>5. LineStep(r) /\ Growing
  BY <1>1 DEF LineStep, Growing, Inv, Tables
<1>. QED
  BY <1>1, <1>2, <1>3, <1>4, <1>5

LEMMA DeletesKeep ==
  ASSUME Inv, NEW r \in Requests, DeleteLine(r) \/ DeleteLines(r)
  PROVE  Inv'
<1>1. PICK D \in SUBSET DOMAIN line : line' = Only(line, D)
  <2>1. CASE DeleteLine(r)
    BY <2>1 DEF DeleteLine
  <2>2. CASE DeleteLines(r)
    BY <2>2 DEF DeleteLines
  <2>. QED
    BY <2>1, <2>2
<1>2. UNCHANGED <<listed, stock, peak, price, changed, carts, touched, address>>
  BY DEF DeleteLine, DeleteLines, shop
<1>3. Handlers' /\ HandlerOk(r)' /\ \A x \in Requests \ {r} : pc'[x] = pc[x] /\ job'[x] = job[x]
  BY Ends DEF DeleteLine, DeleteLines, Inv
<1>4. /\ DOMAIN line' = D /\ \A l \in D : line'[l] = line[l]
      /\ DOMAIN line' \subseteq LineIds /\ \A l \in DOMAIN line' : line'[l] \in Line
      /\ \A l, m \in DOMAIN line' : Holds(l, line[m].user, line[m].product)' => l = m
      /\ \A l \in DOMAIN line' : line'[l].quantity <= peak'[line'[l].product]
      /\ LineStep(r) /\ Growing
  BY <1>1, <1>2, FewerLines
<1>5. Tables'
  BY <1>2, <1>4 DEF Inv, Tables
<1>6. PeakHolds' /\ CartHolds'
  BY <1>2, <1>4 DEF Inv, PeakHolds, CartHolds, Holds
<1>. QED
  BY <1>3, <1>4, <1>5, <1>6, StepKeeps

LEMMA InsertOrderKeeps ==
  ASSUME Inv, NEW r \in Requests, InsertOrder(r)
  PROVE  Inv'
<1>1. job[r] \in Job /\ HandlerOk(r) /\ pc[r] = "insertOrder"
      /\ stock' = [p \in Products |-> stock[p] - job[r].items[p]]
      /\ UNCHANGED <<listed, peak, price, changed, carts, line, touched, address>>
  BY DEF InsertOrder, Goto, Inv, Handlers, basket
<1>2. Handlers' /\ pc'[r] = "deleteLines" /\ job'[r] = job[r]
      /\ \A x \in Requests \ {r} : pc'[x] = pc[x] /\ job'[x] = job[x]
  BY Walks DEF InsertOrder, Goto, Inv, Steps
<1>3. HandlerOk(r)'
  BY <1>1, <1>2 DEF HandlerOk, Checked, InHand, Current, Adding, Level, Buying, Creating, Changing
<1>4. \A p \in Products : /\ stock[p] \in Int /\ peak[p] \in Nat /\ job[r].items[p] \in Nat
                          /\ stock[p] <= peak[p]
  BY <1>1 DEF Inv, Tables, PeakHolds, Job
<1>5. \A p \in Products : stock'[p] \in Int /\ stock'[p] <= peak'[p]
  BY <1>1, <1>4
<1>6. Tables'
  BY <1>1, <1>5 DEF Inv, Tables
<1>7. PeakHolds' /\ CartHolds'
  BY <1>1, <1>5 DEF Inv, PeakHolds, CartHolds, Holds
<1>8. LineStep(r) /\ Growing
  BY <1>1, <1>4 DEF LineStep, Growing
<1>. QED
  BY <1>2, <1>3, <1>6, <1>7, <1>8, StepKeeps

LEMMA AdminKeeps ==
  ASSUME Inv, NEW p \in Products,
         \/ \E level \in Levels : SetStock(p, level)
         \/ \E amount \in Prices : Reprice(p, amount)
         \/ RemoveProduct(p)
  PROVE  Inv'
<1>1. changed' \in 0..MaxChanges /\ Handlers' /\ pc' = pc /\ job' = job
      /\ UNCHANGED <<carts, touched, address>>
  BY BoundsAssumption DEF SetStock, Reprice, RemoveProduct, Administer, Inv, Tables, Handlers,
     handlers, basket
<1>2. PICK out : out \notin Requests
  BY NoSetContainsEverything
<1>3. ASSUME Tables', PeakHolds', CartHolds', LineStep(out), Growing
      PROVE  Inv'
  <2>1. \A x \in Requests : HandlerOk(x)'
    BY <1>1, <1>2, <1>3, OthersStay DEF Tables
  <2>. QED
    BY <1>1, <1>3, <2>1 DEF Inv
<1>4. ASSUME NEW level \in Levels, SetStock(p, level)
      PROVE  Inv'
  <2>1. /\ stock' = [stock EXCEPT ![p] = level] /\ level \in Nat
        /\ peak' = [peak EXCEPT ![p] = IF level > @ THEN level ELSE @]
        /\ UNCHANGED <<listed, price, line>>
    BY <1>4, AmountsAssumption DEF SetStock, basket
  <2>2. \A q \in Products : stock[q] \in Int /\ peak[q] \in Nat /\ stock[q] <= peak[q]
    BY DEF Inv, Tables, PeakHolds
  <2>3. \A q \in Products : /\ stock'[q] \in Int /\ peak'[q] \in Nat
                            /\ stock'[q] <= peak'[q] /\ peak[q] <= peak'[q]
    BY <2>1, <2>2 DEF Inv, Tables
  <2>4. Tables'
    BY <1>1, <2>1, <2>3 DEF Inv, Tables
  <2>5. PeakHolds' /\ Growing
    BY <1>1, <2>3 DEF PeakHolds, Growing
  <2>6. \A l \in DOMAIN line : line[l].product \in Products /\ line[l].quantity \in Nat
                               /\ line[l].quantity <= peak[line[l].product]
    BY DEF Inv, Tables, CartHolds, Line
  <2>7. \A l \in DOMAIN line : line[l].quantity <= peak'[line[l].product]
    BY <2>2, <2>3, <2>6
  <2>8. CartHolds'
    BY <1>1, <2>1, <2>7 DEF Inv, CartHolds, Holds
  <2>9. LineStep(out)
    BY <1>1, <2>1 DEF LineStep
  <2>. QED
    BY <1>3, <2>4, <2>5, <2>8, <2>9
<1>5. ASSUME NEW amount \in Prices, Reprice(p, amount)
      PROVE  Inv'
  <2>1. price' = [price EXCEPT ![p] = amount] /\ UNCHANGED <<listed, stock, peak, line>>
    BY <1>5 DEF Reprice, basket
  <2>2. Tables'
    BY <1>1, <2>1 DEF Inv, Tables
  <2>3. PeakHolds' /\ CartHolds'
    BY <1>1, <2>1 DEF Inv, PeakHolds, CartHolds, Holds
  <2>4. LineStep(out) /\ Growing
    BY <1>1, <2>1 DEF LineStep, Growing, Inv, Tables
  <2>. QED
    BY <1>3, <2>2, <2>3, <2>4
<1>6. ASSUME RemoveProduct(p)
      PROVE  Inv'
  <2> DEFINE D == {l \in DOMAIN line : line[l].product # p}
  <2>1. line' = Only(line, D) /\ listed' = listed \ {p} /\ UNCHANGED <<stock, price, peak>>
    BY <1>6 DEF RemoveProduct
  <2>2. /\ DOMAIN line' = D /\ \A l \in D : line'[l] = line[l]
        /\ DOMAIN line' \subseteq LineIds /\ \A l \in DOMAIN line' : line'[l] \in Line
        /\ \A l, m \in DOMAIN line' : Holds(l, line[m].user, line[m].product)' => l = m
        /\ \A l \in DOMAIN line' : line'[l].quantity <= peak'[line'[l].product]
        /\ LineStep(out) /\ Growing
    BY <1>1, <2>1, FewerLines
  <2>3. Tables'
    BY <1>1, <2>1, <2>2 DEF Inv, Tables
  <2>4. PeakHolds' /\ CartHolds'
    BY <1>1, <2>1, <2>2 DEF Inv, PeakHolds, CartHolds, Holds
  <2>. QED
    BY <1>3, <2>2, <2>3, <2>4
<1>. QED
  BY <1>4, <1>5, <1>6

\* What becomes of the addresses: cleared, written, inserted or gone, each with its type.
LEMMA ClearedTyped ==
  ASSUME Inv, NEW A
  PROVE  /\ DOMAIN ClearedOf(A) = DOMAIN address
         /\ \A a \in DOMAIN address :
              /\ ClearedOf(A)[a] \in Address
              /\ ClearedOf(A)[a].user = address[a].user
              /\ ClearedOf(A)[a].default => address[a].default /\ a \notin A
<1>1. \A a \in DOMAIN address : address[a] \in Address
  BY DEF Inv, Tables
<1>2. ASSUME NEW a \in DOMAIN address
      PROVE  /\ ClearedOf(A)[a] \in Address
             /\ ClearedOf(A)[a].user = address[a].user
             /\ ClearedOf(A)[a].default => address[a].default /\ a \notin A
  <2>1. CASE a \in A
    <3>1. ClearedOf(A)[a] = [address[a] EXCEPT !.default = FALSE]
      BY <2>1 DEF ClearedOf
    <3>. QED
      BY <1>1, <3>1 DEF Address
  <2>2. CASE a \notin A
    <3>1. ClearedOf(A)[a] = address[a]
      BY <2>2 DEF ClearedOf
    <3>. QED
      BY <1>1, <2>2, <3>1
  <2>. QED
    BY <2>1, <2>2
<1>. QED
  BY <1>2 DEF ClearedOf

LEMMA AddressStepKeeps ==
  ASSUME Inv, NEW r \in Requests, AddressStep(r)
  PROVE  Inv'
<1> DEFINE j == job[r]
<1>1. j \in Job /\ HandlerOk(r) /\ Quiet(r)
  BY DEF AddressStep, ClearDefault, InsertAddress, ClearOthers, WriteAddress, DeleteAddress,
     Inv, Handlers, Quiet, shop, basket
<1>2. \A a \in DOMAIN address : address[a] \in Address /\ a \in AddressIds
  BY DEF Inv, Tables
<1>3. ASSUME NEW A, NEW to \in Steps, pc' = [pc EXCEPT ![r] = to], arrived' = arrived,
             job' = job, address' = ClearedOf(A),
             \/ pc[r] = "clearDefault" /\ to = "insertAddress"
             \/ pc[r] = "clearOthers" /\ to = "updateAddress"
      PROVE  Inv'
  <2>1. Handlers' /\ pc'[r] = to /\ job'[r] = job[r]
        /\ \A x \in Requests \ {r} : pc'[x] = pc[x] /\ job'[x] = job[x]
    BY <1>3, Walks DEF Inv
  <2>2. HandlerOk(r)'
    BY <1>1, <1>3, <2>1 DEF HandlerOk, Checked, InHand, Current, Adding, Level, Buying,
       Creating, Changing
  <2>3. DOMAIN address' \subseteq AddressIds /\ \A a \in DOMAIN address' : address'[a] \in Address
    BY <1>2, <1>3, ClearedTyped
  <2>. QED
    BY <1>1, <2>1, <2>2, <2>3, QuietKeeps
<1>4. ASSUME NEW from, Finish(r, from), DOMAIN address' \subseteq AddressIds,
             \A a \in DOMAIN address' : address'[a] \in Address
      PROVE  Inv'
  BY <1>1, <1>4, Ends, QuietKeeps DEF Inv
<1>5. CASE ClearDefault(r)
  <2>1. pc[r] = "clearDefault" /\ pc' = [pc EXCEPT ![r] = "insertAddress"] /\ arrived' = arrived
        /\ job' = job /\ address' = ClearedOf(DefaultsOf(job[r].user))
    BY <1>5 DEF ClearDefault, Goto
  <2>. QED
    BY <1>3, <2>1 DEF Steps
<1>6. CASE ClearOthers(r)
  <2>1. pc[r] = "clearOthers" /\ pc' = [pc EXCEPT ![r] = "updateAddress"] /\ arrived' = arrived
        /\ job' = job /\ address' = ClearedOf(DefaultsOf(job[r].user) \ {job[r].row})
    BY <1>6 DEF ClearOthers, Goto
  <2>. QED
    BY <1>3, <2>1 DEF Steps
<1>7. CASE InsertAddress(r)
  <2> DEFINE new == [user |-> j.user, default |-> j.default]
  <2>1. pc[r] = "insertAddress" /\ address' = Put(address, j.row, new)
    BY <1>7 DEF InsertAddress, Finish, Goto
  <2>2. j.row \in AddressIds /\ new \in Address
    BY <1>1, <2>1 DEF HandlerOk, Checked, Creating, Address
  <2> HIDE DEF new
  <2>3. DOMAIN address' \subseteq AddressIds /\ \A a \in DOMAIN address' : address'[a] \in Address
    BY <1>2, <2>1, <2>2 DEF Put
  <2>. QED
    BY <1>4, <1>7, <2>3 DEF InsertAddress
<1>8. CASE WriteAddress(r)
  <2> DEFINE a == j.row
  <2>1. a \in DOMAIN address /\ address' = [address EXCEPT ![a].default = Field(j.default, @)]
    BY <1>8 DEF WriteAddress
  <2>2. Field(j.default, address[a].default) \in BOOLEAN
    BY <1>1, <1>2, <2>1 DEF Field, Job, Address
  <2>3. address'[a] \in Address /\ DOMAIN address' = DOMAIN address
        /\ \A b \in DOMAIN address : b # a => address'[b] = address[b]
    BY <1>2, <2>1, <2>2 DEF Address
  <2>4. DOMAIN address' \subseteq AddressIds /\ \A b \in DOMAIN address' : address'[b] \in Address
    BY <1>2, <2>3
  <2>. QED
    BY <1>4, <1>8, <2>4 DEF WriteAddress
<1>9. CASE DeleteAddress(r)
  <2>1. DOMAIN address' \subseteq AddressIds /\ \A a \in DOMAIN address' : address'[a] \in Address
    BY <1>2, <1>9 DEF DeleteAddress, Only
  <2>. QED
    BY <1>4, <1>9, <2>1 DEF DeleteAddress
<1>. QED
  BY <1>5, <1>6, <1>7, <1>8, <1>9 DEF AddressStep

-----------------------------------------------------------------------------
(* The invariant, and what follows from it.                                 *)

LEMMA InitInv == Init => Inv
<1>. SUFFICES ASSUME Init PROVE Inv
  OBVIOUS
<1>2. Tables
  <2>1. PICK A \in SUBSET AddressIds : address \in [A -> Address]
    BY DEF Init
  <2>2. DOMAIN address \subseteq AddressIds /\ \A a \in DOMAIN address : address[a] \in Address
    BY <2>1
  <2>3. DOMAIN line = {}
    BY DEF Init
  <2>4. stock \in [Products -> Int] /\ peak \in [Products -> Nat] /\ price \in [Products -> Prices]
    BY AmountsAssumption DEF Init
  <2>5. listed \subseteq Products /\ carts \subseteq Customers /\ changed \in 0..MaxChanges
        /\ touched \in [Requests -> SUBSET LineIds]
    BY BoundsAssumption DEF Init
  <2>. QED
    BY <2>2, <2>3, <2>4, <2>5 DEF Tables
<1>3. Handlers
  <2>1. arrived \in 0..MaxArrivals
    BY BoundsAssumption DEF Init
  <2>. QED
    BY <2>1, BlankTyped DEF Init, Handlers, Steps
<1>4. PeakHolds /\ CartHolds
  <2>1. DOMAIN line = {}
    BY DEF Init
  <2>2. \A p \in Products : stock[p] = peak[p] /\ stock[p] \in Nat
    BY AmountsAssumption DEF Init
  <2>. QED
    BY <2>1, <2>2 DEF PeakHolds, CartHolds
<1>5. \A r \in Requests : HandlerOk(r)
  <2>1. \A r \in Requests : pc[r] = "idle"
    BY DEF Init
  <2>. QED
    BY <2>1 DEF HandlerOk, Checked, InHand, Current, Adding, Level, Buying, Creating, Changing
<1>. QED
  BY <1>2, <1>3, <1>4, <1>5 DEF Inv

LEMMA StepInv == Inv /\ [Next]_vars => Inv'
<1>. SUFFICES ASSUME Inv, [Next]_vars PROVE Inv'
  OBVIOUS
<1>2. CASE UNCHANGED vars
  <2>1. UNCHANGED <<listed, stock, price, changed, peak, carts, line, touched, address, pc, job, arrived>>
    BY <1>2 DEF vars, shop, basket, handlers
  <2>2. Tables' /\ Handlers' /\ PeakHolds'
    BY <2>1 DEF Inv, Tables, Handlers, PeakHolds
  <2>3. CartHolds'
    BY <2>1 DEF Inv, CartHolds, Holds
  <2>4. \A r \in Requests : HandlerOk(r)'
    BY <2>1 DEF Inv, HandlerOk, Checked, InHand, Current, Sum, Holds
  <2>. QED
    BY <2>2, <2>3, <2>4 DEF Inv
<1>3. ASSUME NEW r \in Requests, NEW u \in Customers, CartArrival(r, u) \/ AddressArrival(r, u)
      PROVE  Inv'
  BY <1>3, CartArrivalKeeps, AddressArrivalKeeps
<1>4. ASSUME NEW r \in Requests, CartStep(r)
      PROVE  Inv'
  BY <1>4, LooksKeep, InsertCartKeeps, FindLineKeeps, WritesKeep, InsertLineKeeps,
     DeletesKeep DEF CartStep
<1>5. ASSUME NEW r \in Requests, AddressStep(r) \/ Fail(r)
      PROVE  Inv'
  BY <1>5, AddressStepKeeps, FailKeeps
<1>6. ASSUME NEW r \in Requests, CheckoutStep(r)
      PROVE  Inv'
  BY <1>6, LooksKeep, ReadCartKeeps, ReadProductKeeps, InsertOrderKeeps DEF CheckoutStep
<1>7. ASSUME NEW p \in Products,
             \/ \E level \in Levels : SetStock(p, level)
             \/ \E amount \in Prices : Reprice(p, amount)
             \/ RemoveProduct(p)
      PROVE  Inv'
  BY <1>7, AdminKeeps
<1>. QED
  BY <1>2, <1>3, <1>4, <1>5, <1>6, <1>7 DEF Next

\* Whatever the requests and the administrator do, in whatever order, the invariant
\* holds: what the handlers have in hand of the cart is what is there, but for the
\* lines written since.
THEOREM Inductive == Spec => []Inv
BY InitInv, StepInv, PTL DEF Spec

\* The rows of carts and addresses and the variables of the handlers keep their types.
THEOREM TypeCorrect == Spec => []TypeOK
<1>1. Inv => TypeOK
  BY Types DEF Inv
<1>. QED
  BY <1>1, Inductive, PTL

\* No customer ever has two lines of a product, a line without its cart or product, or
\* one that asks for more than there ever was (addToCart, updateCartItem).
THEOREM CartsHold == Spec => []CartHolds
<1>1. Inv => CartHolds
  BY DEF Inv
<1>. QED
  BY <1>1, Inductive, PTL

-----------------------------------------------------------------------------
(* What single steps may do.                                                *)

\* A handler moves by its own steps only.
Own(r) ==
  \/ \E u \in Customers : CartArrival(r, u) \/ AddressArrival(r, u)
  \/ CartStep(r) \/ AddressStep(r) \/ CheckoutStep(r) \/ Fail(r)

LEMMA Moved ==
  ASSUME NEW x \in Requests, Own(x)
  PROVE  \E to : pc' = [pc EXCEPT ![x] = to]
<1>1. ASSUME NEW u \in Customers, CartArrival(x, u)
      PROVE  \E to : pc' = [pc EXCEPT ![x] = to]
  BY <1>1 DEF CartArrival, AddToCart, GetCart, ClearCart, UpdateCartItem, RemoveFromCart, Start
<1>2. ASSUME NEW u \in Customers, AddressArrival(x, u)
      PROVE  \E to : pc' = [pc EXCEPT ![x] = to]
  BY <1>2 DEF AddressArrival, CreateAddress, UpdateAddress, RemoveAddress, StartCheckout, Start
<1>3. ASSUME CartStep(x)
      PROVE  \E to : pc' = [pc EXCEPT ![x] = to]
  BY <1>3 DEF CartStep, CheckStock, FindCart, InsertCart, FindLine, CheckSum, UpdateLine,
     InsertLine,
     CheckLevel, SetLine, DeleteLine, DeleteLines, SetQuantity, Pass, Goto, Finish
<1>4. ASSUME AddressStep(x)
      PROVE  \E to : pc' = [pc EXCEPT ![x] = to]
  BY <1>4 DEF AddressStep, ClearDefault, InsertAddress, ClearOthers, WriteAddress, DeleteAddress,
     Goto, Finish
<1>5. ASSUME CheckoutStep(x)
      PROVE  \E to : pc' = [pc EXCEPT ![x] = to]
  BY <1>5 DEF CheckoutStep, ReadCart, FindAddress, ReadProduct, EndLoop, InsertOrder, Pass, Goto
<1>6. ASSUME Fail(x)
      PROVE  \E to : pc' = [pc EXCEPT ![x] = to]
  BY <1>6 DEF Fail, Finish, Goto
<1>. QED
  BY <1>1, <1>2, <1>3, <1>4, <1>5, <1>6 DEF Own

LEMMA Movers ==
  ASSUME [Next]_vars, NEW r \in Requests, pc'[r] # pc[r]
  PROVE  Own(r)
<1>1. pc' # pc
  OBVIOUS
<1>2. Next
  BY <1>1 DEF vars, handlers
<1>3. ASSUME NEW p \in Products,
             \/ \E level \in Levels : SetStock(p, level)
             \/ \E amount \in Prices : Reprice(p, amount)
             \/ RemoveProduct(p)
      PROVE  FALSE
  BY <1>1, <1>3 DEF SetStock, Reprice, RemoveProduct, handlers
<1>4. PICK x \in Requests : Own(x)
  BY <1>2, <1>3 DEF Next, Own
<1>5. PICK to : pc' = [pc EXCEPT ![x] = to]
  BY <1>4, Moved
<1>6. x = r
  BY <1>5
<1>. QED
  BY <1>4, <1>6

LEMMA MovesFromUpdate ==
  ASSUME NEW r \in Requests, Own(r), pc[r] = "updateLine"
  PROVE  UpdateLine(r) \/ line' = line
<1>1. ~ \E u \in Customers : CartArrival(r, u) \/ AddressArrival(r, u)
  BY DEF CartArrival, AddToCart, GetCart, ClearCart, UpdateCartItem, RemoveFromCart,
     AddressArrival, CreateAddress, UpdateAddress, RemoveAddress, StartCheckout, Start
<1>2. CASE CartStep(r)
  BY <1>2 DEF CartStep, CheckStock, FindCart, InsertCart, FindLine, CheckSum, InsertLine,
     CheckLevel, SetLine, DeleteLine, DeleteLines, SetQuantity, Pass, Goto, Finish
<1>3. CASE AddressStep(r) \/ CheckoutStep(r)
  BY <1>3 DEF AddressStep, ClearDefault, InsertAddress, ClearOthers, WriteAddress, DeleteAddress,
     CheckoutStep, ReadCart, FindAddress, ReadProduct, EndLoop, InsertOrder, Pass, Goto, Finish
<1>4. CASE Fail(r)
  BY <1>4 DEF Fail, basket
<1>. QED
  BY <1>1, <1>2, <1>3, <1>4 DEF Own

LEMMA MovesFromDelete ==
  ASSUME NEW r \in Requests, Own(r), pc[r] = "deleteLines"
  PROVE  DeleteLines(r) \/ line' = line
<1>1. ~ \E u \in Customers : CartArrival(r, u) \/ AddressArrival(r, u)
  BY DEF CartArrival, AddToCart, GetCart, ClearCart, UpdateCartItem, RemoveFromCart,
     AddressArrival, CreateAddress, UpdateAddress, RemoveAddress, StartCheckout, Start
<1>2. CASE CartStep(r)
  BY <1>2 DEF CartStep, CheckStock, FindCart, InsertCart, FindLine, CheckSum, UpdateLine,
     InsertLine,
     CheckLevel, SetLine, DeleteLine, SetQuantity, Pass, Goto, Finish
<1>3. CASE AddressStep(r) \/ CheckoutStep(r)
  BY <1>3 DEF AddressStep, ClearDefault, InsertAddress, ClearOthers, WriteAddress, DeleteAddress,
     CheckoutStep, ReadCart, FindAddress, ReadProduct, EndLoop, InsertOrder, Pass, Goto, Finish
<1>4. CASE Fail(r)
  BY <1>4 DEF Fail, basket
<1>. QED
  BY <1>1, <1>2, <1>3, <1>4 DEF Own

\* The part of AdditionsCount that is about one request.
LEMMA AdditionCounts ==
  ASSUME Inv, [Next]_vars, NEW r \in Requests,
         pc[r] = "updateLine", line' # line, pc'[r] # pc[r]
  PROVE  LET l == job[r].row IN
           line'[l].quantity = line[l].quantity + job[r].quantity \/ l \in touched[r]
<1> DEFINE l == job[r].row
<1>1. UpdateLine(r)
  BY Movers, MovesFromUpdate
<1>2. l \in DOMAIN line /\ line' = [line EXCEPT ![l].quantity = Sum(r)] /\ HandlerOk(r)
  BY <1>1 DEF UpdateLine, SetQuantity, Inv
<1>3. line[l].quantity = job[r].found \/ l \in touched[r]
  BY <1>2 DEF HandlerOk, Current
<1>4. line[l] \in Line
  BY <1>2 DEF Inv, Tables
<1>5. line'[l].quantity = Sum(r)
  BY <1>2, <1>4 DEF Line
<1>. QED
  BY <1>3, <1>5 DEF Sum

\* An addition raises a line by what was asked for, unless the line was written in
\* between: addToCart writes a sum (cart.service.ts).
THEOREM AdditionsAreCounted == Spec => AdditionsCount
<1>1. Inv /\ [Next]_vars =>
        [\A r \in Requests :
           LET l == job[r].row IN
           (pc[r] = "updateLine" /\ line' # line /\ pc'[r] # pc[r]) =>
             line'[l].quantity = line[l].quantity + job[r].quantity \/ l \in touched[r]]_vars
  BY AdditionCounts
<1>. QED
  BY <1>1, Inductive, PTL DEF Spec, AdditionsCount

\* The part of ClearedWasOrdered that is about one request.
LEMMA ClearingSpares ==
  ASSUME Inv, [Next]_vars, NEW r \in Requests,
         pc[r] = "deleteLines", pc'[r] # pc[r], job[r].row # None,
         NEW l \in DOMAIN line \ DOMAIN line'
  PROVE  job[r].items[line[l].product] = line[l].quantity \/ l \in touched[r]
<1>1. DeleteLines(r)
  BY Movers, MovesFromDelete
<1>2. line[l].user = job[r].user
  BY <1>1 DEF DeleteLines, Only
<1>3. HandlerOk(r)
  BY DEF Inv
<1>. QED
  BY <1>2, <1>3 DEF HandlerOk, Current

\* A checkout clears away nothing but what it ordered and what was written since it
\* read the cart (clearCart).
THEOREM ClearingIsOrdered == Spec => ClearedWasOrdered
<1>1. Inv /\ [Next]_vars =>
        [\A r \in Requests :
           (pc[r] = "deleteLines" /\ pc'[r] # pc[r] /\ job[r].row # None) =>
             \A l \in DOMAIN line \ DOMAIN line' :
               job[r].items[line[l].product] = line[l].quantity \/ l \in touched[r]]_vars
  BY ClearingSpares
<1>. QED
  BY <1>1, Inductive, PTL DEF Spec, ClearedWasOrdered

-----------------------------------------------------------------------------
(* The default addresses, counted with those about to be set.               *)

\* The requests whose next statement sets a default of customer u.
Setting(u) ==
  {r \in Requests : /\ pc[r] \in {"insertAddress", "updateAddress"}
                    /\ job[r].default = TRUE /\ job[r].user = u}

Prospective(u) == DefaultsOf(u) \cup {job[r].row : r \in Setting(u)}

\* Nobody else writes the row of an address that is being created.
RowsApart ==
  \A x \in Requests :
    pc[x] \in Creating =>
      /\ job[x].row \notin DOMAIN address
      /\ \A y \in Requests \ {x} : pc[y] \in Creating \cup Changing => job[y].row # job[x].row

\* Customers change their own addresses, and clear others to set one.
Owned ==
  \A x \in Requests :
    /\ pc[x] \in Changing /\ job[x].row \in DOMAIN address => address[job[x].row].user = job[x].user
    /\ pc[x] = "clearOthers" => job[x].default = TRUE

Bounded == \A u \in Customers : Cardinality(Prospective(u)) <= Cardinality(Requests)

AddressInv == RowsApart /\ Owned /\ Bounded

Others(r) == \A y \in Requests \ {r} : pc'[y] = pc[y] /\ job'[y] = job[y]

\* Before a step and after it they are addresses, finitely many.
LEMMA ProspectiveIds ==
  ASSUME Inv, NEW u
  PROVE  Prospective(u) \subseteq AddressIds
<1>1. \A r \in Setting(u) : job[r].row \in AddressIds
  BY DEF Setting, Inv, HandlerOk, Checked, Creating, Changing
<1>. QED
  BY <1>1 DEF Prospective, DefaultsOf, Inv, Tables

LEMMA ProspectiveIdsNext ==
  ASSUME Inv', NEW CONSTANT u
  PROVE  Prospective(u)' \subseteq AddressIds
<1>1. \A r \in Setting(u)' : job'[r].row \in AddressIds
  BY DEF Setting, Inv, HandlerOk, Checked, Creating, Changing
<1>. QED
  BY <1>1 DEF Prospective, DefaultsOf, Inv, Tables

LEMMA SomeIds ==
  ASSUME NEW S \in SUBSET AddressIds
  PROVE  IsFiniteSet(S) /\ Cardinality(S) \in Nat
BY SizesAssumption, FS_Subset, FS_CardinalityType

\* A set of rows that requests have in hand is no larger than the requests are many.
LEMMA RowsOfRequests ==
  ASSUME NEW f, NEW R \in SUBSET Requests
  PROVE  /\ IsFiniteSet({f[r] : r \in R})
         /\ Cardinality({f[r] : r \in R}) <= Cardinality(Requests)
         /\ Cardinality({f[r] : r \in R}) \in Nat
<1> DEFINE g == [r \in R |-> f[r]]
           T == {f[r] : r \in R}
<1>1. IsFiniteSet(R) /\ Cardinality(R) <= Cardinality(Requests)
      /\ Cardinality(R) \in Nat /\ Cardinality(Requests) \in Nat
  BY SizesAssumption, FS_Subset, FS_CardinalityType
<1>2. g \in Surjection(R, T)
  BY DEF Surjection
<1>3. IsFiniteSet(T) /\ Cardinality(T) <= Cardinality(R)
  BY <1>1, <1>2, FS_Surjection
<1>4. Cardinality(T) \in Nat
  BY <1>3, FS_CardinalityType
<1>. QED
  BY <1>1, <1>3, <1>4

\* Fewer of them, or none but those in hand.
LEMMA StaysBounded ==
  ASSUME Inv, Inv', Bounded, NEW u \in Customers,
         \/ Prospective(u)' \subseteq Prospective(u)
         \/ Prospective(u)' \subseteq {job'[r].row : r \in Setting(u)'}
  PROVE  Cardinality(Prospective(u))' <= Cardinality(Requests)
<1>1. Cardinality(Prospective(u))' \in Nat /\ IsFiniteSet(Prospective(u)) /\ IsFiniteSet(Requests)
      /\ Cardinality(Requests) \in Nat /\ Cardinality(Prospective(u)) \in Nat
      /\ IsFiniteSet(Prospective(u)')
  BY ProspectiveIds, ProspectiveIdsNext, SomeIds, SizesAssumption, FS_CardinalityType
<1>2. CASE Prospective(u)' \subseteq Prospective(u)
  <2>1. Cardinality(Prospective(u)') <= Cardinality(Prospective(u))
    BY <1>1, <1>2, FS_Subset
  <2>. QED
    BY <1>1, <2>1 DEF Bounded
<1>3. CASE Prospective(u)' \subseteq {job'[r].row : r \in Setting(u)'}
  <2> DEFINE f == [r \in Requests |-> job'[r].row]
             T == {f[r] : r \in Setting(u)'}
  <2>1. Setting(u)' \in SUBSET Requests
    BY DEF Setting
  <2>2. IsFiniteSet(T) /\ Cardinality(T) <= Cardinality(Requests) /\ Cardinality(T) \in Nat
    BY <2>1, RowsOfRequests
  <2>3. Prospective(u)' \subseteq T
    BY <1>3, <2>1
  <2>4. Cardinality(Prospective(u)') <= Cardinality(T)
    BY <2>2, <2>3, FS_Subset
  <2>. QED
    BY <1>1, <2>2, <2>4
<1>. QED
  BY <1>2, <1>3

\* A request that is not about to write an address leaves them be.
LEMMA AwayKeeps ==
  ASSUME Inv, Inv', AddressInv, NEW r, Others(r), address' = address,
         r \in Requests => pc'[r] \notin Creating \cup Changing
  PROVE  AddressInv'
<1>1. RowsApart' /\ Owned'
  BY DEF AddressInv, RowsApart, Owned, Others, Changing
<1>2. ASSUME NEW u \in Customers
      PROVE  Prospective(u)' \subseteq Prospective(u)
  <2>1. \A x \in Setting(u)' : x \in Setting(u) /\ job'[x].row = job[x].row
    BY DEF Setting, Others, Changing, Creating
  <2>. QED
    BY <2>1 DEF Prospective, DefaultsOf
<1>3. Bounded'
  BY <1>2, StaysBounded DEF AddressInv, Bounded
<1>. QED
  BY <1>1, <1>3 DEF AddressInv

\* What a step of one handler leaves to the others.
LEMMA OthersOf ==
  ASSUME Handlers, NEW r \in Requests, NEW to, NEW j, pc' = [pc EXCEPT ![r] = to],
         job' = [job EXCEPT ![r] = j] \/ job' = job
  PROVE  Others(r) /\ pc'[r] = to
BY DEF Handlers, Others

\* The requests that look at carts and orders leave the addresses alone.
LEMMA AwayFromAddresses ==
  ASSUME Inv, NEW r \in Requests,
         \/ \E u \in Customers : \/ CartArrival(r, u)
                                 \/ \E a \in AddressIds : RemoveAddress(r, u, a) \/ StartCheckout(r, u, a)
         \/ CartStep(r) \/ CheckoutStep(r) \/ Fail(r)
  PROVE  Others(r) /\ address' = address /\ pc'[r] \notin Creating \cup Changing
<1> DEFINE Goal == Others(r) /\ address' = address /\ pc'[r] \notin Creating \cup Changing
<1>0. Handlers
  BY DEF Inv
<1>1. ASSUME NEW to \in {"checkStock", "insertCart", "deleteLines", "checkLevel", "deleteLine",
                          "deleteAddress", "readCart"},
             NEW j, Start(r, to, j)
      PROVE  Goal
  BY <1>0, <1>1, OthersOf DEF Start, Creating, Changing
<1>6. ASSUME NEW u \in Customers, CartArrival(r, u)
      PROVE  Goal
  BY <1>1, <1>6 DEF CartArrival, AddToCart, GetCart, ClearCart, UpdateCartItem, RemoveFromCart
<1>2. ASSUME NEW u \in Customers, NEW a \in AddressIds, RemoveAddress(r, u, a) \/ StartCheckout(r, u, a)
      PROVE  Goal
  BY <1>1, <1>2 DEF RemoveAddress, StartCheckout
<1>3. CASE CartStep(r)
  <2>1. CASE CheckStock(r) \/ FindCart(r) \/ CheckSum(r) \/ CheckLevel(r)
    BY <1>0, <2>1, OthersOf DEF CheckStock, FindCart, CheckSum, CheckLevel, Pass, Goto,
       Creating, Changing
  <2>2. CASE InsertCart(r) \/ (\E l \in LineIds : InsertLine(r, l)) \/ DeleteLine(r) \/ DeleteLines(r)
    BY <1>0, <2>2, OthersOf DEF InsertCart, InsertLine, DeleteLine, DeleteLines, Finish, Goto,
       Creating, Changing
  <2>3. CASE UpdateLine(r) \/ SetLine(r)
    BY <1>0, <2>3, OthersOf DEF UpdateLine, SetLine, SetQuantity, Finish, Goto, Creating, Changing
  <2>4. CASE FindLine(r)
    BY <1>0, <2>4 DEF FindLine, Goto, Creating, Changing, Handlers, Others
  <2>. QED
    BY <1>3, <2>1, <2>2, <2>3, <2>4 DEF CartStep
<1>4. CASE CheckoutStep(r)
  <2>1. CASE FindAddress(r) \/ EndLoop(r) \/ InsertOrder(r)
    BY <1>0, <2>1, OthersOf DEF FindAddress, EndLoop, InsertOrder, Pass, Goto, Creating, Changing
  <2>2. CASE ReadCart(r)
    BY <1>0, <2>2 DEF ReadCart, Pass, Goto, Creating, Changing, Handlers, Others
  <2>3. CASE \E p \in Products : ReadProduct(r, p)
    BY <1>0, <2>3 DEF ReadProduct, Goto, Creating, Changing, Handlers, Others
  <2>. QED
    BY <1>4, <2>1, <2>2, <2>3 DEF CheckoutStep
<1>5. CASE Fail(r)
  <2>1. /\ pc' = [pc EXCEPT ![r] = "idle"] /\ job' = [job EXCEPT ![r] = Blank]
        /\ address' = address
    BY <1>5 DEF Fail, Finish, Goto
  <2>2. Others(r) /\ pc'[r] = "idle"
    BY <1>0, <2>1 DEF Handlers, Others
  <2>3. "idle" \notin Creating \cup Changing
    BY DEF Creating, Changing
  <2>. QED
    BY <2>1, <2>2, <2>3
<1>. QED
  BY <1>2, <1>3, <1>4, <1>5, <1>6

LEMMA CreateKeeps ==
  ASSUME Inv, Inv', AddressInv, NEW r \in Requests, NEW u \in Customers, NEW a \in AddressIds,
         NEW default \in BOOLEAN, CreateAddress(r, u, a, default)
  PROVE  AddressInv'
<1> DEFINE j == [Blank EXCEPT !.user = u, !.row = a, !.default = default]
           step == IF default THEN "clearDefault" ELSE "insertAddress"
<1>1. a \notin DOMAIN address /\ Fresh(a) /\ Start(r, step, j)
  BY DEF CreateAddress
<1>2. address' = address /\ Others(r) /\ pc'[r] = step /\ job'[r] = j
  BY <1>1, OthersOf, Begins DEF Start, Inv
<1>3. j.row = a /\ j.default = default
  BY DEF Blank
<1> HIDE DEF j
<1>4. RowsApart'
  <2>1. \A x \in Requests \ {r} : pc'[x] = pc[x] /\ job'[x] = job[x] /\ job[x].row # a
    BY <1>1, <1>2 DEF Others, Fresh
  <2>. QED
    BY <1>1, <1>2, <1>3, <2>1 DEF AddressInv, RowsApart
<1>5. Owned'
  <2>1. pc'[r] \notin Changing
    BY <1>2 DEF Changing
  <2>. QED
    BY <1>2, <2>1 DEF AddressInv, Owned, Others
<1>6. ASSUME NEW v \in Customers
      PROVE  Prospective(v)' \subseteq Prospective(v)
  <2>1. r \notin Setting(v)'
    <3>1. CASE default = TRUE
      BY <1>2, <3>1 DEF Setting
    <3>2. CASE default = FALSE
      BY <1>2, <1>3, <3>2 DEF Setting
    <3>. QED
      BY <3>1, <3>2
  <2>2. \A x \in Setting(v)' : x \in Setting(v) /\ job'[x].row = job[x].row
    BY <1>2, <2>1 DEF Setting, Others
  <2>. QED
    BY <1>2, <2>2 DEF Prospective, DefaultsOf
<1>7. Bounded'
  BY <1>6, StaysBounded DEF AddressInv, Bounded
<1>. QED
  BY <1>4, <1>5, <1>7 DEF AddressInv

LEMMA ChangeKeeps ==
  ASSUME Inv, Inv', AddressInv, NEW r \in Requests, NEW u \in Customers, NEW a \in AddressIds,
         NEW default \in BOOLEAN \cup {Keep}, UpdateAddress(r, u, a, default)
  PROVE  AddressInv'
<1> DEFINE j == [Blank EXCEPT !.user = u, !.row = a, !.default = default]
           step == IF default = TRUE THEN "clearOthers" ELSE "updateAddress"
<1>1. OwnAddress(u, a) /\ Start(r, step, j)
  BY DEF UpdateAddress
<1>2. address' = address /\ Others(r) /\ pc'[r] = step /\ job'[r] = j
  BY <1>1, OthersOf, Begins DEF Start, Inv
<1>3. j.row = a /\ j.default = default /\ j.user = u
  BY DEF Blank
<1> HIDE DEF j
<1>4. RowsApart'
  <2>1. pc'[r] \notin Creating
    BY <1>2 DEF Creating
  <2>. QED
    BY <1>1, <1>2, <1>3, <2>1 DEF AddressInv, RowsApart, Others, OwnAddress
<1>5. Owned'
  BY <1>1, <1>2, <1>3 DEF AddressInv, Owned, Others, OwnAddress
<1>6. ASSUME NEW v \in Customers
      PROVE  Prospective(v)' \subseteq Prospective(v)
  <2>1. r \notin Setting(v)'
    BY <1>2, <1>3 DEF Setting
  <2>2. \A x \in Setting(v)' : x \in Setting(v) /\ job'[x].row = job[x].row
    BY <1>2, <2>1 DEF Setting, Others
  <2>. QED
    BY <1>2, <2>2 DEF Prospective, DefaultsOf
<1>7. Bounded'
  BY <1>6, StaysBounded DEF AddressInv, Bounded
<1>. QED
  BY <1>4, <1>5, <1>7 DEF AddressInv

\* The defaults that are cleared before one is written.
LEMMA ClearKeeps ==
  ASSUME Inv, Inv', AddressInv, NEW r \in Requests, ClearDefault(r) \/ ClearOthers(r)
  PROVE  AddressInv'
<1>0. PICK u : u = job[r].user
  OBVIOUS
<1> DEFINE to == IF pc[r] = "clearDefault" THEN "insertAddress" ELSE "updateAddress"
           A == IF pc[r] = "clearDefault" THEN DefaultsOf(u) ELSE DefaultsOf(u) \ {job[r].row}
<1>1. /\ pc[r] = "clearDefault" \/ pc[r] = "clearOthers"
      /\ pc' = [pc EXCEPT ![r] = to] /\ job' = job /\ address' = ClearedOf(A)
  BY <1>0 DEF ClearDefault, ClearOthers, Goto
<1>2. Others(r) /\ pc'[r] = to
  BY <1>1 DEF Others, Inv, Handlers
<1>3. /\ DOMAIN address' = DOMAIN address
      /\ \A a \in DOMAIN address : address'[a].user = address[a].user
      /\ \A a \in DOMAIN address : address'[a].default => address[a].default /\ a \notin A
  BY <1>1, ClearedTyped
<1>4. RowsApart'
  BY <1>1, <1>2, <1>3 DEF AddressInv, RowsApart, Others, Creating, Changing
<1>5. Owned'
  <2>1. \A x \in Requests : /\ pc'[x] \in Changing => pc[x] \in Changing
                            /\ pc'[x] = "clearOthers" => pc[x] = "clearOthers"
    BY <1>1, <1>2 DEF Others, Changing
  <2>. QED
    BY <1>1, <1>3, <2>1 DEF AddressInv, Owned
<1>6. Prospective(u)' \subseteq {job'[x].row : x \in Setting(u)'}
  <2>1. DefaultsOf(u)' \subseteq {job[r].row}
    BY <1>1, <1>3 DEF DefaultsOf
  <2>2. CASE pc[r] = "clearDefault"
    <3>1. DefaultsOf(u)' = {}
      BY <1>1, <1>3, <2>2 DEF DefaultsOf
    <3>. QED
      BY <3>1 DEF Prospective
  <2>3. CASE pc[r] = "clearOthers"
    <3>1. job[r].default = TRUE
      BY <2>3 DEF AddressInv, Owned
    <3>2. r \in Setting(u)' /\ job'[r].row = job[r].row
      BY <1>0, <1>1, <1>2, <2>3, <3>1 DEF Setting
    <3>. QED
      BY <2>1, <3>2 DEF Prospective
  <2>. QED
    BY <1>1, <2>2, <2>3
<1>7. ASSUME NEW v \in Customers, v # u
      PROVE  Prospective(v)' \subseteq Prospective(v)
  <2>1. \A x \in Setting(v)' : x \in Setting(v) /\ job'[x].row = job[x].row
    BY <1>0, <1>1, <1>2, <1>7 DEF Setting, Others
  <2>2. DefaultsOf(v)' \subseteq DefaultsOf(v)
    BY <1>3 DEF DefaultsOf
  <2>. QED
    BY <2>1, <2>2 DEF Prospective
<1>8. Bounded'
  BY <1>6, <1>7, StaysBounded DEF AddressInv, Bounded
<1>. QED
  BY <1>4, <1>5, <1>8 DEF AddressInv

\* The row of a new address was in hand before it was inserted.
LEMMA InsertKeeps ==
  ASSUME Inv, Inv', AddressInv, NEW r \in Requests, InsertAddress(r)
  PROVE  AddressInv'
<1> DEFINE a == job[r].row
           new == [user |-> job[r].user, default |-> job[r].default]
<1>1. pc[r] = "insertAddress" /\ address' = Put(address, a, new)
  BY DEF InsertAddress, Finish, Goto
<1>2. Others(r) /\ pc'[r] = "idle"
  BY OthersOf DEF InsertAddress, Finish, Goto, Inv
<1>3. /\ DOMAIN address' = DOMAIN address \cup {a} /\ address'[a] = new
      /\ \A b \in DOMAIN address : b # a => address'[b] = address[b]
  BY <1>1 DEF Put
<1>4. a \notin DOMAIN address
      /\ \A y \in Requests \ {r} : pc[y] \in Creating \cup Changing => job[y].row # a
  BY <1>1 DEF AddressInv, RowsApart, Creating
<1>5. RowsApart'
  <2>1. pc'[r] \notin Creating \cup Changing
    BY <1>2 DEF Creating, Changing
  <2>. QED
    BY <1>2, <1>3, <1>4, <2>1 DEF AddressInv, RowsApart, Others
<1>6. Owned'
  <2>1. pc'[r] \notin Changing /\ pc'[r] # "clearOthers"
    BY <1>2 DEF Changing
  <2>. QED
    BY <1>2, <1>3, <1>4, <2>1 DEF AddressInv, Owned, Others
<1>7. ASSUME NEW v \in Customers
      PROVE  Prospective(v)' \subseteq Prospective(v)
  <2>1. r \notin Setting(v)'
    BY <1>2 DEF Setting
  <2>2. \A x \in Setting(v)' : x \in Setting(v) /\ job'[x].row = job[x].row
    BY <1>2, <2>1 DEF Setting, Others
  <2>3. a \in DefaultsOf(v)' => r \in Setting(v)
    <3>1. new.user = job[r].user /\ new.default = job[r].default
      OBVIOUS
    <3>2. job[r].default \in BOOLEAN
      BY <1>1 DEF Inv, HandlerOk, Checked, Creating
    <3>. QED
      BY <1>1, <1>3, <3>1, <3>2 DEF DefaultsOf, Setting
  <2>4. \A b \in DefaultsOf(v)' : b = a \/ b \in DefaultsOf(v)
    BY <1>3 DEF DefaultsOf
  <2>. QED
    BY <2>2, <2>3, <2>4 DEF Prospective
<1>8. Bounded'
  BY <1>7, StaysBounded DEF AddressInv, Bounded
<1>. QED
  BY <1>5, <1>6, <1>8 DEF AddressInv

\* So was the row of one that is written.
LEMMA WriteKeeps ==
  ASSUME Inv, Inv', AddressInv, NEW r \in Requests, WriteAddress(r)
  PROVE  AddressInv'
<1> DEFINE a == job[r].row
           asked == job[r].default
<1>1. pc[r] = "updateAddress" /\ a \in DOMAIN address
      /\ address' = [address EXCEPT ![a].default = Field(asked, @)]
  BY DEF WriteAddress, Finish, Goto
<1>2. Others(r) /\ pc'[r] = "idle"
  BY OthersOf DEF WriteAddress, Finish, Goto, Inv
<1>3. address[a] \in Address /\ address[a].user = job[r].user /\ asked \in BOOLEAN \cup {Keep}
  BY <1>1 DEF AddressInv, Owned, Changing, Inv, Tables, Handlers, Job
<1>4. /\ DOMAIN address' = DOMAIN address
      /\ \A b \in DOMAIN address : b # a => address'[b] = address[b]
      /\ address'[a].user = address[a].user
      /\ address'[a].default = Field(asked, address[a].default)
  BY <1>1, <1>3 DEF Address
<1>5. RowsApart'
  <2>1. pc'[r] \notin Creating \cup Changing
    BY <1>2 DEF Creating, Changing
  <2>. QED
    BY <1>2, <1>4, <2>1 DEF AddressInv, RowsApart, Others
<1>6. Owned'
  <2>1. pc'[r] \notin Changing /\ pc'[r] # "clearOthers"
    BY <1>2 DEF Changing
  <2>2. \A b \in DOMAIN address : address'[b].user = address[b].user
    BY <1>4
  <2>. QED
    BY <1>2, <1>4, <2>1, <2>2 DEF AddressInv, Owned, Others
<1>7. ASSUME NEW v \in Customers
      PROVE  Prospective(v)' \subseteq Prospective(v)
  <2>1. r \notin Setting(v)'
    BY <1>2 DEF Setting
  <2>2. \A x \in Setting(v)' : x \in Setting(v) /\ job'[x].row = job[x].row
    BY <1>2, <2>1 DEF Setting, Others
  <2>3. a \in DefaultsOf(v)' => a \in DefaultsOf(v) \/ r \in Setting(v)
    <3>1. ASSUME a \in DefaultsOf(v)'
          PROVE  v = job[r].user /\ Field(asked, address[a].default)
      BY <1>3, <1>4, <3>1 DEF DefaultsOf
    <3>2. CASE asked = Keep
      BY <1>1, <1>3, <3>1, <3>2 DEF DefaultsOf, Field
    <3>3. CASE asked # Keep
      BY <1>1, <1>3, <3>1, <3>3 DEF Setting, Field
    <3>. QED
      BY <3>2, <3>3
  <2>4. \A b \in DefaultsOf(v)' : b = a \/ b \in DefaultsOf(v)
    BY <1>4 DEF DefaultsOf
  <2>. QED
    BY <2>2, <2>3, <2>4 DEF Prospective
<1>8. Bounded'
  BY <1>7, StaysBounded DEF AddressInv, Bounded
<1>. QED
  BY <1>5, <1>6, <1>8 DEF AddressInv

LEMMA DeleteKeeps ==
  ASSUME Inv, Inv', AddressInv, NEW r \in Requests, DeleteAddress(r)
  PROVE  AddressInv'
<1>1. DOMAIN address' \subseteq DOMAIN address /\ \A b \in DOMAIN address' : address'[b] = address[b]
  BY DEF DeleteAddress, Only
<1>2. Others(r) /\ pc'[r] = "idle"
  BY OthersOf DEF DeleteAddress, Finish, Goto, Inv
<1>3. pc'[r] \notin Creating \cup Changing /\ pc'[r] # "clearOthers"
  BY <1>2 DEF Creating, Changing
<1>4. RowsApart'
  BY <1>1, <1>2, <1>3 DEF AddressInv, RowsApart, Others
<1>5. Owned'
  BY <1>1, <1>2, <1>3 DEF AddressInv, Owned, Others
<1>6. ASSUME NEW v \in Customers
      PROVE  Prospective(v)' \subseteq Prospective(v)
  <2>1. \A x \in Setting(v)' : x \in Setting(v) /\ job'[x].row = job[x].row
    BY <1>2 DEF Setting, Others
  <2>2. DefaultsOf(v)' \subseteq DefaultsOf(v)
    BY <1>1 DEF DefaultsOf
  <2>. QED
    BY <2>1, <2>2 DEF Prospective
<1>7. Bounded'
  BY <1>6, StaysBounded DEF AddressInv, Bounded
<1>. QED
  BY <1>4, <1>5, <1>7 DEF AddressInv

LEMMA InitAddressInv == Init => AddressInv
<1>. SUFFICES ASSUME Init PROVE AddressInv
  OBVIOUS
<1>1. \A r \in Requests : pc[r] = "idle"
  BY DEF Init
<1>2. RowsApart /\ Owned
  BY <1>1 DEF RowsApart, Owned, Creating, Changing
<1>3. ASSUME NEW u \in Customers
      PROVE  Cardinality(Prospective(u)) <= Cardinality(Requests)
  <2>1. Setting(u) = {}
    BY <1>1 DEF Setting
  <2>2. Prospective(u) = DefaultsOf(u)
    BY <2>1 DEF Prospective
  <2>3. \A a, b \in DefaultsOf(u) : a = b
    BY DEF Init, DefaultsOf
  <2>4. Cardinality(DefaultsOf(u)) <= 1
    <3>1. CASE DefaultsOf(u) = {}
      BY <3>1, FS_EmptySet
    <3>2. ASSUME NEW a \in DefaultsOf(u)
          PROVE  Cardinality(DefaultsOf(u)) <= 1
      <4>1. DefaultsOf(u) = {a}
        BY <2>3
      <4>2. Cardinality({a}) = 1
        BY FS_Singleton
      <4>. QED
        BY <4>1, <4>2
    <3>. QED
      BY <3>1, <3>2
  <2>5. Cardinality(Requests) \in Nat /\ Cardinality(Requests) >= 1
    BY SizesAssumption, FS_CardinalityType, FS_EmptySet
  <2>6. Cardinality(DefaultsOf(u)) \in Nat
    BY <2>2, InitInv, ProspectiveIds, SomeIds
  <2>. QED
    BY <2>2, <2>4, <2>5, <2>6
<1>. QED
  BY <1>2, <1>3 DEF AddressInv, Bounded

LEMMA StepAddressInv ==
  ASSUME Inv, Inv', AddressInv, [Next]_vars
  PROVE  AddressInv'
<1>1. ASSUME address' = address, pc' = pc, job' = job
      PROVE  AddressInv'
  <2>1. PICK out : out \notin Requests
    BY NoSetContainsEverything
  <2>. QED
    BY <1>1, <2>1, AwayKeeps DEF Others
<1>2. CASE UNCHANGED vars
  BY <1>1, <1>2 DEF vars, handlers
<1>3. ASSUME NEW p \in Products,
             \/ \E level \in Levels : SetStock(p, level)
             \/ \E amount \in Prices : Reprice(p, amount)
             \/ RemoveProduct(p)
      PROVE  AddressInv'
  BY <1>1, <1>3 DEF SetStock, Reprice, RemoveProduct, handlers
<1>4. ASSUME NEW r \in Requests,
             \/ \E u \in Customers : \/ CartArrival(r, u)
                                     \/ \E a \in AddressIds : RemoveAddress(r, u, a) \/ StartCheckout(r, u, a)
             \/ CartStep(r) \/ CheckoutStep(r) \/ Fail(r)
      PROVE  AddressInv'
  BY <1>4, AwayFromAddresses, AwayKeeps
<1>5. ASSUME NEW r \in Requests, NEW u \in Customers, AddressArrival(r, u)
      PROVE  AddressInv'
  BY <1>4, <1>5, CreateKeeps, ChangeKeeps DEF AddressArrival
<1>6. ASSUME NEW r \in Requests, AddressStep(r)
      PROVE  AddressInv'
  BY <1>6, ClearKeeps, InsertKeeps, WriteKeeps, DeleteKeeps DEF AddressStep
<1>. QED
  BY <1>2, <1>3, <1>4, <1>5, <1>6 DEF Next

\* However the requests that set a default address race, a customer has no more
\* defaults than the server handles requests at a time: each clears the others in a
\* statement before its own write (addresses.service.ts).
THEOREM DefaultsAreBounded == Spec => []DefaultsBounded
<1>1. Spec => []AddressInv
  <2>1. Inv /\ Inv' /\ AddressInv /\ [Next]_vars => AddressInv'
    BY StepAddressInv
  <2>. QED
    BY <2>1, InitAddressInv, Inductive, PTL DEF Spec
<1>2. Inv /\ AddressInv => DefaultsBounded
  <2>1. SUFFICES ASSUME Inv, AddressInv, NEW u \in Customers
                 PROVE  Cardinality(DefaultsOf(u)) <= Cardinality(Requests)
    BY DEF DefaultsBounded
  <2>2. DefaultsOf(u) \subseteq Prospective(u) /\ Prospective(u) \subseteq AddressIds
    BY <2>1, ProspectiveIds DEF Prospective
  <2>3. IsFiniteSet(Prospective(u)) /\ Cardinality(Prospective(u)) \in Nat
        /\ Cardinality(DefaultsOf(u)) \in Nat /\ Cardinality(Requests) \in Nat
    BY <2>2, SomeIds, SizesAssumption, FS_CardinalityType
  <2>4. Cardinality(DefaultsOf(u)) <= Cardinality(Prospective(u))
    BY <2>2, <2>3, FS_Subset
  <2>. QED
    BY <2>1, <2>3, <2>4 DEF AddressInv, Bounded
<1>. QED
  BY <1>1, <1>2, Inductive, PTL

-----------------------------------------------------------------------------
(* The amounts of an order, which the loop over its items adds up.          *)

\* The items whose price the loop has read, what they cost and what is off it.
ReadOf(j) == {p \in Billed(j) : j.bill[p] # None}
Charge(j) == [p \in Products |-> j.bill[p] * j.items[p]]
Relief(j) == [p \in Products |-> j.bill[p] * Percent[p] * j.items[p]]

NothingRead(j) == j.bill = Unread /\ j.subtotal = 0 /\ j.discount = 0

AddedUp(j) ==
  /\ j.subtotal = SumFunctionOnSet(Charge(j), ReadOf(j))
  /\ j.discount = SumFunctionOnSet(Relief(j), ReadOf(j))

\* In the loop the two running amounts are those of the items read so far, and after it
\* there is no other.
Accounts(r) ==
  /\ pc[r] \in {"readCart", "findAddress"} => NothingRead(job[r])
  /\ pc[r] \in {"readProducts", "insertOrder"} => AddedUp(job[r])
  /\ pc[r] = "insertOrder" => ReadOf(job[r]) = Billed(job[r])

Billing == OrdersAddUp /\ \A r \in Requests : Accounts(r)

LEMMA ReadFinite ==
  ASSUME NEW j
  PROVE  IsFiniteSet(ReadOf(j)) /\ ReadOf(j) \subseteq Products
<1>1. ReadOf(j) \subseteq Products
  BY DEF ReadOf, Billed
<1>. QED
  BY <1>1, SizesAssumption, FS_Subset

\* What the items read add are integers.
LEMMA ReadAmounts ==
  ASSUME NEW j \in Job, NEW p \in Products, j.bill[p] # None
  PROVE  j.bill[p] \in Nat /\ j.items[p] \in Nat /\ Charge(j)[p] \in Int /\ Relief(j)[p] \in Int
<1>1. j.bill \in [Products -> Nat \cup {None}] /\ j.items \in [Products -> Nat]
  BY DEF Job
<1>2. j.bill[p] \in Nat /\ j.items[p] \in Nat
  BY <1>1
<1>3. Percent[p] \in Nat
  <2>1. Percent[p] \in 0..100
    BY AmountsAssumption
  <2>. QED
    BY <2>1
<1>4. \A m, n \in Nat : m * n \in Nat
  OBVIOUS
<1>5. j.bill[p] * j.items[p] \in Nat /\ j.bill[p] * Percent[p] * j.items[p] \in Nat
  BY <1>2, <1>3, <1>4
<1>. QED
  BY <1>2, <1>5 DEF Charge, Relief

\* Before the loop the sums are empty.
LEMMA NoneAddedUp ==
  ASSUME NEW j, NothingRead(j)
  PROVE  AddedUp(j)
<1>1. ReadOf(j) = {}
  BY DEF NothingRead, ReadOf, Billed, Unread
<1>. QED
  BY <1>1, SumOfNone DEF NothingRead, AddedUp

\* A turn of the loop adds one item to the sums.
LEMMA ChargedAddsUp ==
  ASSUME NEW j \in Job, NEW p \in Billed(j), j.bill[p] = None, NEW amount \in Nat, AddedUp(j)
  PROVE  AddedUp(Charged(j, p, amount))
<1> DEFINE k == Charged(j, p, amount)
           S == ReadOf(j)
<1>1. p \in Products /\ j.items[p] > 0 /\ amount # None
  BY NamesAssumption DEF Billed
<1>2. Percent[p] \in Nat
  <2>1. Percent[p] \in 0..100
    BY <1>1, AmountsAssumption
  <2>. QED
    BY <2>1
<1>3. /\ k \in Job /\ k.items = j.items /\ k.bill = [j.bill EXCEPT ![p] = amount]
      /\ k.subtotal = j.subtotal + amount * j.items[p]
      /\ k.discount = j.discount + amount * Percent[p] * j.items[p]
  BY <1>1, <1>2, ChargedTyped
<1>. HIDE DEF k
<1>4. j.bill \in [Products -> Nat \cup {None}]
  BY DEF Job
<1>5. k.bill[p] = amount /\ \A q \in Products \ {p} : k.bill[q] = j.bill[q]
  BY <1>1, <1>3, <1>4
<1>6. ReadOf(k) = S \cup {p} /\ p \notin S
  BY <1>1, <1>3, <1>5 DEF ReadOf, Billed
<1>7. IsFiniteSet(S) /\ S \subseteq Products
  BY ReadFinite
<1>8. \A q \in S : /\ Charge(j)[q] \in Int /\ Charge(k)[q] = Charge(j)[q]
                   /\ Relief(j)[q] \in Int /\ Relief(k)[q] = Relief(j)[q]
  <2>1. \A q \in S : q \in Products \ {p} /\ j.bill[q] # None
    BY <1>6, <1>7 DEF ReadOf
  <2>2. \A q \in S : Charge(j)[q] \in Int /\ Relief(j)[q] \in Int
    BY <2>1, ReadAmounts
  <2>3. \A q \in S : Charge(k)[q] = Charge(j)[q] /\ Relief(k)[q] = Relief(j)[q]
    BY <1>3, <1>5, <2>1 DEF Charge, Relief
  <2>. QED
    BY <2>2, <2>3
<1>9. /\ Charge(k)[p] \in Int /\ Charge(k)[p] = amount * j.items[p]
      /\ Relief(k)[p] \in Int /\ Relief(k)[p] = amount * Percent[p] * j.items[p]
  <2>1. Charge(k)[p] \in Int /\ Relief(k)[p] \in Int
    BY <1>1, <1>3, <1>5, ReadAmounts
  <2>. QED
    BY <1>1, <1>3, <1>5, <2>1 DEF Charge, Relief
<1>10. SumFunctionOnSet(Charge(k), S \cup {p}) = SumFunctionOnSet(Charge(j), S) + Charge(k)[p]
  <2>. HIDE DEF S
  <2>. QED
    BY <1>6, <1>7, <1>8, <1>9, SumGrows
<1>11. SumFunctionOnSet(Relief(k), S \cup {p}) = SumFunctionOnSet(Relief(j), S) + Relief(k)[p]
  <2>. HIDE DEF S
  <2>. QED
    BY <1>6, <1>7, <1>8, <1>9, SumGrows
<1>12. /\ j.subtotal = SumFunctionOnSet(Charge(j), S)
       /\ j.discount = SumFunctionOnSet(Relief(j), S)
  BY DEF AddedUp
<1>13. /\ k.subtotal = j.subtotal + Charge(k)[p]
       /\ k.discount = j.discount + Relief(k)[p]
  BY <1>3, <1>9
<1>14. /\ k.subtotal = SumFunctionOnSet(Charge(k), ReadOf(k))
       /\ k.discount = SumFunctionOnSet(Relief(k), ReadOf(k))
  BY <1>6, <1>10, <1>11, <1>12, <1>13
<1>15. AddedUp(k)
  BY <1>14 DEF AddedUp
<1>. QED
  BY <1>15 DEF k

\* The discount of a total that the database takes is whole, so rounding leaves it alone.
LEMMA WholeAmounts ==
  ASSUME NEW subtotal \in Nat, NEW discount \in Nat, Stored(100 * subtotal - discount)
  PROVE  /\ 100 * Rounded(discount) = discount
         /\ (100 * subtotal - discount) \div 100 = subtotal - Rounded(discount)
<1>1. discount % 100 = 0
  BY DEF Stored
<1>2. PICK whole \in Nat : discount = 100 * whole
  <2> DEFINE whole == discount \div 100
  <2>1. whole \in Nat /\ discount = 100 * whole
    BY <1>1
  <2>. QED
    BY <2>1
<1>3. Rounded(discount) = whole
  BY <1>2 DEF Rounded
<1>4. (100 * subtotal - discount) \div 100 = subtotal - whole
  BY <1>2
<1>. QED
  BY <1>2, <1>3, <1>4

\* The order that is inserted has the amounts of its own items.
LEMMA InsertAddsUp ==
  ASSUME Inv, Billing, NEW r \in Requests, InsertOrder(r)
  PROVE  OrdersAddUp'
<1> DEFINE j == job[r]
           o == [items |-> j.items, bill |-> j.bill, subtotal |-> j.subtotal,
                 discount |-> Rounded(j.discount), total |-> (100 * j.subtotal - j.discount) \div 100]
           B == Billed(j)
<1>1. j \in Job /\ orders' = orders \cup {o} /\ Stored(100 * j.subtotal - j.discount)
  BY DEF InsertOrder, Inv, Handlers
<1>2. AddedUp(j) /\ ReadOf(j) = B
  BY DEF InsertOrder, Goto, Billing, Accounts
<1>3. j.subtotal \in Nat /\ j.discount \in Nat
  BY <1>1 DEF Job
<1>4. 100 * o.discount = j.discount /\ o.total = o.subtotal - o.discount
  BY <1>1, <1>3, WholeAmounts
<1>5. Billed(o) = B /\ Amounts(o) = [p \in B |-> j.bill[p] * j.items[p]]
      /\ Reductions(o) = [p \in B |-> j.bill[p] * Percent[p] * j.items[p]]
  BY DEF Billed, Amounts, Reductions
<1>6. o.subtotal = j.subtotal
  OBVIOUS
<1>. HIDE DEF o, j
<1>7. IsFiniteSet(B) /\ B \subseteq Products
  BY <1>2, ReadFinite
<1>8. SumFunction(Amounts(o)) = SumFunctionOnSet(Charge(j), B)
  <2>1. DOMAIN Amounts(o) = B /\ \A p \in B : Amounts(o)[p] = Charge(j)[p]
    BY <1>5, <1>7 DEF Charge
  <2>2. SumFunctionOnSet(Amounts(o), B) = SumFunctionOnSet(Charge(j), B)
    <3>. HIDE DEF B
    <3>. QED
      BY <1>7, <2>1, SumSame
  <2>. QED
    BY <2>1, <2>2, SumFunctionDef
<1>9. SumFunction(Reductions(o)) = SumFunctionOnSet(Relief(j), B)
  <2>1. DOMAIN Reductions(o) = B /\ \A p \in B : Reductions(o)[p] = Relief(j)[p]
    BY <1>5, <1>7 DEF Relief
  <2>2. SumFunctionOnSet(Reductions(o), B) = SumFunctionOnSet(Relief(j), B)
    <3>. HIDE DEF B
    <3>. QED
      BY <1>7, <2>1, SumSame
  <2>. QED
    BY <2>1, <2>2, SumFunctionDef
<1>. QED
  BY <1>1, <1>2, <1>4, <1>6, <1>8, <1>9 DEF Billing, OrdersAddUp, AddedUp

\* A handler of which nothing changes keeps its accounts.
LEMMA AccountsStay ==
  ASSUME Billing, NEW x \in Requests, pc'[x] = pc[x], job'[x] = job[x]
  PROVE  Accounts(x)'
BY DEF Billing, Accounts

\* Its own step leaves a request's accounts right.
LEMMA CheckoutAccounts ==
  ASSUME Inv, Inv', Billing, NEW r \in Requests, CheckoutStep(r)
  PROVE  Accounts(r)'
<1> DEFINE j == job[r]
<1>1. j \in Job /\ Accounts(r)
  BY DEF Inv, Handlers, Billing
<1>2. CASE ReadCart(r)
  <2>1. CASE Pass(r, "readCart", "insertCart", job[r].user \notin carts)
    <3>1. pc'[r] = "insertCart"
      BY <2>1 DEF Pass, Goto, Inv, Handlers
    <3>. QED
      BY <3>1 DEF Accounts
  <2>2. CASE /\ Goto(r, "readCart", "findAddress")
             /\ job' = [job EXCEPT ![r].items = Basket(job[r].user)]
    <3>1. pc[r] = "readCart" /\ pc'[r] = "findAddress"
          /\ job'[r] = [j EXCEPT !.items = Basket(j.user)]
      BY <2>2 DEF Goto, Inv, Handlers
    <3>2. NothingRead(job'[r])
      BY <1>1, <3>1 DEF Accounts, NothingRead, Job
    <3>. QED
      BY <3>1, <3>2 DEF Accounts
  <2>. QED
    BY <1>2, <2>1, <2>2 DEF ReadCart
<1>3. CASE FindAddress(r)
  <2>1. pc[r] = "findAddress" /\ pc'[r] = "readProducts" /\ job'[r] = j
    BY <1>3 DEF FindAddress, Pass, Goto, Inv, Handlers
  <2>2. AddedUp(j)
    BY <1>1, <2>1, NoneAddedUp DEF Accounts
  <2>. QED
    BY <2>1, <2>2 DEF Accounts
<1>4. ASSUME NEW p \in Products, ReadProduct(r, p)
      PROVE  Accounts(r)'
  <2>1. /\ pc[r] = "readProducts" /\ pc'[r] = "readProducts" /\ p \in Billed(j)
        /\ j.bill[p] = None /\ job'[r] = Charged(j, p, price[p])
    BY <1>4 DEF ReadProduct, Goto, Billed, Inv, Handlers
  <2>2. price[p] \in Nat
    <3>1. price[p] \in Prices /\ Prices \subseteq Nat
      BY AmountsAssumption DEF Inv, Tables
    <3>. QED
      BY <3>1
  <2>3. AddedUp(job'[r])
    BY <1>1, <2>1, <2>2, ChargedAddsUp DEF Accounts
  <2>. QED
    BY <2>1, <2>3 DEF Accounts
<1>5. CASE EndLoop(r)
  <2>1. /\ pc[r] = "readProducts" /\ pc'[r] = "insertOrder" /\ job'[r] = j
        /\ \A p \in Billed(j) : j.bill[p] # None
    BY <1>5 DEF EndLoop, Pass, Goto, Inv, Handlers
  <2>2. ReadOf(j) = Billed(j)
    BY <2>1 DEF ReadOf
  <2>. QED
    BY <1>1, <2>1, <2>2 DEF Accounts
<1>6. CASE InsertOrder(r)
  <2>1. pc'[r] = "deleteLines"
    BY <1>6 DEF InsertOrder, Goto, Inv, Handlers
  <2>. QED
    BY <2>1 DEF Accounts
<1>. QED
  BY <1>2, <1>3, <1>4, <1>5, <1>6 DEF CheckoutStep

\* A request that starts or ends, or writes the cart or an address, has no accounts to
\* keep, and writes no order.
LEMMA OtherAccounts ==
  ASSUME Inv, NEW r \in Requests,
         \/ \E u \in Customers : CartArrival(r, u) \/ AddressArrival(r, u)
         \/ CartStep(r) \/ AddressStep(r) \/ Fail(r)
  PROVE  Accounts(r)' /\ orders' = orders
<1> DEFINE Apart == {"readCart", "findAddress", "readProducts", "insertOrder"}
<1>1. pc'[r] \notin Apart => Accounts(r)'
  BY DEF Accounts
<1>2. ASSUME NEW u \in Customers, CartArrival(r, u)
      PROVE  pc'[r] \notin Apart /\ orders' = orders
  BY <1>2 DEF CartArrival, AddToCart, GetCart, ClearCart, UpdateCartItem, RemoveFromCart, Start,
     Inv, Handlers
<1>3. ASSUME NEW u \in Customers, AddressArrival(r, u)
      PROVE  Accounts(r)' /\ orders' = orders
  <2>1. PICK a \in AddressIds :
          \/ \E default \in BOOLEAN : CreateAddress(r, u, a, default)
          \/ \E default \in BOOLEAN \cup {Keep} : UpdateAddress(r, u, a, default)
          \/ RemoveAddress(r, u, a) \/ StartCheckout(r, u, a)
    BY <1>3 DEF AddressArrival
  <2>2. CASE StartCheckout(r, u, a)
    <3>1. pc'[r] = "readCart" /\ job'[r] = [Blank EXCEPT !.user = u, !.row = a] /\ orders' = orders
      BY <2>2 DEF StartCheckout, Start, Inv, Handlers
    <3>2. NothingRead(job'[r])
      BY <3>1 DEF NothingRead, Blank
    <3>. QED
      BY <3>1, <3>2 DEF Accounts
  <2>3. CASE ~StartCheckout(r, u, a)
    <3>1. pc'[r] \notin Apart /\ orders' = orders
      BY <2>1, <2>3 DEF CreateAddress, UpdateAddress, RemoveAddress, Start, Inv, Handlers
    <3>. QED
      BY <1>1, <3>1
  <2>. QED
    BY <2>2, <2>3
<1>4. CASE CartStep(r)
  <2>1. orders' = orders
    BY <1>4 DEF CartStep, CheckStock, FindCart, InsertCart, FindLine, CheckSum, UpdateLine,
       InsertLine, CheckLevel, SetLine, DeleteLine, DeleteLines, SetQuantity, Pass
  <2>2. pc'[r] \notin Apart
    BY <1>4 DEF CartStep, CheckStock, FindCart, InsertCart, FindLine, CheckSum, UpdateLine,
       InsertLine, CheckLevel, SetLine, DeleteLine, DeleteLines, SetQuantity, Pass, Goto, Finish,
       Inv, Handlers
  <2>. QED
    BY <1>1, <2>1, <2>2
<1>5. CASE AddressStep(r) \/ Fail(r)
  BY <1>1, <1>5 DEF AddressStep, ClearDefault, InsertAddress, ClearOthers, WriteAddress,
     DeleteAddress, Fail, Goto, Finish, Inv, Handlers
<1>. QED
  BY <1>1, <1>2, <1>3, <1>4, <1>5

\* The steps of one request leave the variables of the others alone.
LEMMA OwnStep ==
  ASSUME Inv, NEW r \in Requests, Own(r)
  PROVE  Others(r)
<1>1. ASSUME NEW u \in Customers, CartArrival(r, u) \/ AddressArrival(r, u)
      PROVE  Others(r)
  BY <1>1 DEF CartArrival, AddToCart, GetCart, ClearCart, UpdateCartItem, RemoveFromCart,
     AddressArrival, CreateAddress, UpdateAddress, RemoveAddress, StartCheckout, Start, Inv,
     Handlers, Others
<1>2. CASE CartStep(r) \/ CheckoutStep(r) \/ Fail(r)
  BY <1>2, AwayFromAddresses
<1>3. CASE AddressStep(r)
  BY <1>3 DEF AddressStep, ClearDefault, InsertAddress, ClearOthers, WriteAddress, DeleteAddress,
     Goto, Finish, Inv, Handlers, Others
<1>. QED
  BY <1>1, <1>2, <1>3 DEF Own

LEMMA StepBilling ==
  ASSUME Inv, Inv', Billing, [Next]_vars
  PROVE  Billing'
<1>1. ASSUME UNCHANGED <<orders, pc, job>>
      PROVE  Billing'
  <2>1. OrdersAddUp'
    BY <1>1 DEF Billing, OrdersAddUp
  <2>. QED
    BY <1>1, <2>1, AccountsStay DEF Billing
<1>2. CASE UNCHANGED vars
  BY <1>1, <1>2 DEF vars, handlers
<1>3. ASSUME NEW p \in Products,
             \/ \E level \in Levels : SetStock(p, level)
             \/ \E amount \in Prices : Reprice(p, amount)
             \/ RemoveProduct(p)
      PROVE  Billing'
  BY <1>1, <1>3 DEF SetStock, Reprice, RemoveProduct, handlers
<1>4. ASSUME NEW r \in Requests, Own(r)
      PROVE  Billing'
  <2>1. \A x \in Requests \ {r} : Accounts(x)'
    BY <1>4, OwnStep, AccountsStay DEF Others
  <2>2. Accounts(r)' /\ (orders' = orders \/ InsertOrder(r))
    <3>1. CASE CheckoutStep(r)
      <4>1. orders' = orders \/ InsertOrder(r)
        BY <3>1 DEF CheckoutStep, ReadCart, FindAddress, ReadProduct, EndLoop, Pass
      <4>. QED
        BY <3>1, <4>1, CheckoutAccounts
    <3>2. CASE ~CheckoutStep(r)
      BY <1>4, <3>2, OtherAccounts DEF Own
    <3>. QED
      BY <3>1, <3>2
  <2>3. OrdersAddUp'
    <3>1. CASE orders' = orders
      BY <3>1 DEF Billing, OrdersAddUp
    <3>. QED
      BY <2>2, <3>1, InsertAddsUp
  <2>. QED
    BY <2>1, <2>2, <2>3 DEF Billing
<1>. QED
  BY <1>2, <1>3, <1>4 DEF Next, Own

\* The subtotal, the discount and the total of every order are those of its own items and
\* the prices it was billed at: what the loop adds up while prices change is never mixed
\* up or lost, and Math.round never changes an amount that was stored (orders.service.ts).
THEOREM OrdersAreAddedUp == Spec => []OrdersAddUp
<1>1. Init => Billing
  BY DEF Init, Billing, OrdersAddUp, Accounts
<1>2. Inv /\ Inv' /\ Billing /\ [Next]_vars => Billing'
  BY StepBilling
<1>3. Billing => OrdersAddUp
  BY DEF Billing
<1>. QED
  BY <1>1, <1>2, <1>3, Inductive, PTL DEF Spec

-----------------------------------------------------------------------------
(* The carts as their customers see them.                                   *)

\* What the one line of a product says, or that there is none, before a step and after.
LEMMA BasketIs ==
  ASSUME CartHolds, NEW u, NEW p \in Products
  PROVE  /\ \A l \in DOMAIN line : Holds(l, u, p) => Basket(u)[p] = line[l].quantity
         /\ (\A l \in DOMAIN line : ~Holds(l, u, p)) => Basket(u)[p] = 0
<1> DEFINE Found == {l \in LinesOf(u) : line[l].product = p}
<1>1. Basket(u)[p] = IF Found = {} THEN 0 ELSE line[CHOOSE l \in Found : TRUE].quantity
  BY DEF Basket
<1>2. \A l \in DOMAIN line : Holds(l, u, p) <=> l \in Found
  BY DEF LinesOf, Holds
<1>3. \A l, m \in Found : l = m
  BY DEF CartHolds, Holds, LinesOf
<1>4. Found \subseteq DOMAIN line
  BY DEF LinesOf
<1>. HIDE DEF Found
<1>5. \A l \in Found : (CHOOSE m \in Found : TRUE) = l
  BY <1>3
<1>. QED
  BY <1>1, <1>2, <1>4, <1>5

LEMMA BasketIsNext ==
  ASSUME CartHolds', NEW u, NEW p \in Products
  PROVE  /\ \A l \in DOMAIN line' : Holds(l, u, p)' => Basket(u)'[p] = line'[l].quantity
         /\ (\A l \in DOMAIN line' : ~Holds(l, u, p)') => Basket(u)'[p] = 0
<1> DEFINE Found == {l \in LinesOf(u)' : line'[l].product = p}
<1>1. Basket(u)'[p] = IF Found = {} THEN 0 ELSE line'[CHOOSE l \in Found : TRUE].quantity
  BY DEF Basket
<1>2. \A l \in DOMAIN line' : Holds(l, u, p)' <=> l \in Found
  BY DEF LinesOf, Holds
<1>3. \A l, m \in Found : l = m
  BY DEF CartHolds, Holds, LinesOf
<1>4. Found \subseteq DOMAIN line'
  BY DEF LinesOf
<1>. HIDE DEF Found
<1>5. \A l \in Found : (CHOOSE m \in Found : TRUE) = l
  BY <1>3
<1>. QED
  BY <1>1, <1>2, <1>4, <1>5

\* A product of a customer whose line is not written shows what it did.
LEMMA BasketStays ==
  ASSUME CartHolds, CartHolds', NEW u, NEW p \in Products,
         \A l \in DOMAIN line : Holds(l, u, p) => l \in DOMAIN line' /\ line'[l] = line[l],
         \A l \in DOMAIN line' : Holds(l, u, p)' => l \in DOMAIN line /\ Holds(l, u, p)
  PROVE  Basket(u)'[p] = Basket(u)[p]
<1>1. CASE \E l \in DOMAIN line : Holds(l, u, p)
  <2>1. PICK l \in DOMAIN line : Holds(l, u, p)
    BY <1>1
  <2>2. l \in DOMAIN line' /\ line'[l] = line[l] /\ Holds(l, u, p)'
    BY <2>1 DEF Holds
  <2>3. Basket(u)[p] = line[l].quantity /\ Basket(u)'[p] = line'[l].quantity
    BY <2>1, <2>2, BasketIs, BasketIsNext
  <2>. QED
    BY <2>2, <2>3
<1>2. CASE \A l \in DOMAIN line : ~Holds(l, u, p)
  <2>1. \A l \in DOMAIN line' : ~Holds(l, u, p)'
    BY <1>2
  <2>2. Basket(u)[p] = 0 /\ Basket(u)'[p] = 0
    BY <1>2, <2>1, BasketIs, BasketIsNext
  <2>. QED
    BY <2>2
<1>. QED
  BY <1>1, <1>2

Shown == [u \in Customers |-> Basket(u)]

LEMMA ShownTyped ==
  ASSUME NEW u
  PROVE  /\ Basket(u) = [p \in Products |-> Basket(u)[p]]
         /\ Basket(u)' = [p \in Products |-> Basket(u)'[p]]
BY DEF Basket

\* A step that changes what one cart shows of one product.
LEMMA SetsOne ==
  ASSUME NEW u \in Customers, NEW p \in listed, listed \subseteq Products,
         UNCHANGED <<listed, peak>>, Basket(u)'[p] \in 0..peak[p],
         \A v \in Customers, q \in Products :
           v # u \/ q # p => Basket(v)'[q] = Basket(v)[q]
  PROVE  Carts!Next
<1> DEFINE n == Basket(u)'[p]
           After == [Shown EXCEPT ![u][p] = n]
<1>1. Shown' = After
  <2>1. After = [v \in Customers |-> IF v = u THEN [Basket(u) EXCEPT ![p] = n] ELSE Basket(v)]
    BY DEF Shown
  <2>2. ASSUME NEW v \in Customers \ {u}
        PROVE  Basket(v)' = Basket(v)
    BY ShownTyped
  <2>3. Basket(u)' = [Basket(u) EXCEPT ![p] = n]
    BY ShownTyped
  <2>4. Shown' = [v \in Customers |-> Basket(v)']
    BY DEF Shown
  <2>. QED
    BY <2>1, <2>2, <2>3, <2>4
<1>2. p \in Products
  OBVIOUS
<1>. HIDE DEF n
<1>3. Carts!Set(u, p, n)
  BY <1>1 DEF Carts!Set, Shown
<1>. QED
  BY <1>2, <1>3 DEF Carts!Next, n

\* A step that clears what one cart shows.
LEMMA EmptiesOne ==
  ASSUME NEW u \in Customers, UNCHANGED <<listed, peak>>,
         \A p \in Products : Basket(u)'[p] = 0,
         \A v \in Customers \ {u}, q \in Products : Basket(v)'[q] = Basket(v)[q]
  PROVE  Carts!Next
<1>1. Shown' = [Shown EXCEPT ![u] = Carts!Nothing]
  <2>1. Basket(u)' = Carts!Nothing
    BY ShownTyped DEF Carts!Nothing
  <2>2. ASSUME NEW v \in Customers \ {u}
        PROVE  Basket(v)' = Basket(v)
    BY ShownTyped
  <2>3. Shown' = [v \in Customers |-> Basket(v)']
    BY DEF Shown
  <2>. QED
    BY <2>1, <2>2, <2>3 DEF Shown
<1>. QED
  BY <1>1 DEF Carts!Next, Carts!Empty, Shown

\* A handler's write of a line is a change of one cart.
LEMMA LineWritesShow ==
  ASSUME Inv, Inv', NEW r \in Requests,
         \/ UpdateLine(r) \/ SetLine(r) \/ DeleteLine(r)
         \/ \E l \in LineIds : InsertLine(r, l)
  PROVE  Carts!Next
<1>0. CartHolds /\ CartHolds' /\ listed \subseteq Products /\ UNCHANGED <<listed, peak>>
  BY DEF Inv, Tables, UpdateLine, SetLine, SetQuantity, DeleteLine, InsertLine, shop
<1>1. ASSUME NEW l, NEW u \in Customers, NEW p \in listed,
             \A m \in DOMAIN line : m # l => m \in DOMAIN line' /\ line'[m] = line[m],
             \A m \in DOMAIN line' : m # l => m \in DOMAIN line,
             l \in DOMAIN line => Holds(l, u, p),
             l \in DOMAIN line' => Holds(l, u, p)'
      PROVE  Carts!Next
  <2>1. \A v \in Customers, q \in Products : v # u \/ q # p => Basket(v)'[q] = Basket(v)[q]
    <3> SUFFICES ASSUME NEW v \in Customers, NEW q \in Products, v # u \/ q # p
                 PROVE  Basket(v)'[q] = Basket(v)[q]
      OBVIOUS
    <3>1. \A m \in DOMAIN line : Holds(m, v, q) => m \in DOMAIN line' /\ line'[m] = line[m]
      BY <1>1 DEF Holds
    <3>2. \A m \in DOMAIN line' : Holds(m, v, q)' => m \in DOMAIN line /\ Holds(m, v, q)
      BY <1>1 DEF Holds
    <3>. QED
      BY <1>0, <3>1, <3>2, BasketStays
  <2>2. Basket(u)'[p] \in 0..peak[p]
    <3>1. CASE \E m \in DOMAIN line' : Holds(m, u, p)'
      <4>1. PICK m \in DOMAIN line' : Holds(m, u, p)'
        BY <3>1
      <4>2. Basket(u)'[p] = line'[m].quantity
        BY <1>0, <4>1, BasketIsNext
      <4>3. line'[m] \in Line /\ line'[m].quantity <= peak'[p] /\ peak'[p] \in Nat
        BY <1>0, <4>1 DEF Inv, Tables, CartHolds, Holds
      <4>. QED
        BY <1>0, <4>2, <4>3 DEF Line
    <3>2. CASE \A m \in DOMAIN line' : ~Holds(m, u, p)'
      <4>1. Basket(u)'[p] = 0 /\ peak[p] \in Nat
        BY <1>0, <3>2, BasketIsNext DEF Inv, Tables
      <4>. QED
        BY <4>1
    <3>. QED
      BY <3>1, <3>2
  <2>. QED
    BY <1>0, <2>1, <2>2, SetsOne
<1>2. \A l \in DOMAIN line : line[l].user \in Customers /\ line[l].product \in listed
  BY DEF Inv, Tables, CartHolds, Line
<1>3. CASE UpdateLine(r) \/ SetLine(r)
  <2>1. PICK n : \/ SetQuantity(r, "updateLine", n)
                 \/ SetQuantity(r, "setLine", n)
    BY <1>3 DEF UpdateLine, SetLine
  <2> DEFINE l == job[r].row
  <2>2. l \in DOMAIN line /\ line' = [line EXCEPT ![l].quantity = n]
    BY <2>1 DEF SetQuantity
  <2>3. DOMAIN line' = DOMAIN line /\ \A m \in DOMAIN line : m # l => line'[m] = line[m]
    BY <2>2
  <2>4. line[l] \in Line /\ line'[l] = [line[l] EXCEPT !.quantity = n]
    BY <2>2 DEF Inv, Tables
  <2>5. line'[l].user = line[l].user /\ line'[l].product = line[l].product
    BY <2>4 DEF Line
  <2>. QED
    BY <1>1, <1>2, <2>2, <2>3, <2>5 DEF Holds
<1>4. CASE DeleteLine(r)
  <2> DEFINE l == job[r].row
  <2>1. l \in DOMAIN line /\ line' = Only(line, DOMAIN line \ {l})
    BY <1>4 DEF DeleteLine
  <2>2. DOMAIN line' = DOMAIN line \ {l} /\ \A m \in DOMAIN line' : line'[m] = line[m]
    BY <2>1 DEF Only
  <2>. QED
    BY <1>1, <1>2, <2>1, <2>2 DEF Holds
<1>5. ASSUME NEW l \in LineIds, InsertLine(r, l)
      PROVE  Carts!Next
  <2>1. l \notin DOMAIN line /\ job[r].product \in listed /\ pc[r] = "insertLine"
    BY <1>5 DEF InsertLine, Finish, Goto
  <2>2. PICK u \in Customers : u = job[r].user
    BY <2>1 DEF Inv, HandlerOk, Checked
  <2>3. PICK p \in listed : p = job[r].product
    BY <2>1
  <2> DEFINE new == [user |-> u, product |-> p, quantity |-> job[r].quantity]
  <2>4. line' = Put(line, l, new)
    BY <1>5, <2>2, <2>3 DEF InsertLine
  <2>5. /\ DOMAIN line' = DOMAIN line \cup {l} /\ line'[l] = new
        /\ \A m \in DOMAIN line : line'[m] = line[m]
    BY <2>1, <2>4 DEF Put
  <2>6. Holds(l, u, p)'
    BY <2>5 DEF Holds
  <2>. HIDE DEF new
  <2>. QED
    BY <1>1, <2>1, <2>5, <2>6
<1>. QED
  BY <1>3, <1>4, <1>5

\* clearCart empties one cart.
LEMMA ClearingShows ==
  ASSUME Inv, Inv', NEW r \in Requests, DeleteLines(r)
  PROVE  Carts!Next
<1>1. UNCHANGED <<listed, peak>> /\ pc[r] = "deleteLines" /\ CartHolds /\ CartHolds'
      /\ line' = Only(line, {l \in DOMAIN line : line[l].user # job[r].user})
  BY DEF DeleteLines, Finish, Goto, Inv, shop
<1>3. PICK u \in Customers : u = job[r].user
  BY <1>1 DEF Inv, HandlerOk, Checked
<1>2. /\ DOMAIN line' = {l \in DOMAIN line : line[l].user # u}
      /\ \A l \in DOMAIN line' : line'[l] = line[l]
  BY <1>1, <1>3 DEF Only
<1>4. ASSUME NEW p \in Products
      PROVE  Basket(u)'[p] = 0
  <2>1. \A l \in DOMAIN line' : ~Holds(l, u, p)'
    BY <1>2 DEF Holds
  <2>. QED
    BY <1>1, <2>1, BasketIsNext
<1>5. ASSUME NEW v \in Customers \ {u}, NEW q \in Products
      PROVE  Basket(v)'[q] = Basket(v)[q]
  <2>1. \A l \in DOMAIN line : Holds(l, v, q) => l \in DOMAIN line' /\ line'[l] = line[l]
    BY <1>2 DEF Holds
  <2>2. \A l \in DOMAIN line' : Holds(l, v, q)' => l \in DOMAIN line /\ Holds(l, v, q)
    BY <1>2 DEF Holds
  <2>. QED
    BY <1>1, <2>1, <2>2, BasketStays
<1>. QED
  BY <1>1, <1>3, <1>4, <1>5, EmptiesOne

\* A product that is removed leaves every cart.
LEMMA RemovalShows ==
  ASSUME Inv, Inv', NEW p \in Products, RemoveProduct(p)
  PROVE  Carts!Next
<1>1. listed' = listed \ {p} /\ peak' = peak /\ CartHolds /\ CartHolds'
      /\ line' = Only(line, {l \in DOMAIN line : line[l].product # p})
  BY DEF RemoveProduct, Inv
<1>2. /\ DOMAIN line' = {l \in DOMAIN line : line[l].product # p}
      /\ \A l \in DOMAIN line' : line'[l] = line[l]
  BY <1>1 DEF Only
<1>3. ASSUME NEW u \in Customers
      PROVE  Basket(u)' = [Basket(u) EXCEPT ![p] = 0]
  <2>1. \A l \in DOMAIN line' : ~Holds(l, u, p)'
    BY <1>2 DEF Holds
  <2>2. Basket(u)'[p] = 0
    BY <1>1, <2>1, BasketIsNext
  <2>3. ASSUME NEW q \in Products \ {p}
        PROVE  Basket(u)'[q] = Basket(u)[q]
    <3>1. \A l \in DOMAIN line : Holds(l, u, q) => l \in DOMAIN line' /\ line'[l] = line[l]
      BY <1>2 DEF Holds
    <3>2. \A l \in DOMAIN line' : Holds(l, u, q)' => l \in DOMAIN line /\ Holds(l, u, q)
      BY <1>2 DEF Holds
    <3>. QED
      BY <1>1, <3>1, <3>2, BasketStays
  <2>. QED
    BY <2>2, <2>3 DEF Basket
<1>4. Shown' = [u \in Customers |-> [Shown[u] EXCEPT ![p] = 0]]
  BY <1>3 DEF Shown
<1>. QED
  BY <1>1, <1>4 DEF Carts!Next, Carts!Withdraw, Shown

LEMMA StepImplementsCart ==
  ASSUME Inv, Inv', [Next]_vars
  PROVE  [Carts!Next]_(Carts!vars)
<1>1. ASSUME UNCHANGED <<line, listed, peak>>
      PROVE  [Carts!Next]_(Carts!vars)
  BY <1>1 DEF Carts!vars, Basket, LinesOf
<1>2. CASE UNCHANGED vars
  BY <1>1, <1>2 DEF vars, shop, basket
<1>3. ASSUME NEW p \in Products, NEW level \in Levels, SetStock(p, level)
      PROVE  [Carts!Next]_(Carts!vars)
  <2>1. /\ UNCHANGED <<line, listed>>
        /\ peak' = [peak EXCEPT ![p] = IF level > @ THEN level ELSE @]
    BY <1>3 DEF SetStock, basket
  <2>2. Shown' = Shown
    BY <2>1 DEF Shown, Basket, LinesOf
  <2>3. CASE level > peak[p]
    BY <2>1, <2>2, <2>3 DEF Carts!Next, Carts!Restock, Shown
  <2>4. CASE ~(level > peak[p])
    <3>1. peak' = peak
      BY <2>1, <2>4 DEF Inv, Tables
    <3>. QED
      BY <1>1, <2>1, <3>1
  <2>. QED
    BY <2>3, <2>4
<1>4. ASSUME NEW p \in Products, NEW amount \in Prices, Reprice(p, amount)
      PROVE  [Carts!Next]_(Carts!vars)
  BY <1>1, <1>4 DEF Reprice, basket
<1>5. ASSUME NEW p \in Products, RemoveProduct(p)
      PROVE  [Carts!Next]_(Carts!vars)
  BY <1>5, RemovalShows
<1>6. ASSUME NEW r \in Requests, CartStep(r)
      PROVE  [Carts!Next]_(Carts!vars)
  <2>1. CASE \/ UpdateLine(r) \/ SetLine(r) \/ DeleteLine(r)
             \/ \E l \in LineIds : InsertLine(r, l)
    BY <2>1, LineWritesShow
  <2>2. CASE DeleteLines(r)
    BY <2>2, ClearingShows
  <2>3. CASE \/ CheckStock(r) \/ FindCart(r) \/ InsertCart(r) \/ FindLine(r) \/ CheckSum(r)
             \/ CheckLevel(r)
    BY <1>1, <2>3 DEF CheckStock, FindCart, InsertCart, FindLine, CheckSum, CheckLevel, Pass,
       shop, basket
  <2>. QED
    BY <1>6, <2>1, <2>2, <2>3 DEF CartStep
<1>7. ASSUME NEW r \in Requests, AddressStep(r) \/ Fail(r)
      PROVE  [Carts!Next]_(Carts!vars)
  BY <1>1, <1>7 DEF AddressStep, ClearDefault, InsertAddress, ClearOthers, WriteAddress,
     DeleteAddress, Fail, shop, basket
<1>8. ASSUME NEW r \in Requests, CheckoutStep(r)
      PROVE  [Carts!Next]_(Carts!vars)
  BY <1>1, <1>8 DEF CheckoutStep, ReadCart, FindAddress, ReadProduct, EndLoop, InsertOrder, Pass,
     shop, basket
<1>9. ASSUME NEW r \in Requests, NEW u \in Customers, CartArrival(r, u) \/ AddressArrival(r, u)
      PROVE  [Carts!Next]_(Carts!vars)
  BY <1>1, <1>9 DEF CartArrival, AddToCart, GetCart, ClearCart, UpdateCartItem, RemoveFromCart,
     AddressArrival, CreateAddress, UpdateAddress, RemoveAddress, StartCheckout, Start, shop, basket
<1>. QED
  BY <1>2, <1>3, <1>4, <1>5, <1>6, <1>7, <1>8, <1>9 DEF Next

\* However the handlers' looks and writes interleave, a customer sees the cart of the
\* abstract Cart: every step changes one product of one cart, clears one cart or takes a
\* removed product out of all of them (cart.service.ts).
THEOREM ImplementsCarts == Spec => ImplementsCart
<1>1. Init => Carts!Init
  <2> SUFFICES ASSUME Init PROVE Carts!Init
    OBVIOUS
  <2>1. DOMAIN line = {}
    BY DEF Init
  <2>2. \A u \in Customers : Basket(u) = Carts!Nothing
    BY <2>1 DEF Basket, LinesOf, Carts!Nothing
  <2>3. listed \subseteq Products /\ peak \in [Products -> Nat]
    BY AmountsAssumption DEF Init
  <2>. QED
    BY <2>2, <2>3 DEF Carts!Init
<1>2. Inv /\ Inv' /\ [Next]_vars => [Carts!Next]_(Carts!vars)
  BY StepImplementsCart
<1>. QED
  BY <1>1, <1>2, Inductive, PTL DEF Spec, ImplementsCart, Carts!Spec

=============================================================================
