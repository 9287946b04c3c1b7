------------------------------ MODULE Shopping ------------------------------
(***************************************************************************)
(* What a customer does before an order exists: CartService and            *)
(* AddressesService, and the part of a checkout that reads the cart, the   *)
(* address and the prices, writes the amounts of the order and empties the *)
(* cart.  Checkout takes up where the order is committed; here the rows of *)
(* the cart and of the addresses are kept one by one.                      *)
(*                                                                         *)
(* Every await of a handler is a step.  A look that makes the handler      *)
(* refuse changes nothing and is left to Fail.                             *)
(***************************************************************************)
EXTENDS Integers, FiniteSets, Functions

CONSTANTS
  Requests,    \* requests the server may be handling at the same time
  Customers,   \* users with a cart and addresses
  Products,    \* products of the catalogue at the start
  LineIds,     \* ids of rows of CartItem
  AddressIds,  \* ids of rows of Address
  None,        \* no product, no row, no customer
  Keep,        \* a field the request does not mention
  Quantities,  \* bound: quantities the customers ask for
  InitialStock, \* stock of each product at the start
  Levels,      \* bound: stocks the administrator writes
  Prices,      \* bound: prices the administrator writes
  Percent,     \* Product.discount, in percent
  MaxArrivals, \* bound: requests handled
  MaxChanges   \* bound: writes of the administrator

ASSUME NamesAssumption ==
  /\ None \notin Customers \cup Products \cup LineIds \cup AddressIds \cup Nat
  /\ Keep \notin BOOLEAN

ASSUME SizesAssumption ==
  IsFiniteSet(Requests) /\ Requests # {} /\ IsFiniteSet(AddressIds) /\ IsFiniteSet(Products)

ASSUME AmountsAssumption ==
  /\ Quantities \subseteq Nat \ {0} /\ Levels \subseteq Nat /\ Prices \subseteq Nat
  /\ InitialStock \in [Products -> Nat] /\ Percent \in [Products -> 0..100]

ASSUME BoundsAssumption == MaxArrivals \in Nat /\ MaxChanges \in Nat

VARIABLES
  listed,   \* products that still have a row
  stock,    \* Product.stock
  price,    \* Product.price
  carts,    \* customers with a row in Cart
  line,     \* the rows of CartItem, by id
  address,  \* the rows of Address, by id
  orders,   \* the amounts of the orders made
  pc,       \* the await each request stands at
  job,      \* the local variables of each request
  arrived,  \* requests handled so far
  changed,  \* writes of the administrator so far
  peak,     \* history: the highest stock a product has had
  touched   \* history: lines written since the request read the cart

shop     == <<listed, stock, price, changed, peak>>
basket   == <<carts, line, touched>>
handlers == <<pc, job, arrived>>
vars     == <<shop, basket, address, orders, handlers>>

Line    == [user : Customers, product : Products, quantity : Nat]
Address == [user : Customers, default : BOOLEAN]

\* row is the line or address meant, found the quantity a line was read with, items
\* the cart as read, bill the prices read for it, subtotal and discount what the loop
\* over the items has added up so far (the discount in hundredths).
Job == [user : Customers \cup {None}, product : Products \cup {None}, quantity : Nat,
        row : LineIds \cup AddressIds \cup {None}, found : Nat, default : BOOLEAN \cup {Keep},
        items : [Products -> Nat], bill : [Products -> Nat \cup {None}],
        subtotal : Nat, discount : Nat]

NoItems == [p \in Products |-> 0]
Unread  == [p \in Products |-> None]

Blank == [user |-> None, product |-> None, quantity |-> 0, row |-> None, found |-> 0,
          default |-> Keep, items |-> NoItems, bill |-> Unread,
          subtotal |-> 0, discount |-> 0]

Steps == {"idle", "checkStock", "findCart", "insertCart", "findLine", "checkSum", "updateLine",
          "insertLine", "checkLevel", "setLine", "deleteLine", "deleteLines", "clearDefault",
          "insertAddress", "clearOthers", "updateAddress", "deleteAddress", "readCart",
          "findAddress", "readProducts", "insertOrder"}

Put(f, k, row) == [x \in DOMAIN f \cup {k} |-> IF x = k THEN row ELSE f[x]]
Only(f, D)     == [x \in D |-> f[x]]

\* A shop with stock, and customers who have at most one default address each.
Init ==
  /\ listed = Products
  /\ stock = InitialStock /\ peak = InitialStock
  /\ price \in [Products -> Prices]
  /\ carts = {}
  /\ line = [l \in {} |-> None]
  /\ \E A \in SUBSET AddressIds : address \in [A -> Address]
  /\ \A a, b \in DOMAIN address :
       address[a].default /\ address[b].default /\ address[a].user = address[b].user => a = b
  /\ orders = {}
  /\ pc = [r \in Requests |-> "idle"]
  /\ job = [r \in Requests |-> Blank]
  /\ arrived = 0 /\ changed = 0
  /\ touched = [r \in Requests |-> {}]

Start(r, step, j) ==
  /\ pc[r] = "idle" /\ arrived < MaxArrivals
  /\ arrived' = arrived + 1
  /\ pc' = [pc EXCEPT ![r] = step]
  /\ job' = [job EXCEPT ![r] = j]
  /\ UNCHANGED <<shop, basket, address, orders>>

Goto(r, from, to) ==
  /\ pc[r] = from
  /\ pc' = [pc EXCEPT ![r] = to]
  /\ UNCHANGED arrived

\* A look that was passed.
Pass(r, from, to, passed) ==
  /\ Goto(r, from, to)
  /\ passed
  /\ UNCHANGED <<shop, basket, address, orders, job>>

\* The last write of a handler.  The cart it returns is read once more; that
\* read is left out.
Finish(r, from) ==
  /\ Goto(r, from, "idle")
  /\ job' = [job EXCEPT ![r] = Blank]

\* A refusal, an error of the database, a lost connection or a restart.
Fail(r) ==
  /\ pc[r] # "idle"
  /\ Finish(r, pc[r])
  /\ UNCHANGED <<shop, basket, address, orders>>

\* cuid: no row and no handler has the id.
Fresh(id) == \A r \in Requests : job[r].row # id

\* The handlers that go on with what they read of the cart.
Readers == {r \in Requests :
              pc[r] \in {"checkSum", "updateLine", "findAddress", "readProducts", "insertOrder",
                         "deleteLines"}}

\* Request r has just read the cart.
ReadBy(r) == touched' = [touched EXCEPT ![r] = {}]

\* Request r writes line l.
Touch(r, l) ==
  touched' = [x \in Requests |-> IF x \in Readers \ {r} THEN touched[x] \cup {l} ELSE {}]

-----------------------------------------------------------------------------
(* CartService.                                                             *)

\* addToCart: the product is looked up, then its stock, then the cart.
AddToCart(r, u, p, quantity) ==
  /\ p \in listed
  /\ Start(r, "checkStock", [Blank EXCEPT !.user = u, !.product = p, !.quantity = quantity])

\* ProductsService.checkStock.
HasStock(p, quantity) == p \in listed /\ stock[p] >= quantity

CheckStock(r) == Pass(r, "checkStock", "findCart", HasStock(job[r].product, job[r].quantity))

FindCart(r) ==
  \/ Pass(r, "findCart", "findLine", job[r].user \in carts)
  \/ Pass(r, "findCart", "insertCart", job[r].user \notin carts)

\* getCart creates a cart too.
GetCart(r, u) ==
  /\ u \notin carts
  /\ Start(r, "insertCart", [Blank EXCEPT !.user = u])

\* userId is @unique: the second of two fails.
InsertCart(r) ==
  /\ job[r].user \notin carts
  /\ carts' = carts \cup {job[r].user}
  /\ IF job[r].product = None THEN Finish(r, "insertCart")
     ELSE Goto(r, "insertCart", "findLine") /\ UNCHANGED job
  /\ UNCHANGED <<shop, line, touched, address, orders>>

Holds(l, u, p) == line[l].user = u /\ line[l].product = p

FindLine(r) ==
  LET u == job[r].user
      p == job[r].product
      Found == {l \in DOMAIN line : Holds(l, u, p)} IN
  /\ ReadBy(r)
  /\ \/ \E l \in Found :
          /\ Goto(r, "findLine", "checkSum")
          /\ job' = [job EXCEPT ![r].row = l, ![r].found = line[l].quantity]
     \/ /\ Found = {}
        /\ Goto(r, "findLine", "insertLine")
        /\ UNCHANGED job
  /\ UNCHANGED <<shop, carts, line, address, orders>>

Sum(r) == job[r].found + job[r].quantity

\* Mutant of CheckSum: only the first check is made.
CheckSumNot(r) == Pass(r, "checkSum", "updateLine", TRUE)

CheckSum(r) == Pass(r, "checkSum", "updateLine", HasStock(job[r].product, Sum(r)))

SetQuantity(r, from, quantity) ==
  LET l == job[r].row IN
  /\ l \in DOMAIN line
  /\ Finish(r, from)
  /\ line' = [line EXCEPT ![l].quantity = quantity]
  /\ Touch(r, l)
  /\ UNCHANGED <<shop, carts, address, orders>>

\* Mutant of UpdateLine: the line goes up by one, whatever was asked for.
RaiseByOne(r) == SetQuantity(r, "updateLine", job[r].found + 1)

\* The sum of what was read and what was asked for.
UpdateLine(r) == SetQuantity(r, "updateLine", Sum(r))

\* [cartId, productId] is @@unique.
LineFree(u, p) == \A l \in DOMAIN line : ~Holds(l, u, p)

InsertLine(r, l) ==
  LET j == job[r] IN
  /\ l \notin DOMAIN line /\ Fresh(l)
  /\ j.product \in listed
  /\ LineFree(j.user, j.product)
  /\ Finish(r, "insertLine")
  /\ line' = Put(line, l, [user |-> j.user, product |-> j.product, quantity |-> j.quantity])
  /\ Touch(r, l)
  /\ UNCHANGED <<shop, carts, address, orders>>

OwnLine(u, l) == l \in DOMAIN line /\ line[l].user = u

\* updateCartItem: the line with its cart, the stock, the write.
UpdateCartItem(r, u, l, quantity) ==
  /\ OwnLine(u, l)
  /\ Start(r, "checkLevel", [Blank EXCEPT !.user = u, !.row = l, !.quantity = quantity,
                                          !.product = line[l].product])

CheckLevel(r) == Pass(r, "checkLevel", "setLine", HasStock(job[r].product, job[r].quantity))

SetLine(r) == SetQuantity(r, "setLine", job[r].quantity)

RemoveFromCart(r, u, l) ==
  /\ OwnLine(u, l)
  /\ Start(r, "deleteLine", [Blank EXCEPT !.user = u, !.row = l])

DeleteLine(r) ==
  /\ job[r].row \in DOMAIN line
  /\ Finish(r, "deleteLine")
  /\ line' = Only(line, DOMAIN line \ {job[r].row})
  /\ UNCHANGED <<shop, carts, touched, address, orders>>

\* clearCart: the cart is found, and every line that it has by then deleted.
ClearCart(r, u) ==
  /\ u \in carts
  /\ Start(r, "deleteLines", [Blank EXCEPT !.user = u])

\* Mutant of DeleteLines: without the where clause.
DeleteAllLines(r) ==
  /\ Finish(r, "deleteLines")
  /\ line' = [l \in {} |-> None]
  /\ UNCHANGED <<shop, carts, touched, address, orders>>

DeleteLines(r) ==
  /\ Finish(r, "deleteLines")
  /\ line' = Only(line, {l \in DOMAIN line : line[l].user # job[r].user})
  /\ UNCHANGED <<shop, carts, touched, address, orders>>

-----------------------------------------------------------------------------
(* AddressesService.                                                        *)

\* Mutant of CreateAddress: the earlier default stays.
CreateBeside(r, u, a, default) ==
  /\ a \notin DOMAIN address /\ Fresh(a)
  /\ Start(r, "insertAddress", [Blank EXCEPT !.user = u, !.row = a, !.default = default])

\* create: the other defaults are cleared first, if there is to be a new one.
CreateAddress(r, u, a, default) ==
  /\ a \notin DOMAIN address /\ Fresh(a)
  /\ Start(r, IF default THEN "clearDefault" ELSE "insertAddress",
           [Blank EXCEPT !.user = u, !.row = a, !.default = default])

DefaultsOf(u) == {a \in DOMAIN address : address[a].user = u /\ address[a].default}

ClearedOf(A) == [a \in DOMAIN address |-> IF a \in A THEN [address[a] EXCEPT !.default = FALSE]
                                          ELSE address[a]]

ClearDefault(r) ==
  /\ Goto(r, "clearDefault", "insertAddress")
  /\ address' = ClearedOf(DefaultsOf(job[r].user))
  /\ UNCHANGED <<shop, basket, orders, job>>

InsertAddress(r) ==
  LET j == job[r] IN
  /\ Finish(r, "insertAddress")
  /\ address' = Put(address, j.row, [user |-> j.user, default |-> j.default])
  /\ UNCHANGED <<shop, basket, orders>>

\* findOne: the address exists and is the customer's.
OwnAddress(u, a) == a \in DOMAIN address /\ address[a].user = u

UpdateAddress(r, u, a, default) ==
  /\ OwnAddress(u, a)
  /\ Start(r, IF default = TRUE THEN "clearOthers" ELSE "updateAddress",
           [Blank EXCEPT !.user = u, !.row = a, !.default = default])

ClearOthers(r) ==
  /\ Goto(r, "clearOthers", "updateAddress")
  /\ address' = ClearedOf(DefaultsOf(job[r].user) \ {job[r].row})
  /\ UNCHANGED <<shop, basket, orders, job>>

\* Mutant of Field: a field that is not mentioned is cleared.
FieldCleared(asked, old) == asked

Field(asked, old) == IF asked = Keep THEN old ELSE asked

WriteAddress(r) ==
  LET a == job[r].row IN
  /\ a \in DOMAIN address
  /\ Finish(r, "updateAddress")
  /\ address' = [address EXCEPT ![a].default = Field(job[r].default, @)]
  /\ UNCHANGED <<shop, basket, orders>>

RemoveAddress(r, u, a) ==
  /\ OwnAddress(u, a)
  /\ Start(r, "deleteAddress", [Blank EXCEPT !.user = u, !.row = a])

DeleteAddress(r) ==
  /\ job[r].row \in DOMAIN address
  /\ Finish(r, "deleteAddress")
  /\ address' = Only(address, DOMAIN address \ {job[r].row})
  /\ UNCHANGED <<shop, basket, orders>>

-----------------------------------------------------------------------------
(* Checkout: from the cart to the amounts of an order.                      *)

StartCheckout(r, u, a) ==
  /\ OwnAddress(u, a)
  /\ Start(r, "readCart", [Blank EXCEPT !.user = u, !.row = a])

LinesOf(u) == {l \in DOMAIN line : line[l].user = u}

\* Mutant of Basket: the products without their quantities.
BasketOfOne(u) == [p \in Products |-> IF \E l \in LinesOf(u) : line[l].product = p THEN 1 ELSE 0]

\* getCart, as the quantity of every product: it has one line at most.
Basket(u) ==
  [p \in Products |->
     LET Found == {l \in LinesOf(u) : line[l].product = p} IN
       IF Found = {} THEN 0 ELSE line[CHOOSE l \in Found : TRUE].quantity]

\* An empty cart is refused, after it was made if there was none.
ReadCart(r) ==
  \/ /\ LinesOf(job[r].user) # {}
     /\ Goto(r, "readCart", "findAddress")
     /\ job' = [job EXCEPT ![r].items = Basket(job[r].user)]
     /\ ReadBy(r)
     /\ UNCHANGED <<shop, carts, line, address, orders>>
  \/ Pass(r, "readCart", "insertCart", job[r].user \notin carts)

\* OrdersService.create finds the address once more.
FindAddress(r) == Pass(r, "findAddress", "readProducts", OwnAddress(job[r].user, job[r].row))

\* Mutant of Charged: every item is added to the subtotal once, whatever its quantity.
ChargedOnce(j, p, amount) ==
  [j EXCEPT !.bill[p] = amount, !.subtotal = @ + amount,
            !.discount = @ + amount * Percent[p] * j.items[p]]

\* The item's price, its amount added to the subtotal and its part of it to the discount.
Charged(j, p, amount) ==
  [j EXCEPT !.bill[p] = amount, !.subtotal = @ + amount * j.items[p],
            !.discount = @ + amount * Percent[p] * j.items[p]]

\* One turn of the loop: the product, its price and its stock.
ReadProduct(r, p) ==
  /\ job[r].items[p] > 0 /\ job[r].bill[p] = None
  /\ HasStock(p, job[r].items[p])
  /\ Goto(r, "readProducts", "readProducts")
  /\ job' = [job EXCEPT ![r] = Charged(@, p, price[p])]
  /\ UNCHANGED <<shop, basket, address, orders>>

Billed(j) == {p \in Products : j.items[p] > 0}

EndLoop(r) ==
  Pass(r, "readProducts", "insertOrder", \A p \in Billed(job[r]) : job[r].bill[p] # None)

\* totalPrice is an Int: Prisma refuses an amount with a fraction.
Stored(hundredths) == hundredths % 100 = 0

\* Math.round.
Rounded(hundredths) == (hundredths + 50) \div 100

\* The transaction: the order with its amounts, the stock taken; a product that
\* is gone fails it.  Then the payment and clearCart.
InsertOrder(r) ==
  LET j == job[r]
      total == 100 * j.subtotal - j.discount IN
  /\ Goto(r, "insertOrder", "deleteLines")
  /\ Billed(j) \subseteq listed
  /\ Stored(total)
  /\ orders' = orders \cup {[items |-> j.items, bill |-> j.bill, subtotal |-> j.subtotal,
                             discount |-> Rounded(j.discount), total |-> total \div 100]}
  /\ stock' = [p \in Products |-> stock[p] - j.items[p]]
  /\ UNCHANGED <<listed, price, changed, peak, basket, address, job>>

-----------------------------------------------------------------------------
(* The administrator, in single statements of ProductsService.              *)

Administer == changed < MaxChanges /\ changed' = changed + 1

SetStock(p, level) ==
  /\ Administer /\ p \in listed
  /\ stock' = [stock EXCEPT ![p] = level]
  /\ peak' = [peak EXCEPT ![p] = IF level > @ THEN level ELSE @]
  /\ UNCHANGED <<listed, price, basket, address, orders, handlers>>

Reprice(p, amount) ==
  /\ Administer /\ p \in listed
  /\ price' = [price EXCEPT ![p] = amount]
  /\ UNCHANGED <<listed, stock, peak, basket, address, orders, handlers>>

\* The lines of every cart go with the product; an order of it restricts.
RemoveProduct(p) ==
  /\ Administer /\ p \in listed
  /\ \A o \in orders : o.items[p] = 0
  /\ listed' = listed \ {p}
  /\ line' = Only(line, {l \in DOMAIN line : line[l].product # p})
  /\ UNCHANGED <<stock, price, peak, carts, touched, address, orders, handlers>>

-----------------------------------------------------------------------------

CartArrival(r, u) ==
  \/ \E p \in Products, quantity \in Quantities : AddToCart(r, u, p, quantity)
  \/ GetCart(r, u) \/ ClearCart(r, u)
  \/ \E l \in LineIds :
       (\E quantity \in Quantities : UpdateCartItem(r, u, l, quantity)) \/ RemoveFromCart(r, u, l)

AddressArrival(r, u) ==
  \E a \in AddressIds :
    \/ \E default \in BOOLEAN : CreateAddress(r, u, a, default)
    \/ \E default \in BOOLEAN \cup {Keep} : UpdateAddress(r, u, a, default)
    \/ RemoveAddress(r, u, a) \/ StartCheckout(r, u, a)

CartStep(r) ==
  \/ CheckStock(r) \/ FindCart(r) \/ InsertCart(r) \/ FindLine(r) \/ CheckSum(r) \/ UpdateLine(r)
  \/ (\E l \in LineIds : InsertLine(r, l))
  \/ CheckLevel(r) \/ SetLine(r) \/ DeleteLine(r) \/ DeleteLines(r)

AddressStep(r) ==
  \/ ClearDefault(r) \/ InsertAddress(r) \/ ClearOthers(r) \/ WriteAddress(r) \/ DeleteAddress(r)

CheckoutStep(r) ==
  \/ ReadCart(r) \/ FindAddress(r) \/ (\E p \in Products : ReadProduct(r, p)) \/ EndLoop(r)
  \/ InsertOrder(r)

Next ==
  \/ \E r \in Requests :
       \/ \E u \in Customers : CartArrival(r, u) \/ AddressArrival(r, u)
       \/ CartStep(r) \/ AddressStep(r) \/ CheckoutStep(r) \/ Fail(r)
  \/ \E p \in Products :
       (\E level \in Levels : SetStock(p, level)) \/ (\E amount \in Prices : Reprice(p, amount))
         \/ RemoveProduct(p)

Spec == Init /\ [][Next]_vars

-----------------------------------------------------------------------------
(* What must be true of it.                                                 *)

\* The rows keep their types, and so does what the handlers remember of them.
TypeOK ==
  /\ listed \subseteq Products
  /\ stock \in [Products -> Int] /\ peak \in [Products -> Nat] /\ price \in [Products -> Prices]
  /\ carts \subseteq Customers
  /\ DOMAIN line \subseteq LineIds /\ \A l \in DOMAIN line : line[l] \in Line
  /\ DOMAIN address \subseteq AddressIds /\ \A a \in DOMAIN address : address[a] \in Address
  /\ pc \in [Requests -> Steps] /\ job \in [Requests -> Job]
  /\ arrived \in 0..MaxArrivals /\ changed \in 0..MaxChanges
  /\ touched \in [Requests -> SUBSET LineIds]

\* However additions, changes and removals race, no customer has two lines of a
\* product, a line has its cart and its product, and it asks for no more than there
\* ever was: every quantity written, the sum of two additions too, was checked
\* against a stock (addToCart, updateCartItem).
CartHolds ==
  /\ \A l, m \in DOMAIN line : Holds(l, line[m].user, line[m].product) => l = m
  /\ \A l \in DOMAIN line :
       /\ line[l].user \in carts /\ line[l].product \in listed
       /\ line[l].quantity <= peak[line[l].product]

\* "unset other defaults" (addresses.service.ts:11) runs before the new default is
\* written, in a statement of its own: requests that race leave several, but never
\* more than the server handles at a time.
DefaultsBounded ==
  \A u \in Customers : Cardinality(DefaultsOf(u)) <= Cardinality(Requests)

\* What the items of an order cost, and how much less in hundredths they are sold for.
Amounts(o)    == [p \in Billed(o) |-> o.bill[p] * o.items[p]]
Reductions(o) == [p \in Billed(o) |-> o.bill[p] * Percent[p] * o.items[p]]

\* The three amounts of an order agree with each other and with its own items, although
\* the loop adds them up item by item while prices change, and although the discount is
\* rounded and the total is not (orders.service.ts:60-74, 88-90).
OrdersAddUp ==
  \A o \in orders :
    /\ o.subtotal = SumFunction(Amounts(o))
    /\ 100 * o.discount = SumFunction(Reductions(o))
    /\ o.total = o.subtotal - o.discount

\* The carts as their customers see them.
Carts == INSTANCE Cart WITH
  quantity <- [u \in Customers |-> Basket(u)],
  offered  <- listed,
  ceiling  <- peak

\* Whatever the handlers do to the lines between their looks and writes, every step is
\* one change of one cart, or a product that leaves them all.
ImplementsCart == Carts!Spec

\* An addition to a line raises it by what was asked for, unless another request
\* wrote the line between the read and the write (addToCart writes a sum).
AdditionsCount ==
  [][\A r \in Requests :
       LET l == job[r].row IN
       (pc[r] = "updateLine" /\ line' # line /\ pc'[r] # pc[r]) =>
         line'[l].quantity = line[l].quantity + job[r].quantity \/ l \in touched[r]]_vars

\* What a checkout clears away it has ordered, but for lines written since it read
\* the cart: clearCart deletes all there is by then.
ClearedWasOrdered ==
  [][\A r \in Requests :
       (pc[r] = "deleteLines" /\ pc'[r] # pc[r] /\ job[r].row # None) =>
         \A l \in DOMAIN line \ DOMAIN line' :
           job[r].items[line[l].product] = line[l].quantity \/ l \in touched[r]]_vars
=============================================================================
