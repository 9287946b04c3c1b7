# Verification of moramor-core

TLA+ models of the shop backend in this repository (NestJS, Prisma, PostgreSQL), the TLC
runs that check them, and TLAPS proofs about them. `PROJECT.json` maps every definition to
the lines it was translated from.

    tlc -workers 2 -config Checkout.cfg MCCheckout     # any other run likewise
    tlapm CheckoutProofs.tla

## 1. Inventory

The program is one Node process per server behind HTTP. A handler runs without interruption
from one `await` to the next; between two of them any number of other handlers may run, in
this process or another. All state that lasts is in PostgreSQL, under READ COMMITTED, and in
an object store for pictures. There is no job queue, no cache and no background task, so
every hard behaviour is one of: a value read before an `await` and used after it, a sequence
of statements of which only some happened, a callback that comes twice or late, a call
outside whose answer is lost.

| Component | State | Operations | Hard behaviour | What makes it correct |
|---|---|---|---|---|
| Checkout (`checkout.service.ts`) | locals of a handler | `checkout`, `verifyPayment` | seven awaits between reading the cart and clearing it; repeated and racing callbacks | an order is PAID only for settled money, decided once; a cart is cleared only for an order that can be paid |
| Orders (`orders.service.ts`) | `Order`, `OrderItem` | `create`, `cancel`, `updateStatus`, `setPaymentAuthority`, `findOne`, `generateOrderNumber` | stock check outside the transaction, number counted before it is used, cancel checks before it acts, rounded discount and unrounded total | no unit lost or invented, numbers unique, amounts that add up, paid orders not cancelled |
| Payment (`payment.service.ts`, `zarinpal.service.ts`) | none; a session at Zarinpal | `request`, `verify` | the answer of a settled payment is lost | money at the gateway belongs to a findable order |
| Cart (`cart.service.ts`) | `Cart`, `CartItem` | add, update, remove, clear | read, check, write in three statements; the cart itself created by whoever comes first; clearing what was added meanwhile | one line for each product, its quantity bounded by a stock; an addition adds; what a checkout clears it ordered |
| Addresses (`addresses.service.ts`) | `Address` | create, update, remove | the old defaults cleared in one statement, the new one set in another | no more default addresses than requests |
| Products (`products.service.ts`) | `Product` | create, update, remove, `checkStock` | slug chosen by a read, stock overwritten | slugs unique, a product of an order not deleted |
| Sessions (`auth.service.ts`) | `User`, `RefreshToken`, OTP and reset fields | refresh, logout, login, forgot, reset, request and verify OTP | rotation of a token that two requests hold; a sign-in that stores its token after a reset | a credential is used once; sessions are not lost; a reset ends earlier sessions (refresh tokens) |
| Mail (`mail.service.ts`) | none | send | an SMTP call that fails or never ends | a reset link works once, mailed or not |
| Categories (`categories.service.ts`) | `Category` | create, update, remove | emptiness read before the deletion | no product without a category |
| Collections (`collections.service.ts`) | `Collection`, `ProductOnCollection` | create, update, softDelete | slugs counted up until one is free; every field written back as read; a list replaced by a transaction of three statements | slugs unique and made from a title; no list lost half way, nothing left of a replaced one |
| Reviews, wishlist | `Review`, `Wishlist` | add, approve, remove | existence check before the insert, with and without a unique index behind it | one wish, and no more reviews than requests, per customer and product |
| Upload (`upload.service.ts`) | objects in a bucket, `bucketChecked` | start of the server, one picture, several pictures | concurrent creation of the bucket, a flag that outlives the bucket, a batch that fails half way, no store at the start | a success means stored pictures, a failure has a reason, the server starts without a store |
| Terminal tool (`tools/mcp-terminal-server.js`) | pending requests, one child process each | initialize, list, call | timeout against exit, end of input with work pending | every request answered once, no exit with an answer owed |
| Users, guards, filter, bootstrap, seed | none or one row | single statements | none of the above | - |

They interact by direct calls (`CheckoutService` calls `CartService`, `OrdersService` and
`PaymentService`; `OrdersService` and `CartService` call `ProductsService.checkStock`;
`AuthService` calls `MailService`), by the rows they share (stock, cart, order), and with the
gateway by one HTTP call each way and a redirect of the customer's browser.

The hazards, each at its line with the properties that cover it, are listed in
`PROJECT.json`.

## 2. Modules

| Module | Models | Proofs |
|---|---|---|
| `Checkout`, `MCCheckout` | `CheckoutService`, `OrdersService`, `PaymentService`, `ZarinpalService`, the clearing of the cart | `CheckoutProofs` |
| `OrderPayment` | what a customer may rely on about a payment; `Checkout` refines it | |
| `Shopping`, `MCShopping` | `CartService`, `AddressesService`, a checkout from the cart to the amounts of the order | `ShoppingProofs` |
| `Cart` | a cart as its customer sees it; `Shopping` refines it | |
| `Terminal` | `tools/mcp-terminal-server.js` | `TerminalProofs` |
| `ToolServer` | one answer per line, none owed at exit; `Terminal` refines it | |
| `Sessions`, `MCSessions` | `AuthService`, the call of `MailService` | `SessionsProofs` |
| `Credentials` | sessions and reset links as their owners see them; `Sessions` refines it | |
| `Catalog`, `MCCatalog` | `CategoriesService`, `ProductsService`, `ReviewsService`, `WishlistService` | `CatalogProofs` |
| `Collections`, `MCCollections` | `CollectionsService` | `CollectionsProofs` |
| `Upload`, `MCUpload` | `UploadService` and the two handlers that call it | `UploadProofs` |
| `Sums` | lemmas about `SumFunction` over a finite set, for the ledger of the stock and the amounts of an order | itself |

The backend modules share one form. `Requests` are the requests a server (or several) has in
hand. `pc[r]` is the `await` at which request `r` stands, `job[r]` the variables its handler
remembers across it, and the tables are variables of their own: sets of rows or functions
from ids to rows. An *arrival* runs the handler to its first look at a table (a look by which
it refuses changes nothing and is left out where nothing depends on it). A *handler step*
is one statement, one transaction or one call outside, together with the code up to the next
`await`. `Abort`, `Drop` and `Fail` end a handler at any `await`: an exception of the
database, a lost connection, a killed process. Nothing is undone by them except, in
`Collections`, an open transaction. Variables marked *history* are read by properties only.

**Checkout.** `StartCheckout` reads the cart; `CheckItem` is one turn of the stock loop;
`CountOrders` counts the orders of the day for the number; `InsertOrder` is the transaction
that inserts the order and decrements each stock; then `RequestPayment`, `StoreAuthority`,
`ClearCart` and `Reply`. `StartVerify`, `GatewayAccepts / Refuses / Unreachable`, `MarkPaid`,
`MarkFailed` and `AlreadyDecided` are a callback; `StartCancel` and `CommitCancel` a
cancellation. `gateway` is Zarinpal's side: a session, the customer's money, its settlement;
`GatewayUnreachable` may settle and lose the answer. `known` holds the orders whose
authority has left the server, so that callbacks come only for those. `told` and `returned`
are histories. The branch of `checkout` that takes its items from the request is not reached
over HTTP (`create-checkout.dto.ts` types a quantity as a string where `main.ts` converts it
to a number) and is left out.

**Shopping.** The rows that `Checkout` sees only as a quantity per customer and product.
Every `await` of `addToCart`, `updateCartItem`, `getCart` and of the address handlers is a
step: `CheckStock`, `FindCart`, `InsertCart`, `FindLine`, `CheckSum`, then `UpdateLine` with
the sum of what was read and what was asked for, or `InsertLine`. A look by which a handler
refuses is left to `Fail`. The checkout part reads the cart (`ReadCart`), finds the address
again, reads price and stock product by product (`ReadProduct`) and inserts an order with its
amounts: the discount is computed in hundredths and rounded, the total is not, and is refused
by the column (an `Int`) when it has a fraction. (The model computes in whole hundredths where
the code uses floating point; the errors of its divisions by 100 are not in the model.)
The administrator restocks, reprices and removes products between any two steps. `touched[r]`
is a history of the lines written since request `r` read the cart, `peak` one of the highest
stock. `Checkout` keeps of all this the net effect on one quantity (`ChangeCart`, `ClearCart`), as
`Cart` does with `Set` and `Empty`: `ImplementsCart` shows that the rows do no more than that,
with `quantity` mapped to what the lines of a customer say (`Basket`).

**Terminal.** A request is a line of standard input in the phases *unsent, direct, running,
done* (`direct`: answered without a command); its child process has its own phase, its output
is a number of bytes against the cap, and `exit`, `close`, `error` and the timer are
callbacks of their own, in the orders Node can deliver them. `Habits` says what a command may
do to the server: leave a process behind that holds the pipes (`background`), or be one that
may not be signalled (`foreign`: the refused signal is reported as an `error` event). Writes
to a pipe are synchronous on POSIX systems, so `process.exit` loses no answer that was
written.

**Sessions.** A token string is the account and the second it was signed in: `generateTokens`
puts nothing else into it that varies, and `RefreshToken.token` is unique, so two sign-ins of
one account in one second collide. Time is `now`; a row's expiry is compared with a clock
of finer grain than the token's (`PerhapsPast`, `SurelyPast`), so within the second of expiry
both outcomes are taken. `live` holds the strings that clients hold and have neither
exchanged, nor given up, nor lost to a reset. `caught` are the requests that had a session in
hand, signed or about to be, when a reset of the account committed; `survivors` the sessions
they stored later, and what these were exchanged for. `Credentials` says the same of sessions and
links alone: `session[i]` is the account of the stored token `i`, `granted[r]` the account that
request `r` was let in to and has not stored a session of (`LetIn`).

**Catalog.** One module for four services because their tables hang together by foreign keys,
and the keys are the question: every handler looks first and writes later, so uniqueness,
references and emptiness rest on what the schema enforces at the write. Deleting a product
takes reviews and wishes with it and is refused for one in an order; deleting a category is
refused by a product's key and sets the parent of its children null (Prisma's defaults for a
required and an optional relation). `joined[r]` is a history of the children that came after
request `r` looked for some.

**Collections.** Inside the transaction of `update` the model goes down to what PostgreSQL
does at READ COMMITTED: `BeginDelete` takes the rows committed by then, `EndDelete` waits for
rows another transaction has deleted, `InsertEntries` waits for rows of the same key, and
`Commit` waits for the key of the collection when the slug changes. A deadlock is a state
with only `Fail` left to one of the two. An entry carries the number of the request that
inserted it, which with its place stands for the id of the row: an entry that another
transaction deleted and inserted again is not the one a deletion saw, which misses it, and the
insertion after it is refused by the unique index. A title is a model value, a slug the base
that `slugify` makes of it and a number. `slugify` is a constant, so titles may share a base,
and so is `spelled`, so a base may read like another one with a number. `Untitled` is the empty
title, which the DTOs admit: `create` makes a slug of it, `update` writes it and leaves the slug
(line 55 tests `dto.title`, line 64 writes `dto.title ?? existing.title`). `replaced` is a
history of the entries that committed deletions saw when they began.

**Upload.** The files of a request and the start of the server are tasks: each looks for the
bucket (`head`) unless `bucketChecked`, creates it if it is missing (`create`), converts
(`sharp`) and stores (`put`). `Replies` is `Promise.all`: the first failure answers the
request while the other files go on. A call to the store is carried out and answered, or
fails before or after it was carried out (`CallFails`, `CallBreaks`). The store comes and
goes, an operator removes or makes the bucket, the server restarts. `removed`, `wiped` and
`excused` are histories for the properties.

## 3. Runs

Twelve runs; each takes less than three minutes on two workers.

| Run | What it shows |
|---|---|
| `checkout` | `PaidMeansSettled`, `MoneyFindable`, `StockLedger`, `OrderNumbers` (unique, and the next one always free), `OversellBounded`, `ClearedCartHasOrder` and the refinement of `OrderPayment` (which implies `PaymentDecidedOnce` and `VerifyAnswerTruthful`), with two racing requests, lost answers, aborts at every `await`, cancellations, shipping and midnight |
| `checkout_live` | `HandlersFinish`, `CallbackDecides` under fairness |
| `shopping` | `CartHolds` (one line for each product, bounded), `DefaultsBounded`, `OrdersAddUp`, `AdditionsCount` (an addition is lost only to a write in between), `ClearedWasOrdered` and the refinement of `Cart` |
| `terminal` | `ExitOwesNothing`, `OutputTruthful`, `SuccessIsOwnExit`, `RequestsAnswered`, `ServerExits` and the refinement of `ToolServer` |
| `sessions` | `SessionsKept`, `LinksBounded`, `ResetEndsSessions` and the refinement of `Credentials` (which implies `UsedOnce` of refresh tokens and reset links) |
| `catalog` | `KeysHold`, `ReviewsBounded`, `OrphansAreLate` |
| `collections` | `KeysHold` (slugs too), `SavedListStays` (the list saved last is there, and nothing of what it replaced) |
| `upload` | `OkMeansStored`, `FailuresExcused`, `ServerResponds` |
| `checkout_oversell` | violated: `StockNeverNegative` |
| `checkout_cancel_twice` | violated: `StockReturnedOnce` |
| `checkout_cancel_paid` | violated: `CancelSparesPaid` |
| `checkout_settled_failed` | violated: `SettledIsNotFailed` |

Each passing run but `checkout_live` checks its module's `TypeOK` as well. The four violations
are disagreements between the code and a sentence of its own, quoted in `PROJECT.json` under
`findings`:

1. The stock check runs outside the transaction that decrements without a condition: two
   orders of the last unit both succeed. The shortfall is bounded, though: `OversellBounded`.
2. `cancel` does not refuse a CANCELLED order; the second call returns the stock again.
3. `cancel` reads the payment outside its transaction; an order paid in between is cancelled.
4. When the answer of Zarinpal's verify call is lost after it settled, the order is FAILED
   for good: callbacks only update UNPAID orders.

Some properties say how far a promise holds rather than that it does. "Unset other defaults"
(`addresses.service.ts:11`) leaves as many defaults as requests race; a review is stored twice
when two requests race, there being no unique index; `markdown/FORGOT_PASSWORD_GUIDE.md:13`
("all sessions are invalidated") holds of refresh tokens only, and but for those that requests
had in hand when the reset committed (`ResetEndsSessions`). An access token is in no table: it is
accepted until it expires, for 24 hours by default (`JWT_ACCESS_EXPIRATION`), whatever password
the account has by then, because `validateUser` looks only for an active account. Access tokens
are not modelled. A collection whose title was emptied keeps a slug that was not made from it
(`KeysHold` excepts it), and two lists that are saved at one time may end up merged
(`SavedListStays` bounds what the merged list consists of). The terminal tool's timeout kills the shell, but its
answer waits for `close`: `RequestsAnswered` needs the assumption that background processes
end at some time.

### Bounds

Every handler has at most eight steps and remembers only its own variables, and all races are
between a value read and the write that uses it, so two requests in hand reach each race; a
third adds a second loser. `MaxArrivals` (`Catalog` and `Shopping` 3, `Collections` 2, a `softDelete` included) counts
requests over a whole run, from initial states that already hold any small set of rows.

- `Checkout`: one customer, one product with two units, two orders. `RoomForOrder` keeps a
  checkout from starting when its order would find no id. `MaxQty` 2 with `CartQuantities`
  {0, 2} makes the second order short by all it asks for. `MaxReturns` 1 in the main run (two
  requests may still both want that one cancellation), 2 in `checkout_cancel_twice`, the first
  number that refutes "once". `MaxDay` 2 is one midnight, between any two steps.
  `AdminStatuses` {SHIPPED} is the one status that changes what `cancel` admits beyond those
  the handlers write. Only `checkout_live` overwrites stock (`StockLevels` {1}) and uses three
  payment methods; overwritten products are exempt from the ledger.
- `Shopping`: two customers, three addresses, two cart lines, one product with a stock of 3
  that may become 5, asked for in twos: the sum of two additions passes one stock and not the
  other. Prices 7 and 10 with ten percent off: twice 7 leaves a fraction, twice 10 does not.
  One write of the administrator, between any two steps.
- `Terminal`: `MaxBytes` 1 and `MaxWritten` 2 are one byte below, at and above the cap. Two
  lines are enough for one to end while the other runs and the input closes.
- `Sessions`: two refresh tokens and three reset links over the whole run (ids are never
  reused), lifetimes of one second and `MaxNow` 2: a token is stored and rotated once, or two
  sign-ins meet in one second; three links leave one that is valid after two requests raced.
- `Catalog`: two categories, two products, two slugs: any two rows may collide. Three reviews
  or wishes: one more than the requests that race.
- `Collections`: two collections, two products, the empty title and the title "-1", which
  slugifies to what the empty title makes with a number, and one number per base (the theorems
  hold of any titles); lists of up to two products, each product once (a list with a product twice is
  refused by the unique index and changes nothing).
- `Upload`: a request with two pictures, so that one may fail after the other, and one with a
  single one that races with both; two outages, two operations (a bucket removed and made
  again), one restart.

Requests, ids and model values no formula tells apart are symmetric in the safety runs; the
runs with liveness use no symmetry.

### Fairness

`checkout_live` assumes weak fairness of the steps of each accepted handler. The event loop
runs every ready continuation, and the database answers or reports an error. That a
gateway call ends is an assumption about the environment: the request carries no timeout, so
a connection that neither answers nor closes would hold the handler. No request is aborted in
that run: a killed process decides nothing. `terminal` assumes weak fairness of the callbacks
(the event loop, timers included); nothing makes a shell end but the signals the server
sends it, and `EndingSpec` adds that background processes end at some time. `ServerExits`
speaks of a server whose input has ended; that it ends is not assumed. `upload` assumes that a
conversion ends and that a call to the store ends, with an answer or an error; the store need
never be reachable. The other runs check safety only.

Deadlock is checked where the system must not stop: in `checkout` and its violations, in
`checkout_live` and in `sessions`. It is not in `catalog`, `collections`, `shopping` and
`upload`, where the bounds on requests and faults end the run, nor in `terminal`, whose
process exits.

## 4. Proofs

All proofs hold for every value of the constants allowed by the named assumptions: finitely
many requests (at least one), orders, addresses and products of a cart, the typing of the
bounds, that the values for "no id" are no ids (and no prices), and that the
empty title is a title. Every safety property of the
passing runs is a theorem. In each proof module `Inductive` states the invariant that carries
the others; there is one lemma for each action or group of actions, and the refinements map
every step.

- **CheckoutProofs**: `TypeOK`; `PaidMeansSettled`; `MoneyFindable`; the refinement of
  `OrderPayment`, with `PaymentDecidedOnce` and `VerifyAnswerTruthful`. None of these is inductive.
  A handler at `mark` must have come from a gateway that settled, one that stores an authority
  must have an order, money must have come through an authority that left the server after it was
  stored: `Money` says what each `pc` implies of the order and of the gateway, `RowsKept` that
  rows do not vanish under a handler. `StockLedger`, `OversellBounded`, `OrderNumbers` and
  `ClearedCartHasOrder` rest on that. The bound on overselling needs a witness: of the requests
  that have checked a product and not yet taken it, the last that checked found the stock for
  itself, and since then only the others have taken (`Covered`). The next number is free because
  an order is created on the day of its number or later, so those of today are numbered no
  higher than there are orders (`Numbered`). The ledger is a sum over orders of which each insert
  and each cancellation changes one term (`LedgerMoves`). Two theorems state their own extent:
  `AloneNeverOversells` and `AloneSparesPaid` show that two of the four violations above are
  races and nothing else: a server with one request in hand commits neither (the first where no
  administrator overwrites the stock). The other two happen with one request as well.
- **Sums**: what `SumFunction` over a finite set is, that it is an integer, unchanged by terms
  that are, and changed by the difference of one that is not. The library's induction theorems
  take a predicate as parameter and cannot be used; the induction is by a smallest
  counterexample among the subsets of one finite set instead (`MinimalSubset`).
- **ShoppingProofs**: `TypeOK`; `CartHolds`; `AdditionsCount`; `ClearedWasOrdered`;
  `DefaultsBounded`; `OrdersAddUp`; the refinement of `Cart`. What a handler has in hand of the
  cart is there still but for the lines written since, and what it will write was checked against
  a stock no higher than `peak`. For the defaults the invariant counts them together with those
  that are about to be set: a request adds one only after it has cleared the others. For the
  amounts, the running totals of the loop are the sums over the products read so far (`Billing`),
  at the prices they were read at, whatever the prices are by then. The refinement needs
  `CartHolds`: a write to a line is a change of one quantity because no other line of the customer
  has the product.
- **TerminalProofs**: `TypeOK` (the counter of pending requests is never negative);
  `ExitOwesNothing`; `OutputTruthful`; `SuccessIsOwnExit`; the refinement of `ToolServer`. The
  counter equals the number of lines in hand (`Counted`), each line has the answers its phase
  says (`Answered`), and what a `close` has seen is all there was (`LinesOk`).
- **SessionsProofs**: `TypeOK` with the uniqueness of token strings; `UsedOnce`; `SessionsKept`;
  `LinksBounded`; `ResetEndsSessions`; the refinement of `Credentials`. The invariant relates
  each row to the histories: a stored token has not been exchanged, a live string that has not
  expired is stored. The two bounds count: the links of an account with the requests that stand
  between deletion and creation, and its surviving sessions with the requests that will store
  one. The refinement of `Credentials` needs to know whose a token or link in hand is: it is of
  the account read with it as long as its row is there, ids being given out once (`Owns`,
  `Bears`).
- **CatalogProofs**: `TypeOK`; `KeysHold`; `ReviewsBounded`; `OrphansAreLate`. The reviews of a
  customer are counted with the requests that found none and are about to insert one.
- **CollectionsProofs**: `TypeOK`; `KeysHold`; `SavedListStays`. Transactions are open over
  several steps while others commit, so the invariant speaks of what would be there if one
  committed now: the entries without those it deleted and with those it inserted have no
  product twice, and what two open transactions inserted does not overlap. For what a saved
  list replaced, `Rows` says that a transaction past its deletion has deleted all it saw that is
  still there, and that nobody with a transaction open has inserted an entry that is there, was
  replaced or was seen (`Own`), so that none comes back.
- **UploadProofs**: `TypeOK`; `OkMeansStored`; `FailuresExcused`. What a task at each step may
  rely on: past the look the bucket was seen, and if it is gone it was removed since.

Only model-checked: liveness (`HandlersFinish`, `CallbackDecides`, `RequestsAnswered`,
`ServerExits`, `ServerResponds`), which is out of the prover's reach, as is `ENABLED`: that
deadlock does not occur is checked by TLC alone.

## 5. What is not modelled

- Reads that only answer (lists, filters, pages, the list of flash sales), wording, HTTP
  status codes, validation.
- `updateStock`, `deleteImage`, `deleteMultipleImages` and `updatePaymentStatus` have no caller.
  `updateBestSellerStatus` sets one flag that nothing decides by.
- Users, guards, the exception filter, bootstrap, seed and scripts: single statements or no
  state.
- What a lost edit in `Collections.update` costs: fields are written back as they were read, so
  one of two edits may be undone, and an edit read before `softDelete` makes the collection
  active again. The model has these steps; the repository promises nothing that they refute, so
  no property names them.
- Losses that the code simply has, and that the properties therefore except: the addition that a
  stale sum overwrites and the line that `clearCart` takes with it (`AdditionsCount` and
  `ClearedWasOrdered` say that nothing else is lost), the session whose rotation fails between
  its two statements, the stock of an order whose payment request failed, the upload that fails
  because another created the bucket first or because the bucket was removed after the server
  saw it. The models have the steps; the hazards in `PROJECT.json` name no property for them and
  say why. Neither can a run catch what it assumes away: a gateway call that never ends and a
  background process that never ends.
- Detail below the steps: `CheckItem` takes the read of a product and its `checkStock` as one,
  with nothing compared between them; a session that Zarinpal opened while its answer was lost
  is not kept, its authority being known to nobody; the terminal tool's output is a number of
  bytes, so that a UTF-8 character cut by a chunk is not told from a whole one.
- Access tokens (section 3).
- Two more behaviours that the models have and nothing in the repository forbids: a category
  may become its own ancestor, and an order that was cancelled may still be paid. They are
  listed as hazards without a property.

## 6. Plan

Done: sections 2 to 4. What would come next:

1. An abstract **Inventory** in which a confirmed order holds its units, for the orders that are
   cancelled and paid afterwards, should the repository come to say what happens to them.
2. Abstract specifications of the other components (`Collections`, `Upload`), refined as `Cart`
   and `Credentials` are.
