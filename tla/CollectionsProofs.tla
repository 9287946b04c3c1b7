------------------------- MODULE CollectionsProofs -------------------------
(***************************************************************************)
(* Proofs of what Collections promises for any number of requests,         *)
(* collections and products.                                               *)
(***************************************************************************)
EXTENDS Collections, TLAPS

\* The tables' part of the type invariant.
Tables ==
  /\ products \subseteq Products
  /\ DOMAIN collection \subseteq Ids /\ \A c \in DOMAIN collection : collection[c] \in Row
  /\ entries \subseteq Entry /\ saved \subseteq Entry /\ replaced \subseteq Entry
  /\ arrived \in 0..MaxArrivals

\* The handlers' part.
Handlers == pc \in [Requests -> Steps] /\ job \in [Requests -> Job]

Closing == {"deleting", "insert", "update"}

Made(row) == row.title # Untitled => row.slug.base = slugify[row.title]

\* What a handler has read fits its step.
Prepared(r) ==
  LET j == job[r] IN
  /\ Made(j.row)
  /\ j.id # None => j.id \in DOMAIN collection
  /\ pc[r] \in {"begin"} \cup Closing => j.id # None
  /\ pc[r] \in {"products", "create"} \cup Closing => j.list \in Lists
  /\ pc[r] \in Closing => j.list # Keep
  /\ pc[r] = "slug" /\ j.id = None => j.list \in Lists

\* A transaction has deleted and inserted entries of its collection only, and once it
\* commits the entries are unique.
Open(r) ==
  LET j == job[r] IN
  /\ pc[r] \notin {"insert", "update"} => j.gone = {}
  /\ pc[r] # "update" => j.put = {}
  /\ \A e \in j.seen \cup j.gone \cup j.put : e.collection = j.id
  /\ \A e \in j.put : e.product \in products
  /\ UniqueEntries((entries \ j.gone) \cup j.put)

HandlerOk(r) == Prepared(r) /\ Open(r)

\* No two transactions insert the same product into the same list.
Apart == \A r \in Requests : \A q \in Others(r) : \A e \in job[r].put, f \in job[q].put : ~Same(e, f)

SavedIsThere == saved \subseteq entries

Inv ==
  /\ Tables /\ Handlers
  /\ KeysHold /\ SavedIsThere
  /\ \A r \in Requests : HandlerOk(r)
  /\ Apart

LEMMA ListFacts ==
  /\ <<>> \in Lists
  /\ \A list \in Lists : /\ \A i \in DOMAIN list : i \in 1..MaxList /\ list[i] \in Products
                         /\ IsInjective(list)
<1>1. MaxList \in Nat
  BY BoundsAssumption
<1>2. ASSUME NEW list \in Lists
      PROVE  \A i \in DOMAIN list : i \in 1..MaxList /\ list[i] \in Products
  <2>1. PICK m \in 0..MaxList : list \in [1..m -> Products]
    BY DEF Lists, BoundedSeq, SeqOf
  <2>. QED
    BY <1>1, <2>1
<1>3. <<>> \in Lists
  <2>1. <<>> \in [1..0 -> Products]
    OBVIOUS
  <2>2. IsInjective(<<>>)
    BY DEF IsInjective
  <2>. QED
    BY <1>1, <2>1, <2>2 DEF Lists, BoundedSeq, SeqOf
<1>. QED
  BY <1>2, <1>3 DEF Lists

\* A list becomes entries of one collection, a product in one of them.
LEMMA WantedFacts ==
  ASSUME NEW c \in Ids, NEW list \in Lists, NEW n \in 0..MaxArrivals
  PROVE  /\ Wanted(c, list, n) \subseteq Entry
         /\ \A e \in Wanted(c, list, n) :
              e.collection = c /\ e.product \in ToSet(list) /\ e.by = n
         /\ UniqueEntries(Wanted(c, list, n))
<1>1. \A i \in DOMAIN list : i \in 1..MaxList /\ list[i] \in Products
  BY ListFacts
<1>2. Wanted(c, list, n) \subseteq Entry
  BY <1>1 DEF Wanted, Entry
<1>3. \A e \in Wanted(c, list, n) : e.collection = c /\ e.product \in ToSet(list) /\ e.by = n
  BY DEF Wanted, ToSet
<1>4. UniqueEntries(Wanted(c, list, n))
  BY ListFacts DEF Wanted, UniqueEntries, Same, IsInjective
<1>. QED
  BY <1>2, <1>3, <1>4

LEMMA BlankFacts ==
  /\ Blank \in Job /\ Made(Blank.row)
  /\ Blank.id = None /\ Blank.list = Keep /\ Blank.seen = {} /\ Blank.gone = {} /\ Blank.put = {}
<1>1. BlankRow \in Row /\ Made(BlankRow)
  BY NamesAssumption, BoundsAssumption DEF BlankRow, Row, Slug, First, Made
<1>. QED
  BY <1>1, BoundsAssumption DEF Blank, Job

LEMMA FirstFacts ==
  ASSUME NEW t \in Titles
  PROVE  First(t) \in Slug /\ First(t).base = slugify[t]
BY NamesAssumption, BoundsAssumption DEF First, Slug

\* A handler that moves, with the tables as they were.
LEMMA MoveKeeps ==
  ASSUME Inv, NEW r \in Requests, NEW to \in Steps, NEW j \in Job,
         pc' = [pc EXCEPT ![r] = to], job' = [job EXCEPT ![r] = j],
         UNCHANGED <<products, collection, entries, saved, replaced>>, arrived' \in 0..MaxArrivals,
         HandlerOk(r)', \A q \in Others(r) : \A e \in j.put, f \in job[q].put : ~Same(e, f)
  PROVE  Inv'
<1>1. Handlers' /\ pc'[r] = to /\ job'[r] = j
      /\ \A q \in Others(r) : pc'[q] = pc[q] /\ job'[q] = job[q]
  BY DEF Inv, Handlers, Others
<1>2. Tables' /\ KeysHold' /\ SavedIsThere'
  BY DEF Inv, Tables, KeysHold, SavedIsThere
<1>3. \A q \in Requests : HandlerOk(q)'
  <2>1. ASSUME NEW q \in Others(r)
        PROVE  HandlerOk(q)'
    BY <1>1, <2>1 DEF Inv, HandlerOk, Prepared, Open, Others
  <2>. QED
    BY <2>1 DEF Others
<1>4. Apart'
  BY <1>1 DEF Inv, Apart, Others, Same
<1>. QED
  BY <1>1, <1>2, <1>3, <1>4 DEF Inv

\* A handler with no transaction open.
LEMMA IdleOk ==
  ASSUME Inv, NEW r \in Requests, NEW to \in Steps, NEW j \in Job,
         pc' = [pc EXCEPT ![r] = to], job' = [job EXCEPT ![r] = j],
         UNCHANGED <<products, collection, entries, saved, replaced>>, arrived' \in 0..MaxArrivals,
         j.gone = {}, j.put = {}, \A e \in j.seen : e.collection = j.id, Prepared(r)'
  PROVE  Inv'
<1>1. pc'[r] = to /\ job'[r] = j
  BY DEF Inv, Handlers
<1>2. UniqueEntries((entries \ {}) \cup {})
  BY DEF Inv, KeysHold, UniqueEntries
<1>3. Open(r)'
  BY <1>1, <1>2 DEF Open
<1>. QED
  BY <1>3, MoveKeeps DEF HandlerOk

-----------------------------------------------------------------------------
(* Requests that arrive, and the looks before the transaction.              *)

LEMMA CreateKeeps ==
  ASSUME Inv, NEW r \in Requests, NEW t \in Titles, NEW list \in Lists, Create(r, t, list)
  PROVE  Inv'
<1> DEFINE row == [title |-> t, slug |-> First(t), active |-> TRUE]
           j == [Blank EXCEPT !.row = row, !.list = list, !.by = arrived']
<1>1. row \in Row /\ Made(row)
  BY FirstFacts DEF Row, Made
<1> HIDE DEF row
<1>0. arrived' \in 0..MaxArrivals
  BY BoundsAssumption DEF Create, Start, Inv, Tables
<1>2. /\ j \in Job /\ j.id = None /\ j.row = row /\ j.list = list
      /\ j.seen = {} /\ j.gone = {} /\ j.put = {}
  BY <1>0, <1>1, BlankFacts DEF Job
<1>3. /\ pc' = [pc EXCEPT ![r] = "slug"] /\ job' = [job EXCEPT ![r] = j]
      /\ UNCHANGED <<products, collection, entries, saved, replaced>> /\ arrived' \in 0..MaxArrivals
  BY <1>0 DEF Create, Start, row
<1> HIDE DEF j
<1>4. Prepared(r)'
  <2>1. pc'[r] = "slug" /\ job'[r] = j
    BY <1>3 DEF Inv, Handlers
  <2>. QED
    BY <1>1, <1>2, <2>1 DEF Prepared, Closing
<1>. QED
  BY <1>2, <1>3, <1>4, IdleOk DEF Steps

\* What an update will write has a slug made from its title.
LEMMA ReadFacts ==
  ASSUME NEW t \in Titles \cup {Keep}, NEW a \in {TRUE, Keep}, NEW row \in Row, Made(row)
  PROVE  /\ Read(t, a, row) \in Row /\ Read(t, a, row).slug = row.slug
         /\ Read(t, a, row).title = Field(t, row.title)
         /\ ~Retitled(t, row) => Made(Read(t, a, row))
         /\ Retitled(t, row) => t \in Titles /\ Read(t, a, row).title = t
<1>1. Field(t, row.title) \in Titles /\ Field(a, row.active) \in BOOLEAN
  BY DEF Field, Row
<1>2. /\ Read(t, a, row) \in Row /\ Read(t, a, row).slug = row.slug
      /\ Read(t, a, row).title = Field(t, row.title)
  BY <1>1 DEF Read, Row
<1>3. ~Retitled(t, row) => Field(t, row.title) \in {row.title, Untitled}
  BY DEF Retitled, Field
<1>4. Retitled(t, row) => t \in Titles /\ Field(t, row.title) = t
  BY DEF Retitled, Field
<1>. QED
  BY <1>2, <1>3, <1>4 DEF Made

LEMMA UpdateKeeps ==
  ASSUME Inv, NEW r \in Requests, NEW c \in Ids, NEW t \in Titles \cup {Keep},
         NEW a \in {TRUE, Keep}, NEW list \in Lists \cup {Keep}, Update(r, c, t, a, list)
  PROVE  Inv'
<1> DEFINE row == Read(t, a, collection[c])
           j == [Blank EXCEPT !.id = c, !.list = list, !.row = row]
           k == [j EXCEPT !.row.slug = First(t)]
<1>1. c \in DOMAIN collection /\ collection[c] \in Row /\ Made(collection[c])
  BY DEF Update, Inv, Tables, KeysHold, Made
<1>2. /\ row \in Row /\ (~Retitled(t, collection[c]) => Made(row))
      /\ (Retitled(t, collection[c]) => t \in Titles /\ row.title = t)
  BY <1>1, ReadFacts
<1>3. c # None
  BY NamesAssumption
<1>4. \/ Retitled(t, collection[c]) /\ Start(r, "slug", k)
      \/ ~Retitled(t, collection[c]) /\ Start(r, AfterSlug(list), j)
  BY DEF Update
<1> HIDE DEF row
<1>5. /\ j \in Job /\ j.id = c /\ j.row = row /\ j.list = list
      /\ j.seen = {} /\ j.gone = {} /\ j.put = {}
  BY <1>2, BlankFacts DEF Job
<1>6. ASSUME NEW to \in {"slug", "begin", "products"}, NEW l \in Job, Start(r, to, l),
             l.id = c, l.list = list, Made(l.row), l.seen = {}, l.gone = {}, l.put = {},
             to = "products" => list \in Lists
      PROVE  Inv'
  <2> DEFINE m == [l EXCEPT !.by = arrived']
  <2>1. /\ pc' = [pc EXCEPT ![r] = to] /\ job' = [job EXCEPT ![r] = m]
        /\ UNCHANGED <<products, collection, entries, saved, replaced>> /\ arrived' \in 0..MaxArrivals
    BY <1>6, BoundsAssumption DEF Start, Inv, Tables
  <2>2. /\ m \in Job /\ m.id = l.id /\ m.list = l.list /\ m.row = l.row
        /\ m.seen = {} /\ m.gone = {} /\ m.put = {}
    BY <1>6, <2>1 DEF Job
  <2> HIDE DEF m
  <2>3. pc'[r] = to /\ job'[r] = m
    BY <2>1 DEF Inv, Handlers
  <2>4. Prepared(r)'
    BY <1>1, <1>3, <1>6, <2>1, <2>2, <2>3 DEF Prepared, Closing
  <2>. QED
    BY <2>1, <2>2, <2>4, IdleOk DEF Steps
<1>7. CASE Retitled(t, collection[c])
  <2>1. t \in Titles /\ row.title = t /\ First(t) \in Slug /\ First(t).base = slugify[t]
    BY <1>2, <1>7, FirstFacts
  <2>2. k.row = [row EXCEPT !.slug = First(t)]
    BY <1>5
  <2>3. k.row \in Row /\ Made(k.row)
    BY <1>2, <2>1, <2>2 DEF Row, Made
  <2>4. /\ k \in Job /\ k.id = c /\ k.list = list /\ k.seen = {} /\ k.gone = {} /\ k.put = {}
    BY <1>5, <2>3 DEF Job
  <2> HIDE DEF k
  <2>. QED
    BY <1>4, <1>6, <1>7, <2>3, <2>4
<1>8. CASE ~Retitled(t, collection[c])
  <2>1. AfterSlug(list) \in {"begin", "products"} /\ (AfterSlug(list) = "products" => list \in Lists)
    BY DEF AfterSlug
  <2> HIDE DEF j
  <2>. QED
    BY <1>2, <1>4, <1>5, <1>6, <1>8, <2>1
<1>. QED
  BY <1>7, <1>8

\* The turns of generateUniqueSlug and ensureProductsExist.
LEMMA LooksKeep ==
  ASSUME Inv, NEW r \in Requests, TryNextSlug(r) \/ SettleSlug(r) \/ EnsureProducts(r)
  PROVE  Inv'
<1> DEFINE j == job[r]
<1>1. j \in Job /\ Prepared(r) /\ Open(r)
  BY DEF Inv, Handlers, HandlerOk
<1>2. ASSUME NEW from \in {"slug", "products"}, NEW to \in {"slug", "products", "begin", "create"},
             NEW k \in Job, Step(r, from, to, k), Made(k.row),
             k.id = j.id, k.list = j.list, k.seen = j.seen, k.gone = j.gone, k.put = j.put,
             to \in {"products", "create"} => j.list \in Lists,
             to = "slug" => from = "slug",
             to = "begin" => j.id # None
      PROVE  Inv'
  <2>1. /\ pc' = [pc EXCEPT ![r] = to] /\ job' = [job EXCEPT ![r] = k] /\ pc[r] = from
        /\ UNCHANGED <<products, collection, entries, saved, replaced>> /\ arrived' \in 0..MaxArrivals
    BY <1>2 DEF Step, Inv, Tables
  <2>2. pc'[r] = to /\ job'[r] = k
    BY <2>1 DEF Inv, Handlers
  <2>3. Prepared(r)'
    BY <1>1, <1>2, <2>1, <2>2 DEF Prepared, Closing
  <2>4. k.gone = {} /\ k.put = {} /\ \A e \in k.seen : e.collection = k.id
    BY <1>1, <1>2, <2>1 DEF Open
  <2>. QED
    BY <1>2, <2>1, <2>3, <2>4, IdleOk DEF Steps
<1>3. CASE TryNextSlug(r)
  <2> DEFINE k == [j EXCEPT !.row.slug.suffix = @ + 1]
  <2>1. j.row.slug.suffix < MaxSuffix /\ Step(r, "slug", "slug", k)
    BY <1>3 DEF TryNextSlug
  <2>2. j.row \in Row /\ j.row.slug \in Slug /\ j.row.slug.suffix + 1 \in 0..MaxSuffix
    BY <1>1, <2>1, BoundsAssumption DEF Job, Row, Slug
  <2>3. k.row = [j.row EXCEPT !.slug = [j.row.slug EXCEPT !.suffix = @ + 1]]
    BY <1>1 DEF Job
  <2>4. k.row \in Row /\ Made(k.row)
    BY <1>1, <2>2, <2>3 DEF Row, Slug, Prepared, Made
  <2>5. k \in Job /\ k.id = j.id /\ k.list = j.list /\ k.seen = j.seen /\ k.gone = j.gone
        /\ k.put = j.put
    BY <1>1, <2>4 DEF Job
  <2> HIDE DEF k
  <2>. QED
    BY <1>2, <2>1, <2>4, <2>5
<1>4. CASE SettleSlug(r)
  <2> DEFINE to == IF j.id = None THEN "products" ELSE AfterSlug(j.list)
  <2>1. Step(r, "slug", to, j) /\ pc[r] = "slug"
    BY <1>4 DEF SettleSlug, Step
  <2>2. /\ to \in {"products", "begin"} /\ (to = "begin" => j.id # None)
        /\ to = "products" => j.list \in Lists
    BY <1>1, <2>1 DEF AfterSlug, Prepared, Job
  <2>. QED
    BY <1>1, <1>2, <2>1, <2>2 DEF Prepared
<1>5. CASE EnsureProducts(r)
  <2> DEFINE to == IF j.id = None THEN "create" ELSE "begin"
  <2>1. Step(r, "products", to, j) /\ pc[r] = "products"
    BY <1>5 DEF EnsureProducts, Step
  <2>. QED
    BY <1>1, <1>2, <2>1 DEF Prepared
<1>. QED
  BY <1>3, <1>4, <1>5

-----------------------------------------------------------------------------
(* The transaction.                                                         *)

LEMMA BeginDeleteKeeps ==
  ASSUME Inv, NEW r \in Requests, BeginDelete(r)
  PROVE  Inv'
<1> DEFINE j == job[r]
           k == [j EXCEPT !.seen = EntriesOf(entries, j.id)]
<1>1. j \in Job /\ Prepared(r) /\ Open(r)
  BY DEF Inv, Handlers, HandlerOk
<1>2. /\ pc[r] = "begin" /\ j.list # Keep
      /\ pc' = [pc EXCEPT ![r] = "deleting"] /\ job' = [job EXCEPT ![r] = k]
      /\ UNCHANGED <<products, collection, entries, saved, replaced>> /\ arrived' \in 0..MaxArrivals
  BY DEF BeginDelete, Step, Inv, Tables
<1>3. EntriesOf(entries, j.id) \subseteq Entry
  BY DEF EntriesOf, Inv, Tables
<1>4. /\ k \in Job /\ k.id = j.id /\ k.row = j.row /\ k.list = j.list
      /\ k.seen = EntriesOf(entries, j.id) /\ k.gone = j.gone /\ k.put = j.put
  BY <1>1, <1>3 DEF Job
<1> HIDE DEF k
<1>5. k.gone = {} /\ k.put = {} /\ \A e \in k.seen : e.collection = k.id
  BY <1>1, <1>2, <1>4 DEF Open, EntriesOf
<1>6. Prepared(r)'
  <2>1. pc'[r] = "deleting" /\ job'[r] = k /\ j.list \in Lists
    BY <1>1, <1>2 DEF Inv, Handlers, Job
  <2>. QED
    BY <1>1, <1>2, <1>4, <2>1 DEF Prepared, Closing
<1>. QED
  BY <1>2, <1>4, <1>5, <1>6, IdleOk DEF Steps

LEMMA EndDeleteKeeps ==
  ASSUME Inv, NEW r \in Requests, EndDelete(r)
  PROVE  Inv'
<1> DEFINE j == job[r]
           to == IF j.list = <<>> THEN "update" ELSE "insert"
           k == [j EXCEPT !.gone = j.seen \cap entries]
<1>1. j \in Job /\ Prepared(r) /\ Open(r)
  BY DEF Inv, Handlers, HandlerOk
<1>2. /\ pc[r] = "deleting"
      /\ pc' = [pc EXCEPT ![r] = to] /\ job' = [job EXCEPT ![r] = k]
      /\ UNCHANGED <<products, collection, entries, saved, replaced>> /\ arrived' \in 0..MaxArrivals
  BY DEF EndDelete, Step, Inv, Tables
<1>3. /\ k \in Job /\ k.id = j.id /\ k.row = j.row /\ k.list = j.list
      /\ k.seen = j.seen /\ k.gone = j.seen \cap entries /\ k.put = j.put
  BY <1>1 DEF Job
<1> HIDE DEF k
<1>4. pc'[r] = to /\ job'[r] = k /\ to \in {"update", "insert"}
  BY <1>2 DEF Inv, Handlers
<1>5. k.put = {}
  BY <1>1, <1>2, <1>3 DEF Open
<1>6. Prepared(r)'
  BY <1>1, <1>2, <1>3, <1>4 DEF Prepared, Closing
<1>7. Open(r)'
  <2>1. UniqueEntries((entries \ k.gone) \cup {})
    BY DEF Inv, KeysHold, UniqueEntries
  <2>. QED
    BY <1>1, <1>2, <1>3, <1>4, <1>5, <2>1 DEF Open
<1>. QED
  BY <1>2, <1>3, <1>4, <1>5, <1>6, <1>7, MoveKeeps DEF HandlerOk, Steps

LEMMA InsertEntriesKeeps ==
  ASSUME Inv, NEW r \in Requests, InsertEntries(r)
  PROVE  Inv'
<1> DEFINE j == job[r]
           put == Wanted(j.id, j.list, j.by)
           k == [j EXCEPT !.put = put]
<1>1. j \in Job /\ Prepared(r) /\ Open(r)
  BY DEF Inv, Handlers, HandlerOk
<1>2. /\ pc[r] = "insert"
      /\ pc' = [pc EXCEPT ![r] = "update"] /\ job' = [job EXCEPT ![r] = k]
      /\ UNCHANGED <<products, collection, entries, saved, replaced>> /\ arrived' \in 0..MaxArrivals
      /\ ToSet(j.list) \subseteq products
      /\ \A q \in Others(r) : \A e \in put, f \in job[q].gone \cup job[q].put : ~Same(e, f)
      /\ UniqueEntries((entries \ j.gone) \cup put)
  BY DEF InsertEntries, Step, Inv, Tables
<1>3. /\ put \subseteq Entry
      /\ \A e \in put : e.collection = j.id /\ e.product \in ToSet(j.list)
  <2>1. j.id \in Ids /\ j.list \in Lists /\ j.by \in 0..MaxArrivals
    BY <1>1, <1>2 DEF Prepared, Closing, Inv, Tables, Job
  <2>. QED
    BY <2>1, WantedFacts
<1> HIDE DEF put
<1>4. /\ k \in Job /\ k.id = j.id /\ k.row = j.row /\ k.list = j.list
      /\ k.seen = j.seen /\ k.gone = j.gone /\ k.put = put
  BY <1>1, <1>3 DEF Job
<1> HIDE DEF k
<1>5. pc'[r] = "update" /\ job'[r] = k
  BY <1>2 DEF Inv, Handlers
<1>6. Prepared(r)'
  BY <1>1, <1>2, <1>4, <1>5 DEF Prepared, Closing
<1>7. Open(r)'
  BY <1>1, <1>2, <1>3, <1>4, <1>5 DEF Open
<1>. QED
  BY <1>2, <1>4, <1>6, <1>7, MoveKeeps DEF HandlerOk, Steps

\* A handler that ends, with or without a write.
LEMMA Ends ==
  ASSUME Inv, NEW r \in Requests, NEW from, End(r, from), DOMAIN collection \subseteq DOMAIN collection'
  PROVE  /\ Handlers' /\ arrived' \in 0..MaxArrivals
         /\ pc'[r] = "idle" /\ job'[r] = Blank
         /\ \A q \in Others(r) : pc'[q] = pc[q] /\ job'[q] = job[q]
         /\ \A q \in Requests : Prepared(q)'
         /\ Apart'
<1>1. /\ Handlers' /\ arrived' \in 0..MaxArrivals
      /\ pc'[r] = "idle" /\ job'[r] = Blank
      /\ \A q \in Others(r) : pc'[q] = pc[q] /\ job'[q] = job[q]
  BY BlankFacts DEF End, Inv, Handlers, Tables, Others, Steps
<1>2. Prepared(r)'
  BY <1>1, BlankFacts DEF Prepared, Closing
<1>3. \A q \in Others(r) : Prepared(q)'
  BY <1>1 DEF Inv, HandlerOk, Prepared, Others
<1>4. Apart'
  BY <1>1, BlankFacts DEF Inv, Apart, Others, Same
<1>. QED
  BY <1>1, <1>2, <1>3, <1>4 DEF Others

LEMMA FailKeeps ==
  ASSUME Inv, NEW r \in Requests, Fail(r)
  PROVE  Inv'
<1>1. End(r, pc[r]) /\ UNCHANGED <<products, collection, entries, saved, replaced>>
  BY DEF Fail, End
<1>2. pc' = [pc EXCEPT ![r] = "idle"] /\ job' = [job EXCEPT ![r] = Blank] /\ Prepared(r)'
      /\ arrived' \in 0..MaxArrivals
  BY <1>1, Ends DEF End
<1>. QED
  BY <1>1, <1>2, BlankFacts, IdleOk DEF Steps

\* The handlers whose transaction stays open when a set of entries replaces the table.
LEMMA StillOpen ==
  ASSUME Inv, NEW q \in Requests, pc'[q] = pc[q], job'[q] = job[q],
         \A e \in job[q].put : e.product \in products',
         UniqueEntries((entries' \ job[q].gone) \cup job[q].put)
  PROVE  Open(q)'
BY DEF Inv, HandlerOk, Open

LEMMA BlankOpen ==
  ASSUME NEW r \in Requests, pc'[r] = "idle", job'[r] = Blank, UniqueEntries(entries')
  PROVE  Open(r)'
<1>1. (entries' \ {}) \cup {} = entries'
  OBVIOUS
<1>. QED
  BY <1>1, BlankFacts DEF Open

LEMMA CommitKeeps ==
  ASSUME Inv, NEW r \in Requests, Commit(r)
  PROVE  Inv'
<1> DEFINE j == job[r]
           c == j.id
<1>1. j \in Job /\ Prepared(r) /\ Open(r)
  BY DEF Inv, Handlers, HandlerOk
<1>2. /\ pc[r] = "update" \/ (pc[r] = "begin" /\ j.list = Keep)
      /\ SlugFree(j.row.slug, c)
      /\ collection' = [collection EXCEPT ![c] = j.row]
      /\ entries' = (entries \ j.gone) \cup j.put
      /\ saved' = IF j.list = Keep THEN saved ELSE (saved \ EntriesOf(saved, c)) \cup j.put
      /\ products' = products /\ replaced' = replaced \cup j.seen
  <2>0. End(r, "update") \/ (j.list = Keep /\ End(r, "begin"))
    BY DEF Commit
  <2>1. pc[r] = "update" \/ (pc[r] = "begin" /\ j.list = Keep)
    BY <2>0 DEF End
  <2>2. products' = products
    BY DEF Commit, End
  <2>. QED
    BY <2>1, <2>2 DEF Commit
<1>3. c \in DOMAIN collection
  BY <1>1, <1>2 DEF Prepared, Closing
<1>4. /\ DOMAIN collection' = DOMAIN collection /\ collection'[c] = j.row
      /\ \A d \in DOMAIN collection : d # c => collection'[d] = collection[d]
  BY <1>2, <1>3
<1>5. /\ Handlers' /\ arrived' \in 0..MaxArrivals
      /\ pc'[r] = "idle" /\ job'[r] = Blank
      /\ \A q \in Others(r) : pc'[q] = pc[q] /\ job'[q] = job[q]
      /\ \A q \in Requests : Prepared(q)'
      /\ Apart'
  <2>1. PICK from : End(r, from)
    BY DEF Commit
  <2>. QED
    BY <1>4, <2>1, Ends
<1>6. entries' \subseteq Entry /\ saved' \subseteq Entry /\ replaced' \subseteq Entry
  BY <1>1, <1>2 DEF Inv, Tables, Job
<1>7. Tables'
  BY <1>1, <1>2, <1>4, <1>5, <1>6 DEF Inv, Tables, Job
<1>8. UniqueEntries(entries')
  BY <1>1, <1>2 DEF Open
<1>9. KeysHold'
  <2>1. \A d \in DOMAIN collection : d # c => ~Alike(collection[d].slug, j.row.slug)
    BY <1>2 DEF SlugFree, SlugTaken
  <2>2. \A d, e \in DOMAIN collection' : Alike(collection'[d].slug, collection'[e].slug) => d = e
    BY <1>4, <2>1 DEF Inv, KeysHold, Alike
  <2>3. \A d \in DOMAIN collection' : Made(collection'[d])
    BY <1>1, <1>4 DEF Inv, KeysHold, Prepared, Made
  <2>4. \A e \in entries' : e.collection \in DOMAIN collection' /\ e.product \in products'
    BY <1>1, <1>2, <1>3, <1>4 DEF Inv, KeysHold, Open
  <2>. QED
    BY <1>8, <2>2, <2>3, <2>4 DEF KeysHold, UniqueEntries, Made
<1>10. SavedIsThere'
  <2>1. CASE j.list = Keep
    <3>1. pc[r] = "begin"
      BY <1>1, <1>2, <2>1 DEF Prepared, Closing
    <3>2. j.gone = {}
      BY <1>1, <3>1 DEF Open
    <3>. QED
      BY <1>2, <2>1, <3>2 DEF Inv, SavedIsThere
  <2>2. CASE j.list # Keep
    <3>1. \A e \in saved \ EntriesOf(saved, c) : e \in entries /\ e \notin j.gone
      BY <1>1 DEF EntriesOf, Inv, SavedIsThere, Open
    <3>. QED
      BY <1>2, <2>2, <3>1 DEF SavedIsThere
  <2>. QED
    BY <2>1, <2>2
<1>11. \A q \in Requests : Open(q)'
  <2>1. Open(r)'
    BY <1>5, <1>8, BlankOpen
  <2>2. ASSUME NEW q \in Others(r)
        PROVE  Open(q)'
    <3> DEFINE gone == job[q].gone
               put == job[q].put
               E == (entries' \ gone) \cup put
    <3>1. Open(q) /\ q \in Requests
      BY <2>2 DEF Inv, HandlerOk, Others
    <3>2. ASSUME NEW e \in E, NEW f \in E, Same(e, f)
          PROVE  e = f
      <4>1. \A x \in put, y \in j.put : ~Same(x, y) /\ ~Same(y, x)
        BY <2>2 DEF Inv, Apart, Others, Same
      <4>2. \A x \in E : \/ x \in j.put /\ x \in entries'
                         \/ x \in (entries \ gone) \cup put /\ x \notin j.put
        BY <1>2, <4>1 DEF Same
      <4>3. CASE e \in (entries \ gone) \cup put /\ f \in (entries \ gone) \cup put
        BY <3>1, <3>2, <4>3 DEF Open, UniqueEntries
      <4>4. CASE e \in entries' /\ f \in entries'
        BY <1>8, <3>2, <4>4 DEF UniqueEntries
      <4>5. CASE e \in j.put /\ f \in put
        BY <3>2, <4>1, <4>5
      <4>6. CASE f \in j.put /\ e \in put
        BY <3>2, <4>1, <4>6
      <4>. QED
        BY <4>2, <4>3, <4>4, <4>5, <4>6
    <3>3. UniqueEntries(E)
      BY <3>2 DEF UniqueEntries
    <3>4. \A e \in put : e.product \in products'
      BY <1>2, <3>1 DEF Open
    <3>. QED
      BY <1>5, <3>1, <3>3, <3>4, StillOpen
  <2>. QED
    BY <2>1, <2>2 DEF Others
<1>. QED
  BY <1>5, <1>7, <1>9, <1>10, <1>11 DEF Inv, HandlerOk

LEMMA InsertCollectionKeeps ==
  ASSUME Inv, NEW r \in Requests, NEW c \in Ids, InsertCollection(r, c)
  PROVE  Inv'
<1> DEFINE j == job[r]
           put == Wanted(c, j.list, j.by)
<1>1. j \in Job /\ Prepared(r) /\ Open(r)
  BY DEF Inv, Handlers, HandlerOk
<1>2. /\ End(r, "create") /\ pc[r] = "create" /\ products' = products
      /\ c \notin DOMAIN collection /\ SlugFree(j.row.slug, c) /\ ToSet(j.list) \subseteq products
      /\ collection' = [d \in DOMAIN collection \cup {c} |-> IF d = c THEN j.row ELSE collection[d]]
      /\ entries' = entries \cup put /\ saved' = saved \cup put /\ replaced' = replaced
  BY DEF InsertCollection, End
<1>3. /\ put \subseteq Entry /\ UniqueEntries(put)
      /\ \A e \in put : e.collection = c /\ e.product \in ToSet(j.list)
  <2>1. j.list \in Lists /\ j.by \in 0..MaxArrivals
    BY <1>1, <1>2 DEF Prepared, Job
  <2>. QED
    BY <2>1, WantedFacts
<1> HIDE DEF put
<1>4. /\ DOMAIN collection' = DOMAIN collection \cup {c} /\ collection'[c] = j.row
      /\ \A d \in DOMAIN collection : collection'[d] = collection[d]
  BY <1>2
<1>5. /\ Handlers' /\ arrived' \in 0..MaxArrivals
      /\ pc'[r] = "idle" /\ job'[r] = Blank
      /\ \A q \in Others(r) : pc'[q] = pc[q] /\ job'[q] = job[q]
      /\ \A q \in Requests : Prepared(q)'
      /\ Apart'
  BY <1>2, <1>4, Ends
<1>6. Tables'
  BY <1>1, <1>2, <1>3, <1>4, <1>5 DEF Inv, Tables, Job
<1>7. \A e \in entries : e.collection # c
  BY <1>2 DEF Inv, KeysHold
<1>8. UniqueEntries(entries')
  BY <1>2, <1>3, <1>7 DEF Inv, KeysHold, UniqueEntries, Same
<1>9. KeysHold'
  <2>1. \A d \in DOMAIN collection : ~Alike(collection[d].slug, j.row.slug)
    BY <1>2 DEF SlugFree, SlugTaken
  <2>2. \A d, e \in DOMAIN collection' : Alike(collection'[d].slug, collection'[e].slug) => d = e
    BY <1>4, <2>1 DEF Inv, KeysHold, Alike
  <2>3. \A d \in DOMAIN collection' : Made(collection'[d])
    BY <1>1, <1>4 DEF Inv, KeysHold, Prepared, Made
  <2>4. \A e \in entries' : e.collection \in DOMAIN collection' /\ e.product \in products'
    BY <1>2, <1>3, <1>4 DEF Inv, KeysHold
  <2>. QED
    BY <1>8, <2>2, <2>3, <2>4 DEF KeysHold, UniqueEntries, Made
<1>10. SavedIsThere'
  BY <1>2 DEF Inv, SavedIsThere
<1>11. \A q \in Requests : Open(q)'
  <2>1. Open(r)'
    BY <1>5, <1>8, BlankOpen
  <2>2. ASSUME NEW q \in Others(r)
        PROVE  Open(q)'
    <3> DEFINE gone == job[q].gone
               open == job[q].put
               E == (entries' \ gone) \cup open
    <3>1. Open(q) /\ q \in Requests /\ Prepared(q)
      BY <2>2 DEF Inv, HandlerOk, Others
    <3>2. \A e \in open : e.collection # c
      <4>1. open # {} => job[q].id \in DOMAIN collection
        BY <3>1 DEF Open, Prepared, Closing
      <4>. QED
        BY <1>2, <3>1, <4>1 DEF Open
    <3>3. ASSUME NEW e \in E, NEW f \in E, Same(e, f)
          PROVE  e = f
      <4>1. \A x \in E : \/ x \in put
                         \/ x \in (entries \ gone) \cup open /\ x.collection # c
        BY <1>2, <1>7, <3>2
      <4>2. CASE e \in put /\ f \in put
        BY <1>3, <3>3, <4>2 DEF UniqueEntries
      <4>3. CASE e \in (entries \ gone) \cup open /\ f \in (entries \ gone) \cup open
        BY <3>1, <3>3, <4>3 DEF Open, UniqueEntries
      <4>. QED
        BY <1>3, <3>3, <4>1, <4>2, <4>3 DEF Same
    <3>4. UniqueEntries(E)
      BY <3>3 DEF UniqueEntries
    <3>5. \A e \in open : e.product \in products'
      BY <1>2, <3>1 DEF Open
    <3>. QED
      BY <1>5, <3>1, <3>4, <3>5, StillOpen
  <2>. QED
    BY <2>1, <2>2 DEF Others
<1>. QED
  BY <1>5, <1>6, <1>9, <1>10, <1>11 DEF Inv, HandlerOk

-----------------------------------------------------------------------------
(* Steps of nobody in particular.                                           *)

LEMMA SoftDeleteKeeps ==
  ASSUME Inv, NEW c \in Ids, SoftDelete(c)
  PROVE  Inv'
<1>1. /\ c \in DOMAIN collection /\ collection' = [collection EXCEPT ![c].active = FALSE]
      /\ arrived' \in 0..MaxArrivals /\ UNCHANGED <<products, entries, pc, job, saved, replaced>>
  BY BoundsAssumption DEF SoftDelete, Inv, Tables
<1>2. collection[c] \in Row
  BY <1>1 DEF Inv, Tables
<1>3. /\ DOMAIN collection' = DOMAIN collection /\ collection'[c] \in Row
      /\ \A d \in DOMAIN collection : /\ collection'[d].slug = collection[d].slug
                                      /\ collection'[d].title = collection[d].title
                                      /\ d # c => collection'[d] = collection[d]
  BY <1>1, <1>2 DEF Row
<1>4. Tables' /\ Handlers'
  BY <1>1, <1>3 DEF Inv, Tables, Handlers
<1>5. KeysHold' /\ SavedIsThere'
  BY <1>1, <1>3 DEF Inv, KeysHold, SavedIsThere
<1>6. \A r \in Requests : HandlerOk(r)'
  BY <1>1, <1>3 DEF Inv, HandlerOk, Prepared, Open
<1>7. Apart'
  BY <1>1 DEF Inv, Apart
<1>. QED
  BY <1>4, <1>5, <1>6, <1>7 DEF Inv

LEMMA RemoveProductKeeps ==
  ASSUME Inv, NEW p \in Products, RemoveProduct(p)
  PROVE  Inv'
<1>1. /\ \A r \in Requests : \A e \in job[r].gone \cup job[r].put : e.product # p
      /\ products' = products \ {p} /\ entries' = {e \in entries : e.product # p}
      /\ saved' = {e \in saved : e.product # p}
      /\ UNCHANGED <<collection, pc, job, arrived, replaced>>
  BY DEF RemoveProduct
<1>2. Tables' /\ Handlers'
  BY <1>1 DEF Inv, Tables, Handlers
<1>3. KeysHold' /\ SavedIsThere'
  BY <1>1 DEF Inv, KeysHold, SavedIsThere
<1>4. ASSUME NEW r \in Requests
      PROVE  HandlerOk(r)'
  <2>1. Prepared(r)'
    BY <1>1 DEF Inv, HandlerOk, Prepared
  <2>2. UniqueEntries((entries' \ job[r].gone) \cup job[r].put)
    BY <1>1 DEF Inv, HandlerOk, Open, UniqueEntries
  <2>3. \A e \in job[r].put : e.product \in products'
    BY <1>1 DEF Inv, HandlerOk, Open
  <2>4. Open(r)'
    BY <1>1, <2>2, <2>3, StillOpen
  <2>. QED
    BY <2>1, <2>4 DEF HandlerOk
<1>5. Apart'
  BY <1>1 DEF Inv, Apart
<1>. QED
  BY <1>2, <1>3, <1>4, <1>5 DEF Inv

-----------------------------------------------------------------------------
(* The invariant, and what follows from it.                                 *)

LEMMA InitInv == Init => Inv
<1>. SUFFICES ASSUME Init PROVE Inv
  OBVIOUS
<1>1. PICK C \in SUBSET Ids, t \in [Ids -> Titles] :
        /\ \A c, d \in C : Alike(First(t[c]), First(t[d])) => c = d
        /\ collection = [c \in C |-> [title |-> t[c], slug |-> First(t[c]), active |-> TRUE]]
        /\ \E list \in [C -> {l \in Lists : Len(l) < 2}] :
             entries = UNION {Wanted(c, list[c], 0) : c \in C}
  BY DEF Init
<1>2. PICK list \in [C -> {l \in Lists : Len(l) < 2}] : entries = UNION {Wanted(c, list[c], 0) : c \in C}
  BY <1>1
<1>3. /\ products = Products /\ saved = entries /\ replaced = {} /\ arrived = 0
      /\ pc = [r \in Requests |-> "idle"] /\ job = [r \in Requests |-> Blank]
  BY DEF Init
<1>4. \A c \in C : First(t[c]) \in Slug /\ First(t[c]).base = slugify[t[c]]
  BY FirstFacts
<1>5. /\ DOMAIN collection = C /\ \A c \in C : collection[c] \in Row
      /\ \A c \in C : collection[c].title = t[c] /\ collection[c].slug = First(t[c])
  BY <1>1, <1>4 DEF Row
<1>6. \A c \in C : /\ Wanted(c, list[c], 0) \subseteq Entry /\ UniqueEntries(Wanted(c, list[c], 0))
                   /\ \A e \in Wanted(c, list[c], 0) : e.collection = c
  <2>1. 0 \in 0..MaxArrivals /\ \A c \in C : c \in Ids /\ list[c] \in Lists
    BY BoundsAssumption
  <2>. QED
    BY <2>1, WantedFacts
<1>7. entries \subseteq Entry /\ \A e \in entries : e.collection \in C
  BY <1>2, <1>6
<1>8. UniqueEntries(entries)
  <2>1. ASSUME NEW e \in entries, NEW f \in entries, Same(e, f)
        PROVE  e = f
    <3>1. PICK c \in C : e \in Wanted(c, list[c], 0)
      BY <1>2
    <3>2. f \in Wanted(c, list[c], 0)
      BY <1>2, <1>6, <2>1, <3>1 DEF Same
    <3>. QED
      BY <1>6, <2>1, <3>1, <3>2 DEF UniqueEntries
  <2>. QED
    BY <2>1 DEF UniqueEntries
<1>9. \A e \in entries : e.product \in Products
  BY <1>7 DEF Entry
<1>10. Tables
  BY <1>3, <1>5, <1>7, BoundsAssumption DEF Tables
<1>11. Handlers
  BY <1>3, BlankFacts DEF Handlers, Steps
<1>12. KeysHold
  <2>1. ASSUME NEW c \in C, NEW d \in C, Alike(collection[c].slug, collection[d].slug)
        PROVE  c = d
    BY <1>1, <1>5, <2>1
  <2>. QED
    BY <1>3, <1>4, <1>5, <1>7, <1>8, <1>9, <2>1 DEF KeysHold, UniqueEntries
<1>13. SavedIsThere
  BY <1>3 DEF SavedIsThere
<1>14. ASSUME NEW r \in Requests
       PROVE  HandlerOk(r)
  <2>1. pc[r] = "idle" /\ job[r] = Blank
    BY <1>3
  <2>2. UniqueEntries((entries \ {}) \cup {})
    BY <1>8 DEF UniqueEntries
  <2>3. Prepared(r)
    BY <2>1, BlankFacts DEF Prepared, Closing
  <2>4. Open(r)
    BY <2>1, <2>2, BlankFacts DEF Open
  <2>. QED
    BY <2>3, <2>4 DEF HandlerOk
<1>15. Apart
  BY <1>3, BlankFacts DEF Apart, Others
<1>. QED
  BY <1>10, <1>11, <1>12, <1>13, <1>14, <1>15 DEF Inv

LEMMA StepInv == Inv /\ [Next]_vars => Inv'
<1>. SUFFICES ASSUME Inv, [Next]_vars PROVE Inv'
  OBVIOUS
<1>1. CASE UNCHANGED vars
  BY <1>1 DEF vars, Inv, Tables, Handlers, KeysHold, SavedIsThere, HandlerOk, Prepared, Open, Apart
<1>2. ASSUME NEW r \in Requests, Arrival(r)
      PROVE  Inv'
  BY <1>2, CreateKeeps, UpdateKeeps DEF Arrival
<1>3. ASSUME NEW r \in Requests, Handler(r) \/ Fail(r)
      PROVE  Inv'
  BY <1>3, LooksKeep, InsertCollectionKeeps, BeginDeleteKeeps, EndDeleteKeeps, InsertEntriesKeeps,
     CommitKeeps, FailKeeps DEF Handler
<1>. QED
  BY <1>1, <1>2, <1>3, SoftDeleteKeeps, RemoveProductKeeps DEF Next

-----------------------------------------------------------------------------
(* What replaced lists leave: entries are told apart by who inserted them.  *)

\* Nobody who is still to come, and nobody with a transaction open, has inserted an
\* entry that is there or was seen.
Dated ==
  /\ \A e \in entries \cup replaced : e.by <= arrived
  /\ \A r \in Requests : \A e \in job[r].seen : e.by <= arrived

Own(r) ==
  LET n == job[r].by IN
  pc[r] # "idle" =>
    /\ n <= arrived
    /\ \A e \in entries \cup replaced : e.by # n
    /\ \A q \in Requests : \A e \in job[q].seen : e.by # n
    /\ \A e \in job[r].put : e.by = n
    /\ \A q \in Others(r) : pc[q] # "idle" => job[q].by # n

\* Of what a deletion saw, it has deleted all that is still there.
Deleted(r) ==
  /\ pc[r] \notin Closing => job[r].seen = {}
  /\ pc[r] \in {"insert", "update"} => job[r].seen \cap entries \subseteq job[r].gone

Rows ==
  /\ Dated
  /\ \A r \in Requests : Own(r) /\ Deleted(r)
  /\ replaced \cap entries = {}

\* A handler that moves on.
LEMMA MoveKeepsRows ==
  ASSUME Inv, Rows, NEW r \in Requests, pc[r] # "idle", NEW to \in Steps, NEW j \in Job,
         pc' = [pc EXCEPT ![r] = to], job' = [job EXCEPT ![r] = j],
         UNCHANGED <<entries, arrived, replaced>>, j.by = job[r].by,
         j.seen \subseteq job[r].seen \cup entries, \A e \in j.put : e.by = j.by, Deleted(r)'
  PROVE  Rows'
<1>1. pc'[r] = to /\ job'[r] = j /\ \A q \in Others(r) : pc'[q] = pc[q] /\ job'[q] = job[q]
  BY DEF Inv, Handlers, Others
<1>2. \A q \in Requests : q = r \/ q \in Others(r)
  BY DEF Others
<1>3. Dated'
  BY <1>1, <1>2 DEF Rows, Dated
<1>4. \A q \in Requests : Own(q)'
  <2>1. Own(r)'
    BY <1>1, <1>2 DEF Rows, Own
  <2>2. ASSUME NEW q \in Others(r)
        PROVE  Own(q)'
    <3>1. Own(q) /\ q \in Requests /\ pc'[q] = pc[q] /\ job'[q] = job[q]
      BY <1>1 DEF Rows, Others
    <3>2. pc[q] # "idle" => \A s \in Requests : \A e \in job'[s].seen : e.by # job[q].by
      BY <1>1, <1>2, <3>1 DEF Own
    <3>3. pc[q] # "idle" => \A s \in Others(q) : pc'[s] # "idle" => job'[s].by # job[q].by
      BY <1>1, <1>2, <3>1 DEF Own, Others
    <3>. QED
      BY <3>1, <3>2, <3>3 DEF Own
  <2>. QED
    BY <1>2, <2>1, <2>2
<1>5. \A q \in Requests : Deleted(q)'
  BY <1>1, <1>2 DEF Rows, Deleted
<1>. QED
  BY <1>3, <1>4, <1>5 DEF Rows

\* A request that arrives is numbered after all others.
LEMMA StartKeepsRows ==
  ASSUME Inv, Rows, NEW r \in Requests, NEW to \in Steps \ Closing, NEW j,
         j.seen = {}, j.put = {}, j.by = arrived + 1, pc[r] = "idle",
         pc' = [pc EXCEPT ![r] = to], job' = [job EXCEPT ![r] = j],
         arrived' = arrived + 1, UNCHANGED <<entries, replaced>>
  PROVE  Rows'
<1>1. pc'[r] = to /\ job'[r] = j /\ \A q \in Others(r) : pc'[q] = pc[q] /\ job'[q] = job[q]
  BY DEF Inv, Handlers, Others
<1>2. \A q \in Requests : q = r \/ q \in Others(r)
  BY DEF Others
<1>3. arrived \in Nat /\ (\A e \in entries \cup replaced : e.by \in Int)
      /\ \A q \in Requests : job[q].by \in Int /\ \A e \in job[q].seen : e.by \in Int
  <2>1. arrived \in Nat /\ \A e \in Entry : e.by \in Int
    BY BoundsAssumption DEF Inv, Tables, Entry
  <2>2. entries \cup replaced \subseteq Entry
    BY DEF Inv, Tables
  <2>3. \A q \in Requests : job[q].by \in Int /\ job[q].seen \subseteq Entry
    BY BoundsAssumption DEF Inv, Handlers, Job
  <2>. QED
    BY <2>1, <2>2, <2>3
<1>4. Dated'
  BY <1>1, <1>2, <1>3 DEF Rows, Dated
<1>5. \A q \in Requests : Own(q)'
  <2>1. Own(r)'
    <3>1. \A e \in entries \cup replaced : e.by # arrived + 1
      BY <1>3 DEF Rows, Dated
    <3>2. \A q \in Requests : \A e \in job'[q].seen : e.by # arrived + 1
      BY <1>1, <1>2, <1>3 DEF Rows, Dated
    <3>3. \A q \in Others(r) : pc'[q] # "idle" => job'[q].by # arrived + 1
      BY <1>1, <1>3 DEF Rows, Own, Others
    <3>. QED
      BY <1>1, <1>3, <3>1, <3>2, <3>3 DEF Own
  <2>2. ASSUME NEW q \in Others(r)
        PROVE  Own(q)'
    <3>1. Own(q) /\ q \in Requests /\ pc'[q] = pc[q] /\ job'[q] = job[q]
      BY <1>1 DEF Rows, Others
    <3>2. pc[q] # "idle" => \A s \in Requests : \A e \in job'[s].seen : e.by # job[q].by
      BY <1>1, <1>2, <3>1 DEF Own
    <3>3. pc[q] # "idle" => \A s \in Others(q) : pc'[s] # "idle" => job'[s].by # job[q].by
      BY <1>1, <1>2, <1>3, <3>1 DEF Own, Others
    <3>4. pc[q] # "idle" => job[q].by <= arrived'
      BY <1>3, <3>1 DEF Own
    <3>. QED
      BY <3>1, <3>2, <3>3, <3>4 DEF Own
  <2>. QED
    BY <1>2, <2>1, <2>2
<1>6. \A q \in Requests : Deleted(q)'
  <2>1. Deleted(r)'
    BY <1>1 DEF Deleted, Closing
  <2>2. \A q \in Others(r) : Deleted(q)'
    BY <1>1, <1>2 DEF Rows, Deleted, Others
  <2>. QED
    BY <1>2, <2>1, <2>2
<1>. QED
  BY <1>4, <1>5, <1>6 DEF Rows

\* A handler that ends leaves entries of its own only, and replaced those it saw.
LEMMA EndKeepsRows ==
  ASSUME Inv, Rows, NEW r \in Requests, pc[r] # "idle",
         pc' = [pc EXCEPT ![r] = "idle"], job' = [job EXCEPT ![r] = Blank], arrived' = arrived,
         \A e \in entries' : e \in entries \/ e.by = job[r].by,
         \A e \in replaced' : e \in replaced \cup job[r].seen,
         replaced' \cap entries' = {}
  PROVE  Rows'
<1>1. /\ pc'[r] = "idle" /\ job'[r].seen = {}
      /\ \A q \in Others(r) : pc'[q] = pc[q] /\ job'[q] = job[q]
  BY BlankFacts DEF Inv, Handlers, Others
<1>2. \A q \in Requests : q = r \/ q \in Others(r)
  BY DEF Others
<1>3. Own(r)
  BY DEF Rows
<1>4. Dated'
  BY <1>1, <1>2, <1>3 DEF Rows, Dated, Own
<1>5. \A q \in Requests : Own(q)'
  <2>1. ASSUME NEW q \in Others(r), pc[q] # "idle"
        PROVE  Own(q)'
    <3>1. /\ Own(q) /\ q \in Requests /\ r \in Others(q)
          /\ pc'[q] = pc[q] /\ job'[q] = job[q] /\ job[r].by # job[q].by
      BY <1>1, <1>3, <2>1 DEF Rows, Own, Others
    <3>2. \A e \in entries' \cup replaced' : e.by # job[q].by
      BY <2>1, <3>1 DEF Own
    <3>3. \A s \in Requests : \A e \in job'[s].seen : e.by # job[q].by
      BY <1>1, <1>2, <2>1, <3>1 DEF Own
    <3>4. \A s \in Others(q) : pc'[s] # "idle" => job'[s].by # job[q].by
      BY <1>1, <1>2, <2>1, <3>1 DEF Own, Others
    <3>. QED
      BY <2>1, <3>1, <3>2, <3>3, <3>4 DEF Own
  <2>. QED
    BY <1>1, <1>2, <2>1 DEF Own
<1>6. \A q \in Requests : Deleted(q)'
  <2>1. ASSUME NEW q \in Others(r)
        PROVE  Deleted(q)'
    <3>1. Deleted(q) /\ q \in Requests /\ pc'[q] = pc[q] /\ job'[q] = job[q]
      BY <1>1 DEF Rows, Others
    <3>2. job[q].seen \cap entries' \subseteq entries
      BY <1>3, <3>1 DEF Own
    <3>. QED
      BY <3>1, <3>2 DEF Deleted
  <2>. QED
    BY <1>1, <1>2, <2>1 DEF Deleted, Closing
<1>. QED
  BY <1>4, <1>5, <1>6 DEF Rows

LEMMA LooksKeepRows ==
  ASSUME Inv, Rows, NEW r \in Requests,
         TryNextSlug(r) \/ SettleSlug(r) \/ EnsureProducts(r) \/ BeginDelete(r)
         \/ EndDelete(r) \/ InsertEntries(r)
  PROVE  Rows'
<1> DEFINE j == job[r]
<1>1. j \in Job /\ Inv' /\ Open(r) /\ Prepared(r) /\ Own(r) /\ Deleted(r)
  BY LooksKeep, BeginDeleteKeeps, EndDeleteKeeps, InsertEntriesKeeps
  DEF Inv, Handlers, HandlerOk, Rows
<1>2. ASSUME NEW from \in Steps \ {"idle"}, NEW to \in Steps, NEW k, Step(r, from, to, k),
             k.by = j.by, k.seen \subseteq j.seen \cup entries, \A e \in k.put : e.by = j.by,
             to \notin Closing => k.seen = {},
             to \in {"insert", "update"} => k.seen \cap entries \subseteq k.gone
      PROVE  Rows'
  <2>1. /\ pc[r] = from /\ pc' = [pc EXCEPT ![r] = to] /\ job' = [job EXCEPT ![r] = k]
        /\ UNCHANGED <<entries, arrived, replaced>>
    BY <1>2 DEF Step
  <2>2. pc'[r] = to /\ job'[r] = k
    BY <2>1 DEF Inv, Handlers
  <2>3. k \in Job
    BY <1>1, <2>2 DEF Inv, Handlers
  <2>4. Deleted(r)'
    BY <1>2, <2>1, <2>2 DEF Deleted
  <2>. QED
    BY <1>2, <2>1, <2>3, <2>4, MoveKeepsRows
<1>3. CASE TryNextSlug(r)
  <2> DEFINE k == [j EXCEPT !.row.slug.suffix = @ + 1]
  <2>1. Step(r, "slug", "slug", k) /\ pc[r] = "slug"
    BY <1>3 DEF TryNextSlug, Step
  <2>2. k.by = j.by /\ k.seen = j.seen /\ k.put = j.put
    BY <1>1 DEF Job
  <2>3. j.seen = {} /\ j.put = {}
    BY <1>1, <2>1 DEF Deleted, Closing, Open
  <2> HIDE DEF k
  <2>. QED
    BY <1>2, <2>1, <2>2, <2>3 DEF Steps, Closing
<1>4. CASE SettleSlug(r) \/ EnsureProducts(r)
  <2>1. PICK from \in {"slug", "products"}, to \in {"products", "begin", "create"} : Step(r, from, to, j)
    BY <1>4 DEF SettleSlug, EnsureProducts, AfterSlug
  <2>2. j.seen = {} /\ j.put = {}
    BY <1>1, <2>1 DEF Step, Deleted, Closing, Open
  <2>. QED
    BY <1>2, <2>1, <2>2 DEF Steps, Closing
<1>5. CASE BeginDelete(r)
  <2> DEFINE k == [j EXCEPT !.seen = EntriesOf(entries, j.id)]
  <2>1. Step(r, "begin", "deleting", k) /\ pc[r] = "begin"
    BY <1>5 DEF BeginDelete, Step
  <2>2. k.by = j.by /\ k.seen \subseteq entries /\ k.put = j.put
    BY <1>1 DEF Job, EntriesOf
  <2>3. j.put = {}
    BY <1>1, <2>1 DEF Open
  <2> HIDE DEF k
  <2>. QED
    BY <1>2, <2>1, <2>2, <2>3 DEF Steps, Closing
<1>6. CASE EndDelete(r)
  <2> DEFINE k == [j EXCEPT !.gone = j.seen \cap entries]
             to == IF j.list = <<>> THEN "update" ELSE "insert"
  <2>1. Step(r, "deleting", to, k) /\ pc[r] = "deleting"
    BY <1>6 DEF EndDelete, Step
  <2>2. k.by = j.by /\ k.seen = j.seen /\ k.put = j.put /\ k.gone = j.seen \cap entries
    BY <1>1 DEF Job
  <2>3. j.put = {}
    BY <1>1, <2>1 DEF Open
  <2> HIDE DEF k
  <2>. QED
    BY <1>2, <2>1, <2>2, <2>3 DEF Steps, Closing
<1>7. CASE InsertEntries(r)
  <2> DEFINE put == Wanted(j.id, j.list, j.by)
             k == [j EXCEPT !.put = put]
  <2>1. Step(r, "insert", "update", k) /\ pc[r] = "insert"
    BY <1>7 DEF InsertEntries, Step
  <2>2. \A e \in put : e.by = j.by
    BY DEF Wanted
  <2> HIDE DEF put
  <2>3. k.by = j.by /\ k.seen = j.seen /\ k.put = put /\ k.gone = j.gone
    BY <1>1 DEF Job
  <2>4. j.seen \cap entries \subseteq j.gone
    BY <1>1, <2>1 DEF Deleted
  <2> HIDE DEF k
  <2>. QED
    BY <1>2, <2>1, <2>2, <2>3, <2>4 DEF Steps, Closing
<1>. QED
  BY <1>3, <1>4, <1>5, <1>6, <1>7

LEMMA EndsKeepRows ==
  ASSUME Inv, Rows, NEW r \in Requests,
         Fail(r) \/ Commit(r) \/ \E c \in Ids : InsertCollection(r, c)
  PROVE  Rows'
<1> DEFINE j == job[r]
<1>1. j \in Job /\ Open(r) /\ Prepared(r) /\ Own(r) /\ Deleted(r) /\ replaced \cap entries = {}
  BY DEF Inv, Handlers, HandlerOk, Rows
<1>2. /\ pc[r] # "idle" /\ pc' = [pc EXCEPT ![r] = "idle"]
      /\ job' = [job EXCEPT ![r] = Blank] /\ arrived' = arrived
  BY DEF Fail, Commit, InsertCollection, End
<1>3. CASE Fail(r)
  <2>1. UNCHANGED <<entries, replaced>>
    BY <1>3 DEF Fail
  <2>. QED
    BY <1>1, <1>2, <2>1, EndKeepsRows
<1>4. CASE Commit(r)
  <2>1. /\ entries' = (entries \ j.gone) \cup j.put /\ replaced' = replaced \cup j.seen
        /\ pc[r] = "update" \/ (pc[r] = "begin" /\ j.list = Keep)
    BY <1>4 DEF Commit, End
  <2>2. \A e \in j.put : e.by = j.by /\ e \notin replaced /\ e \notin j.seen
    BY <1>1, <1>2 DEF Own
  <2>3. j.seen \cap entries \subseteq j.gone
    BY <1>1, <2>1 DEF Deleted, Closing
  <2>4. replaced' \cap entries' = {}
    BY <1>1, <2>1, <2>2, <2>3
  <2>. QED
    BY <1>2, <2>1, <2>2, <2>4, EndKeepsRows
<1>5. ASSUME NEW c \in Ids, InsertCollection(r, c)
      PROVE  Rows'
  <2> DEFINE put == Wanted(c, j.list, j.by)
  <2>1. entries' = entries \cup put /\ replaced' = replaced
    BY <1>5 DEF InsertCollection
  <2>2. \A e \in put : e.by = j.by
    BY DEF Wanted
  <2> HIDE DEF put
  <2>3. replaced' \cap entries' = {}
    BY <1>1, <1>2, <2>1, <2>2 DEF Own
  <2>. QED
    BY <1>2, <2>1, <2>2, <2>3, EndKeepsRows
<1>. QED
  BY <1>3, <1>4, <1>5

LEMMA ArrivalKeepsRows ==
  ASSUME Inv, Rows, NEW r \in Requests, Arrival(r)
  PROVE  Rows'
<1>1. ASSUME NEW to \in Steps \ Closing, NEW j \in Job, Start(r, to, j), j.seen = {}, j.put = {}
      PROVE  Rows'
  <2> DEFINE k == [j EXCEPT !.by = arrived']
  <2>1. /\ pc[r] = "idle" /\ arrived' = arrived + 1 /\ UNCHANGED <<entries, replaced>>
        /\ pc' = [pc EXCEPT ![r] = to] /\ job' = [job EXCEPT ![r] = k]
    BY <1>1 DEF Start
  <2>2. k.seen = {} /\ k.put = {} /\ k.by = arrived + 1
    BY <1>1, <2>1 DEF Job
  <2> HIDE DEF k
  <2>. QED
    BY <2>1, <2>2, StartKeepsRows
<1>2. ASSUME NEW t \in Titles, NEW list \in Lists, Create(r, t, list)
      PROVE  Rows'
  <2> DEFINE row == [title |-> t, slug |-> First(t), active |-> TRUE]
             j == [Blank EXCEPT !.row = row, !.list = list]
  <2>1. Start(r, "slug", j)
    BY <1>2 DEF Create
  <2>2. row \in Row
    BY FirstFacts DEF Row
  <2> HIDE DEF row
  <2>3. j \in Job /\ j.seen = {} /\ j.put = {}
    BY <2>2, BlankFacts DEF Job
  <2> HIDE DEF j
  <2>. QED
    BY <1>1, <2>1, <2>3 DEF Steps, Closing
<1>3. ASSUME NEW c \in Ids, NEW t \in Titles \cup {Keep}, NEW a \in {TRUE, Keep},
             NEW list \in Lists \cup {Keep}, Update(r, c, t, a, list)
      PROVE  Rows'
  <2> DEFINE row == Read(t, a, collection[c])
             j == [Blank EXCEPT !.id = c, !.list = list, !.row = row]
             k == [j EXCEPT !.row.slug = First(t)]
  <2>1. \/ Retitled(t, collection[c]) /\ Start(r, "slug", k)
        \/ ~Retitled(t, collection[c]) /\ Start(r, AfterSlug(list), j)
    BY <1>3 DEF Update
  <2>2. collection[c] \in Row /\ Made(collection[c])
    BY <1>3 DEF Update, Inv, Tables, KeysHold, Made
  <2>3. row \in Row /\ (Retitled(t, collection[c]) => t \in Titles)
    BY <2>2, ReadFacts
  <2> HIDE DEF row
  <2>4. j \in Job /\ j.row = row /\ j.seen = {} /\ j.put = {}
    BY <2>3, BlankFacts DEF Job
  <2>5. CASE Retitled(t, collection[c])
    <3>1. k.row = [row EXCEPT !.slug = First(t)] /\ First(t) \in Slug
      BY <2>3, <2>4, <2>5, FirstFacts
    <3>2. k \in Job /\ k.seen = {} /\ k.put = {}
      BY <2>3, <2>4, <3>1 DEF Job, Row
    <3> HIDE DEF k
    <3>. QED
      BY <1>1, <2>1, <2>5, <3>2 DEF Steps, Closing
  <2>6. CASE ~Retitled(t, collection[c])
    <3>1. AfterSlug(list) \in Steps \ Closing
      BY DEF AfterSlug, Steps, Closing
    <3> HIDE DEF j
    <3>. QED
      BY <1>1, <2>1, <2>4, <2>6, <3>1
  <2>. QED
    BY <2>5, <2>6
<1>. QED
  BY <1>2, <1>3 DEF Arrival

LEMMA InitRows == Init => Rows
<1>. SUFFICES ASSUME Init PROVE Rows
  OBVIOUS
<1>1. Inv /\ arrived = 0 /\ replaced = {}
  BY InitInv DEF Init
<1>2. \A r \in Requests : pc[r] = "idle" /\ job[r].seen = {}
  BY BlankFacts DEF Init
<1>3. \A e \in entries : e.by = 0
  BY DEF Init, Wanted
<1>. QED
  BY <1>1, <1>2, <1>3 DEF Rows, Dated, Own, Deleted, Closing

LEMMA StepRows == Inv /\ Rows /\ [Next]_vars => Rows'
<1>. SUFFICES ASSUME Inv, Rows, [Next]_vars PROVE Rows'
  OBVIOUS
<1>1. CASE UNCHANGED vars
  BY <1>1 DEF vars, Rows, Dated, Own, Deleted
<1>2. ASSUME NEW r \in Requests, Arrival(r) \/ Handler(r) \/ Fail(r)
      PROVE  Rows'
  BY <1>2, ArrivalKeepsRows, LooksKeepRows, EndsKeepRows DEF Handler
<1>3. ASSUME NEW c \in Ids, SoftDelete(c)
      PROVE  Rows'
  <2>1. UNCHANGED <<entries, replaced, pc, job>> /\ arrived' = arrived + 1
    BY <1>3 DEF SoftDelete
  <2>2. arrived \in Int /\ \A r \in Requests : job[r].by \in Int
    BY BoundsAssumption DEF Inv, Tables, Handlers, Job
  <2>3. /\ \A e \in entries \cup replaced : e.by \in Int
        /\ \A r \in Requests : \A e \in job[r].seen : e.by \in Int
    <3>1. entries \cup replaced \subseteq Entry /\ \A r \in Requests : job[r].seen \subseteq Entry
      BY DEF Inv, Tables, Handlers, Job
    <3>. QED
      BY <3>1, BoundsAssumption DEF Entry
  <2>4. Dated'
    BY <2>1, <2>2, <2>3 DEF Rows, Dated
  <2>5. \A r \in Requests : Own(r)' /\ Deleted(r)'
    BY <2>1, <2>2 DEF Rows, Own, Deleted
  <2>. QED
    BY <2>1, <2>4, <2>5 DEF Rows
<1>4. ASSUME NEW p \in Products, RemoveProduct(p)
      PROVE  Rows'
  <2>1. UNCHANGED <<arrived, replaced, pc, job>> /\ entries' \subseteq entries
    BY <1>4 DEF RemoveProduct
  <2>. QED
    BY <2>1 DEF Rows, Dated, Own, Deleted
<1>. QED
  BY <1>1, <1>2, <1>3, <1>4 DEF Next

-----------------------------------------------------------------------------

\* Whatever statements of whatever transactions interleave, the invariant holds: what
\* an open transaction deleted and inserted fits the entries others commit meanwhile,
\* and it has deleted all it saw that is still there.
THEOREM Inductive == Spec => [](Inv /\ Rows)
BY InitInv, StepInv, InitRows, StepRows, PTL DEF Spec

\* Rows, entries and local variables keep their types.
THEOREM TypeCorrect == Spec => []TypeOK
<1>1. Inv => TypeOK
  BY DEF Inv, Tables, Handlers, TypeOK
<1>. QED
  BY <1>1, Inductive, PTL

\* No two collections have slugs that read alike, a collection with a title has a slug
\* made from it (one whose title was emptied keeps the slug it had), no list has a
\* product twice or one that is gone (create and update of collections.service.ts).
THEOREM KeysAreHeld == Spec => []KeysHold
<1>1. Inv => KeysHold
  BY DEF Inv
<1>. QED
  BY <1>1, Inductive, PTL

\* No update, failed or merged, takes anything from the list that was saved last, and
\* nothing is left of what it replaced (the transaction of update).
THEOREM SavedListsStay == Spec => []SavedListStays
<1>1. Inv /\ Rows => SavedListStays
  BY DEF Inv, SavedIsThere, Rows, SavedListStays
<1>. QED
  BY <1>1, Inductive, PTL

=============================================================================
