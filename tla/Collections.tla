---------------------------- MODULE Collections ----------------------------
(***************************************************************************)
(* CollectionsService: collections with a title, a slug made from it and a *)
(* list of products.  An update reads the collection, looks for a free     *)
(* slug and for the products, and then replaces the list and the row in    *)
(* one transaction of three statements.  PostgreSQL runs it at READ        *)
(* COMMITTED: a statement sees what was committed when it began, and waits *)
(* for another transaction where both want the same row.                   *)
(***************************************************************************)
EXTENDS Integers, FiniteSets, SequencesExt

CONSTANTS
  Requests,   \* requests of administrators handled at the same time
  Ids,        \* ids of collections
  Products,   \* ids of products
  Titles,
  Untitled,   \* the empty title
  Bases,      \* what slugify makes of titles
  slugify,    \* the base of each title
  spelled,    \* how a slug reads: "a-1" is a base of its own and "a" with a number
  None,       \* no id yet
  Keep,       \* a field the request does not mention
  MaxList,    \* bound: products in a list
  MaxSuffix,  \* bound: the number after a base
  MaxArrivals \* bound: requests handled

ASSUME NamesAssumption ==
  /\ Untitled \in Titles /\ slugify \in [Titles -> Bases]
  /\ None \notin Ids
  /\ Keep \notin Titles \cup BOOLEAN

ASSUME BoundsAssumption == {MaxList, MaxSuffix, MaxArrivals} \subseteq Nat

VARIABLES
  products,    \* products that exist
  collection,  \* the rows of Collection, by id
  entries,     \* the rows of ProductOnCollection, as committed
  pc,          \* the await each request stands at
  job,         \* the local variables and the open transaction of each request
  arrived,     \* requests handled so far
  saved,       \* history: the lists as last committed, without removed products
  replaced     \* history: the entries that committed deletions saw when they began

vars == <<products, collection, entries, pc, job, arrived, saved, replaced>>

\* 0 stands for a base without a number.
Slug  == [base : Bases, suffix : 0..MaxSuffix]
Row   == [title : Titles, slug : Slug, active : BOOLEAN]

\* by is the number of the request that inserted it: with the place, it stands for
\* the id that tells an entry from an equal one that was there before.
Entry == [collection : Ids, product : Products, place : 1..MaxList, by : 0..MaxArrivals]

\* A list with a product twice is refused by the unique index and left out.
Lists == {list \in BoundedSeq(Products, MaxList) : IsInjective(list)}

\* by is the number of the request, row what is to be written; seen are the entries a
\* deletion began with, gone and put those the open transaction deleted and inserted.
Job == [by : 0..MaxArrivals, id : Ids \cup {None}, row : Row, list : Lists \cup {Keep},
        seen : SUBSET Entry, gone : SUBSET Entry, put : SUBSET Entry]

Steps == {"idle", "slug", "products", "create", "begin", "deleting", "insert", "update"}

EntriesOf(E, c) == {e \in E : e.collection = c}
Same(e, f)      == e.collection = f.collection /\ e.product = f.product

Wanted(c, list, n) ==
  {[collection |-> c, product |-> list[i], place |-> i, by |-> n] : i \in DOMAIN list}

Field(asked, old) == IF asked = Keep THEN old ELSE asked

\* Mutant of Read: the fields that are not mentioned are written as they came.
ReadNothing(t, a, row) == [row EXCEPT !.title = t, !.active = a]

\* dto.title ?? existing.title: all fields are written, with what was read.
Read(t, a, row) == [row EXCEPT !.title = Field(t, @), !.active = Field(a, @)]

First(t) == [base |-> slugify[t], suffix |-> 0]

Alike(slug, other) == spelled[slug] = spelled[other]

SlugTaken(slug, c) == \E d \in DOMAIN collection \ {c} : Alike(collection[d].slug, slug)

\* slug is @unique.
SlugFree(slug, c) == ~SlugTaken(slug, c)

\* A row nobody looks at.
BlankRow == [title |-> Untitled, slug |-> First(Untitled), active |-> TRUE]
Blank == [by |-> 0, id |-> None, row |-> BlankRow, list |-> Keep, seen |-> {}, gone |-> {}, put |-> {}]

\* Collections with their first slugs, and lists of at most one product.
Init ==
  /\ products = Products
  /\ \E C \in SUBSET Ids, t \in [Ids -> Titles] :
       /\ \A c, d \in C : Alike(First(t[c]), First(t[d])) => c = d
       /\ collection = [c \in C |-> [title |-> t[c], slug |-> First(t[c]), active |-> TRUE]]
       /\ \E list \in [C -> {l \in Lists : Len(l) < 2}] :
            entries = UNION {Wanted(c, list[c], 0) : c \in C}
  /\ pc = [r \in Requests |-> "idle"]
  /\ job = [r \in Requests |-> Blank]
  /\ arrived = 0
  /\ saved = entries
  /\ replaced = {}

Start(r, step, j) ==
  /\ pc[r] = "idle"
  /\ arrived < MaxArrivals
  /\ arrived' = arrived + 1
  /\ pc' = [pc EXCEPT ![r] = step]
  /\ job' = [job EXCEPT ![r] = [j EXCEPT !.by = arrived']]
  /\ UNCHANGED <<products, collection, entries, saved, replaced>>

\* One statement that changes nothing others see.
Step(r, from, to, j) ==
  /\ pc[r] = from
  /\ pc' = [pc EXCEPT ![r] = to]
  /\ job' = [job EXCEPT ![r] = j]
  /\ UNCHANGED <<products, collection, entries, arrived, saved, replaced>>

End(r, from) ==
  /\ pc[r] = from
  /\ pc' = [pc EXCEPT ![r] = "idle"]
  /\ job' = [job EXCEPT ![r] = Blank]
  /\ UNCHANGED <<products, arrived>>

\* A refusal, an error of the database (a deadlock it resolves is one), a lost
\* connection or a restart; the open transaction is rolled back.
Fail(r) ==
  /\ pc[r] # "idle"
  /\ End(r, pc[r])
  /\ UNCHANGED <<collection, entries, saved, replaced>>

-----------------------------------------------------------------------------

Create(r, t, list) ==
  Start(r, "slug", [Blank EXCEPT !.row = [title |-> t, slug |-> First(t), active |-> TRUE],
                                 !.list = list])

\* Mutant of Retitled: the slug is made once.
RetitledNever(t, row) == FALSE

\* dto.title && dto.title !== existing.title: an empty title makes no slug.
Retitled(t, row) == t \notin {Keep, Untitled, row.title}

AfterSlug(list) == IF list \in {Keep, <<>>} THEN "begin" ELSE "products"

\* update: the collection is read.
Update(r, c, t, a, list) ==
  /\ c \in DOMAIN collection
  /\ LET row == Read(t, a, collection[c])
         j == [Blank EXCEPT !.id = c, !.list = list, !.row = row] IN
       IF Retitled(t, collection[c])
       THEN Start(r, "slug", [j EXCEPT !.row.slug = First(t)])
       ELSE Start(r, AfterSlug(list), j)

\* One turn of generateUniqueSlug.
TryNextSlug(r) ==
  LET j == job[r] IN
  /\ SlugTaken(j.row.slug, j.id)
  /\ j.row.slug.suffix < MaxSuffix
  /\ Step(r, "slug", "slug", [j EXCEPT !.row.slug.suffix = @ + 1])

SettleSlug(r) ==
  LET j == job[r] IN
  /\ ~SlugTaken(j.row.slug, j.id)
  /\ Step(r, "slug", IF j.id = None THEN "products" ELSE AfterSlug(j.list), j)

\* ensureProductsExist.
EnsureProducts(r) ==
  LET j == job[r] IN
  /\ Step(r, "products", IF j.id = None THEN "create" ELSE "begin", j)
  /\ ToSet(j.list) \subseteq products

\* create: one nested insert, a statement to everybody else.
InsertCollection(r, c) ==
  LET j == job[r] IN
  /\ End(r, "create")
  /\ c \notin DOMAIN collection
  /\ SlugFree(j.row.slug, c)
  /\ ToSet(j.list) \subseteq products
  /\ collection' = [d \in DOMAIN collection \cup {c} |-> IF d = c THEN j.row ELSE collection[d]]
  /\ entries' = entries \cup Wanted(c, j.list, j.by)
  /\ saved' = saved \cup Wanted(c, j.list, j.by)
  /\ UNCHANGED replaced

-----------------------------------------------------------------------------
(* The transaction of update.  A list that is not mentioned is not touched. *)

Others(r) == Requests \ {r}

\* deleteMany begins with the entries it sees; it will wait for those that another
\* transaction has deleted, and miss those that are inserted from now on.
BeginDelete(r) ==
  /\ job[r].list # Keep
  /\ Step(r, "begin", "deleting", [job[r] EXCEPT !.seen = EntriesOf(entries, job[r].id)])

\* Mutant of EndDelete: the deletion is a statement of its own.
EndDeleteAtOnce(r) ==
  LET j == job[r] IN
  /\ pc[r] = "deleting"
  /\ pc' = [pc EXCEPT ![r] = IF j.list = <<>> THEN "update" ELSE "insert"]
  /\ entries' = entries \ j.seen
  /\ UNCHANGED <<products, collection, job, arrived, saved, replaced>>

EndDelete(r) ==
  LET j == job[r] IN
  /\ \A q \in Others(r) : job[q].gone \cap j.seen = {}
  /\ Step(r, "deleting", IF j.list = <<>> THEN "update" ELSE "insert",
          [j EXCEPT !.gone = j.seen \cap entries])

\* [collectionId, productId] is @@unique.
UniqueEntries(E) == \A e, f \in E : Same(e, f) => e = f

\* createMany; it waits for another transaction that has deleted or inserted an
\* entry of the same collection and product.
InsertEntries(r) ==
  LET j == job[r]
      put == Wanted(j.id, j.list, j.by) IN
  /\ Step(r, "insert", "update", [j EXCEPT !.put = put])
  /\ ToSet(j.list) \subseteq products
  /\ \A q \in Others(r) : \A e \in put, f \in job[q].gone \cup job[q].put : ~Same(e, f)
  /\ UniqueEntries((entries \ j.gone) \cup put)

\* The row is written and the transaction commits.  An entry that another
\* transaction has inserted holds the key of the collection, the slug with it.
Commit(r) ==
  LET j == job[r] IN
  /\ \/ End(r, "update")
     \/ j.list = Keep /\ End(r, "begin")
  /\ SlugFree(j.row.slug, j.id)
  /\ \/ Alike(j.row.slug, collection[j.id].slug)
     \/ \A q \in Others(r) : EntriesOf(job[q].put, j.id) = {}
  /\ collection' = [collection EXCEPT ![j.id] = j.row]
  /\ entries' = (entries \ j.gone) \cup j.put
  /\ saved' = IF j.list = Keep THEN saved
              ELSE (saved \ EntriesOf(saved, j.id)) \cup j.put
  /\ replaced' = replaced \cup j.seen

\* softDelete: a collection is never removed, so that its read decides nothing.
SoftDelete(c) ==
  /\ c \in DOMAIN collection
  /\ arrived < MaxArrivals
  /\ arrived' = arrived + 1
  /\ collection' = [collection EXCEPT ![c].active = FALSE]
  /\ UNCHANGED <<products, entries, pc, job, saved, replaced>>

\* ProductsService.remove takes the entries with it, and waits for transactions
\* that have written one.
RemoveProduct(p) ==
  /\ p \in products
  /\ \A r \in Requests : \A e \in job[r].gone \cup job[r].put : e.product # p
  /\ products' = products \ {p}
  /\ entries' = {e \in entries : e.product # p}
  /\ saved' = {e \in saved : e.product # p}
  /\ UNCHANGED <<collection, pc, job, arrived, replaced>>

-----------------------------------------------------------------------------

\* An update that makes the collection inactive does what SoftDelete does.
Arrival(r) ==
  \/ \E t \in Titles, list \in Lists : Create(r, t, list)
  \/ \E c \in Ids, t \in Titles \cup {Keep}, a \in {TRUE, Keep}, list \in Lists \cup {Keep} :
       Update(r, c, t, a, list)

Handler(r) ==
  \/ TryNextSlug(r) \/ SettleSlug(r) \/ EnsureProducts(r)
  \/ \E c \in Ids : InsertCollection(r, c)
  \/ BeginDelete(r) \/ EndDelete(r) \/ InsertEntries(r) \/ Commit(r)

Next ==
  \/ \E r \in Requests : Arrival(r) \/ Handler(r) \/ Fail(r)
  \/ \E c \in Ids : SoftDelete(c)
  \/ \E p \in Products : RemoveProduct(p)

Spec == Init /\ [][Next]_vars

-----------------------------------------------------------------------------
(* What must be true of it.                                                 *)

\* Rows, entries and local variables have their types: what an update does not
\* mention is written as it was read.
TypeOK ==
  /\ products \subseteq Products
  /\ DOMAIN collection \subseteq Ids /\ \A c \in DOMAIN collection : collection[c] \in Row
  /\ entries \subseteq Entry /\ saved \subseteq Entry /\ replaced \subseteq Entry
  /\ pc \in [Requests -> Steps]
  /\ \A r \in Requests : job[r] \in Job
  /\ arrived \in 0..MaxArrivals

\* Whatever transactions meet: no two collections have slugs that read alike, and a
\* collection with a title has a slug made from it, also when one update changes the
\* title and another writes back the one it read before (an update that empties the
\* title leaves the slug, line 55); no product is twice in a list, and a list has only
\* products that exist.
KeysHold ==
  /\ \A c, d \in DOMAIN collection : Alike(collection[c].slug, collection[d].slug) => c = d
  /\ \A c \in DOMAIN collection :
       collection[c].title # Untitled => collection[c].slug.base = slugify[collection[c].title]
  /\ \A e, f \in entries : Same(e, f) => e = f
  /\ \A e \in entries : e.collection \in DOMAIN collection /\ e.product \in products

\* The list that was saved last is there entirely, in its order, whatever later updates
\* fail half way (collections.service.ts:107).  Of what it replaced nothing is left and
\* nothing comes back: two lists that merge (line 74) were being saved at one time.
SavedListStays ==
  /\ saved \subseteq entries
  /\ replaced \cap entries = {}
=============================================================================
