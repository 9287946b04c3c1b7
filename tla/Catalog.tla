------------------------------ MODULE Catalog ------------------------------
(***************************************************************************)
(* The tables that hang together by references: CategoriesService,         *)
(* ProductsService, ReviewsService and WishlistService.  Every handler     *)
(* looks first and writes in a later statement; between the two any other  *)
(* handler may run, and only the keys of the schema stand between a stale  *)
(* look and a broken table.  A look that makes the handler refuse changes  *)
(* nothing and is left out.                                                *)
(***************************************************************************)
EXTENDS Integers, FiniteSets

CONSTANTS
  Requests,    \* requests the server may be handling at the same time
  Categories,  \* ids of categories
  Products,    \* ids of products
  Customers,   \* users who review and wish
  MarkIds,     \* ids of reviews and wishlist rows
  Slugs,       \* slugs, of categories and of products
  None,        \* the parent of a root; no id
  Keep,        \* a field the request does not mention
  MaxArrivals  \* bound: requests handled

ASSUME NamesAssumption ==
  /\ None \notin Categories \cup Products \cup MarkIds \cup Customers
  /\ Keep \notin Categories \cup Slugs \cup {None}

ASSUME BoundsAssumption == MaxArrivals \in Nat /\ IsFiniteSet(Requests)

VARIABLES
  category,  \* the rows of Category, by id
  product,   \* the rows of Product, by id
  ordered,   \* products with a row in OrderItem
  reviews,   \* the rows of Review
  approved,  \* ids of the reviews with isApproved
  wishes,    \* the rows of Wishlist
  pc,        \* the await each request stands at
  job,       \* the local variables of each request
  arrived,   \* requests handled so far
  joined     \* history: categories written since the request found its category empty

tables == <<category, product, ordered, reviews, approved, wishes>>
vars   == <<tables, pc, job, arrived, joined>>

CategoryRow == [parent : Categories \cup {None}, slug : Slugs]
ProductRow  == [category : Categories, slug : Slugs]
Mark        == [id : MarkIds, user : Customers, product : Products]

\* to is the parent or category asked for, slug the slug; mark the row of a review
\* or wish that was read.
Job == [id : Categories \cup Products \cup {None},
        to : Categories \cup {None, Keep}, slug : Slugs \cup {Keep},
        user : Customers \cup {None}, mark : MarkIds \cup {None}]

Blank == [id |-> None, to |-> Keep, slug |-> Keep, user |-> None, mark |-> None]

Steps == {"idle", "parent", "insertCategory", "categorySlug", "updateCategory", "deleteCategory",
          "category", "insertProduct", "productSlug", "updateProduct", "deleteProduct",
          "reviewed", "insertReview", "approveReview", "deleteReview", "wished", "insertWish", "deleteWish"}

Put(f, k, row)  == [x \in DOMAIN f \cup {k} |-> IF x = k THEN row ELSE f[x]]
Without(f, k)   == [x \in DOMAIN f \ {k} |-> f[x]]
TakenSlug(f, s) == \E x \in DOMAIN f : f[x].slug = s

\* Mutant of Field: a field that is not mentioned is cleared.
FieldCleared(asked, old) == asked

\* Fields that the request does not mention are not written.
Field(asked, old) == IF asked = Keep THEN old ELSE asked

\* A shop that has been running: root categories, and products in some of them.
Init ==
  /\ \E C \in SUBSET Categories : category \in [C -> [parent : {None}, slug : Slugs]]
  /\ \A c, d \in DOMAIN category : category[c].slug = category[d].slug => c = d
  /\ \E P \in SUBSET Products : product \in [P -> [category : DOMAIN category, slug : Slugs]]
  /\ \A p, q \in DOMAIN product : product[p].slug = product[q].slug => p = q
  /\ ordered = {}
  /\ reviews = {} /\ approved = {}
  /\ wishes = {}
  /\ pc = [r \in Requests |-> "idle"]
  /\ job = [r \in Requests |-> Blank]
  /\ arrived = 0
  /\ joined = [r \in Requests |-> {}]

Start(r, step, j) ==
  /\ pc[r] = "idle"
  /\ arrived < MaxArrivals
  /\ arrived' = arrived + 1
  /\ pc' = [pc EXCEPT ![r] = step]
  /\ job' = [job EXCEPT ![r] = j]
  /\ UNCHANGED <<tables, joined>>

\* A look that was passed.
Pass(r, from, to, passed) ==
  /\ pc[r] = from
  /\ passed
  /\ pc' = [pc EXCEPT ![r] = to]
  /\ UNCHANGED <<tables, job, arrived, joined>>

\* The write at the end of a handler, when the schema admits it.
Write(r, step) ==
  /\ pc[r] = step
  /\ pc' = [pc EXCEPT ![r] = "idle"]
  /\ job' = [job EXCEPT ![r] = Blank]
  /\ UNCHANGED arrived

\* A refusal, an error of the database, a lost connection or a restart.
Fail(r) ==
  /\ pc[r] # "idle"
  /\ Write(r, pc[r])
  /\ joined' = [joined EXCEPT ![r] = {}]
  /\ UNCHANGED tables

\* cuid: no row and no handler has the id.
Fresh(id) == \A r \in Requests : job[r].id # id /\ job[r].to # id
FreshMark(id) ==
  /\ \A m \in reviews \cup wishes : m.id # id
  /\ \A r \in Requests : job[r].mark # id

-----------------------------------------------------------------------------
(* Categories.                                                              *)

\* create: the slug is looked up, then the parent, if there is to be one.
CreateCategory(r, c, parent, slug) ==
  /\ c \notin DOMAIN category /\ Fresh(c)
  /\ ~TakenSlug(category, slug)
  /\ Start(r, IF parent = None THEN "insertCategory" ELSE "parent",
           [Blank EXCEPT !.id = c, !.to = parent, !.slug = slug])

FindParent(r) == Pass(r, "parent", "insertCategory", job[r].to \in DOMAIN category)

\* Mutant of SlugFree: a schema without unique slugs.
AnySlug(f, x, s) == TRUE

\* slug is @unique.
SlugFree(f, x, s) == \A y \in DOMAIN f \ {x} : f[y].slug # s

\* A foreign key that may be null.
Refers(f, x) == x \in DOMAIN f \cup {None}

\* Category c is written while others are about to delete theirs.
Join(c) ==
  joined' = [r \in Requests |-> IF pc[r] = "deleteCategory" THEN joined[r] \cup {c} ELSE {}]

InsertCategory(r) ==
  LET j == job[r] IN
  /\ Write(r, "insertCategory")
  /\ SlugFree(category, j.id, j.slug) /\ Refers(category, j.to)
  /\ category' = Put(category, j.id, [parent |-> j.to, slug |-> j.slug])
  /\ Join(j.id)
  /\ UNCHANGED <<product, ordered, reviews, approved, wishes>>

\* update: a slug that is to change is looked up, a parent is not.
UpdateCategory(r, c, parent, slug) ==
  /\ c \in DOMAIN category
  /\ Start(r, IF slug \in {Keep, category[c].slug} THEN "updateCategory" ELSE "categorySlug",
           [Blank EXCEPT !.id = c, !.to = parent, !.slug = slug])

LookUpCategorySlug(r) ==
  Pass(r, "categorySlug", "updateCategory", ~TakenSlug(category, job[r].slug))

WriteCategory(r) ==
  LET c == job[r].id IN
  /\ Write(r, "updateCategory")
  /\ c \in DOMAIN category
  /\ LET row == [parent |-> Field(job[r].to, category[c].parent),
                 slug |-> Field(job[r].slug, category[c].slug)] IN
       /\ SlugFree(category, c, row.slug) /\ Refers(category, row.parent)
       /\ category' = Put(category, c, row)
  /\ Join(c)
  /\ UNCHANGED <<product, ordered, reviews, approved, wishes>>

\* Mutant of RemoveCategory: the children are not looked at.
RemoveWithChildren(r, c) ==
  /\ c \in DOMAIN category
  /\ \A p \in DOMAIN product : product[p].category # c
  /\ Start(r, "deleteCategory", [Blank EXCEPT !.id = c])

\* remove: a category with products or children is refused, as read.
RemoveCategory(r, c) ==
  /\ c \in DOMAIN category
  /\ \A p \in DOMAIN product : product[p].category # c
  /\ \A d \in DOMAIN category : category[d].parent # c
  /\ Start(r, "deleteCategory", [Blank EXCEPT !.id = c])

\* Product.category restricts the deletion, Category.parent is set null by it.
Unused(c) == \A p \in DOMAIN product : product[p].category # c

DeleteCategory(r) ==
  LET c == job[r].id IN
  /\ Write(r, "deleteCategory")
  /\ c \in DOMAIN category
  /\ Unused(c)
  /\ category' = [d \in DOMAIN category \ {c} |->
                    IF category[d].parent = c THEN [category[d] EXCEPT !.parent = None]
                    ELSE category[d]]
  /\ joined' = [joined EXCEPT ![r] = {}]
  /\ UNCHANGED <<product, ordered, reviews, approved, wishes>>

-----------------------------------------------------------------------------
(* Products.                                                                *)

\* create: slug, then category.
CreateProduct(r, p, c, slug) ==
  /\ p \notin DOMAIN product /\ Fresh(p)
  /\ ~TakenSlug(product, slug)
  /\ Start(r, "category", [Blank EXCEPT !.id = p, !.to = c, !.slug = slug])

FindCategory(r) == Pass(r, "category", "insertProduct", job[r].to \in DOMAIN category)

InsertProduct(r) ==
  LET j == job[r]
      row == [category |-> j.to, slug |-> j.slug] IN
  /\ Write(r, "insertProduct")
  /\ SlugFree(product, j.id, j.slug) /\ Refers(category, j.to)
  /\ product' = Put(product, j.id, row)
  /\ UNCHANGED <<category, ordered, reviews, approved, wishes, joined>>

\* update: as for categories.
UpdateProduct(r, p, c, slug) ==
  /\ p \in DOMAIN product
  /\ Start(r, IF slug \in {Keep, product[p].slug} THEN "updateProduct" ELSE "productSlug",
           [Blank EXCEPT !.id = p, !.to = c, !.slug = slug])

LookUpProductSlug(r) ==
  Pass(r, "productSlug", "updateProduct", ~TakenSlug(product, job[r].slug))

WriteProduct(r) ==
  LET j == job[r] IN
  /\ Write(r, "updateProduct")
  /\ j.id \in DOMAIN product
  /\ LET row == [category |-> Field(j.to, product[j.id].category),
                 slug |-> Field(j.slug, product[j.id].slug)] IN
       /\ SlugFree(product, j.id, row.slug) /\ Refers(category, row.category)
       /\ product' = Put(product, j.id, row)
  /\ UNCHANGED <<category, ordered, reviews, approved, wishes, joined>>

RemoveProduct(r, p) ==
  /\ p \in DOMAIN product
  /\ Start(r, "deleteProduct", [Blank EXCEPT !.id = p])

\* The reviews that are left, and which of them are approved.
SetReviews(marks) ==
  /\ reviews' = marks
  /\ approved' = approved \cap {m.id : m \in marks}

\* Reviews and wishes go with the product; a row of OrderItem restricts.
DeleteProduct(r) ==
  LET p == job[r].id IN
  /\ Write(r, "deleteProduct")
  /\ p \in DOMAIN product /\ p \notin ordered
  /\ product' = Without(product, p)
  /\ SetReviews({m \in reviews : m.product # p})
  /\ wishes' = {m \in wishes : m.product # p}
  /\ UNCHANGED <<category, ordered, joined>>

\* OrdersService.create inserts the items of an order.
OrderProduct(p) ==
  /\ p \in DOMAIN product
  /\ ordered' = ordered \cup {p}
  /\ UNCHANGED <<category, product, reviews, approved, wishes, pc, job, arrived, joined>>

-----------------------------------------------------------------------------
(* Reviews and wishes.                                                      *)

\* create and add: the product is looked up, then an earlier row.
CreateReview(r, u, p) ==
  /\ p \in DOMAIN product
  /\ Start(r, "reviewed", [Blank EXCEPT !.id = p, !.user = u])

Has(marks, j) == \E m \in marks : m.user = j.user /\ m.product = j.id

\* Mutant of FindReview: nobody looks for an earlier review.
FindNoReview(r) == Pass(r, "reviewed", "insertReview", TRUE)

FindReview(r) == Pass(r, "reviewed", "insertReview", ~Has(reviews, job[r]))

NewMark(j, id) == [id |-> id, user |-> j.user, product |-> j.id]

\* Review has no unique index.
InsertReview(r, id) ==
  /\ Write(r, "insertReview")
  /\ job[r].id \in DOMAIN product
  /\ FreshMark(id)
  /\ reviews' = reviews \cup {NewMark(job[r], id)}
  /\ UNCHANGED <<category, product, ordered, approved, wishes, joined>>

ApproveReview(r, m) ==
  /\ m \in reviews
  /\ Start(r, "approveReview", [Blank EXCEPT !.mark = m.id])

WriteApproval(r) ==
  /\ Write(r, "approveReview")
  /\ \E m \in reviews : m.id = job[r].mark
  /\ approved' = approved \cup {job[r].mark}
  /\ UNCHANGED <<category, product, ordered, reviews, wishes, joined>>

RemoveReview(r, m) ==
  /\ m \in reviews
  /\ Start(r, "deleteReview", [Blank EXCEPT !.mark = m.id])

DeleteReview(r) ==
  /\ Write(r, "deleteReview")
  /\ SetReviews({m \in reviews : m.id # job[r].mark})
  /\ UNCHANGED <<category, product, ordered, wishes, joined>>

AddWish(r, u, p) ==
  /\ p \in DOMAIN product
  /\ Start(r, "wished", [Blank EXCEPT !.id = p, !.user = u])

FindWish(r) == Pass(r, "wished", "insertWish", ~Has(wishes, job[r]))

\* [userId, productId] is @@unique.
InsertWish(r, id) ==
  /\ Write(r, "insertWish")
  /\ job[r].id \in DOMAIN product
  /\ ~Has(wishes, job[r])
  /\ FreshMark(id)
  /\ wishes' = wishes \cup {NewMark(job[r], id)}
  /\ UNCHANGED <<category, product, ordered, reviews, approved, joined>>

RemoveWish(r, m) ==
  /\ m \in wishes
  /\ Start(r, "deleteWish", [Blank EXCEPT !.mark = m.id])

DeleteWish(r) ==
  /\ Write(r, "deleteWish")
  /\ wishes' = {m \in wishes : m.id # job[r].mark}
  /\ UNCHANGED <<category, product, ordered, reviews, approved, joined>>

-----------------------------------------------------------------------------

CategoryArrival(r) ==
  \E c \in Categories :
    \/ \E d \in DOMAIN category \cup {None}, s \in Slugs : CreateCategory(r, c, d, s)
    \/ \E d \in DOMAIN category \cup {None, Keep}, s \in Slugs \cup {Keep} : UpdateCategory(r, c, d, s)
    \/ RemoveCategory(r, c)

ProductArrival(r) ==
  \E p \in Products :
    \/ \E c \in DOMAIN category, s \in Slugs : CreateProduct(r, p, c, s)
    \/ \E c \in DOMAIN category \cup {Keep}, s \in Slugs \cup {Keep} : UpdateProduct(r, p, c, s)
    \/ RemoveProduct(r, p)

MarkArrival(r) ==
  \/ \E u \in Customers, p \in Products : CreateReview(r, u, p) \/ AddWish(r, u, p)
  \/ \E m \in reviews : ApproveReview(r, m) \/ RemoveReview(r, m)
  \/ \E m \in wishes : RemoveWish(r, m)

Look(r) ==
  \/ FindParent(r) \/ LookUpCategorySlug(r)
  \/ FindCategory(r) \/ LookUpProductSlug(r)
  \/ FindReview(r) \/ FindWish(r)

Change(r) ==
  \/ InsertCategory(r) \/ WriteCategory(r) \/ DeleteCategory(r)
  \/ InsertProduct(r) \/ WriteProduct(r) \/ DeleteProduct(r)
  \/ WriteApproval(r) \/ DeleteReview(r) \/ DeleteWish(r)
  \/ \E id \in MarkIds : InsertReview(r, id) \/ InsertWish(r, id)

Next ==
  \/ \E r \in Requests :
       CategoryArrival(r) \/ ProductArrival(r) \/ MarkArrival(r) \/ Look(r) \/ Change(r) \/ Fail(r)
  \/ \E p \in Products : OrderProduct(p)

Spec == Init /\ [][Next]_vars

-----------------------------------------------------------------------------
(* What must be true of it.                                                 *)

\* The rows keep their types: an edit that does not mention a field leaves it one
\* of its values, whatever was edited meanwhile.
TypeOK ==
  /\ DOMAIN category \subseteq Categories /\ \A c \in DOMAIN category : category[c] \in CategoryRow
  /\ DOMAIN product \subseteq Products /\ \A p \in DOMAIN product : product[p] \in ProductRow
  /\ ordered \subseteq Products
  /\ reviews \subseteq Mark /\ wishes \subseteq Mark /\ approved \subseteq MarkIds
  /\ pc \in [Requests -> Steps]
  /\ job \in [Requests -> Job]
  /\ arrived \in 0..MaxArrivals
  /\ joined \in [Requests -> SUBSET Categories]

HasUniqueSlugs(f) == \A x, y \in DOMAIN f : f[x].slug = f[y].slug => x = y

\* However requests look before they write: no two categories or products share a
\* slug, no customer wishes a product twice, and nothing refers to a row that is
\* gone, the category of a product, the parent of a category, or the product of a
\* review, a wish or an order.
KeysHold ==
  /\ HasUniqueSlugs(category) /\ HasUniqueSlugs(product)
  /\ \A m, n \in wishes : m.user = n.user /\ m.product = n.product => m = n
  /\ \A p \in DOMAIN product : product[p].category \in DOMAIN category
  /\ \A c \in DOMAIN category : category[c].parent \in DOMAIN category \cup {None}
  /\ \A m \in reviews \cup wishes : m.product \in DOMAIN product
  /\ ordered \subseteq DOMAIN product

\* "already reviewed" (reviews.service.ts:21-31) is looked up and no unique index stands
\* behind it: requests that race store several reviews of one customer and product,
\* but never more than the server handles at a time.
ReviewsBounded ==
  \A u \in Customers, p \in Products :
    Cardinality({m \in reviews : m.user = u /\ m.product = p}) <= Cardinality(Requests)

\* A category with children is not removed (categories.service.ts:169): the deletion makes
\* a child a root only if the child was written after remove looked.
OrphansAreLate ==
  [][\A c \in DOMAIN category \ DOMAIN category', d \in DOMAIN category' :
       (d \in DOMAIN category /\ category[d].parent = c) =>
         \E r \in Requests : pc[r] = "deleteCategory" /\ job[r].id = c /\ d \in joined[r]]_vars
=============================================================================
