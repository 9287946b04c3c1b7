---------------------------- MODULE CatalogProofs ----------------------------
(***************************************************************************)
(* Proofs of what Catalog promises for any number of requests, rows and    *)
(* slugs.                                                                  *)
(***************************************************************************)
EXTENDS Catalog, FiniteSetTheorems, TLAPS

\* What the variables of a handler are good for at each step.
Fits(step, j) ==
  /\ step \in {"parent", "insertCategory"} =>
       j.id \in Categories /\ j.to \in Categories \cup {None} /\ j.slug \in Slugs
  /\ step \in {"category", "insertProduct"} =>
       j.id \in Products /\ j.to \in Categories /\ j.slug \in Slugs
  /\ step \in {"productSlug", "updateProduct"} => j.to \in Categories \cup {Keep}
  /\ step \in {"reviewed", "insertReview", "wished", "insertWish"} => j.user \in Customers
  /\ step = "deleteCategory" => j.id \in Categories

\* The children a category had when remove looked: none.  The others came later.
ChildrenJoined ==
  \A r \in Requests : pc[r] = "deleteCategory" =>
    \A d \in DOMAIN category : category[d].parent = job[r].id => d \in joined[r]

Inv ==
  /\ TypeOK
  /\ KeysHold
  /\ \A r \in Requests : Fits(pc[r], job[r])
  /\ ChildrenJoined

\* The handlers' part of the invariant.
Handlers ==
  /\ pc \in [Requests -> Steps]
  /\ job \in [Requests -> Job]
  /\ arrived \in 0..MaxArrivals
  /\ joined \in [Requests -> SUBSET Categories]
  /\ \A r \in Requests : Fits(pc[r], job[r])

\* The tables' part of the invariant.
Tables ==
  /\ DOMAIN category \subseteq Categories /\ \A c \in DOMAIN category : category[c] \in CategoryRow
  /\ DOMAIN product \subseteq Products /\ \A p \in DOMAIN product : product[p] \in ProductRow
  /\ ordered \subseteq Products
  /\ reviews \subseteq Mark /\ wishes \subseteq Mark /\ approved \subseteq MarkIds
  /\ KeysHold

LEMMA Parts ==
  /\ Inv <=> Handlers /\ Tables /\ ChildrenJoined
  /\ Inv' <=> Handlers' /\ Tables' /\ ChildrenJoined'
BY DEF Inv, Handlers, Tables, TypeOK

LEMMA BlankFits == Blank \in Job /\ Fits("idle", Blank)
BY DEF Blank, Job, Fits

\* A handler that moves to a step for which its variables fit.
LEMMA Moves ==
  ASSUME Handlers, NEW r \in Requests, NEW step \in Steps, NEW j \in Job, Fits(step, j),
         pc' = [pc EXCEPT ![r] = step], job' = [job EXCEPT ![r] = j],
         arrived' \in 0..MaxArrivals, joined' \in [Requests -> SUBSET Categories]
  PROVE  /\ Handlers'
         /\ pc'[r] = step /\ job'[r] = j
         /\ \A x \in Requests \ {r} : pc'[x] = pc[x] /\ job'[x] = job[x]
BY DEF Handlers

\* The invariant holds at the start.
LEMMA InitInv == Init => Inv
<1> SUFFICES ASSUME Init PROVE Inv
  OBVIOUS
<1>1. Handlers
  BY BlankFits, BoundsAssumption DEF Init, Handlers, Steps
<1>2. Tables
  <2>1. PICK C \in SUBSET Categories : category \in [C -> [parent : {None}, slug : Slugs]]
    BY DEF Init
  <2>2. PICK P \in SUBSET Products : product \in [P -> [category : DOMAIN category, slug : Slugs]]
    BY DEF Init
  <2>. QED
    BY <2>1, <2>2 DEF Init, Tables, KeysHold, HasUniqueSlugs, CategoryRow, ProductRow
<1>3. ChildrenJoined
  BY DEF Init, ChildrenJoined
<1>. QED
  BY <1>1, <1>2, <1>3, Parts

\* A step that leaves the tables alone.
LEMMA TablesStay == Tables /\ UNCHANGED tables => Tables'
BY DEF Tables, KeysHold, HasUniqueSlugs, tables

\* Requests arrive with variables that fit.
LEMMA ArrivalKeeps ==
  ASSUME Inv, NEW r \in Requests, CategoryArrival(r) \/ ProductArrival(r) \/ MarkArrival(r)
  PROVE  Inv'
<1> USE Parts
<1>1. ASSUME NEW step \in Steps, NEW j \in Job, Fits(step, j), Start(r, step, j),
             step = "deleteCategory" => \A d \in DOMAIN category : category[d].parent # j.id
      PROVE  Inv'
  <2>1. /\ Handlers' /\ pc'[r] = step /\ job'[r] = j
        /\ \A x \in Requests \ {r} : pc'[x] = pc[x] /\ job'[x] = job[x]
    <3>1. arrived' \in 0..MaxArrivals
      BY <1>1, BoundsAssumption DEF Start, Handlers
    <3>. QED
      BY <1>1, <3>1, Moves DEF Start, Handlers
  <2>2. Tables' /\ category' = category
    BY <1>1, TablesStay DEF Start, tables
  <2>3. ChildrenJoined'
    BY <1>1, <2>1, <2>2 DEF ChildrenJoined, Start
  <2>. QED
    BY <2>1, <2>2, <2>3
<1>2. ASSUME NEW c \in Categories, NEW d \in DOMAIN category \cup {None}, NEW s \in Slugs,
             CreateCategory(r, c, d, s)
      PROVE  Inv'
  <2> DEFINE j == [Blank EXCEPT !.id = c, !.to = d, !.slug = s]
  <2>1. j \in Job /\ j.id = c /\ j.to = d /\ j.slug = s
    BY DEF Blank, Job, Tables
  <2>2. \A step \in {"insertCategory", "parent"} : step \in Steps /\ Fits(step, j)
    BY <2>1 DEF Fits, Steps, Tables
  <2>. QED
    BY <1>1, <1>2, <2>1, <2>2 DEF CreateCategory
<1>3. ASSUME NEW c \in Categories, NEW d \in DOMAIN category \cup {None, Keep}, NEW s \in Slugs \cup {Keep},
             UpdateCategory(r, c, d, s)
      PROVE  Inv'
  <2> DEFINE j == [Blank EXCEPT !.id = c, !.to = d, !.slug = s]
  <2>1. j \in Job
    BY DEF Blank, Job, Tables
  <2>2. \A step \in {"updateCategory", "categorySlug"} : step \in Steps /\ Fits(step, j)
    BY DEF Fits, Steps
  <2>. QED
    BY <1>1, <1>3, <2>1, <2>2 DEF UpdateCategory
<1>4. ASSUME NEW c \in Categories, RemoveCategory(r, c) PROVE Inv'
  <2> DEFINE j == [Blank EXCEPT !.id = c]
  <2>1. j \in Job /\ j.id = c /\ Fits("deleteCategory", j) /\ "deleteCategory" \in Steps
    BY DEF Blank, Job, Fits, Steps
  <2>. QED
    BY <1>1, <1>4, <2>1 DEF RemoveCategory
<1>5. ASSUME NEW p \in Products, NEW c \in DOMAIN category, NEW s \in Slugs, CreateProduct(r, p, c, s)
      PROVE  Inv'
  <2> DEFINE j == [Blank EXCEPT !.id = p, !.to = c, !.slug = s]
  <2>1. j \in Job /\ j.id = p /\ j.to = c /\ j.slug = s
    BY DEF Blank, Job, Tables
  <2>2. "category" \in Steps /\ Fits("category", j)
    BY <2>1 DEF Fits, Steps, Tables
  <2>. QED
    BY <1>1, <1>5, <2>1, <2>2 DEF CreateProduct
<1>6. ASSUME NEW p \in Products, NEW c \in DOMAIN category \cup {Keep}, NEW s \in Slugs \cup {Keep},
             UpdateProduct(r, p, c, s)
      PROVE  Inv'
  <2> DEFINE j == [Blank EXCEPT !.id = p, !.to = c, !.slug = s]
  <2>1. j \in Job /\ j.to = c
    BY DEF Blank, Job, Tables
  <2>2. \A step \in {"updateProduct", "productSlug"} : step \in Steps /\ Fits(step, j)
    BY <2>1 DEF Fits, Steps, Tables
  <2>. QED
    BY <1>1, <1>6, <2>1, <2>2 DEF UpdateProduct
<1>7. ASSUME NEW p \in Products, RemoveProduct(r, p) PROVE Inv'
  <2> DEFINE j == [Blank EXCEPT !.id = p]
  <2>1. j \in Job /\ "deleteProduct" \in Steps /\ Fits("deleteProduct", j)
    BY DEF Blank, Job, Fits, Steps
  <2>. QED
    BY <1>1, <1>7, <2>1 DEF RemoveProduct
<1>8. ASSUME NEW u \in Customers, NEW p \in Products, CreateReview(r, u, p) \/ AddWish(r, u, p)
      PROVE  Inv'
  <2> DEFINE j == [Blank EXCEPT !.id = p, !.user = u]
  <2>1. j \in Job /\ j.user = u
    BY DEF Blank, Job
  <2>2. \A step \in {"reviewed", "wished"} : step \in Steps /\ Fits(step, j)
    BY <2>1 DEF Fits, Steps
  <2>. QED
    BY <1>1, <1>8, <2>1, <2>2 DEF CreateReview, AddWish
<1>9. ASSUME NEW m \in reviews \cup wishes, ApproveReview(r, m) \/ RemoveReview(r, m) \/ RemoveWish(r, m)
      PROVE  Inv'
  <2> DEFINE j == [Blank EXCEPT !.mark = m.id]
  <2>1. j \in Job
    BY DEF Blank, Job, Tables, Mark
  <2>2. \A step \in {"approveReview", "deleteReview", "deleteWish"} : step \in Steps /\ Fits(step, j)
    BY DEF Fits, Steps
  <2>. QED
    BY <1>1, <1>9, <2>1, <2>2 DEF ApproveReview, RemoveReview, RemoveWish
<1>. QED
  BY <1>2, <1>3, <1>4, <1>5, <1>6, <1>7, <1>8, <1>9 DEF CategoryArrival, ProductArrival, MarkArrival

\* A look leads to a step its variables fit as well.
LEMMA LookKeeps ==
  ASSUME Inv, NEW r \in Requests, Look(r)
  PROVE  Inv'
<1> USE Parts
<1>1. PICK from \in Steps, to \in Steps :
        /\ pc[r] = from /\ pc' = [pc EXCEPT ![r] = to]
        /\ from # "deleteCategory" /\ to # "deleteCategory"
        /\ \A j \in Job : Fits(from, j) => Fits(to, j)
  BY DEF Look, FindParent, LookUpCategorySlug, FindCategory, LookUpProductSlug, FindReview, FindWish,
         Pass, Steps, Fits
<1>2. UNCHANGED <<tables, job, arrived, joined>>
  BY DEF Look, FindParent, LookUpCategorySlug, FindCategory, LookUpProductSlug, FindReview, FindWish,
         Pass
<1>3. Handlers'
  BY <1>1, <1>2 DEF Handlers
<1>4. Tables'
  BY <1>2, TablesStay
<1>5. ChildrenJoined'
  BY <1>1, <1>2 DEF ChildrenJoined, Handlers, tables
<1>. QED
  BY <1>3, <1>4, <1>5

\* A handler that ends.
LEMMA Ends ==
  ASSUME Handlers, NEW r \in Requests, NEW step, Write(r, step),
         joined' \in [Requests -> SUBSET Categories]
  PROVE  /\ Handlers'
         /\ pc'[r] = "idle"
         /\ \A x \in Requests \ {r} : pc'[x] = pc[x] /\ job'[x] = job[x]
BY Moves, BlankFits DEF Write, Steps, Handlers

\* A write of something else than a category.
LEMMA Elsewhere ==
  ASSUME Inv, NEW r \in Requests, NEW step, Write(r, step), UNCHANGED <<category, joined>>, Tables'
  PROVE  Inv'
<1>1. joined' \in [Requests -> SUBSET Categories]
  BY Parts DEF Handlers
<1>2. Handlers' /\ pc'[r] = "idle" /\ \A x \in Requests \ {r} : pc'[x] = pc[x] /\ job'[x] = job[x]
  BY <1>1, Parts, Ends
<1>3. ChildrenJoined'
  BY <1>2, Parts DEF ChildrenJoined
<1>. QED
  BY <1>2, <1>3, Parts

\* The unique index keeps slugs unique.
LEMMA PutUnique ==
  ASSUME NEW f, NEW k, NEW row, HasUniqueSlugs(f), SlugFree(f, k, row.slug)
  PROVE  HasUniqueSlugs(Put(f, k, row))
<1> DEFINE g == Put(f, k, row)
<1>1. /\ DOMAIN g = DOMAIN f \cup {k} /\ g[k] = row
      /\ \A x \in DOMAIN f \ {k} : g[x] = f[x]
  BY DEF Put
<1> HIDE DEF g
<1>2. HasUniqueSlugs(g)
  BY <1>1 DEF HasUniqueSlugs, SlugFree
<1>. QED
  BY <1>2 DEF g

\* Category c is written with row.
LEMMA CategoryWritten ==
  ASSUME Inv, NEW r \in Requests, NEW step, Write(r, step),
         NEW c \in Categories, NEW row \in CategoryRow,
         SlugFree(category, c, row.slug), Refers(category, row.parent),
         category' = Put(category, c, row), Join(c),
         UNCHANGED <<product, ordered, reviews, approved, wishes>>
  PROVE  Inv'
<1>1. joined' \in [Requests -> SUBSET Categories]
  BY Parts DEF Join, Handlers
<1>2. Handlers' /\ pc'[r] = "idle" /\ \A x \in Requests \ {r} : pc'[x] = pc[x] /\ job'[x] = job[x]
  BY <1>1, Parts, Ends
<1>3. /\ DOMAIN category' = DOMAIN category \cup {c} /\ category'[c] = row
      /\ \A x \in DOMAIN category \ {c} : category'[x] = category[x]
  BY DEF Put
<1>4. HasUniqueSlugs(category')
  BY Parts, PutUnique DEF Tables, KeysHold
<1>5. Tables'
  BY <1>3, <1>4, Parts DEF Tables, KeysHold, Refers, HasUniqueSlugs
<1>6. ChildrenJoined'
  <2> SUFFICES ASSUME NEW x \in Requests, pc'[x] = "deleteCategory",
                      NEW d \in DOMAIN category', category'[d].parent = job'[x].id
               PROVE  d \in joined'[x]
    BY DEF ChildrenJoined
  <2>1. x # r /\ pc[x] = "deleteCategory" /\ job[x] = job'[x]
    BY <1>2
  <2>2. joined'[x] = joined[x] \cup {c}
    BY <2>1, Parts DEF Join
  <2>3. d = c \/ (d \in DOMAIN category /\ category[d] = category'[d])
    BY <1>3
  <2>. QED
    BY <2>1, <2>2, <2>3, Parts DEF ChildrenJoined
<1>. QED
  BY <1>2, <1>5, <1>6, Parts

\* Product p is written with row.
LEMMA ProductWritten ==
  ASSUME Inv, NEW r \in Requests, NEW step, Write(r, step),
         NEW p \in Products, NEW row \in ProductRow,
         SlugFree(product, p, row.slug), Refers(category, row.category),
         product' = Put(product, p, row),
         UNCHANGED <<category, ordered, reviews, approved, wishes, joined>>
  PROVE  Inv'
<1>1. /\ DOMAIN product' = DOMAIN product \cup {p} /\ product'[p] = row
      /\ \A x \in DOMAIN product \ {p} : product'[x] = product[x]
  BY DEF Put
<1>2. HasUniqueSlugs(product')
  BY Parts, PutUnique DEF Tables, KeysHold
<1>3. row.category \in DOMAIN category
  BY NamesAssumption DEF Refers, ProductRow
<1>4. Tables'
  BY <1>1, <1>2, <1>3, Parts DEF Tables, KeysHold, HasUniqueSlugs
<1>. QED
  BY <1>4, Elsewhere

\* Every write at the end of a handler keeps the invariant.
LEMMA ChangeKeeps ==
  ASSUME Inv, NEW r \in Requests, Change(r)
  PROVE  Inv'
<1> DEFINE j == job[r]
<1>a. Handlers /\ Tables /\ ChildrenJoined /\ j \in Job /\ Fits(pc[r], j)
  BY Parts DEF Handlers
<1>1. CASE InsertCategory(r)
  <2> DEFINE row == [parent |-> j.to, slug |-> j.slug]
  <2>1. pc[r] = "insertCategory"
    BY <1>1 DEF InsertCategory, Write
  <2>2. j.id \in Categories /\ row \in CategoryRow
    BY <1>a, <2>1 DEF Fits, CategoryRow
  <2>. QED
    BY <1>1, <2>2, CategoryWritten DEF InsertCategory
<1>2. CASE WriteCategory(r)
  <2> DEFINE c == j.id
             row == [parent |-> Field(j.to, category[c].parent), slug |-> Field(j.slug, category[c].slug)]
  <2>1. c \in Categories /\ category[c] \in CategoryRow
    BY <1>a, <1>2 DEF WriteCategory, Tables
  <2>2. row \in CategoryRow
    BY <1>a, <2>1 DEF Field, CategoryRow, Job
  <2>. QED
    BY <1>2, <2>1, <2>2, CategoryWritten DEF WriteCategory
<1>3. CASE DeleteCategory(r)
  <2> DEFINE c == j.id
  <2>1. joined' \in [Requests -> SUBSET Categories]
    BY <1>a, <1>3 DEF DeleteCategory, Handlers
  <2>2. Handlers' /\ pc'[r] = "idle" /\ \A x \in Requests \ {r} : pc'[x] = pc[x] /\ job'[x] = job[x]
    BY <1>a, <1>3, <2>1, Ends DEF DeleteCategory
  <2>3. /\ DOMAIN category' = DOMAIN category \ {c}
        /\ \A d \in DOMAIN category' :
             category'[d] = IF category[d].parent = c THEN [category[d] EXCEPT !.parent = None]
                            ELSE category[d]
    BY <1>3 DEF DeleteCategory
  <2>4. \A d \in DOMAIN category' :
          /\ category'[d] \in CategoryRow /\ category'[d].slug = category[d].slug
          /\ category'[d].parent \in {None, category[d].parent} /\ category'[d].parent # c
    <3> SUFFICES ASSUME NEW d \in DOMAIN category'
                 PROVE  /\ category'[d] \in CategoryRow /\ category'[d].slug = category[d].slug
                        /\ category'[d].parent \in {None, category[d].parent}
                        /\ category'[d].parent # c
      OBVIOUS
    <3>1. category[d] \in CategoryRow /\ c \in Categories /\ c # None
      BY <1>3, <1>a, <2>3, NamesAssumption DEF Tables, DeleteCategory
    <3>. QED
      BY <2>3, <3>1 DEF CategoryRow
  <2>5. \A d \in DOMAIN category' : category'[d].parent \in DOMAIN category' \cup {None}
    BY <1>a, <2>3, <2>4 DEF Tables, KeysHold
  <2>6. HasUniqueSlugs(category')
    BY <1>a, <2>3, <2>4 DEF Tables, KeysHold, HasUniqueSlugs
  <2>7. \A p \in DOMAIN product : product[p].category \in DOMAIN category'
    BY <1>3, <1>a, <2>3 DEF DeleteCategory, Unused, Tables, KeysHold
  <2>8. Tables'
    BY <1>3, <1>a, <2>3, <2>4, <2>5, <2>6, <2>7 DEF DeleteCategory, Tables, KeysHold, HasUniqueSlugs
  <2>9. ChildrenJoined'
    <3> SUFFICES ASSUME NEW x \in Requests, pc'[x] = "deleteCategory",
                        NEW d \in DOMAIN category', category'[d].parent = job'[x].id
                 PROVE  d \in joined'[x]
      BY DEF ChildrenJoined
    <3>1. x # r /\ pc[x] = "deleteCategory" /\ job[x] = job'[x]
      BY <2>2
    <3>2. job[x].id # None
      BY <1>a, <3>1, NamesAssumption DEF Handlers, Fits
    <3>3. d \in DOMAIN category /\ category[d].parent = job[x].id
      BY <2>3, <2>4, <3>1, <3>2
    <3>4. joined'[x] = joined[x]
      BY <1>a, <1>3, <3>1 DEF DeleteCategory, Handlers
    <3>. QED
      BY <1>a, <3>1, <3>3, <3>4 DEF ChildrenJoined
  <2>. QED
    BY <2>2, <2>8, <2>9, Parts
<1>4. CASE InsertProduct(r)
  <2> DEFINE row == [category |-> j.to, slug |-> j.slug]
  <2>1. pc[r] = "insertProduct"
    BY <1>4 DEF InsertProduct, Write
  <2>2. j.id \in Products /\ row \in ProductRow
    BY <1>a, <2>1 DEF Fits, ProductRow
  <2>. QED
    BY <1>4, <2>2, ProductWritten DEF InsertProduct
<1>5. CASE WriteProduct(r)
  <2> DEFINE p == j.id
             row == [category |-> Field(j.to, product[p].category), slug |-> Field(j.slug, product[p].slug)]
  <2>1. p \in Products /\ product[p] \in ProductRow
    BY <1>a, <1>5 DEF WriteProduct, Tables
  <2>2. j.to \in Categories \cup {Keep}
    BY <1>a, <1>5 DEF WriteProduct, Write, Fits
  <2>3. row \in ProductRow
    BY <1>a, <2>1, <2>2 DEF Field, ProductRow, Job
  <2>. QED
    BY <1>5, <2>1, <2>3, ProductWritten DEF WriteProduct
<1>6. CASE DeleteProduct(r)
  <2>1. /\ DOMAIN product' = DOMAIN product \ {j.id}
        /\ \A p \in DOMAIN product' : product'[p] = product[p]
    BY <1>6 DEF DeleteProduct, Without
  <2>2. Tables'
    BY <1>6, <1>a, <2>1 DEF DeleteProduct, SetReviews, Tables, KeysHold, HasUniqueSlugs
  <2>. QED
    BY <1>6, <2>2, Elsewhere DEF DeleteProduct
<1>7. CASE WriteApproval(r)
  <2>1. Tables'
    BY <1>7, <1>a DEF WriteApproval, Tables, KeysHold, HasUniqueSlugs, Mark
  <2>. QED
    BY <1>7, <2>1, Elsewhere DEF WriteApproval
<1>8. CASE DeleteReview(r)
  <2>1. Tables'
    BY <1>8, <1>a DEF DeleteReview, SetReviews, Tables, KeysHold, HasUniqueSlugs
  <2>. QED
    BY <1>8, <2>1, Elsewhere DEF DeleteReview
<1>9. CASE DeleteWish(r)
  <2>1. Tables'
    BY <1>9, <1>a DEF DeleteWish, Tables, KeysHold, HasUniqueSlugs
  <2>. QED
    BY <1>9, <2>1, Elsewhere DEF DeleteWish
<1>10. ASSUME NEW id \in MarkIds, InsertReview(r, id) \/ InsertWish(r, id) PROVE Inv'
  <2>1. NewMark(j, id) \in Mark
    <3>1. j.user \in Customers /\ j.id \in Products
      BY <1>10, <1>a DEF InsertReview, InsertWish, Write, Fits, Tables
    <3>. QED
      BY <3>1 DEF NewMark, Mark
  <2>2. CASE InsertReview(r, id)
    <3>1. Tables'
      BY <2>1, <2>2, <1>a DEF InsertReview, NewMark, Tables, KeysHold, HasUniqueSlugs
    <3>. QED
      BY <2>2, <3>1, Elsewhere DEF InsertReview
  <2>3. CASE InsertWish(r, id)
    <3>1. Tables'
      BY <2>1, <2>3, <1>a DEF InsertWish, NewMark, Has, Tables, KeysHold, HasUniqueSlugs
    <3>. QED
      BY <2>3, <3>1, Elsewhere DEF InsertWish
  <2>. QED
    BY <1>10, <2>2, <2>3
<1>. QED
  BY <1>1, <1>2, <1>3, <1>4, <1>5, <1>6, <1>7, <1>8, <1>9, <1>10 DEF Change

\* Every step keeps the invariant.
LEMMA InvStep == Inv /\ [Next]_vars => Inv'
<1> SUFFICES ASSUME Inv, [Next]_vars PROVE Inv'
  OBVIOUS
<1>1. ASSUME NEW r \in Requests, Fail(r) PROVE Inv'
  <2>1. joined' \in [Requests -> SUBSET Categories]
    BY <1>1, Parts DEF Fail, Handlers
  <2>2. Handlers' /\ pc'[r] = "idle" /\ \A x \in Requests \ {r} : pc'[x] = pc[x] /\ job'[x] = job[x]
    BY <1>1, <2>1, Parts, Ends DEF Fail
  <2>3. Tables' /\ category' = category
    BY <1>1, Parts, TablesStay DEF Fail, tables
  <2>4. ChildrenJoined'
    BY <1>1, <2>2, <2>3, Parts DEF Fail, ChildrenJoined, Handlers
  <2>. QED
    BY <2>2, <2>3, <2>4, Parts
<1>2. ASSUME NEW p \in Products, OrderProduct(p) PROVE Inv'
  <2>1. Tables'
    BY <1>2, Parts DEF OrderProduct, Tables, KeysHold, HasUniqueSlugs
  <2>. QED
    BY <1>2, <2>1, Parts DEF OrderProduct, Handlers, ChildrenJoined
<1>3. CASE UNCHANGED vars
  <2>1. Tables'
    BY <1>3, Parts, TablesStay DEF vars
  <2>. QED
    BY <1>3, <2>1, Parts DEF vars, tables, Handlers, ChildrenJoined
<1>. QED
  BY <1>1, <1>2, <1>3, ArrivalKeeps, LookKeeps, ChangeKeeps DEF Next

-----------------------------------------------------------------------------
(* The number of reviews.                                                   *)

ReviewsOf(u, p) == {m \in reviews : m.user = u /\ m.product = p}

\* Requests that have found no review of the customer and will store one.
Reviewing(u, p) == {r \in Requests : pc[r] = "insertReview" /\ job[r].user = u /\ job[r].id = p}

\* Each of them adds one.
Counted(u, p) ==
  /\ IsFiniteSet(ReviewsOf(u, p))
  /\ Cardinality(ReviewsOf(u, p)) + Cardinality(Reviewing(u, p)) <= Cardinality(Requests)

AllCounted == \A u \in Customers, p \in Products : Counted(u, p)

\* No review and no request about to store one is new.
Calm ==
  /\ reviews' \subseteq reviews
  /\ \A r \in Requests : pc'[r] = "insertReview" => pc[r] = "insertReview" /\ job'[r] = job[r]

\* Sets of requests are finite, and no larger than all of them.
LEMMA RequestsFinite ==
  /\ Cardinality(Requests) \in Nat
  /\ \A S \in SUBSET Requests :
       IsFiniteSet(S) /\ Cardinality(S) \in Nat /\ Cardinality(S) <= Cardinality(Requests)
BY BoundsAssumption, FS_CardinalityType, FS_Subset

\* A calm step keeps the count.
LEMMA CalmCounted ==
  ASSUME AllCounted, Calm, NEW u \in Customers, NEW p \in Products
  PROVE  Counted(u, p)'
<1>1. ReviewsOf(u, p)' \subseteq ReviewsOf(u, p) /\ Reviewing(u, p)' \subseteq Reviewing(u, p)
  BY DEF Calm, ReviewsOf, Reviewing
<1>2. IsFiniteSet(ReviewsOf(u, p)) /\ IsFiniteSet(Reviewing(u, p))
  BY RequestsFinite DEF AllCounted, Counted, Reviewing
<1>3. /\ IsFiniteSet(ReviewsOf(u, p)')
      /\ Cardinality(ReviewsOf(u, p)') <= Cardinality(ReviewsOf(u, p))
      /\ Cardinality(Reviewing(u, p)') <= Cardinality(Reviewing(u, p))
  BY <1>1, <1>2, FS_Subset
<1>4. /\ Cardinality(ReviewsOf(u, p)) \in Nat /\ Cardinality(Reviewing(u, p)) \in Nat
      /\ Cardinality(ReviewsOf(u, p)') \in Nat /\ Cardinality(Reviewing(u, p)') \in Nat
  BY <1>1, <1>2, <1>3, FS_Subset, FS_CardinalityType
<1>. QED
  BY <1>3, <1>4, RequestsFinite DEF AllCounted, Counted

\* All steps but two are calm.
LEMMA MostAreCalm ==
  Inv /\ [Next]_vars
    => Calm \/ \E r \in Requests : FindReview(r) \/ \E id \in MarkIds : InsertReview(r, id)
<1> SUFFICES ASSUME Inv, [Next]_vars,
                    ~\E r \in Requests : FindReview(r) \/ \E id \in MarkIds : InsertReview(r, id)
             PROVE  Calm
  OBVIOUS
<1>a. pc \in [Requests -> Steps] /\ job \in [Requests -> Job]
  BY Parts DEF Handlers
<1>1. ASSUME NEW r \in Requests, NEW step \in {pc'[r]}, step # "insertReview",
             pc' = [pc EXCEPT ![r] = step], \A x \in Requests \ {r} : job'[x] = job[x],
             reviews' \subseteq reviews
      PROVE  Calm
  BY <1>1, <1>a DEF Calm
<1>2. ASSUME NEW r \in Requests, NEW step, Write(r, step), reviews' \subseteq reviews
      PROVE  Calm
  BY <1>1, <1>2, <1>a DEF Write
<1>3. ASSUME NEW r \in Requests, NEW step, NEW j, step # "insertReview", Start(r, step, j) PROVE Calm
  BY <1>1, <1>3, <1>a DEF Start, tables
<1>4. ASSUME NEW r \in Requests, CategoryArrival(r) PROVE Calm
  BY <1>3, <1>4 DEF CategoryArrival, CreateCategory, UpdateCategory, RemoveCategory
<1>5. ASSUME NEW r \in Requests, ProductArrival(r) PROVE Calm
  BY <1>3, <1>5 DEF ProductArrival, CreateProduct, UpdateProduct, RemoveProduct
<1>6. ASSUME NEW r \in Requests, MarkArrival(r) PROVE Calm
  BY <1>3, <1>6 DEF MarkArrival, CreateReview, AddWish, ApproveReview, RemoveReview, RemoveWish
<1>7. ASSUME NEW r \in Requests, Look(r) PROVE Calm
  <2>1. PICK from, to : Pass(r, from, to, TRUE) /\ to # "insertReview"
    BY <1>7 DEF Look, FindParent, LookUpCategorySlug, FindCategory, LookUpProductSlug, FindWish, Pass
  <2>. QED
    BY <1>1, <1>a, <2>1 DEF Pass, tables
<1>8. ASSUME NEW r \in Requests, Change(r) PROVE Calm
  <2>1. reviews' \subseteq reviews /\ \E step : Write(r, step)
    BY <1>8
    DEF Change, InsertCategory, WriteCategory, DeleteCategory, InsertProduct, WriteProduct, DeleteProduct,
        WriteApproval, DeleteReview, DeleteWish, InsertWish, SetReviews
  <2>. QED
    BY <1>2, <2>1
<1>9. ASSUME NEW r \in Requests, Fail(r) PROVE Calm
  BY <1>2, <1>9 DEF Fail, tables
<1>10. CASE (\E p \in Products : OrderProduct(p)) \/ UNCHANGED vars
  BY <1>10 DEF OrderProduct, vars, tables, Calm
<1>. QED
  BY <1>4, <1>5, <1>6, <1>7, <1>8, <1>9, <1>10 DEF Next

\* The other two keep the count too: who passes the look found no review, and who
\* stores one is not about to any more.
LEMMA CountStep == Inv /\ AllCounted /\ [Next]_vars => AllCounted'
<1> SUFFICES ASSUME Inv, AllCounted, [Next]_vars, NEW u \in Customers, NEW p \in Products
             PROVE  Counted(u, p)'
  BY DEF AllCounted
<1>a. pc \in [Requests -> Steps] /\ job \in [Requests -> Job]
  BY Parts DEF Handlers
<1>1. CASE Calm
  BY <1>1, CalmCounted
<1>2. ASSUME NEW r \in Requests, FindReview(r), job[r].user = u /\ job[r].id = p
      PROVE  Counted(u, p)'
  <2>1. ReviewsOf(u, p)' = {}
    BY <1>2 DEF FindReview, Pass, Has, tables, ReviewsOf
  <2>2. Reviewing(u, p)' \in SUBSET Requests
    BY DEF Reviewing
  <2>. QED
    BY <2>1, <2>2, FS_EmptySet, RequestsFinite DEF Counted
<1>3. ASSUME NEW r \in Requests, NEW id \in MarkIds, InsertReview(r, id), job[r].user = u /\ job[r].id = p
      PROVE  Counted(u, p)'
  <2>1. PICK m : ReviewsOf(u, p)' \subseteq ReviewsOf(u, p) \cup {m}
    <3>1. ReviewsOf(u, p)' \subseteq ReviewsOf(u, p) \cup {NewMark(job[r], id)}
      BY <1>3 DEF InsertReview, ReviewsOf
    <3>. QED
      BY <3>1
  <2>2. Reviewing(u, p)' = Reviewing(u, p) \ {r} /\ r \in Reviewing(u, p)
    BY <1>3, <1>a DEF InsertReview, Write, Reviewing
  <2>3. IsFiniteSet(ReviewsOf(u, p)) /\ Cardinality(ReviewsOf(u, p)) \in Nat
    BY FS_CardinalityType DEF AllCounted, Counted
  <2>4. IsFiniteSet(Reviewing(u, p)) /\ Cardinality(Reviewing(u, p)) \in Nat
    BY RequestsFinite DEF Reviewing
  <2>5. /\ IsFiniteSet(ReviewsOf(u, p)') /\ Cardinality(ReviewsOf(u, p)') \in Nat
        /\ Cardinality(ReviewsOf(u, p)') <= Cardinality(ReviewsOf(u, p)) + 1
    <3> DEFINE More == ReviewsOf(u, p) \cup {m}
    <3>1. /\ IsFiniteSet(More)
          /\ Cardinality(More) \in {Cardinality(ReviewsOf(u, p)), Cardinality(ReviewsOf(u, p)) + 1}
      BY <2>3, FS_AddElement
    <3>2. Cardinality(More) <= Cardinality(ReviewsOf(u, p)) + 1 /\ Cardinality(More) \in Nat
      BY <2>3, <3>1
    <3>3. /\ IsFiniteSet(ReviewsOf(u, p)') /\ Cardinality(ReviewsOf(u, p)') \in Nat
          /\ Cardinality(ReviewsOf(u, p)') <= Cardinality(More)
      BY <2>1, <3>1, FS_Subset, FS_CardinalityType
    <3>. QED
      BY <2>3, <3>2, <3>3
  <2>6. Cardinality(Reviewing(u, p)') = Cardinality(Reviewing(u, p)) - 1
    BY <2>2, <2>4, FS_RemoveElement
  <2>. QED
    BY <2>3, <2>4, <2>5, <2>6, RequestsFinite DEF AllCounted, Counted
<1>4. ASSUME NEW r \in Requests, FindReview(r) \/ \E id \in MarkIds : InsertReview(r, id),
             ~(job[r].user = u /\ job[r].id = p)
      PROVE  Counted(u, p)'
  <2>1. ReviewsOf(u, p)' = ReviewsOf(u, p)
    BY <1>4 DEF FindReview, Pass, InsertReview, NewMark, tables, ReviewsOf
  <2>2. Reviewing(u, p)' = Reviewing(u, p)
    BY <1>4, <1>a DEF FindReview, Pass, InsertReview, Write, Reviewing
  <2>. QED
    BY <2>1, <2>2 DEF AllCounted, Counted
<1>. QED
  BY <1>1, <1>2, <1>3, <1>4, MostAreCalm

-----------------------------------------------------------------------------
(* The theorems.                                                            *)

\* The invariant holds throughout.
THEOREM Inductive == Spec => []Inv
BY InitInv, InvStep, PTL DEF Spec

\* Rows keep their types: an edit that does not mention a field leaves it one of
\* its values.
THEOREM TypeCorrect == Spec => []TypeOK
<1>1. Inv => TypeOK
  BY DEF Inv
<1>. QED
  BY <1>1, Inductive, PTL

\* Slugs and wishes stay unique and no reference dangles, though every handler
\* looks first and writes later.
THEOREM KeysAreHeld == Spec => []KeysHold
<1>1. Inv => KeysHold
  BY DEF Inv
<1>. QED
  BY <1>1, Inductive, PTL

\* However many requests to review a product overlap, a customer has no more
\* reviews of it than there are requests.
THEOREM ReviewsAreBounded == Spec => []ReviewsBounded
<1>1. Init => AllCounted
  <2> SUFFICES ASSUME Init, NEW u \in Customers, NEW p \in Products
               PROVE  Counted(u, p)
    BY DEF AllCounted
  <2>1. ReviewsOf(u, p) = {} /\ Reviewing(u, p) = {}
    BY DEF Init, ReviewsOf, Reviewing
  <2>. QED
    BY <2>1, FS_EmptySet, RequestsFinite DEF Counted
<1>2. Inv /\ AllCounted /\ [Next]_vars => AllCounted'
  BY CountStep
<1>3. AllCounted => ReviewsBounded
  <2> SUFFICES ASSUME AllCounted, NEW u \in Customers, NEW p \in Products
               PROVE  Cardinality(ReviewsOf(u, p)) <= Cardinality(Requests)
    BY DEF ReviewsBounded, ReviewsOf
  <2>1. Cardinality(ReviewsOf(u, p)) \in Nat /\ Cardinality(Reviewing(u, p)) \in Nat
    BY RequestsFinite, FS_CardinalityType DEF AllCounted, Counted, Reviewing
  <2>. QED
    BY <2>1, RequestsFinite DEF AllCounted, Counted
<1>. QED
  BY <1>1, <1>2, <1>3, Inductive, PTL DEF Spec

\* A category loses its parent only when it was written after remove looked for
\* children.
THEOREM OrphansCameLate == Spec => OrphansAreLate
<1> DEFINE Late ==
      \A c \in DOMAIN category \ DOMAIN category', d \in DOMAIN category' :
        (d \in DOMAIN category /\ category[d].parent = c) =>
          \E r \in Requests : pc[r] = "deleteCategory" /\ job[r].id = c /\ d \in joined[r]
<1>1. Inv /\ [Next]_vars => [Late]_vars
  <2> SUFFICES ASSUME Inv, Next,
                      NEW c \in DOMAIN category \ DOMAIN category', NEW d \in DOMAIN category',
                      d \in DOMAIN category, category[d].parent = c
               PROVE  \E r \in Requests : pc[r] = "deleteCategory" /\ job[r].id = c /\ d \in joined[r]
    OBVIOUS
  <2>1. PICK r \in Requests : DeleteCategory(r)
    <3>1. ASSUME NEW r \in Requests, Change(r), ~DeleteCategory(r) PROVE FALSE
      BY <3>1
      DEF Change, InsertCategory, WriteCategory, InsertProduct, WriteProduct, DeleteProduct,
          WriteApproval, DeleteReview, DeleteWish, InsertReview, InsertWish, SetReviews, Put
    <3>2. ASSUME NEW r \in Requests, Look(r) \/ Fail(r) PROVE FALSE
      BY <3>2
      DEF Look, FindParent, LookUpCategorySlug, FindCategory, LookUpProductSlug, FindReview, FindWish,
          Pass, Fail, tables
    <3>3. ASSUME NEW r \in Requests, CategoryArrival(r) \/ ProductArrival(r) \/ MarkArrival(r) PROVE FALSE
      BY <3>3
      DEF CategoryArrival, CreateCategory, UpdateCategory, RemoveCategory, ProductArrival, CreateProduct,
          UpdateProduct, RemoveProduct, MarkArrival, CreateReview, AddWish, ApproveReview, RemoveReview,
          RemoveWish, Start, tables
    <3>4. ~\E p \in Products : OrderProduct(p)
      BY DEF OrderProduct
    <3>. QED
      BY <3>1, <3>2, <3>3, <3>4 DEF Next
  <2>2. pc[r] = "deleteCategory" /\ DOMAIN category' = DOMAIN category \ {job[r].id}
    BY <2>1 DEF DeleteCategory, Write
  <2>3. job[r].id = c
    BY <2>2
  <2>. QED
    BY <2>2, <2>3, Parts DEF ChildrenJoined
<1>. QED
  BY <1>1, Inductive, PTL DEF Spec, OrphansAreLate
=============================================================================
