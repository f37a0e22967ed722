------------------------------- MODULE Catalogue -------------------------------
(***************************************************************************)
(* The catalogue behind its cache: products, promotions and categories, the*)
(* public answers kept in Redis, the requests that fill them, and the      *)
(* administrators whose changes delete them.                               *)
(*                                                                         *)
(* An answer is read from the database with several statements and stored  *)
(* with one more round trip.  A change emits its event after the flush and *)
(* before the commit; the event's handler is a task of its own, so it may  *)
(* delete the answers before the change can be read.  Redis may fail, in   *)
(* which case a deletion is skipped; every entry expires in the end.       *)
(*                                                                         *)
(* All products bear one name: product n has the slug with suffix n, and a *)
(* higher suffix was created later.                                        *)
(***************************************************************************)
EXTENDS Integers, FiniteSets, Sequences

CONSTANTS
    MaxProducts,  \* suffixes a slug may get
    Prices,
    PerPage,      \* products on a page of the listing
    Promotions, Categories,
    Opening,      \* catalogues to start from: products by slug
    Drafts,       \* products an administrator may create
    Followed,     \* sets of cache keys, one of which a behaviour follows
    Readers,      \* public requests that missed the cache, at the same time
    Admins,       \* changes under way at the same time
    MaxChanges,   \* bound on changes by administrators
    MaxSilent,    \* bound on changes that emit no event
    MaxOutages    \* bound on commands Redis fails

ASSUME BoundsAssumption ==
    /\ MaxProducts \in Nat \ {0}
    /\ PerPage \in Nat \ {0}
    /\ Prices \subseteq Nat
    /\ MaxChanges \in Nat /\ MaxSilent \in Nat /\ MaxOutages \in Nat

Slugs == 1 .. MaxProducts
Nothing == 0
Pages == 1 .. MaxProducts

VARIABLES
    products,    \* products by slug, with what their variants hold together
    promotions,  \* promotions that are active, and for what
    categories,  \* category ids
    cache,       \* Redis: at most one entry per key, for the keys that are followed
    reader,      \* public requests under way
    admin,       \* changes under way, and what their handlers have yet to delete
    changes, silent, outages

shop == <<products, promotions, categories>>
bounds == <<changes, silent, outages>>
vars == <<shop, cache, reader, admin, bounds>>

NoProduct == [state |-> "absent"]
Product == [state : {"live", "deleted"}, price : Prices, stock : {0, 1},
            category : Categories \cup {Nothing}]

ListKeys == [kind : {"list"}, at : Pages]
DetailKeys == [kind : {"detail"}, at : Slugs]
PromotionKeys == {[kind |-> "promotions", at |-> Nothing]}
CategoryKeys == {[kind |-> "categories", at |-> Nothing]}
Keys == ListKeys \cup DetailKeys \cup PromotionKeys \cup CategoryKeys

ASSUME OpeningAssumption ==
    /\ Opening \subseteq [Slugs -> Product \cup {NoProduct}]
    /\ Drafts \subseteq Product
    /\ Followed \subseteq SUBSET Keys

Free == [phase |-> "free"]
NoTask == <<>>

Init ==
    /\ products \in Opening
    /\ promotions = [p \in Promotions |-> Nothing]
    /\ categories = Categories
    /\ cache \in {[k \in K |-> {}] : K \in Followed}
    /\ reader = [r \in Readers |-> Free]
    /\ admin = [a \in Admins |-> [phase |-> "free", todo |-> NoTask]]
    /\ changes = 0
    /\ silent = 0
    /\ outages = 0

-----------------------------------------------------------------------------
\* What the database answers.

\* Mutant: a soft-deleted product is still served.
LiveOrDeleted == {s \in Slugs : products[s] # NoProduct}

Live == {s \in Slugs : products[s].state = "live"}

\* promotions[p]: Nothing while p is not active, a slug, or "all" for store-wide.
Everything == MaxProducts + 1
Applies(p, s) == promotions[p] \in {s, Everything}
Promoted(s) == \E p \in Promotions : Applies(p, s)

\* Products with stock first, then the newest.
\* A product's place is how many come before it.
InOrder(held) ==
    LET Before(s) == {t \in DOMAIN held : held[t] > held[s] \/ (held[t] = held[s] /\ t > s)} IN
    [i \in 1 .. Cardinality(DOMAIN held) |->
        CHOOSE s \in DOMAIN held : Cardinality(Before(s)) = i - 1]
Listing == InOrder([s \in Live |-> products[s].stock])

\* The page asked for is clamped to the pages there are, by the count taken.
LastPage(total) == IF total = 0 THEN 1 ELSE (total + PerPage - 1) \div PerPage
Clamped(page, total) == IF page > LastPage(total) THEN LastPage(total) ELSE page
Rows(page, total) ==
    LET offset == (Clamped(page, total) - 1) * PerPage IN
    SubSeq(Listing, offset + 1,
           IF offset + PerPage < Len(Listing) THEN offset + PerPage ELSE Len(Listing))

\* Of what further statements add from the variants, what follows from the stock.
OutOfStock(s) == products[s].stock = 0
Summary == [s \in Live |->
    [slug |-> s, price |-> products[s].price, stock |-> products[s].stock,
     soldOut |-> OutOfStock(s)]]
Page(rows, total) == [rows |-> [i \in DOMAIN rows |-> Summary[rows[i]]], total |-> total]

\* The products of an answer, whose promotions are looked up.
Shown(k, value) ==
    IF k.kind = "detail" THEN {k.at} ELSE {value.rows[i].slug : i \in DOMAIN value.rows}
Priced(k, value) == \A s \in Shown(k, value) : ~Promoted(s)

\* The answer a request gets that finds the cache empty and nobody else at work:
\* none, for a product that is not there or a page with a product that has a
\* promotion, whose sale price multiplies a Decimal by a float and raises.
Answer(k) ==
    CASE k.kind = "detail" ->
            IF k.at \in Live /\ Priced(k, products[k.at]) THEN {products[k.at]} ELSE {}
      [] k.kind = "list" ->
            LET total == Cardinality(Live)
                page == Page(Rows(k.at, total), total)
            IN IF Priced(k, page) THEN {page} ELSE {}
      [] k.kind = "promotions" -> {promotions}
      [] k.kind = "categories" -> {categories}

-----------------------------------------------------------------------------
\* A public request.  It is quiet while no change is under way.

AtRest == \A a \in Admins : admin[a].phase = "free" /\ admin[a].todo = NoTask

\* The listing may be asked for with filters.
Filterable(k) == IF k.kind = "list" THEN BOOLEAN ELSE {FALSE}

ReaderMisses(r) ==
    /\ reader[r] = Free
    /\ \E k \in DOMAIN cache : \E filtered \in Filterable(k) :
        /\ ~filtered => cache[k] = {}
        /\ reader' = [reader EXCEPT ![r] =
                [phase |-> "missed", key |-> k, filtered |-> filtered, quiet |-> AtRest,
                 total |-> 0, value |-> {}]]
    /\ UNCHANGED <<shop, cache, admin, bounds>>

\* Whether any filter is set that is not the page or the language.
HasActiveFilters(q) == q.filtered

Becomes(r, phase, total, value) ==
    reader' = [reader EXCEPT ![r].phase = phase, ![r].total = total, ![r].value = value]

\* SELECT count(*); a filter leaves out what it may.
ReaderCounts(r) ==
    LET q == reader[r] IN
    /\ q.phase = "missed"
    /\ q.key.kind = "list"
    /\ Becomes(r, "counted", IF q.filtered THEN 0 ELSE Cardinality(Live), {})
    /\ UNCHANGED <<shop, cache, admin, bounds>>

\* 404: there is nothing to answer, nor to store.
NotFound(q) == q.key.at \notin Live

\* The page itself, by the count, or the product.
ReaderReads(r) ==
    LET q == reader[r] IN
    /\ \/ /\ q.phase = "counted"
          /\ LET rows == IF q.filtered THEN <<>> ELSE Rows(q.key.at, q.total) IN
             Becomes(r, "read", q.total, {Page(rows, q.total)})
       \/ /\ q.phase = "missed"
          /\ q.key.kind = "detail"
          /\ IF NotFound(q)
             THEN reader' = [reader EXCEPT ![r] = Free]
             ELSE Becomes(r, "read", 0, {products[q.key.at]})
    /\ UNCHANGED <<shop, cache, admin, bounds>>

\* The promotions of what was read; the other two lists are one statement.
ReaderPrices(r) ==
    LET q == reader[r] IN
    /\ \/ /\ q.phase = "read"
          /\ IF \A value \in q.value : Priced(q.key, value)
             THEN Becomes(r, "priced", q.total, q.value)
             ELSE Becomes(r, "failed", 0, {})
       \/ /\ q.phase = "missed"
          /\ q.key \in PromotionKeys \cup CategoryKeys
          /\ Becomes(r, "priced", 0, Answer(q.key))
    /\ UNCHANGED <<shop, cache, admin, bounds>>

ReaderStores(r) ==
    LET q == reader[r] IN
    /\ q.phase = "priced"
    /\ cache' = IF HasActiveFilters(q) THEN cache
                ELSE [cache EXCEPT ![q.key] =
                        {[value |-> v, quiet |-> q.quiet] : v \in q.value}]
    /\ reader' = [reader EXCEPT ![r] = Free]
    /\ UNCHANGED <<shop, admin, bounds>>

\* The request fails, or Redis refuses what it would store.
ReaderLeaves(r) ==
    /\ \/ reader[r].phase = "failed" /\ UNCHANGED outages
       \/ /\ reader[r].phase = "priced"
          /\ outages < MaxOutages
          /\ outages' = outages + 1
    /\ reader' = [reader EXCEPT ![r] = Free]
    /\ UNCHANGED <<shop, cache, admin, changes, silent>>

\* Mutant: only the products' own entries have a time to live.
ExpireDetail(k) ==
    /\ k \in DetailKeys \cap DOMAIN cache
    /\ cache[k] # {}
    /\ cache' = [cache EXCEPT ![k] = {}]
    /\ UNCHANGED <<shop, reader, admin, bounds>>

\* SET with EX: every entry has a time to live.
Expire(k) ==
    /\ k \in DOMAIN cache
    /\ cache[k] # {}
    /\ cache' = [cache EXCEPT ![k] = {}]
    /\ UNCHANGED <<shop, reader, admin, bounds>>

-----------------------------------------------------------------------------
\* The handlers of the three events: what they delete, in their order.

\* Mutant: a promotion leaves the products' own entries alone.
PromotionChangedLists == <<PromotionKeys, ListKeys>>

ProductChanged(s) == <<ListKeys, {[kind |-> "detail", at |-> s]}, PromotionKeys>>
CategoryChanged == <<CategoryKeys>>
PromotionChanged == <<PromotionKeys, ListKeys, DetailKeys>>

\* A change that is flushed and has emitted its event; whoever reads from now on,
\* or is reading, is not quiet.
Disturbed == [r \in Readers |->
    IF reader[r] = Free THEN Free ELSE [reader[r] EXCEPT !.quiet = FALSE]]

Flush(a, change, todo) ==
    /\ admin' = [admin EXCEPT ![a] = [phase |-> "flushed", change |-> change, todo |-> todo]]
    /\ reader' = Disturbed

Starts(a) ==
    /\ admin[a] = [phase |-> "free", todo |-> NoTask]
    /\ changes < MaxChanges
    /\ changes' = changes + 1

\* Rows another change has flushed stay locked until it ends.
Unlocked(kinds, at) == \A b \in Admins :
    admin[b].phase = "flushed" /\ admin[b].change.kind \in kinds => admin[b].change.at # at
ProductKinds == {"create", "edit", "delete"}

\* POST /admin/products: the first suffix no product has or had.
\* Mutant: only products for sale keep their slug.
UnusedBySale == {s \in Slugs : products[s].state # "live"}

Unused == {s \in Slugs : products[s] = NoProduct}

CreateBegins(a) ==
    /\ Starts(a)
    /\ Unused # {}
    /\ \E d \in Drafts :
        admin' = [admin EXCEPT ![a] =
            [phase |-> "named", todo |-> NoTask, disturbed |-> FALSE,
             change |-> [kind |-> "create", at |-> CHOOSE s \in Unused : \A t \in Unused : s <= t,
                         to |-> d]]]
    /\ UNCHANGED <<shop, cache, reader, silent, outages>>

\* A slug that is taken by now fails the flush, and the retry with it: the
\* transaction it would run in is rolled back.  So does a category that is gone.
Insertable(c) == products[c.at] = NoProduct /\ c.to.category \in categories \cup {Nothing}

CreateFlushes(a) ==
    LET c == admin[a].change IN
    /\ admin[a].phase = "named"
    /\ Unlocked({"create"}, c.at)
    /\ Unlocked({"category"}, c.to.category)
    /\ IF Insertable(c) THEN Flush(a, c, ProductChanged(c.at))
       ELSE /\ admin' = [admin EXCEPT ![a] = [phase |-> "free", todo |-> NoTask]]
            /\ UNCHANGED reader
    /\ UNCHANGED <<shop, cache, bounds>>

\* PUT and DELETE /admin/products: a live product is changed or soft-deleted.  An
\* edit that changes nothing emits its event too, like one that is rolled back.
EditProduct(a) ==
    /\ Starts(a)
    /\ \E s \in Live : \E n \in Prices \ {products[s].price} :
        /\ Unlocked(ProductKinds, s)
        /\ Flush(a, [kind |-> "edit", at |-> s, to |-> n], ProductChanged(s))
    /\ UNCHANGED <<shop, cache, silent, outages>>

DeleteProduct(a) ==
    /\ Starts(a)
    /\ \E s \in Live :
        /\ Unlocked(ProductKinds, s)
        /\ Flush(a, [kind |-> "delete", at |-> s, to |-> Nothing], ProductChanged(s))
    /\ UNCHANGED <<shop, cache, silent, outages>>

\* POST, PUT and DELETE /admin/promotions.
EditPromotion(a) ==
    /\ Starts(a)
    /\ \E p \in Promotions : \E to \in ({Nothing, Everything} \cup Slugs) \ {promotions[p]} :
        /\ Unlocked({"promotion"}, p)
        /\ to \in Slugs => products[to] # NoProduct
        /\ Flush(a, [kind |-> "promotion", at |-> p, to |-> to], PromotionChanged)
    /\ UNCHANGED <<shop, cache, silent, outages>>

\* POST and PUT /admin/categories: they load the category with an attribute where
\* a loader option belongs, which raises before the event; nothing stays written.
WriteCategoryFails(a) ==
    /\ Starts(a)
    /\ UNCHANGED <<shop, cache, reader, admin, silent, outages>>

\* DELETE /admin/categories: none of its products is live, when they are counted.
CountProducts(c) == Cardinality({s \in Live : products[s].category = c})

DeleteCategoryBegins(a) ==
    /\ Starts(a)
    /\ \E c \in categories :
        /\ CountProducts(c) = 0
        /\ admin' = [admin EXCEPT ![a] = [phase |-> "counted", todo |-> NoTask,
                        change |-> [kind |-> "category", at |-> c, to |-> Nothing]]]
    /\ UNCHANGED <<shop, cache, reader, silent, outages>>

\* The foreign key of a product that is being inserted holds the category.
DeleteCategoryFlushes(a) ==
    LET c == admin[a].change IN
    /\ admin[a].phase = "counted"
    /\ Unlocked({"category"}, c.at)
    /\ \A b \in Admins :
        admin[b].phase = "flushed" /\ admin[b].change.kind = "create" =>
            admin[b].change.to.category # c.at
    /\ IF c.at \in categories THEN Flush(a, c, CategoryChanged)
       ELSE /\ admin' = [admin EXCEPT ![a] = [phase |-> "free", todo |-> NoTask]]
            /\ UNCHANGED reader
    /\ UNCHANGED <<shop, cache, bounds>>

Apply(c) ==
    CASE c.kind = "create" ->
            /\ products' = [products EXCEPT ![c.at] = c.to]
            /\ UNCHANGED <<promotions, categories>>
      [] c.kind = "edit" ->
            /\ products' = [products EXCEPT ![c.at].price = c.to]
            /\ UNCHANGED <<promotions, categories>>
      [] c.kind = "delete" ->
            /\ products' = [products EXCEPT ![c.at].state = "deleted"]
            /\ UNCHANGED <<promotions, categories>>
      [] c.kind = "promotion" ->
            /\ promotions' = [promotions EXCEPT ![c.at] = c.to]
            /\ UNCHANGED <<products, categories>>
      [] c.kind = "category" ->
            /\ categories' = categories \ {c.at}
            /\ products' = [s \in Slugs |->
                    IF products[s] # NoProduct /\ products[s].category = c.at
                    THEN [products[s] EXCEPT !.category = Nothing] ELSE products[s]]
            /\ UNCHANGED promotions

\* ON DELETE SET NULL reaches products without any event of theirs.
Orphans(c) == c.kind = "category" /\ CountProducts(c.at) # 0

Unquiet == [k \in DOMAIN cache |-> {[e EXCEPT !.quiet = FALSE] : e \in cache[k]}]

Commits(a) ==
    LET c == admin[a].change IN
    /\ admin[a].phase = "flushed"
    /\ Apply(c)
    /\ cache' = IF Orphans(c) THEN Unquiet ELSE cache
    /\ admin' = [b \in Admins |->
            IF b = a THEN [phase |-> "free", todo |-> admin[a].todo]
            ELSE IF admin[b].phase = "named"
                 THEN [admin[b] EXCEPT !.disturbed = TRUE] ELSE admin[b]]
    /\ UNCHANGED <<reader, bounds>>

RollsBack(a) ==
    /\ admin[a].phase = "flushed"
    /\ admin' = [admin EXCEPT ![a] = [phase |-> "free", todo |-> admin[a].todo]]
    /\ UNCHANGED <<shop, cache, reader, bounds>>

\* One command of a handler; an error of Redis is logged and swallowed.
Deletes(a) ==
    /\ admin[a].todo # NoTask
    /\ cache' = [k \in DOMAIN cache |-> IF k \in Head(admin[a].todo) THEN {} ELSE cache[k]]
    /\ admin' = [admin EXCEPT ![a].todo = Tail(@)]
    /\ UNCHANGED <<shop, reader, bounds>>

DeleteFails(a) ==
    /\ admin[a].todo # NoTask
    /\ outages < MaxOutages
    /\ outages' = outages + 1
    /\ cache' = [k \in DOMAIN cache |-> IF k \in Head(admin[a].todo) THEN Unquiet[k] ELSE cache[k]]
    /\ admin' = [admin EXCEPT ![a].todo = Tail(@)]
    /\ UNCHANGED <<shop, reader, changes, silent>>

-----------------------------------------------------------------------------
\* What changes without an event: stock, by orders and by the endpoints for
\* variants, and promotions, by their dates and by their uses.

SilentChange ==
    /\ silent < MaxSilent
    /\ silent' = silent + 1
    /\ \/ /\ \E s \in Live, n \in {0, 1} :
                products' = [products EXCEPT ![s].stock = n]
          /\ UNCHANGED promotions
       \/ /\ \E p \in Promotions : promotions' = [promotions EXCEPT ![p] = Nothing]
          /\ UNCHANGED products
    /\ cache' = Unquiet
    /\ reader' = Disturbed
    /\ UNCHANGED <<categories, admin, changes, outages>>

-----------------------------------------------------------------------------
ReaderStep(r) ==
    \/ ReaderCounts(r) \/ ReaderReads(r) \/ ReaderPrices(r) \/ ReaderStores(r) \/ ReaderLeaves(r)

AdminStep(a) ==
    \/ CreateFlushes(a) \/ DeleteCategoryFlushes(a) \/ Commits(a) \/ RollsBack(a)
    \/ Deletes(a) \/ DeleteFails(a)

Next ==
    \/ \E r \in Readers : ReaderMisses(r) \/ ReaderStep(r)
    \/ \E k \in Keys : Expire(k)
    \/ \E a \in Admins :
        \/ CreateBegins(a) \/ EditProduct(a) \/ DeleteProduct(a)
        \/ EditPromotion(a) \/ WriteCategoryFails(a) \/ DeleteCategoryBegins(a)
        \/ AdminStep(a)
    \/ SilentChange

\* Requests and handlers run to their end, and entries have a time to live.
Fairness ==
    /\ \A r \in Readers : WF_vars(ReaderStep(r))
    /\ \A k \in Keys : WF_vars(Expire(k))
    /\ \A a \in Admins : WF_vars(AdminStep(a))

Spec == Init /\ [][Next]_vars /\ Fairness
=============================================================================
