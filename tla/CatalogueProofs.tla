---------------------------- MODULE CatalogueProofs ----------------------------
(***************************************************************************)
(* What the cache may answer, for any number of products, keys, requests,  *)
(* administrators and changes.                                             *)
(*                                                                         *)
(* Answers that were stored at rest are exact until a handler deletes      *)
(* them.  A request that is still quiet reads while no change is flushed,  *)
(* so what it has read is what the database answers.  A change that is     *)
(* flushed has a handler under way, which has deleted or will delete every *)
(* answer that the commit makes wrong (Inv).                               *)
(*                                                                         *)
(* Every answer, stale or not, is one that could have been given: a        *)
(* product that was for sale, or a page cut by an old count from the       *)
(* products of a later time, and yet no longer than pages are (Kept).      *)
(***************************************************************************)
EXTENDS CatalogueProperties, FiniteSetTheorems, SequenceTheorems, Sums, TLAPS

-----------------------------------------------------------------------------
(* The invariant *)

ProductsTyped == products \in [Slugs -> Product \cup {NoProduct}]

CacheTyped ==
    /\ DOMAIN cache \subseteq Keys
    /\ cache = [k \in DOMAIN cache |-> cache[k]]
    /\ \A k \in DOMAIN cache : \A e \in cache[k] :
        e = [value |-> e.value, quiet |-> e.quiet] /\ e.quiet \in BOOLEAN

Asking(q) ==
    /\ q = [phase |-> q.phase, key |-> q.key, filtered |-> q.filtered, quiet |-> q.quiet,
            total |-> q.total, value |-> q.value]
    /\ q.phase \in {"missed", "counted", "read", "priced", "failed"}
    /\ q.key \in Keys /\ q.quiet \in BOOLEAN
    /\ q.phase = "counted" => q.key \in ListKeys
    /\ q.phase = "read" => q.key \in ListKeys \cup DetailKeys

\* What a request that is still quiet has read is what it would read now.
Exact(q) == ~q.filtered =>
    /\ q.phase = "counted" => q.total = Cardinality(Live)
    /\ q.phase = "read" /\ q.key \in ListKeys =>
        LET total == Cardinality(Live) IN q.value = {Page(Rows(q.key.at, total), total)}
    /\ q.phase = "read" /\ q.key \in DetailKeys => 
        q.key.at \in Live /\ q.value = {products[q.key.at]}
    /\ q.phase = "priced" => q.value \subseteq Answer(q.key)

NoneFlushed == \A a \in Admins : admin[a].phase # "flushed"

ReaderOk(q) == q # Free =>
    /\ Asking(q)
    /\ q.quiet => NoneFlushed /\ Exact(q)

Changeable(c) ==
    /\ c.kind \in {"create", "edit", "delete", "promotion", "category"}
    /\ c.kind = "create" => c.to \in Product
    /\ c.kind = "edit" => c.to \in Prices /\ c.at \in Slugs /\ products[c.at] # NoProduct
    /\ c.kind = "delete" => c.at \in Slugs /\ products[c.at] # NoProduct

\* The choice of a slug holds until another change commits.
AdminOk(x) ==
    \/ x = [phase |-> "free", todo |-> x.todo] /\ x.todo \in Seq(SUBSET Keys)
    \/ /\ x = [phase |-> "named", todo |-> NoTask, disturbed |-> x.disturbed, change |-> x.change]
       /\ Changeable(x.change) /\ x.change.kind = "create" /\ x.disturbed \in BOOLEAN
       /\ x.change.at \in Slugs
       /\ ~x.disturbed => products[x.change.at] = NoProduct
    \/ /\ x = [phase |-> "counted", todo |-> NoTask, change |-> x.change]
       /\ Changeable(x.change) /\ x.change.kind = "category"
    \/ /\ x = [phase |-> "flushed", change |-> x.change, todo |-> x.todo]
       /\ Changeable(x.change) /\ x.todo \in Seq(SUBSET Keys)

\* The answers a change makes wrong when it commits.
Affects(c, k) ==
    \/ c.kind \in ProductKinds /\ (k \in ListKeys \/ (k \in DetailKeys /\ k.at = c.at))
    \/ c.kind = "promotion" /\ k \in PromotionKeys \cup ListKeys \cup DetailKeys
    \/ c.kind = "category" /\ k \in CategoryKeys

Covered == \A a \in Admins : admin[a].phase = "flushed" =>
    \A k \in DOMAIN cache : \A e \in cache[k] :
        e.quiet /\ Affects(admin[a].change, k) => Pending(k)

ReadersOk ==
    /\ reader = [r \in Readers |-> reader[r]]
    /\ \A r \in Readers : ReaderOk(reader[r])

AdminsOk ==
    /\ admin = [a \in Admins |-> admin[a]]
    /\ \A a \in Admins : AdminOk(admin[a])

Inv ==
    /\ ProductsTyped /\ CacheTyped /\ ReadersOk /\ AdminsOk
    /\ Covered /\ QuietEntryIsExact

LEMMA KeyKinds ==
    /\ \A k \in ListKeys : k.kind = "list"
    /\ \A k \in DetailKeys : k.kind = "detail" /\ k.at \in Slugs
    /\ \A k \in PromotionKeys : k.kind = "promotions"
    /\ \A k \in CategoryKeys : k.kind = "categories"
BY DEF ListKeys, DetailKeys, PromotionKeys, CategoryKeys

LEMMA ProductIsNotNoProduct == \A x \in Product : x # NoProduct /\ x.state # "absent"
BY DEF Product, NoProduct

LEMMA LiveProducts == ASSUME ProductsTyped PROVE
    /\ Live \subseteq Slugs
    /\ \A s \in Live : products[s] \in Product /\ products[s] # NoProduct
BY DEF ProductsTyped, Live, NoProduct, Product

\* An empty cache with nobody reading satisfies the invariant.
THEOREM InitInv == Init => Inv
<1> SUFFICES ASSUME Init PROVE Inv
    OBVIOUS
<1>1. ProductsTyped
    BY OpeningAssumption DEF Init, ProductsTyped
<1>2. PICK K \in Followed : cache = [k \in K |-> {}]
    BY DEF Init
<1>3. CacheTyped /\ QuietEntryIsExact
    BY <1>2, OpeningAssumption DEF CacheTyped, QuietEntryIsExact
<1>4. ReadersOk
    BY DEF Init, ReadersOk, ReaderOk
<1>5. \A a \in Admins : admin[a] = [phase |-> "free", todo |-> NoTask]
    BY DEF Init
<1>6. AdminsOk
    <2>1. NoTask \in Seq(SUBSET Keys)
        BY DEF NoTask
    <2> QED
        BY <1>5, <2>1 DEF Init, AdminsOk, AdminOk
<1>7. Covered
    BY <1>5 DEF Covered
<1> QED
    BY <1>1, <1>3, <1>4, <1>6, <1>7 DEF Inv

-----------------------------------------------------------------------------
(* Answers *)

\* The listing and its pages depend on the live products alone.
LEMMA PagesStay ==
    ASSUME Live' = Live, \A s \in Live : products'[s] = products[s]
    PROVE  \A n, t : Page(Rows(n, t), t)' = Page(Rows(n, t), t)
<1> SUFFICES ASSUME NEW n, NEW t PROVE Page(Rows(n, t), t)' = Page(Rows(n, t), t)
    OBVIOUS
<1>1. [s \in Live |-> products[s].stock]' = [s \in Live |-> products[s].stock]
    OBVIOUS
<1>2. Listing' = Listing
    BY <1>1 DEF Listing
<1>3. Rows(n, t)' = Rows(n, t)
    BY <1>2 DEF Rows
<1>4. Summary' = Summary
    BY DEF Summary, OutOfStock
<1> QED
    BY <1>3, <1>4 DEF Page

LEMMA PricesStay ==
    ASSUME promotions' = promotions
    PROVE  \A k, v : Priced(k, v)' <=> Priced(k, v)
BY DEF Priced, Shown, Promoted, Applies

LEMMA ListsStay ==
    ASSUME Live' = Live, \A s \in Live : products'[s] = products[s], promotions' = promotions,
           NEW k \in ListKeys
    PROVE  Answer(k)' = Answer(k)
<1>1. Cardinality(Live)' = Cardinality(Live)
    OBVIOUS
<1>2. Page(Rows(k.at, Cardinality(Live)), Cardinality(Live))'
        = Page(Rows(k.at, Cardinality(Live)), Cardinality(Live))
    BY <1>1, PagesStay
<1> DEFINE page == Page(Rows(k.at, Cardinality(Live)), Cardinality(Live))
<1>3. Priced(k, page)' <=> Priced(k, page)
    BY <1>2, PricesStay
<1>4. Answer(k) = IF Priced(k, page) THEN {page} ELSE {}
    BY KeyKinds DEF Answer
<1>5. Answer(k)' = IF Priced(k, page)' THEN {page'} ELSE {}
    BY KeyKinds DEF Answer
<1> QED
    BY <1>2, <1>3, <1>4, <1>5

LEMMA DetailStays ==
    ASSUME promotions' = promotions, NEW k \in DetailKeys,
           k.at \in Live <=> k.at \in Live', k.at \in Live => products'[k.at] = products[k.at]
    PROVE  Answer(k)' = Answer(k)
<1>1. Answer(k) = IF k.at \in Live /\ Priced(k, products[k.at]) THEN {products[k.at]} ELSE {}
    BY KeyKinds DEF Answer
<1>2. Answer(k)'
        = IF k.at \in Live' /\ Priced(k, products[k.at])' THEN {products'[k.at]} ELSE {}
    BY KeyKinds DEF Answer
<1>3. k.at \in Live => (Priced(k, products[k.at])' <=> Priced(k, products[k.at]))
    BY PricesStay
<1> QED
    BY <1>1, <1>2, <1>3

LEMMA OthersStay ==
    /\ promotions' = promotions => \A k \in PromotionKeys : Answer(k)' = Answer(k)
    /\ categories' = categories => \A k \in CategoryKeys : Answer(k)' = Answer(k)
BY KeyKinds DEF Answer

LEMMA AnswersStay ==
    ASSUME UNCHANGED shop, NEW k \in Keys
    PROVE  Answer(k)' = Answer(k)
<1>1. Live' = Live /\ products' = products /\ promotions' = promotions /\ categories' = categories
    BY DEF shop, Live
<1> QED
    BY <1>1, ListsStay, DetailStays, OthersStay DEF Keys

LEMMA ExactStays ==
    ASSUME UNCHANGED shop, NEW q, Asking(q), Exact(q)
    PROVE  Exact(q)'
<1>1. Live' = Live /\ products' = products
    BY DEF shop, Live
<1>2. Cardinality(Live)' = Cardinality(Live)
    BY <1>1
<1>3. Page(Rows(q.key.at, Cardinality(Live)), Cardinality(Live))'
        = Page(Rows(q.key.at, Cardinality(Live)), Cardinality(Live))
    BY <1>1, <1>2, PagesStay
<1>4. Answer(q.key)' = Answer(q.key)
    BY AnswersStay DEF Asking
<1> QED
    BY <1>1, <1>2, <1>3, <1>4 DEF Exact

-----------------------------------------------------------------------------
(* Public requests *)

LEMMA PendingStays ==
    ASSUME \A b \in Admins : admin[b].todo = NoTask \/ admin'[b].todo = admin[b].todo
    PROVE  \A k : Pending(k) => Pending(k)'
BY DEF Pending, NoTask

LEMMA DisturbedAsk ==
    ASSUME ReadersOk, reader' = Disturbed
    PROVE  /\ reader' = [p \in Readers |-> reader'[p]]
           /\ \A p \in Readers : reader'[p] = Free \/ (Asking(reader'[p]) /\ ~reader'[p].quiet)
<1>1. reader' = [p \in Readers |-> reader'[p]]
    BY DEF Disturbed
<1> SUFFICES ASSUME NEW p \in Readers, reader[p] # Free
             PROVE  Asking(reader'[p]) /\ ~reader'[p].quiet
    BY <1>1 DEF Disturbed
<1>2. PICK q : q = reader[p]
    OBVIOUS
<1>3. PICK x : x = [q EXCEPT !.quiet = FALSE]
    OBVIOUS
<1>4. Asking(q)
    BY <1>2 DEF ReadersOk, ReaderOk
<1>5. q = [phase |-> q.phase, key |-> q.key, filtered |-> q.filtered, quiet |-> q.quiet,
           total |-> q.total, value |-> q.value]
    BY <1>4 DEF Asking
<1>6. /\ x.phase = q.phase /\ x.key = q.key /\ x.quiet = FALSE
      /\ x = [phase |-> x.phase, key |-> x.key, filtered |-> x.filtered, quiet |-> x.quiet,
              total |-> x.total, value |-> x.value]
    BY <1>3, <1>5
<1>7. reader'[p] = x
    BY <1>2, <1>3 DEF Disturbed
<1> QED
    BY <1>4, <1>6, <1>7 DEF Asking

\* A request that does its next step without touching anything but itself.
LEMMA RequestKeepsInv ==
    ASSUME Inv, UNCHANGED <<shop, cache, admin>>, NEW r \in Readers,
           NEW x, reader' = [reader EXCEPT ![r] = x], ReaderOk(x)
    PROVE  Inv'
<1>1. ProductsTyped' /\ CacheTyped' /\ AdminsOk' /\ Covered'
    BY DEF Inv, ProductsTyped, CacheTyped, AdminsOk, AdminOk, Changeable, Covered, Pending, shop
<1>2. ASSUME NEW q \in Readers PROVE ReaderOk(reader[q])'
    <2>1. ReaderOk(reader'[q])
        BY DEF Inv, ReadersOk
    <2>2. NoneFlushed' <=> NoneFlushed
        BY DEF NoneFlushed
    <2>3. reader'[q] # Free => Asking(reader'[q])
        BY <2>1 DEF ReaderOk
    <2>4. Asking(reader'[q]) /\ Exact(reader'[q]) => Exact(reader[q])'
        BY ExactStays DEF Exact
    <2> QED
        BY <2>1, <2>2, <2>3, <2>4 DEF ReaderOk, Asking
<1>3. ReadersOk'
    BY <1>2 DEF Inv, ReadersOk
<1>4. QuietEntryIsExact'
    <2>1. \A k \in Keys : Answer(k)' = Answer(k)
        BY AnswersStay
    <2> QED
        BY <2>1 DEF Inv, CacheTyped, QuietEntryIsExact, Pending
<1> QED
    BY <1>1, <1>3, <1>4 DEF Inv

Moved(q, p, t, v) == [q EXCEPT !.phase = p, !.total = t, !.value = v]

LEMMA Proceeds ==
    ASSUME NEW q, Asking(q), NEW p \in {"counted", "read", "priced", "failed"}, NEW t, NEW v,
           p = "counted" => q.key \in ListKeys,
           p = "read" => q.key \in ListKeys \cup DetailKeys
    PROVE  LET x == Moved(q, p, t, v) IN
           /\ x.phase = p /\ x.key = q.key /\ x.filtered = q.filtered /\ x.quiet = q.quiet
           /\ x.total = t /\ x.value = v
           /\ Asking(x)
<1>1. PICK x : x = Moved(q, p, t, v)
    OBVIOUS
<1>2. q = [phase |-> q.phase, key |-> q.key, filtered |-> q.filtered, quiet |-> q.quiet,
           total |-> q.total, value |-> q.value]
    BY DEF Asking
<1>3. /\ x.phase = p /\ x.key = q.key /\ x.filtered = q.filtered /\ x.quiet = q.quiet
      /\ x.total = t /\ x.value = v
    BY <1>1, <1>2 DEF Moved
<1>4. x = [phase |-> x.phase, key |-> x.key, filtered |-> x.filtered, quiet |-> x.quiet,
           total |-> x.total, value |-> x.value]
    BY <1>1, <1>2 DEF Moved
<1>5. Asking(x)
    BY <1>3, <1>4 DEF Asking
<1> QED
    BY <1>1, <1>3, <1>5

LEMMA RequestReads ==
    ASSUME Inv, NEW r \in Readers,
           ReaderMisses(r) \/ ReaderCounts(r) \/ ReaderReads(r) \/ ReaderPrices(r) \/ ReaderLeaves(r)
    PROVE  Inv'
<1> DEFINE q == reader[r]
<1>1. ReaderOk(q) /\ ReaderOk(Free)
    BY DEF Inv, ReadersOk, ReaderOk
<1>2. Free.phase = "free"
    BY DEF Free
<1>3. CASE ReaderMisses(r)
    <2> DEFINE x(k, f) == [phase |-> "missed", key |-> k, filtered |-> f, quiet |-> AtRest,
                           total |-> 0, value |-> {}]
    <2>1. PICK k \in DOMAIN cache : \E f \in Filterable(k) :
            reader' = [reader EXCEPT ![r] = x(k, f)]
        BY <1>3, Zenon DEF ReaderMisses
    <2>4. PICK f \in Filterable(k) : reader' = [reader EXCEPT ![r] = x(k, f)]
        BY <2>1
    <2>2. AtRest \in BOOLEAN /\ (AtRest => NoneFlushed)
        BY DEF AtRest, NoneFlushed
    <2>3. ReaderOk(x(k, f))
        BY <2>2 DEF ReaderOk, Asking, Exact, Inv, CacheTyped
    <2> QED
        BY <1>3, <2>3, <2>4, RequestKeepsInv DEF ReaderMisses
<1>4. CASE ReaderCounts(r)
    <2> DEFINE x == Moved(q, "counted", IF q.filtered THEN 0 ELSE Cardinality(Live), {})
    <2>1. reader' = [reader EXCEPT ![r] = x]
        BY <1>4 DEF ReaderCounts, Becomes, Moved, Inv, ReadersOk
    <2>2. q # Free /\ q.key \in ListKeys
        BY <1>1, <1>2, <1>4, KeyKinds DEF ReaderCounts, ReaderOk, Asking, Keys
    <2>3. Asking(q)
        BY <1>1, <2>2 DEF ReaderOk
    <2>4. /\ x.phase = "counted" /\ x.quiet = q.quiet /\ x.filtered = q.filtered
          /\ x.total = (IF q.filtered THEN 0 ELSE Cardinality(Live)) /\ Asking(x)
        BY <2>2, <2>3, Proceeds
    <2> HIDE DEF x
    <2>5. ReaderOk(x)
        BY <1>1, <2>2, <2>4 DEF ReaderOk, Exact
    <2> QED
        BY <1>4, <2>1, <2>5, RequestKeepsInv DEF ReaderCounts
<1>5. CASE ReaderReads(r)
    <2>1. CASE q.phase = "counted"
        <3> DEFINE rows == IF q.filtered THEN <<>> ELSE Rows(q.key.at, q.total)
                   x == Moved(q, "read", q.total, {Page(rows, q.total)})
        <3>1. reader' = [reader EXCEPT ![r] = x]
            BY <1>5, <2>1 DEF ReaderReads, Becomes, Moved, Inv, ReadersOk
        <3>2. q # Free /\ Asking(q) /\ q.key \in ListKeys /\ q.key.kind = "list"
            BY <1>1, <1>2, <2>1, KeyKinds DEF ReaderOk, Asking
        <3>3. /\ x.phase = "read" /\ x.key = q.key /\ x.quiet = q.quiet /\ x.filtered = q.filtered
              /\ x.value = {Page(rows, q.total)}
              /\ Asking(x)
            BY <3>2, Proceeds
        <3>4. q.quiet /\ ~q.filtered => q.total = Cardinality(Live)
            BY <1>1, <2>1, <3>2 DEF ReaderOk, Exact
        <3>5. q.quiet => NoneFlushed
            BY <1>1, <3>2 DEF ReaderOk
        <3>6. x.key \notin DetailKeys
            BY <3>2, <3>3, KeyKinds
        <3>7. q.quiet => Exact(x)
            BY <3>3, <3>4, <3>6 DEF Exact
        <3>8. ReaderOk(x)
            BY <3>3, <3>5, <3>7 DEF ReaderOk
        <3> QED
            BY <1>5, <3>1, <3>8, RequestKeepsInv DEF ReaderReads
    <2>2. CASE q.phase = "missed" /\ NotFound(q)
        <3>1. reader' = [reader EXCEPT ![r] = Free]
            BY <1>5, <2>2 DEF ReaderReads
        <3> QED
            BY <1>1, <1>5, <3>1, RequestKeepsInv DEF ReaderReads
    <2>3. CASE q.phase = "missed" /\ ~NotFound(q)
        <3> DEFINE x == Moved(q, "read", 0, {products[q.key.at]})
        <3>1. reader' = [reader EXCEPT ![r] = x] /\ q.key.kind = "detail"
            BY <1>5, <2>3 DEF ReaderReads, Becomes, Moved, Inv, ReadersOk
        <3>2. q # Free /\ q.key \in DetailKeys /\ q.key \notin ListKeys
            BY <1>1, <1>2, <2>3, <3>1, KeyKinds DEF ReaderOk, Asking, Keys
        <3>4. Asking(q)
            BY <1>1, <3>2 DEF ReaderOk
        <3>5. /\ x.phase = "read" /\ x.key = q.key /\ x.quiet = q.quiet
              /\ x.value = {products[q.key.at]} /\ Asking(x)
            BY <3>2, <3>4, Proceeds
        <3> HIDE DEF x
        <3>3. ReaderOk(x)
            BY <1>1, <2>3, <3>2, <3>5 DEF ReaderOk, Exact, NotFound
        <3> QED
            BY <1>5, <3>1, <3>3, RequestKeepsInv DEF ReaderReads
    <2> QED
        BY <1>5, <2>1, <2>2, <2>3 DEF ReaderReads
<1>6. CASE ReaderPrices(r)
    <2>1. CASE q.phase = "read" /\ \A value \in q.value : Priced(q.key, value)
        <3> DEFINE x == Moved(q, "priced", q.total, q.value)
        <3>1. reader' = [reader EXCEPT ![r] = x]
            BY <1>6, <2>1 DEF ReaderPrices, Becomes, Moved, Inv, ReadersOk
        <3>2. q # Free /\ Asking(q) /\ q.key \in ListKeys \cup DetailKeys
            BY <1>1, <1>2, <2>1 DEF ReaderOk, Asking
        <3>3. /\ Asking(x) /\ x.phase = "priced" /\ x.filtered = q.filtered
              /\ x.quiet = q.quiet /\ x.key = q.key /\ x.value = q.value
            BY <3>2, Proceeds
        <3>4. ASSUME q.quiet, ~q.filtered PROVE q.value \subseteq Answer(q.key)
            <4> DEFINE total == Cardinality(Live)
            <4>1. Exact(q)
                BY <1>1, <3>2, <3>4 DEF ReaderOk
            <4>2. CASE q.key \in ListKeys
                <5>1. q.value = {Page(Rows(q.key.at, total), total)}
                    BY <2>1, <3>4, <4>1, <4>2 DEF Exact
                <5>2. Priced(q.key, Page(Rows(q.key.at, total), total))
                    BY <2>1, <5>1
                <5> QED
                    BY <4>2, <5>1, <5>2, KeyKinds DEF Answer
            <4>3. CASE q.key \in DetailKeys
                <5>1. q.key.at \in Live /\ q.value = {products[q.key.at]}
                    BY <2>1, <3>4, <4>1, <4>3 DEF Exact
                <5>2. Priced(q.key, products[q.key.at])
                    BY <2>1, <5>1
                <5> QED
                    BY <4>3, <5>1, <5>2, KeyKinds DEF Answer
            <4> QED
                BY <3>2, <4>2, <4>3
        <3>5. ReaderOk(x)
            BY <1>1, <3>2, <3>3, <3>4 DEF ReaderOk, Exact
        <3> QED
            BY <1>6, <3>1, <3>5, RequestKeepsInv DEF ReaderPrices
    <2>2. CASE q.phase = "read" /\ ~ \A value \in q.value : Priced(q.key, value)
        <3> DEFINE x == Moved(q, "failed", 0, {})
        <3>1. reader' = [reader EXCEPT ![r] = x]
            BY <1>6, <2>2 DEF ReaderPrices, Becomes, Moved, Inv, ReadersOk
        <3>2. q # Free
            BY <1>2, <2>2
        <3>4. Asking(q)
            BY <1>1, <3>2 DEF ReaderOk
        <3>5. x.phase = "failed" /\ x.quiet = q.quiet /\ Asking(x)
            BY <3>4, Proceeds
        <3> HIDE DEF x
        <3>3. ReaderOk(x)
            BY <1>1, <3>2, <3>5 DEF ReaderOk, Exact
        <3> QED
            BY <1>6, <3>1, <3>3, RequestKeepsInv DEF ReaderPrices
    <2>3. CASE q.phase = "missed"
        <3> DEFINE x == Moved(q, "priced", 0, Answer(q.key))
        <3>1. reader' = [reader EXCEPT ![r] = x]
            BY <1>6, <2>3 DEF ReaderPrices, Becomes, Moved, Inv, ReadersOk
        <3>2. q # Free /\ Asking(q)
            BY <1>1, <1>2, <2>3 DEF ReaderOk
        <3>3. /\ Asking(x) /\ x.phase = "priced" /\ x.quiet = q.quiet /\ x.key = q.key
              /\ x.value = Answer(q.key)
            BY <3>2, Proceeds
        <3>4. ReaderOk(x)
            BY <1>1, <3>2, <3>3 DEF ReaderOk, Exact
        <3> QED
            BY <1>6, <3>1, <3>4, RequestKeepsInv DEF ReaderPrices
    <2> QED
        BY <1>6, <2>1, <2>2, <2>3 DEF ReaderPrices
<1>7. CASE ReaderLeaves(r)
    BY <1>1, <1>7, RequestKeepsInv DEF ReaderLeaves
<1> QED
    BY <1>3, <1>4, <1>5, <1>6, <1>7

\* What changes when the shop does not: readers that were there or are fit, changes
\* that were flushed or cover their keys, entries that were there or are exact.
LEMMA ShopStaysInv ==
    ASSUME Inv, UNCHANGED shop, CacheTyped', AdminsOk', DOMAIN cache' = DOMAIN cache,
           reader' = [r \in Readers |-> reader'[r]],
           \A r \in Readers : reader'[r] = reader[r] \/ reader'[r] = Free
                              \/ (Asking(reader'[r]) /\ ~reader'[r].quiet),
           \A r \in Readers : reader'[r] # Free /\ reader'[r].quiet => NoneFlushed',
           \A k \in DOMAIN cache : \A e \in cache'[k] :
               e.quiet => e \in cache[k] \/ (NoneFlushed' /\ e.value \in Answer(k)),
           \A k \in DOMAIN cache : cache'[k] # {} /\ Pending(k) =>
               Pending(k)' \/ \A e \in cache'[k] : ~e.quiet,
           \A a \in Admins : admin'[a].phase = "flushed" =>
               \/ admin[a].phase = "flushed" /\ admin'[a].change = admin[a].change
               \/ \A k \in Keys : Affects(admin'[a].change, k) => Pending(k)'
    PROVE  Inv'
<1>1. ProductsTyped'
    BY DEF Inv, ProductsTyped, shop
<1>2. ReadersOk'
    <2>1. ASSUME NEW r \in Readers, reader'[r] = reader[r] PROVE ReaderOk(reader[r])'
        <3>1. ReaderOk(reader'[r])
            BY <2>1 DEF Inv, ReadersOk
        <3>2. reader'[r] # Free => Asking(reader'[r])
            BY <3>1 DEF ReaderOk
        <3>3. Asking(reader'[r]) /\ Exact(reader'[r]) => Exact(reader[r])'
            BY ExactStays DEF Exact
        <3> QED
            BY <3>1, <3>2, <3>3 DEF ReaderOk, Asking
    <2>2. ASSUME NEW r \in Readers, reader'[r] # reader[r] PROVE ReaderOk(reader[r])'
        <3>1. reader'[r] = Free \/ (Asking(reader'[r]) /\ ~reader'[r].quiet)
            BY <2>2
        <3> QED
            BY <3>1 DEF ReaderOk, Asking
    <2> QED
        BY <2>1, <2>2 DEF ReadersOk
<1>3. QuietEntryIsExact'
    <2> SUFFICES ASSUME NEW k \in DOMAIN cache, NEW e \in cache'[k], e.quiet
                 PROVE  e.value \in Answer(k)' \/ Pending(k)'
        BY DEF QuietEntryIsExact
    <2>1. Answer(k)' = Answer(k)
        BY AnswersStay DEF Inv, CacheTyped
    <2>2. CASE e \in cache[k]
        <3>1. e.value \in Answer(k) \/ Pending(k)
            BY <2>2 DEF Inv, QuietEntryIsExact
        <3> QED
            BY <2>1, <3>1
    <2> QED
        BY <2>1, <2>2
<1>4. Covered'
    <2> SUFFICES ASSUME NEW a \in Admins, admin'[a].phase = "flushed", NEW k \in DOMAIN cache,
                        NEW e \in cache'[k], e.quiet, Affects(admin'[a].change, k)
                 PROVE  Pending(k)'
        BY DEF Covered, Affects
    <2>1. e \in cache[k] /\ k \in Keys
        BY DEF NoneFlushed, Inv, CacheTyped
    <2>2. CASE admin[a].phase = "flushed" /\ admin'[a].change = admin[a].change
        <3>1. Pending(k)
            BY <2>1, <2>2 DEF Inv, Covered
        <3> QED
            BY <3>1
    <2> QED
        BY <2>1, <2>2
<1> QED
    BY <1>1, <1>2, <1>3, <1>4 DEF Inv

LEMMA RequestStores == ASSUME Inv, NEW r \in Readers, ReaderStores(r) PROVE Inv'
<1> DEFINE q == reader[r]
<1>1. q # Free /\ Asking(q) /\ q.phase = "priced"
    BY DEF ReaderStores, Inv, ReadersOk, ReaderOk, Free
<1>2. UNCHANGED <<shop, admin>> /\ reader' = [reader EXCEPT ![r] = Free]
    BY DEF ReaderStores
<1>3. AdminsOk'
    BY <1>2 DEF Inv, AdminsOk, AdminOk, Changeable, shop
<1>4. NoneFlushed' <=> NoneFlushed
    BY <1>2 DEF NoneFlushed
<1>5. \A k : Pending(k)' <=> Pending(k)
    BY <1>2 DEF Pending
<1>6. /\ DOMAIN cache' = DOMAIN cache
      /\ CacheTyped'
      /\ \A k \in DOMAIN cache : \A e \in cache'[k] :
            e.quiet => e \in cache[k] \/ (NoneFlushed /\ e.value \in Answer(k))
    <2>1. CASE q.filtered
        BY <2>1 DEF ReaderStores, HasActiveFilters, Inv, CacheTyped
    <2>2. CASE ~q.filtered
        <3> DEFINE put == {[value |-> v, quiet |-> q.quiet] : v \in q.value}
        <3>1. cache' = [cache EXCEPT ![q.key] = put]
            BY <2>2 DEF ReaderStores, HasActiveFilters
        <3>2. \A e \in put : /\ e = [value |-> e.value, quiet |-> e.quiet]
                             /\ e.quiet = q.quiet /\ e.value \in q.value
            OBVIOUS
        <3>3. q.quiet => NoneFlushed /\ q.value \subseteq Answer(q.key)
            BY <1>1, <2>2 DEF Inv, ReadersOk, ReaderOk, Exact
        <3>4. q.quiet \in BOOLEAN
            BY <1>1 DEF Asking
        <3> HIDE DEF put
        <3>5. DOMAIN cache' = DOMAIN cache
            BY <3>1
        <3>6. \A k \in DOMAIN cache : cache'[k] = IF k = q.key THEN put ELSE cache[k]
            BY <3>1
        <3>7. cache' = [k \in DOMAIN cache' |-> cache'[k]]
            BY <3>1
        <3>8. CacheTyped'
            BY <3>2, <3>4, <3>5, <3>6, <3>7 DEF Inv, CacheTyped
        <3> QED
            BY <3>2, <3>3, <3>5, <3>6, <3>8
    <2> QED
        BY <1>1, <2>1, <2>2
<1>7. reader' = [p \in Readers |-> reader'[p]]
    BY <1>2 DEF Inv, ReadersOk
<1>8. \A p \in Readers : reader'[p] = reader[p] \/ reader'[p] = Free
    BY <1>2 DEF Inv, ReadersOk
<1>9. \A p \in Readers : reader'[p] # Free /\ reader'[p].quiet => NoneFlushed'
    BY <1>4, <1>8 DEF Inv, ReadersOk, ReaderOk
<1> QED
    BY <1>2, <1>3, <1>4, <1>5, <1>6, <1>7, <1>8, <1>9, ShopStaysInv, Zenon

-----------------------------------------------------------------------------
(* Entries that go *)

LEMMA ExpireKeepsInv == ASSUME Inv, NEW x \in Keys, Expire(x) PROVE Inv'
<1>1. UNCHANGED <<shop, reader, admin>> /\ cache' = [cache EXCEPT ![x] = {}]
    BY DEF Expire
<1>2. AdminsOk'
    BY <1>1 DEF Inv, AdminsOk, AdminOk, Changeable, shop
<1>3. (NoneFlushed' <=> NoneFlushed) /\ \A k : Pending(k)' <=> Pending(k)
    BY <1>1 DEF NoneFlushed, Pending
<1>4. /\ DOMAIN cache' = DOMAIN cache /\ CacheTyped'
      /\ \A k \in DOMAIN cache : \A e \in cache'[k] : e \in cache[k]
    BY <1>1 DEF Inv, CacheTyped
<1>5. /\ reader' = [p \in Readers |-> reader'[p]]
      /\ \A p \in Readers : reader'[p] = reader[p]
      /\ \A p \in Readers : reader'[p] # Free /\ reader'[p].quiet => NoneFlushed'
    BY <1>1, <1>3 DEF Inv, ReadersOk, ReaderOk
<1>6. \A a \in Admins : admin'[a] = admin[a]
    BY <1>1
<1> QED
    BY <1>1, <1>2, <1>3, <1>4, <1>5, <1>6, ShopStaysInv, Zenon

LEMMA Tails ==
    ASSUME NEW S, NEW s \in Seq(S), s # <<>>
    PROVE  /\ Tail(s) \in Seq(S) /\ Head(s) \in S
           /\ \A i \in DOMAIN s : s[i] = Head(s) \/ \E j \in DOMAIN Tail(s) : Tail(s)[j] = s[i]
<1>1. Tail(s) \in Seq(S) /\ Head(s) \in S /\ Head(s) = s[1]
    OBVIOUS
<1>2. ASSUME NEW i \in DOMAIN s, i # 1 PROVE \E j \in DOMAIN Tail(s) : Tail(s)[j] = s[i]
    <2>1. i - 1 \in DOMAIN Tail(s) /\ Tail(s)[i - 1] = s[i]
        BY <1>2
    <2> QED
        BY <2>1
<1> QED
    BY <1>1, <1>2

Advanced(x, t) == [x EXCEPT !.todo = t]

LEMMA Advances ==
    ASSUME NEW x, NEW t
    PROVE  LET y == Advanced(x, t) IN
           /\ x = [phase |-> "free", todo |-> x.todo] =>
                y.phase = "free" /\ y.todo = t /\ y = [phase |-> y.phase, todo |-> y.todo]
           /\ x = [phase |-> "flushed", change |-> x.change, todo |-> x.todo] =>
                /\ y.phase = "flushed" /\ y.todo = t /\ y.change = x.change
                /\ y = [phase |-> y.phase, change |-> y.change, todo |-> y.todo]
<1>1. PICK y : y = Advanced(x, t)
    OBVIOUS
<1>2. CASE x = [phase |-> "free", todo |-> x.todo]
    BY <1>1, <1>2 DEF Advanced
<1>3. CASE x = [phase |-> "flushed", change |-> x.change, todo |-> x.todo]
    BY <1>1, <1>3 DEF Advanced
<1> QED
    BY <1>1, <1>2, <1>3

\* A command of a handler: the first of its keys lose their entries, or what is
\* left of them is not quiet; the others wait on.
LEMMA CommandKeepsInv ==
    ASSUME Inv, UNCHANGED <<shop, reader>>, NEW a \in Admins, admin[a].todo # NoTask,
           admin' = [admin EXCEPT ![a].todo = Tail(@)],
           DOMAIN cache' = DOMAIN cache, CacheTyped',
           \A k \in DOMAIN cache : IF k \in Head(admin[a].todo)
               THEN \A e \in cache'[k] : ~e.quiet ELSE cache'[k] = cache[k]
    PROVE  Inv'
<1>0. PICK x : x = admin[a]
    OBVIOUS
<1> USE <1>0
<1>1. AdminOk(x) /\ x.todo \in Seq(SUBSET Keys)
    BY DEF Inv, AdminsOk, AdminOk, NoTask
<1>2. Tail(x.todo) \in Seq(SUBSET Keys)
    BY <1>1, Tails DEF NoTask
<1>3. admin' = [b \in Admins |-> IF b = a THEN Advanced(x, Tail(x.todo)) ELSE admin[b]]
    BY DEF Inv, AdminsOk, Advanced
<1>4. /\ admin'[a].todo = Tail(x.todo) /\ admin'[a].phase = x.phase
      /\ x.phase = "flushed" => admin'[a].change = x.change
      /\ AdminOk(admin'[a])
    <2>1. PICK y : y = Advanced(x, Tail(x.todo))
        OBVIOUS
    <2>2. CASE x = [phase |-> "free", todo |-> x.todo]
        <3>1. y.phase = "free" /\ y.todo = Tail(x.todo) /\ y = [phase |-> y.phase, todo |-> y.todo]
            BY <2>1, <2>2, Advances
        <3>2. admin'[a] = y /\ x.phase = "free"
            BY <1>3, <2>1, <2>2
        <3> QED
            BY <1>2, <3>1, <3>2 DEF AdminOk
    <2>3. CASE x = [phase |-> "flushed", change |-> x.change, todo |-> x.todo]
        <3>1. /\ y.phase = "flushed" /\ y.todo = Tail(x.todo) /\ y.change = x.change
              /\ y = [phase |-> y.phase, change |-> y.change, todo |-> y.todo]
            BY <2>1, <2>3, Advances
        <3>2. x.phase = "flushed" /\ Changeable(x.change)
            BY <1>1, <2>3 DEF AdminOk
        <3>3. admin'[a] = y
            BY <1>3, <2>1
        <3>4. AdminOk(y)
            BY <1>2, <3>1, <3>2 DEF AdminOk
        <3> QED
            BY <3>1, <3>2, <3>3, <3>4
    <2> QED
        BY <1>1, <2>2, <2>3 DEF AdminOk
<1>5. AdminsOk'
    <2>1. \A b \in Admins : AdminOk(admin'[b])
        BY <1>3, <1>4 DEF Inv, AdminsOk
    <2> QED
        BY <1>3, <2>1 DEF AdminsOk, AdminOk, Changeable, shop
<1>6. NoneFlushed' <=> NoneFlushed
    BY <1>3, <1>4 DEF NoneFlushed
<1>7. \A b \in Admins : admin'[b].phase = "flushed" =>
        admin[b].phase = "flushed" /\ admin'[b].change = admin[b].change
    BY <1>3, <1>4
<1>8. ASSUME NEW k, k \notin Head(x.todo), Pending(k) PROVE Pending(k)'
    <2>4. PICK b \in Admins : \E i \in DOMAIN admin[b].todo : k \in admin[b].todo[i]
        BY <1>8 DEF Pending
    <2>1. PICK i \in DOMAIN admin[b].todo : k \in admin[b].todo[i]
        BY <2>4
    <2>2. CASE b # a
        BY <1>3, <2>1, <2>2 DEF Pending
    <2>3. CASE b = a
        <3>1. PICK j \in DOMAIN Tail(x.todo) : k \in Tail(x.todo)[j]
            BY <1>1, <1>8, <2>1, <2>3, Tails DEF NoTask
        <3> QED
            BY <1>4, <3>1 DEF Pending
    <2> QED
        BY <2>2, <2>3
<1>9. /\ reader' = [p \in Readers |-> reader'[p]]
      /\ \A p \in Readers : reader'[p] = reader[p]
      /\ \A p \in Readers : reader'[p] # Free /\ reader'[p].quiet => NoneFlushed'
    BY <1>6 DEF Inv, ReadersOk, ReaderOk
<1>10. \A k \in DOMAIN cache : \A e \in cache'[k] : e.quiet => e \in cache[k]
    OBVIOUS
<1>11. \A k \in DOMAIN cache : Pending(k) => Pending(k)' \/ \A e \in cache'[k] : ~e.quiet
    BY <1>8
<1> QED
    BY <1>5, <1>7, <1>9, <1>10, <1>11, ShopStaysInv, Zenon

LEMMA Unquieted ==
    ASSUME CacheTyped, NEW k \in DOMAIN cache
    PROVE  \A e \in Unquiet[k] : e = [value |-> e.value, quiet |-> e.quiet] /\ e.quiet = FALSE
<1> SUFFICES ASSUME NEW d \in cache[k], NEW e, e = [d EXCEPT !.quiet = FALSE]
             PROVE  e = [value |-> e.value, quiet |-> e.quiet] /\ e.quiet = FALSE
    BY DEF Unquiet
<1>1. d = [value |-> d.value, quiet |-> d.quiet]
    BY DEF CacheTyped
<1> QED
    BY <1>1

LEMMA DeletesKeepsInv == ASSUME Inv, NEW a \in Admins, Deletes(a) PROVE Inv'
<1>1. /\ UNCHANGED <<shop, reader>> /\ admin[a].todo # NoTask
      /\ admin' = [admin EXCEPT ![a].todo = Tail(@)]
      /\ cache' = [k \in DOMAIN cache |-> IF k \in Head(admin[a].todo) THEN {} ELSE cache[k]]
    BY DEF Deletes
<1>2. DOMAIN cache' = DOMAIN cache /\ CacheTyped'
    BY <1>1 DEF Inv, CacheTyped
<1> QED
    BY <1>1, <1>2, CommandKeepsInv

LEMMA DeleteFailsKeepsInv == ASSUME Inv, NEW a \in Admins, DeleteFails(a) PROVE Inv'
<1>1. /\ UNCHANGED <<shop, reader>> /\ admin[a].todo # NoTask
      /\ admin' = [admin EXCEPT ![a].todo = Tail(@)]
      /\ cache' = [k \in DOMAIN cache |->
            IF k \in Head(admin[a].todo) THEN Unquiet[k] ELSE cache[k]]
    BY DEF DeleteFails
<1>2. \A k \in DOMAIN cache : \A e \in Unquiet[k] :
        e = [value |-> e.value, quiet |-> e.quiet] /\ e.quiet = FALSE
    BY Unquieted DEF Inv
<1>3. DOMAIN cache' = DOMAIN cache /\ CacheTyped'
    BY <1>1, <1>2 DEF Inv, CacheTyped
<1> QED
    BY <1>1, <1>2, <1>3, CommandKeepsInv

-----------------------------------------------------------------------------
(* Changes that do not commit *)

\* An administrator's request takes a step that leaves shop, answers and readers.
LEMMA AdminKeepsInv ==
    ASSUME Inv, UNCHANGED <<shop, cache, reader>>, NEW a \in Admins, NEW x,
           admin' = [admin EXCEPT ![a] = x], AdminOk(x), x.phase # "flushed",
           admin[a].todo = NoTask \/ x.todo = admin[a].todo
    PROVE  Inv'
<1>1. /\ admin' = [b \in Admins |-> admin'[b]] /\ admin'[a] = x
      /\ \A b \in Admins : b # a => admin'[b] = admin[b]
    BY DEF Inv, AdminsOk
<1>2. \A b \in Admins : AdminOk(admin'[b])
    BY <1>1 DEF Inv, AdminsOk
<1>3. AdminsOk'
    <2>1. ASSUME NEW b \in Admins PROVE AdminOk(admin[b])'
        <3>1. AdminOk(admin'[b]) /\ products' = products
            BY <1>2 DEF shop
        <3> QED
            BY <3>1 DEF AdminOk, Changeable
    <2> QED
        BY <1>1, <2>1 DEF AdminsOk
<1>4. CacheTyped' /\ DOMAIN cache' = DOMAIN cache
    BY DEF Inv, CacheTyped
<1>5. NoneFlushed => NoneFlushed'
    BY <1>1 DEF NoneFlushed
<1>6. /\ reader' = [p \in Readers |-> reader'[p]]
      /\ \A p \in Readers : reader'[p] = reader[p]
      /\ \A p \in Readers : reader'[p] # Free /\ reader'[p].quiet => NoneFlushed'
    BY <1>5 DEF Inv, ReadersOk, ReaderOk
<1>7. \A k : Pending(k) => Pending(k)'
    BY <1>1, PendingStays
<1>8. \A b \in Admins : admin'[b].phase = "flushed" =>
        admin[b].phase = "flushed" /\ admin'[b].change = admin[b].change
    BY <1>1
<1> QED
    BY <1>3, <1>4, <1>6, <1>7, <1>8, ShopStaysInv, Zenon

LEMMA Resting == ASSUME Inv, NEW a \in Admins, Starts(a) PROVE
    admin[a].phase = "free" /\ admin[a].todo = NoTask
BY DEF Starts

LEMMA BeginsKeepsInv ==
    ASSUME Inv, NEW a \in Admins,
           CreateBegins(a) \/ DeleteCategoryBegins(a) \/ WriteCategoryFails(a)
    PROVE  Inv'
<1>1. CASE CreateBegins(a)
    <2> DEFINE at == CHOOSE s \in Unused : \A t \in Unused : s <= t
               x(d) == [phase |-> "named", todo |-> NoTask, disturbed |-> FALSE,
                        change |-> [kind |-> "create", at |-> at, to |-> d]]
    <2>1. PICK d \in Drafts : admin' = [admin EXCEPT ![a] = x(d)]
        BY <1>1 DEF CreateBegins
    <2>2. at \in Unused
        <3>1. Unused \subseteq Nat /\ Unused # {}
            BY <1>1 DEF CreateBegins, Unused, Slugs
        <3>2. \E s \in Unused : \A t \in Unused : s <= t
            BY <3>1, Smallest
        <3> QED
            BY <3>2
    <2>3. at \in Slugs /\ products[at] = NoProduct
        BY <2>2 DEF Unused
    <2> HIDE DEF at
    <2>4. AdminOk(x(d))
        BY <2>3, OpeningAssumption DEF AdminOk, Changeable
    <2> QED
        BY <1>1, <2>1, <2>4, Resting, AdminKeepsInv DEF CreateBegins
<1>2. CASE DeleteCategoryBegins(a)
    <2> DEFINE x(c) == [phase |-> "counted", todo |-> NoTask,
                        change |-> [kind |-> "category", at |-> c, to |-> Nothing]]
    <2>1. PICK c \in categories : admin' = [admin EXCEPT ![a] = x(c)]
        BY <1>2 DEF DeleteCategoryBegins
    <2>2. AdminOk(x(c))
        BY DEF AdminOk, Changeable
    <2> QED
        BY <1>2, <2>1, <2>2, Resting, AdminKeepsInv DEF DeleteCategoryBegins
<1>3. CASE WriteCategoryFails(a)
    <2>1. admin' = [admin EXCEPT ![a] = admin[a]] /\ AdminOk(admin[a])
        BY <1>3 DEF WriteCategoryFails, Inv, AdminsOk
    <2> QED
        BY <1>3, <2>1, Resting, AdminKeepsInv DEF WriteCategoryFails
<1> QED
    BY <1>1, <1>2, <1>3

LEMMA GivesUp ==
    ASSUME Inv, NEW a \in Admins, UNCHANGED <<shop, cache, reader>>,
           admin' = [admin EXCEPT ![a] = [phase |-> "free", todo |-> admin[a].todo]]
    PROVE  Inv'
<1>1. admin[a].todo \in Seq(SUBSET Keys)
    <2>1. AdminOk(admin[a]) /\ NoTask \in Seq(SUBSET Keys)
        BY DEF Inv, AdminsOk, NoTask
    <2>2. \A x : AdminOk(x) => x.todo \in {NoTask} \cup Seq(SUBSET Keys)
        BY DEF AdminOk
    <2> QED
        BY <2>1, <2>2
<1>2. AdminOk([phase |-> "free", todo |-> admin[a].todo])
    BY <1>1 DEF AdminOk
<1> QED
    BY <1>2, AdminKeepsInv

-----------------------------------------------------------------------------
(* Changes that are flushed *)

LEMMA FlushKeepsInv ==
    ASSUME Inv, UNCHANGED <<shop, cache>>, NEW a \in Admins, admin[a].todo = NoTask,
           NEW c, Changeable(c), NEW todo \in Seq(SUBSET Keys), Flush(a, c, todo),
           \A k \in Keys : Affects(c, k) => \E i \in DOMAIN todo : k \in todo[i]
    PROVE  Inv'
<1> DEFINE x == [phase |-> "flushed", change |-> c, todo |-> todo]
<1>1. /\ admin' = [b \in Admins |-> admin'[b]] /\ admin'[a] = x
      /\ \A b \in Admins : b # a => admin'[b] = admin[b]
    BY DEF Flush, Inv, AdminsOk
<1>2. AdminOk(x)
    BY DEF AdminOk
<1>3. \A b \in Admins : AdminOk(admin'[b])
    BY <1>1, <1>2 DEF Inv, AdminsOk
<1>4. AdminsOk'
    <2>1. ASSUME NEW b \in Admins PROVE AdminOk(admin[b])'
        <3>1. AdminOk(admin'[b]) /\ products' = products
            BY <1>3 DEF shop
        <3> QED
            BY <3>1 DEF AdminOk, Changeable
    <2> QED
        BY <1>1, <2>1 DEF AdminsOk
<1>5. CacheTyped' /\ DOMAIN cache' = DOMAIN cache
    BY DEF Inv, CacheTyped
<1>6. /\ reader' = [p \in Readers |-> reader'[p]]
      /\ \A p \in Readers : reader'[p] = Free \/ (Asking(reader'[p]) /\ ~reader'[p].quiet)
    BY DisturbedAsk DEF Flush, Inv
<1>7. \A p \in Readers : reader'[p] # Free /\ reader'[p].quiet => NoneFlushed'
    BY <1>6
<1>8. \A k : Pending(k) => Pending(k)'
    BY <1>1, PendingStays
<1>9. \A k \in Keys : Affects(c, k) => Pending(k)'
    BY <1>1 DEF Pending
<1>10. \A b \in Admins : admin'[b].phase = "flushed" =>
        \/ admin[b].phase = "flushed" /\ admin'[b].change = admin[b].change
        \/ \A k \in Keys : Affects(admin'[b].change, k) => Pending(k)'
    BY <1>1, <1>9
<1> QED
    BY <1>4, <1>5, <1>6, <1>7, <1>8, <1>10, ShopStaysInv, Zenon

LEMMA ProductEvents ==
    ASSUME NEW c, c.kind \in ProductKinds, c.at \in Slugs
    PROVE  /\ ProductChanged(c.at) \in Seq(SUBSET Keys)
           /\ \A k \in Keys : Affects(c, k) =>
                \E i \in DOMAIN ProductChanged(c.at) : k \in ProductChanged(c.at)[i]
<1> DEFINE todo == <<ListKeys, {[kind |-> "detail", at |-> c.at]}, PromotionKeys>>
<1>1. todo = ProductChanged(c.at)
    BY DEF ProductChanged
<1>2. [kind |-> "detail", at |-> c.at] \in DetailKeys
    BY DEF DetailKeys
<1>3. /\ ListKeys \in SUBSET Keys /\ PromotionKeys \in SUBSET Keys
      /\ {[kind |-> "detail", at |-> c.at]} \in SUBSET Keys
    BY <1>2 DEF Keys
<1>4. todo \in Seq(SUBSET Keys) /\ DOMAIN todo = 1 .. 3
    BY <1>3
<1>5. ASSUME NEW k \in Keys, Affects(c, k) PROVE \E i \in DOMAIN todo : k \in todo[i]
    <2>1. CASE k \in ListKeys
        BY <1>4, <2>1
    <2>2. CASE k \in DetailKeys /\ k.at = c.at
        <3>1. k = [kind |-> "detail", at |-> c.at]
            BY <2>2 DEF DetailKeys
        <3>2. k \in todo[2] /\ 2 \in DOMAIN todo
            BY <1>4, <3>1
        <3> QED
            BY <3>2
    <2> QED
        BY <1>5, <2>1, <2>2 DEF Affects, ProductKinds
<1> HIDE DEF todo
<1> QED
    BY <1>1, <1>4, <1>5

LEMMA OtherEvents ==
    /\ PromotionChanged \in Seq(SUBSET Keys) /\ CategoryChanged \in Seq(SUBSET Keys)
    /\ \A c, k : c.kind = "promotion" /\ Affects(c, k) =>
        \E i \in DOMAIN PromotionChanged : k \in PromotionChanged[i]
    /\ \A c, k : c.kind = "category" /\ Affects(c, k) =>
        \E i \in DOMAIN CategoryChanged : k \in CategoryChanged[i]
<1>1. /\ PromotionKeys \in SUBSET Keys /\ ListKeys \in SUBSET Keys
      /\ DetailKeys \in SUBSET Keys /\ CategoryKeys \in SUBSET Keys
    BY DEF Keys
<1>2. /\ PromotionChanged \in Seq(SUBSET Keys) /\ DOMAIN PromotionChanged = 1 .. 3
      /\ PromotionChanged[1] = PromotionKeys /\ PromotionChanged[2] = ListKeys
      /\ PromotionChanged[3] = DetailKeys
    BY <1>1 DEF PromotionChanged
<1>3. /\ CategoryChanged \in Seq(SUBSET Keys) /\ DOMAIN CategoryChanged = 1 .. 1
      /\ CategoryChanged[1] = CategoryKeys
    BY <1>1 DEF CategoryChanged
<1>4. 1 \in 1 .. 3 /\ 2 \in 1 .. 3 /\ 3 \in 1 .. 3 /\ 1 \in 1 .. 1
    OBVIOUS
<1>5. \A c, k : c.kind = "promotion" /\ Affects(c, k) =>
        k \in PromotionKeys \/ k \in ListKeys \/ k \in DetailKeys
    BY DEF Affects, ProductKinds
<1>6. \A c, k : c.kind = "category" /\ Affects(c, k) => k \in CategoryKeys
    BY DEF Affects, ProductKinds
<1> QED
    BY <1>2, <1>3, <1>4, <1>5, <1>6

LEMMA FlushesKeepInv ==
    ASSUME Inv, NEW a \in Admins,
           \/ CreateFlushes(a) \/ EditProduct(a) \/ DeleteProduct(a) \/ EditPromotion(a)
           \/ DeleteCategoryFlushes(a)
    PROVE  Inv'
<1> DEFINE c == admin[a].change
<1>1. AdminOk(admin[a])
    BY DEF Inv, AdminsOk
<1>2. CASE CreateFlushes(a)
    <2>1. admin[a].phase = "named" /\ UNCHANGED <<shop, cache>>
        BY <1>2 DEF CreateFlushes
    <2>2. /\ admin[a].todo = NoTask
          /\ Changeable(c) /\ c.kind = "create" /\ c.kind \in ProductKinds /\ c.at \in Slugs
        BY <1>1, <2>1 DEF AdminOk, ProductKinds
    <2>3. CASE Insertable(c)
        BY <1>2, <2>1, <2>2, <2>3, ProductEvents, FlushKeepsInv DEF CreateFlushes
    <2>4. CASE ~Insertable(c)
        BY <1>2, <2>1, <2>2, <2>4, GivesUp DEF CreateFlushes
    <2> QED
        BY <2>3, <2>4
<1>3. CASE EditProduct(a)
    <2> DEFINE x(s, n) == [kind |-> "edit", at |-> s, to |-> n]
    <2>1. PICK s \in Live, n \in Prices : Flush(a, x(s, n), ProductChanged(s))
        BY <1>3 DEF EditProduct
    <2>2. Changeable(x(s, n)) /\ x(s, n).kind \in ProductKinds /\ x(s, n).at = s /\ s \in Slugs
        BY LiveProducts DEF Changeable, ProductKinds, Inv
    <2>3. UNCHANGED <<shop, cache>>
        BY <1>3 DEF EditProduct, shop
    <2>4. admin[a].todo = NoTask
        BY <1>3, Resting DEF EditProduct
    <2> HIDE DEF x
    <2> QED
        BY <2>1, <2>2, <2>3, <2>4, ProductEvents, FlushKeepsInv
<1>4. CASE DeleteProduct(a)
    <2> DEFINE x(s) == [kind |-> "delete", at |-> s, to |-> Nothing]
    <2>1. PICK s \in Live : Flush(a, x(s), ProductChanged(s))
        BY <1>4 DEF DeleteProduct
    <2>2. Changeable(x(s)) /\ x(s).kind \in ProductKinds /\ x(s).at = s /\ s \in Slugs
        BY LiveProducts DEF Changeable, ProductKinds, Inv
    <2>3. UNCHANGED <<shop, cache>>
        BY <1>4 DEF DeleteProduct, shop
    <2>4. admin[a].todo = NoTask
        BY <1>4, Resting DEF DeleteProduct
    <2> HIDE DEF x
    <2> QED
        BY <2>1, <2>2, <2>3, <2>4, ProductEvents, FlushKeepsInv
<1>5. CASE EditPromotion(a)
    <2> DEFINE x(p, to) == [kind |-> "promotion", at |-> p, to |-> to]
    <2>1. PICK p \in Promotions, to \in {Nothing, Everything} \cup Slugs :
            Flush(a, x(p, to), PromotionChanged)
        BY <1>5 DEF EditPromotion
    <2>2. Changeable(x(p, to)) /\ x(p, to).kind = "promotion"
        BY DEF Changeable
    <2>3. UNCHANGED <<shop, cache>>
        BY <1>5 DEF EditPromotion, shop
    <2>4. admin[a].todo = NoTask
        BY <1>5, Resting DEF EditPromotion
    <2> HIDE DEF x
    <2> QED
        BY <2>1, <2>2, <2>3, <2>4, OtherEvents, FlushKeepsInv
<1>6. CASE DeleteCategoryFlushes(a)
    <2>1. admin[a].phase = "counted" /\ UNCHANGED <<shop, cache>>
        BY <1>6 DEF DeleteCategoryFlushes
    <2>2. admin[a].todo = NoTask /\ Changeable(c) /\ c.kind = "category"
        BY <1>1, <2>1 DEF AdminOk
    <2>3. CASE c.at \in categories
        BY <1>6, <2>1, <2>2, <2>3, OtherEvents, FlushKeepsInv DEF DeleteCategoryFlushes
    <2>4. CASE c.at \notin categories
        BY <1>6, <2>1, <2>2, <2>4, GivesUp DEF DeleteCategoryFlushes
    <2> QED
        BY <2>3, <2>4
<1> QED
    BY <1>2, <1>3, <1>4, <1>5, <1>6

LEMMA RollsBackKeepsInv == ASSUME Inv, NEW a \in Admins, RollsBack(a) PROVE Inv'
BY GivesUp DEF RollsBack

-----------------------------------------------------------------------------
(* Commits *)

LEMMA ApplyKeepsTypes ==
    ASSUME ProductsTyped, NEW c, Changeable(c), Apply(c)
    PROVE  /\ ProductsTyped'
           /\ \A s \in Slugs : products[s] # NoProduct => products'[s] # NoProduct
<1>1. CASE c.kind = "create"
    BY <1>1, ProductIsNotNoProduct DEF Apply, Changeable, ProductsTyped
<1>2. CASE c.kind = "edit"
    <2>1. products[c.at] \in Product
        BY <1>2 DEF ProductsTyped, Changeable
    <2>2. [products[c.at] EXCEPT !.price = c.to] \in Product
        BY <1>2, <2>1 DEF Changeable, Product
    <2>3. products' = [products EXCEPT ![c.at].price = c.to]
        BY <1>2 DEF Apply
    <2> QED
        BY <2>2, <2>3, ProductIsNotNoProduct DEF ProductsTyped
<1>3. CASE c.kind = "delete"
    <2>1. products[c.at] \in Product
        BY <1>3 DEF ProductsTyped, Changeable
    <2>2. [products[c.at] EXCEPT !.state = "deleted"] \in Product
        BY <2>1 DEF Product
    <2>3. products' = [products EXCEPT ![c.at].state = "deleted"]
        BY <1>3 DEF Apply
    <2> QED
        BY <2>2, <2>3, ProductIsNotNoProduct DEF ProductsTyped
<1>4. CASE c.kind = "promotion"
    BY <1>4 DEF Apply, ProductsTyped
<1>5. CASE c.kind = "category"
    <2>1. \A x \in Product : [x EXCEPT !.category = Nothing] \in Product
        BY DEF Product
    <2>2. products' = [s \in Slugs |->
            IF products[s] # NoProduct /\ products[s].category = c.at
            THEN [products[s] EXCEPT !.category = Nothing] ELSE products[s]]
        BY <1>5 DEF Apply
    <2>3. \A s \in Slugs : /\ products'[s] \in Product \cup {NoProduct}
                           /\ products[s] # NoProduct => products'[s] # NoProduct
        BY <2>1, <2>2, ProductIsNotNoProduct DEF ProductsTyped
    <2> QED
        BY <2>2, <2>3 DEF ProductsTyped
<1> QED
    BY <1>1, <1>2, <1>3, <1>4, <1>5 DEF Changeable

LEMMA LiveStays ==
    ASSUME ProductsTyped, NEW c, c.kind = "category", Apply(c), ~Orphans(c)
    PROVE  Live' = Live /\ \A s \in Live : products'[s] = products[s]
<1>1. {s \in Live : products[s].category = c.at} = {}
    <2>1. IsFiniteSet({s \in Live : products[s].category = c.at})
        <3>1. {s \in Live : products[s].category = c.at} \subseteq 1 .. MaxProducts
            BY DEF Live, Slugs
        <3>2. IsFiniteSet(1 .. MaxProducts)
            BY FS_Interval, BoundsAssumption
        <3> QED
            BY <3>1, <3>2, FS_Subset
    <2>2. Cardinality({s \in Live : products[s].category = c.at}) = 0
        BY DEF Orphans, CountProducts
    <2> QED
        BY <2>1, <2>2, FS_EmptySet
<1>2. products' = [s \in Slugs |->
        IF products[s] # NoProduct /\ products[s].category = c.at
        THEN [products[s] EXCEPT !.category = Nothing] ELSE products[s]]
    BY DEF Apply
<1>3. \A s \in Live : products'[s] = products[s]
    BY <1>1, <1>2 DEF Live
<1>4. \A s \in Slugs : products'[s].state = products[s].state
    <2>1. \A x \in Product : [x EXCEPT !.category = Nothing].state = x.state
        BY DEF Product
    <2> QED
        BY <1>2, <2>1 DEF ProductsTyped
<1> QED
    BY <1>3, <1>4 DEF Live

\* What a change does not affect is answered as before.
LEMMA UnaffectedStay ==
    ASSUME ProductsTyped, NEW c, Changeable(c), Apply(c), ~Orphans(c),
           NEW k \in Keys, ~Affects(c, k)
    PROVE  Answer(k)' = Answer(k)
<1>1. CASE c.kind \in ProductKinds
    <2>1. promotions' = promotions /\ categories' = categories
        BY <1>1 DEF Apply, ProductKinds
    <2>2. k \notin ListKeys /\ (k \in DetailKeys => k.at # c.at)
        BY <1>1 DEF Affects
    <2>3. \A s \in Slugs : s # c.at => products'[s] = products[s]
        BY <1>1 DEF Apply, ProductKinds, ProductsTyped
    <2>4. ASSUME k \in DetailKeys PROVE Answer(k)' = Answer(k)
        <3>1. k.at \in Slugs /\ products'[k.at] = products[k.at]
            BY <2>2, <2>3, <2>4, KeyKinds
        <3>2. k.at \in Live <=> k.at \in Live'
            BY <3>1 DEF Live
        <3> QED
            BY <2>1, <2>4, <3>1, <3>2, DetailStays
    <2> QED
        BY <2>1, <2>2, <2>4, OthersStay DEF Keys
<1>2. CASE c.kind = "promotion"
    <2>1. k \in CategoryKeys
        BY <1>2 DEF Affects, Keys
    <2> QED
        BY <1>2, <2>1, OthersStay DEF Apply
<1>3. CASE c.kind = "category"
    <2>1. Live' = Live /\ (\A s \in Live : products'[s] = products[s]) /\ promotions' = promotions
        BY <1>3, LiveStays DEF Apply
    <2>2. k \notin CategoryKeys
        BY <1>3 DEF Affects
    <2> QED
        BY <2>1, <2>2, ListsStay, DetailStays, OthersStay DEF Keys
<1> QED
    BY <1>1, <1>2, <1>3 DEF Changeable, ProductKinds

LEMMA UnquietTyped ==
    ASSUME CacheTyped, cache' = Unquiet
    PROVE  /\ DOMAIN cache' = DOMAIN cache /\ CacheTyped'
           /\ \A k \in DOMAIN cache : \A e \in cache'[k] : ~e.quiet
<1>1. DOMAIN cache' = DOMAIN cache /\ cache' = [k \in DOMAIN cache' |-> cache'[k]]
    BY DEF Unquiet
<1>2. \A k \in DOMAIN cache : \A e \in cache'[k] :
        e = [value |-> e.value, quiet |-> e.quiet] /\ e.quiet = FALSE
    BY Unquieted
<1> QED
    BY <1>1, <1>2 DEF CacheTyped

\* What a request for a change knows outlives a change that ends no product, as
\* long as it is told that somebody else has committed.
LEMMA AdminStays ==
    ASSUME \A s \in Slugs : products[s] # NoProduct => products'[s] # NoProduct,
           NEW x, AdminOk(x),
           \/ \A s \in Slugs : products[s] = NoProduct => products'[s] = NoProduct
           \/ x.phase # "named"
    PROVE  AdminOk(x)'
<1>1. \A c : Changeable(c) => Changeable(c)'
    BY DEF Changeable
<1> QED
    BY <1>1 DEF AdminOk

LEMMA NamedIsTold ==
    ASSUME \A s \in Slugs : products[s] # NoProduct => products'[s] # NoProduct,
           NEW x, AdminOk(x), x.phase = "named",
           NEW y, y = [x EXCEPT !.disturbed = TRUE]
    PROVE  AdminOk(y)' /\ y.phase = "named" /\ y.todo = x.todo
<1>1. x = [phase |-> "named", todo |-> NoTask, disturbed |-> x.disturbed, change |-> x.change]
    BY DEF AdminOk
<1>2. /\ y.phase = "named" /\ y.todo = NoTask /\ y.disturbed = TRUE /\ y.change = x.change
      /\ y = [phase |-> "named", todo |-> NoTask, disturbed |-> y.disturbed,
              change |-> y.change]
    <2>1. y.phase = x.phase /\ y.todo = x.todo /\ y.disturbed = TRUE /\ y.change = x.change
        BY <1>1
    <2>2. y = [phase |-> y.phase, todo |-> y.todo, disturbed |-> y.disturbed,
               change |-> y.change]
        BY <1>1
    <2>3. x.phase = "named" /\ x.todo = NoTask
        BY <1>1
    <2> QED
        BY <2>1, <2>2, <2>3
<1>3. /\ Changeable(x.change) /\ x.change.kind = "create" /\ x.change.at \in Slugs
      /\ x.todo = NoTask
    BY DEF AdminOk
<1>4. Changeable(x.change)'
    BY <1>3 DEF Changeable
<1> QED
    BY <1>2, <1>3, <1>4 DEF AdminOk

LEMMA CommitsKeepsInv == ASSUME Inv, NEW a \in Admins, Commits(a) PROVE Inv'
<1> DEFINE c == admin[a].change
<1>1. /\ admin[a].phase = "flushed" /\ Apply(c) /\ UNCHANGED reader
      /\ cache' = IF Orphans(c) THEN Unquiet ELSE cache
    BY DEF Commits
<1>2. Changeable(c) /\ admin[a].todo \in Seq(SUBSET Keys)
    BY <1>1 DEF Inv, AdminsOk, AdminOk
<1>3. ProductsTyped' /\ \A s \in Slugs : products[s] # NoProduct => products'[s] # NoProduct
    BY <1>1, <1>2, ApplyKeepsTypes DEF Inv
<1>4. admin' = [b \in Admins |->
        IF b = a THEN [phase |-> "free", todo |-> admin[a].todo]
        ELSE IF admin[b].phase = "named" THEN [admin[b] EXCEPT !.disturbed = TRUE] ELSE admin[b]]
    BY DEF Commits
<1>5. ASSUME NEW b \in Admins
      PROVE  /\ AdminOk(admin[b])' /\ admin'[b].todo = admin[b].todo
             /\ admin'[b].phase = "flushed" => b # a /\ admin'[b] = admin[b]
    <2>1. CASE b = a
        BY <1>2, <1>4, <2>1 DEF AdminOk
    <2>2. CASE b # a /\ admin[b].phase = "named"
        <3>1. PICK x : x = admin[b]
            OBVIOUS
        <3>2. PICK y : y = [x EXCEPT !.disturbed = TRUE]
            OBVIOUS
        <3>3. admin'[b] = y
            BY <1>4, <2>2, <3>1, <3>2
        <3>4. AdminOk(x)
            BY <3>1 DEF Inv, AdminsOk
        <3>5. AdminOk(y)' /\ y.phase = "named" /\ y.todo = x.todo
            BY <1>3, <2>2, <3>1, <3>2, <3>4, NamedIsTold
        <3> QED
            BY <3>1, <3>3, <3>5 DEF AdminOk, Changeable
    <2>3. CASE b # a /\ admin[b].phase # "named"
        <3>1. PICK x : x = admin[b]
            OBVIOUS
        <3>2. admin'[b] = x
            BY <1>4, <2>3, <3>1
        <3>3. AdminOk(x)'
            BY <1>3, <2>3, <3>1, AdminStays DEF Inv, AdminsOk
        <3> QED
            BY <2>3, <3>1, <3>2, <3>3 DEF AdminOk, Changeable
    <2> QED
        BY <2>1, <2>2, <2>3
<1>6. AdminsOk'
    <2>1. admin' = [b \in Admins |-> admin'[b]]
        BY <1>4
    <2> QED
        BY <1>5, <2>1 DEF AdminsOk
<1>7. ReadersOk'
    <2>1. ASSUME NEW p \in Readers PROVE ReaderOk(reader[p])'
        <3>1. ReaderOk(reader[p])
            BY DEF Inv, ReadersOk
        <3>2. reader[p] # Free => Asking(reader[p]) /\ ~reader[p].quiet
            BY <1>1, <3>1 DEF ReaderOk, NoneFlushed
        <3> QED
            BY <1>1, <3>2 DEF ReaderOk, Asking
    <2> QED
        BY <1>1, <2>1 DEF Inv, ReadersOk
<1>8. DOMAIN cache' = DOMAIN cache /\ CacheTyped'
    BY <1>1, UnquietTyped DEF Inv, CacheTyped
<1>9. \A k : Pending(k) => Pending(k)'
    BY <1>5, PendingStays
<1>10. CASE Orphans(c)
    <2>1. \A k \in DOMAIN cache : \A e \in cache'[k] : ~e.quiet
        BY <1>1, <1>10, UnquietTyped DEF Inv
    <2>2. QuietEntryIsExact' /\ Covered'
        BY <1>8, <2>1 DEF QuietEntryIsExact, Covered
    <2> QED
        BY <1>3, <1>6, <1>7, <1>8, <2>2 DEF Inv
<1>11. CASE ~Orphans(c)
    <2>1. cache' = cache
        BY <1>1, <1>11
    <2>2. ASSUME NEW k \in DOMAIN cache, NEW e \in cache[k], e.quiet
          PROVE  e.value \in Answer(k)' \/ Pending(k)'
        <3>1. CASE Affects(c, k)
            <4>1. Pending(k)
                BY <1>1, <2>2, <3>1 DEF Inv, Covered
            <4> QED
                BY <1>9, <4>1
        <3>2. CASE ~Affects(c, k)
            <4>1. Answer(k)' = Answer(k)
                BY <1>1, <1>2, <1>11, <3>2, UnaffectedStay DEF Inv, CacheTyped
            <4>2. e.value \in Answer(k) \/ Pending(k)
                BY <2>2 DEF Inv, QuietEntryIsExact
            <4> QED
                BY <1>9, <4>1, <4>2
        <3> QED
            BY <3>1, <3>2
    <2>3. QuietEntryIsExact'
        BY <2>1, <2>2 DEF QuietEntryIsExact
    <2>4. Covered'
        <3> SUFFICES ASSUME NEW b \in Admins, admin'[b].phase = "flushed", NEW k \in DOMAIN cache,
                            NEW e \in cache[k], e.quiet, Affects(admin'[b].change, k)
                     PROVE  Pending(k)'
            BY <2>1 DEF Covered, Affects
        <3>1. admin'[b] = admin[b]
            BY <1>5
        <3>2. Pending(k)
            BY <3>1 DEF Inv, Covered
        <3> QED
            BY <1>9, <3>2
    <2> QED
        BY <1>3, <1>6, <1>7, <1>8, <2>3, <2>4 DEF Inv
<1> QED
    BY <1>10, <1>11

LEMMA SilentKeepsInv == ASSUME Inv, SilentChange PROVE Inv'
<1>1. cache' = Unquiet /\ reader' = Disturbed /\ admin' = admin
    BY DEF SilentChange
<1>2. /\ ProductsTyped'
      /\ \A s \in Slugs : products'[s] # NoProduct <=> products[s] # NoProduct
    <2>1. CASE products' = products
        BY <2>1 DEF Inv, ProductsTyped
    <2>2. CASE products' # products
        <3>1. PICK s \in Live, n \in {0, 1} : products' = [products EXCEPT ![s].stock = n]
            BY <2>2 DEF SilentChange
        <3>2. products[s] \in Product /\ s \in Slugs
            BY LiveProducts DEF Inv
        <3>3. [products[s] EXCEPT !.stock = n] \in Product
            BY <3>2 DEF Product
        <3> QED
            BY <3>1, <3>2, <3>3, ProductIsNotNoProduct DEF Inv, ProductsTyped
    <2> QED
        BY <2>1, <2>2
<1>3. ASSUME NEW b \in Admins PROVE AdminOk(admin[b])'
    <2>1. PICK x : x = admin[b]
        OBVIOUS
    <2>2. AdminOk(x)'
        BY <1>2, <2>1, AdminStays DEF Inv, AdminsOk
    <2> QED
        BY <1>1, <2>1, <2>2 DEF AdminOk, Changeable
<1>4. AdminsOk'
    BY <1>1, <1>3 DEF Inv, AdminsOk
<1>5. /\ reader' = [p \in Readers |-> reader'[p]]
      /\ \A p \in Readers : reader'[p] = Free \/ (Asking(reader'[p]) /\ ~reader'[p].quiet)
    BY <1>1, DisturbedAsk DEF Inv
<1>6. ReadersOk'
    BY <1>5 DEF ReadersOk, ReaderOk, Asking
<1>7. /\ DOMAIN cache' = DOMAIN cache /\ CacheTyped'
      /\ \A k \in DOMAIN cache : \A e \in cache'[k] : ~e.quiet
    BY <1>1, UnquietTyped DEF Inv
<1>8. QuietEntryIsExact' /\ Covered'
    BY <1>7 DEF QuietEntryIsExact, Covered
<1> QED
    BY <1>2, <1>4, <1>6, <1>7, <1>8 DEF Inv

-----------------------------------------------------------------------------
(* The theorems *)

\* Every read, refill, change, commit and deletion keeps it.
THEOREM NextInv == Inv /\ [Next]_vars => Inv'
<1> SUFFICES ASSUME Inv, [Next]_vars PROVE Inv'
    OBVIOUS
<1>1. ASSUME NEW r \in Readers, ReaderMisses(r) \/ ReaderStep(r) PROVE Inv'
    BY <1>1, RequestReads, RequestStores DEF ReaderStep
<1>2. ASSUME NEW k \in Keys, Expire(k) PROVE Inv'
    BY <1>2, ExpireKeepsInv
<1>3. ASSUME NEW a \in Admins,
             \/ CreateBegins(a) \/ EditProduct(a) \/ DeleteProduct(a)
             \/ EditPromotion(a) \/ WriteCategoryFails(a) \/ DeleteCategoryBegins(a)
             \/ AdminStep(a)
      PROVE  Inv'
    BY <1>3, BeginsKeepsInv, FlushesKeepInv, CommitsKeepsInv, RollsBackKeepsInv,
       DeletesKeepsInv, DeleteFailsKeepsInv DEF AdminStep
<1>4. CASE SilentChange
    BY <1>4, SilentKeepsInv
<1>5. CASE UNCHANGED vars
    <2>1. Live' = Live
        BY <1>5 DEF vars, shop, Live
    <2>2. UNCHANGED <<shop, cache, reader, admin>>
        BY <1>5 DEF vars
    <2>3. ASSUME NEW r \in Readers PROVE Inv'
        <3>1. reader' = [reader EXCEPT ![r] = reader[r]] /\ ReaderOk(reader[r])
            BY <2>2 DEF Inv, ReadersOk
        <3> QED
            BY <2>2, <3>1, RequestKeepsInv
    <2>4. CASE Readers = {}
        <3>1. CacheTyped' /\ AdminsOk' /\ DOMAIN cache' = DOMAIN cache
            BY <2>2 DEF Inv, CacheTyped, AdminsOk, AdminOk, Changeable, shop
        <3>2. reader' = [r \in Readers |-> reader'[r]]
            BY <2>2 DEF Inv, ReadersOk
        <3>3. \A k : Pending(k)' <=> Pending(k)
            BY <2>2 DEF Pending
        <3> QED
            BY <2>2, <2>4, <3>1, <3>2, <3>3, ShopStaysInv
    <2> QED
        BY <2>3, <2>4
<1> QED
    BY <1>1, <1>2, <1>3, <1>4, <1>5 DEF Next

\* In every reachable state quiet answers are exact or about to be deleted (core/cache.py).
THEOREM Invariance == Spec => []Inv
<1> QED
    BY InitInv, NextInv, PTL DEF Spec

\* No entry that was filled at rest is ever wrong before a handler is due to
\* delete it: every change deletes all the answers that its commit makes wrong,
\* and what deletes them is under way before the commit.
THEOREM QuietEntriesAreExact == Spec => []QuietEntryIsExact
<1>1. Inv => QuietEntryIsExact
    BY DEF Inv
<1> QED
    BY <1>1, Invariance, PTL

\* A creation that finds its category, and beside which nothing commits, is not
\* refused: the suffix it has chosen is still free.
THEOREM CreationsSucceed == Spec => UndisturbedCreateSucceeds
<1> DEFINE Safe == \A a \in Admins :
        /\ admin[a].phase = "named" /\ ~admin[a].disturbed
        /\ admin[a].change.to.category \in categories \cup {Nothing}
        => admin'[a].phase # "free"
<1>1. ASSUME Inv, [Next]_vars PROVE [Safe]_vars
    <2> SUFFICES ASSUME Next, NEW a \in Admins, admin[a].phase = "named", ~admin[a].disturbed,
                        admin[a].change.to.category \in categories \cup {Nothing}
                 PROVE  admin'[a].phase # "free"
        BY <1>1
    <2>1. /\ admin = [b \in Admins |-> admin[b]] /\ admin[a].todo = NoTask
          /\ admin[a] = [phase |-> "named", todo |-> NoTask, disturbed |-> admin[a].disturbed,
                         change |-> admin[a].change]
          /\ Insertable(admin[a].change)
        BY <1>1 DEF Inv, AdminsOk, AdminOk, Insertable
    <2>2. CASE admin'[a] = admin[a]
        BY <2>2
    <2>3. CASE admin'[a] # admin[a]
        <3>1. PICK b \in Admins :
                \/ CreateBegins(b) \/ EditProduct(b) \/ DeleteProduct(b)
                \/ EditPromotion(b) \/ WriteCategoryFails(b) \/ DeleteCategoryBegins(b)
                \/ AdminStep(b)
            BY <2>3 DEF Next, ReaderMisses, ReaderStep, ReaderCounts, ReaderReads, ReaderPrices,
                        ReaderStores, ReaderLeaves, Expire, SilentChange
        <3>2. ~Starts(a)
            BY DEF Starts
        <3>3. CASE b # a
            <4>1. CASE Commits(b)
                <5>1. PICK x : x = admin[a]
                    OBVIOUS
                <5>2. PICK y : y = [x EXCEPT !.disturbed = TRUE]
                    OBVIOUS
                <5>3. y.phase = "named"
                    BY <2>1, <5>1, <5>2
                <5>4. admin'[a] = y
                    BY <3>3, <4>1, <5>1, <5>2 DEF Commits
                <5> QED
                    BY <5>3, <5>4
            <4>2. CASE ~Commits(b)
                <5>1. admin'[a] = admin[a]
                    BY <2>1, <3>1, <3>3, <4>2 DEF CreateBegins, EditProduct, DeleteProduct,
                        EditPromotion, WriteCategoryFails, DeleteCategoryBegins, AdminStep,
                        CreateFlushes, DeleteCategoryFlushes, RollsBack, Deletes, DeleteFails, Flush
                <5> QED
                    BY <2>3, <5>1
            <4> QED
                BY <4>1, <4>2
        <3>4. CASE b = a
            <4>1. AdminStep(a)
                BY <3>1, <3>2, <3>4 DEF CreateBegins, EditProduct, DeleteProduct, EditPromotion,
                    WriteCategoryFails, DeleteCategoryBegins
            <4>2. CreateFlushes(a)
                BY <2>1, <4>1 DEF AdminStep, DeleteCategoryFlushes, Commits, RollsBack, Deletes,
                    DeleteFails
            <4> QED
                BY <2>1, <4>2 DEF CreateFlushes, Flush
        <3> QED
            BY <3>3, <3>4
    <2> QED
        BY <2>2, <2>3
<1>2. Inv /\ [Next]_vars => [Safe]_vars
    BY <1>1
<1> HIDE DEF Safe
<1>3. Spec => [][Safe]_vars
    BY <1>2, Invariance, PTL DEF Spec
<1> QED
    BY <1>3 DEF UndisturbedCreateSucceeds, Safe

-----------------------------------------------------------------------------
(* What answers are made of *)

\* An answer that could have been given, at some time.
Fits(k, value) ==
    /\ k \in DetailKeys => value \in Product /\ value.state = "live"
    /\ k \in ListKeys => value.total \in 0 .. MaxProducts /\ Len(value.rows) <= PerPage

\* A request has read one answer or none.
Fitting(q) == q # Free =>
    /\ q.total \in 0 .. MaxProducts
    /\ \A v \in q.value : Fits(q.key, v)
    /\ \A v, w \in q.value : v = w
ReadersFit == \A r \in Readers : Fitting(reader[r])

CacheFits ==
    /\ DOMAIN cache \in Followed
    /\ \A k \in DOMAIN cache :
        /\ \A e \in cache[k] : Fits(k, e.value)
        /\ \A d, e \in cache[k] : d = e

\* A promotion that is about to change will be one.
Targets == Slugs \cup {Nothing, Everything}
PromotionsFit ==
    /\ promotions \in [Promotions -> Targets]
    /\ \A a \in Admins : admin[a].phase = "flushed" /\ admin[a].change.kind = "promotion" =>
        admin[a].change.to \in Targets

Bounded ==
    /\ categories \subseteq Categories
    /\ changes \in 0 .. MaxChanges /\ silent \in 0 .. MaxSilent /\ outages \in 0 .. MaxOutages

Kept == ReadersFit /\ CacheFits /\ PromotionsFit /\ Bounded

LEMMA CountFits == Cardinality(Live) \in 0 .. MaxProducts
<1>1. IsFiniteSet(1 .. MaxProducts) /\ Cardinality(1 .. MaxProducts) = MaxProducts
    BY FS_Interval, BoundsAssumption
<1>2. Live \subseteq 1 .. MaxProducts
    BY DEF Live, Slugs
<1>3. Cardinality(Live) \in Nat /\ Cardinality(Live) <= Cardinality(1 .. MaxProducts)
    BY <1>1, <1>2, FS_Subset, FS_CardinalityType
<1> QED
    BY <1>1, <1>3

\* However old the count, a page has no more rows than a page holds.
LEMMA RowsAreFew ==
    ASSUME NEW page \in Int, NEW total \in Nat
    PROVE  /\ Len(Rows(page, total)) \in 0 .. PerPage
           /\ DOMAIN Rows(page, total) = 1 .. Len(Rows(page, total))
<1> DEFINE n == Len(Listing)
           offset == (Clamped(page, total) - 1) * PerPage
           last == IF offset + PerPage < n THEN offset + PerPage ELSE n
           rows == SubSeq(Listing, offset + 1, last)
<1>1. PerPage \in Nat
    BY BoundsAssumption
<1>2. n \in Nat
    <2>1. DOMAIN [s \in Live |-> products[s].stock] = Live
        OBVIOUS
    <2>2. Cardinality(Live) \in Nat
        BY CountFits
    <2> QED
        BY <2>1, <2>2 DEF Listing, InOrder
<1>3. offset \in Int
    <2>1. LastPage(total) \in Int
        BY <1>1, BoundsAssumption DEF LastPage
    <2> QED
        BY <1>1, <2>1 DEF Clamped
<1>4. rows = Rows(page, total)
    BY DEF Rows
<1> HIDE DEF n, offset
<1>5. last \in Int /\ last <= offset + PerPage
    BY <1>1, <1>2, <1>3
<1> HIDE DEF last
<1>6. PICK S : S = {Listing[i] : i \in (offset + 1) .. last}
    OBVIOUS
<1>7. \A i \in (offset + 1) .. last : Listing[i] \in S
    BY <1>6
<1>8. offset + 1 \in Int
    BY <1>3
<1>9. /\ rows \in Seq(S)
      /\ Len(rows) = IF offset + 1 <= last THEN last - (offset + 1) + 1 ELSE 0
    BY <1>5, <1>7, <1>8, SubSeqProperties
<1> HIDE DEF rows
<1>10. Len(rows) \in 0 .. PerPage
    BY <1>1, <1>3, <1>5, <1>9
<1>11. DOMAIN rows = 1 .. Len(rows)
    BY <1>9
<1> QED
    BY <1>4, <1>10, <1>11

LEMMA PagesFit ==
    ASSUME NEW k \in ListKeys, NEW total \in 0 .. MaxProducts,
           NEW rows, rows = <<>> \/ rows = Rows(k.at, total)
    PROVE  Fits(k, Page(rows, total))
<1>1. k.at \in Int /\ k \notin DetailKeys
    BY KeyKinds DEF ListKeys, Pages
<1>2. PerPage \in Nat /\ total \in Nat
    BY BoundsAssumption
<1>3. PICK n \in 0 .. PerPage : DOMAIN rows = 1 .. n
    <2>1. CASE rows = <<>>
        <3>1. DOMAIN rows = 1 .. 0 /\ 0 \in 0 .. PerPage
            BY <1>2, <2>1
        <3> QED
            BY <3>1
    <2>2. CASE rows = Rows(k.at, total)
        BY <1>1, <1>2, <2>2, RowsAreFew
    <2> QED
        BY <2>1, <2>2
<1>4. PICK f : f = [i \in 1 .. n |-> Summary[rows[i]]]
    OBVIOUS
<1>5. Len(f) = n
    BY <1>2, <1>4
<1>6. Page(rows, total).rows = f /\ Page(rows, total).total = total
    BY <1>3, <1>4 DEF Page
<1> QED
    BY <1>1, <1>2, <1>5, <1>6 DEF Fits

LEMMA DetailsFit ==
    ASSUME ProductsTyped, NEW k \in DetailKeys, k.at \in Live
    PROVE  Fits(k, products[k.at])
<1>1. products[k.at] \in Product
    BY LiveProducts
<1>2. k \notin ListKeys
    BY KeyKinds
<1> QED
    BY <1>1, <1>2 DEF Fits, Live

LEMMA OthersFit ==
    ASSUME NEW k \in PromotionKeys \cup CategoryKeys
    PROVE  /\ \A v \in Answer(k) : Fits(k, v)
           /\ \A v, w \in Answer(k) : v = w
BY KeyKinds DEF Answer, Fits

\* An empty cache holds no answer of a wrong kind.
THEOREM InitKept == Init => Kept
<1> SUFFICES ASSUME Init PROVE Kept
    OBVIOUS
<1> USE DEF Init
<1>1. ReadersFit
    BY DEF ReadersFit, Fitting
<1>2. CacheFits
    BY DEF CacheFits
<1>3. PromotionsFit
    BY DEF PromotionsFit, Targets
<1>4. Bounded
    BY BoundsAssumption DEF Bounded
<1> QED
    BY <1>1, <1>2, <1>3, <1>4 DEF Kept

-----------------------------------------------------------------------------
(* Steps of requests *)

LEMMA RequestKept ==
    ASSUME Inv, Kept, UNCHANGED <<shop, cache, admin, changes, silent>>,
           outages' \in 0 .. MaxOutages, NEW r \in Readers,
           NEW x, reader' = [reader EXCEPT ![r] = x], Fitting(x)
    PROVE  Kept'
<1>1. ReadersFit'
    <2>1. \A p \in Readers : Fitting(reader'[p])
        BY DEF Kept, ReadersFit, Inv, ReadersOk
    <2> QED
        BY <2>1 DEF ReadersFit, Fitting, Fits
<1>2. CacheFits'
    BY DEF Kept, CacheFits, Fits
<1>3. PromotionsFit' /\ Bounded'
    BY DEF Kept, PromotionsFit, Targets, Bounded, shop
<1> QED
    BY <1>1, <1>2, <1>3 DEF Kept

LEMMA ReadingKept ==
    ASSUME Inv, Kept, NEW r \in Readers,
           ReaderMisses(r) \/ ReaderCounts(r) \/ ReaderReads(r) \/ ReaderPrices(r) \/ ReaderLeaves(r)
    PROVE  Kept'
<1> DEFINE q == reader[r]
<1>1. ReaderOk(q) /\ Fitting(q) /\ Fitting(Free) /\ Free.phase = "free"
    BY DEF Inv, ReadersOk, Kept, ReadersFit, Fitting, Free
<1>2. changes' = changes /\ silent' = silent /\ UNCHANGED <<shop, cache, admin>>
    BY DEF ReaderMisses, ReaderCounts, ReaderReads, ReaderPrices, ReaderLeaves, bounds
<1>3. outages' \in 0 .. MaxOutages
    BY BoundsAssumption
       DEF ReaderMisses, ReaderCounts, ReaderReads, ReaderPrices, ReaderLeaves, bounds, Kept, Bounded
<1>4. 0 \in 0 .. MaxProducts
    BY BoundsAssumption
<1>5. ASSUME NEW p \in {"counted", "read", "priced", "failed"}, NEW t \in 0 .. MaxProducts, NEW v,
             p = "counted" => q.key \in ListKeys,
             p = "read" => q.key \in ListKeys \cup DetailKeys,
             Becomes(r, p, t, v), q # Free,
             \A w \in v : Fits(q.key, w), \A w, z \in v : w = z
      PROVE  Kept'
    <2>1. PICK x : x = Moved(q, p, t, v)
        OBVIOUS
    <2>2. Asking(q)
        BY <1>1, <1>5 DEF ReaderOk
    <2>3. x.total = t /\ x.value = v /\ x.key = q.key
        BY <1>5, <2>1, <2>2, Proceeds
    <2>4. Fitting(x)
        BY <1>5, <2>3 DEF Fitting
    <2>5. reader' = [reader EXCEPT ![r] = x]
        BY <1>5, <2>1 DEF Becomes, Moved, Inv, ReadersOk
    <2> QED
        BY <1>2, <1>3, <2>4, <2>5, RequestKept
<1>6. CASE ReaderMisses(r)
    <2> DEFINE x(k, f) == [phase |-> "missed", key |-> k, filtered |-> f, quiet |-> AtRest,
                           total |-> 0, value |-> {}]
    <2>1. PICK k \in DOMAIN cache : \E f \in Filterable(k) :
            reader' = [reader EXCEPT ![r] = x(k, f)]
        BY <1>6, Zenon DEF ReaderMisses
    <2>2. PICK f \in Filterable(k) : reader' = [reader EXCEPT ![r] = x(k, f)]
        BY <2>1
    <2>3. Fitting(x(k, f))
        BY <1>4 DEF Fitting
    <2> QED
        BY <1>2, <1>3, <2>2, <2>3, RequestKept
<1>7. CASE ReaderCounts(r)
    <2>1. q # Free /\ q.key \in ListKeys
        BY <1>1, <1>7, KeyKinds DEF ReaderCounts, ReaderOk, Asking, Keys
    <2> DEFINE t == IF q.filtered THEN 0 ELSE Cardinality(Live)
    <2>2. t \in 0 .. MaxProducts
        BY <1>4, CountFits
    <2>3. Becomes(r, "counted", t, {})
        BY <1>7 DEF ReaderCounts
    <2> HIDE DEF t
    <2> QED
        BY <1>5, <2>1, <2>2, <2>3
<1>8. CASE ReaderReads(r)
    <2>1. CASE q.phase = "counted"
        <3> DEFINE rows == IF q.filtered THEN <<>> ELSE Rows(q.key.at, q.total)
                   v == {Page(rows, q.total)}
        <3>1. q # Free /\ q.key \in ListKeys /\ q.key.kind = "list"
            BY <1>1, <2>1, KeyKinds DEF ReaderOk, Asking
        <3>2. q.total \in 0 .. MaxProducts
            BY <1>1, <3>1 DEF Fitting
        <3>3. Fits(q.key, Page(rows, q.total))
            BY <3>1, <3>2, PagesFit
        <3>4. Becomes(r, "read", q.total, v)
            BY <1>8, <2>1 DEF ReaderReads
        <3>5. (\A w \in v : Fits(q.key, w)) /\ \A w, z \in v : w = z
            BY <3>3
        <3> HIDE DEF v
        <3> QED
            BY <1>5, <3>1, <3>2, <3>4, <3>5
    <2>2. CASE q.phase = "missed" /\ NotFound(q)
        <3>1. reader' = [reader EXCEPT ![r] = Free]
            BY <1>8, <2>2 DEF ReaderReads
        <3> QED
            BY <1>1, <1>2, <1>3, <3>1, RequestKept
    <2>3. CASE q.phase = "missed" /\ ~NotFound(q)
        <3> DEFINE v == {products[q.key.at]}
        <3>1. q # Free /\ q.key \in DetailKeys /\ q.key.at \in Live
            BY <1>1, <1>8, <2>3, KeyKinds DEF ReaderReads, ReaderOk, Asking, Keys, NotFound
        <3>2. Fits(q.key, products[q.key.at])
            BY <3>1, DetailsFit DEF Inv
        <3>3. Becomes(r, "read", 0, v)
            BY <1>8, <2>3 DEF ReaderReads
        <3>4. (\A w \in v : Fits(q.key, w)) /\ \A w, z \in v : w = z
            BY <3>2
        <3> HIDE DEF v
        <3> QED
            BY <1>4, <1>5, <3>1, <3>3, <3>4
    <2> QED
        BY <1>8, <2>1, <2>2, <2>3 DEF ReaderReads
<1>9. CASE ReaderPrices(r)
    <2>1. q # Free /\ q.phase \in {"read", "missed"}
        BY <1>1, <1>9 DEF ReaderPrices
    <2>2. CASE q.phase = "read" /\ Becomes(r, "priced", q.total, q.value)
        BY <1>1, <1>5, <2>1, <2>2 DEF Fitting
    <2>3. CASE q.phase = "read" /\ Becomes(r, "failed", 0, {})
        BY <1>4, <1>5, <2>1, <2>3
    <2>4. CASE q.key \in PromotionKeys \cup CategoryKeys /\ Becomes(r, "priced", 0, Answer(q.key))
        BY <1>4, <1>5, <2>1, <2>4, OthersFit
    <2> QED
        BY <1>9, <2>2, <2>3, <2>4 DEF ReaderPrices
<1>10. CASE ReaderLeaves(r)
    BY <1>1, <1>2, <1>3, <1>10, RequestKept DEF ReaderLeaves
<1> QED
    BY <1>6, <1>7, <1>8, <1>9, <1>10

LEMMA StoringKept == ASSUME Inv, Kept, NEW r \in Readers, ReaderStores(r) PROVE Kept'
<1> DEFINE q == reader[r]
<1>1. q # Free /\ Asking(q) /\ Fitting(q) /\ Fitting(Free)
    BY DEF ReaderStores, Inv, ReadersOk, ReaderOk, Free, Kept, ReadersFit, Fitting
<1>2. UNCHANGED <<shop, admin, bounds>> /\ reader' = [reader EXCEPT ![r] = Free]
    BY DEF ReaderStores
<1>3. ReadersFit'
    <2>1. \A p \in Readers : Fitting(reader'[p])
        BY <1>1, <1>2 DEF Kept, ReadersFit, Inv, ReadersOk
    <2> QED
        BY <2>1 DEF ReadersFit, Fitting, Fits
<1>4. CacheFits'
    <2>1. CASE cache' = cache
        BY <2>1 DEF Kept, CacheFits, Fits
    <2>2. CASE cache' # cache
        <3> DEFINE put == {[value |-> v, quiet |-> q.quiet] : v \in q.value}
        <3>1. cache' = [cache EXCEPT ![q.key] = put]
            BY <2>2 DEF ReaderStores
        <3>2. (\A e \in put : Fits(q.key, e.value)) /\ \A d, e \in put : d = e
            BY <1>1 DEF Fitting
        <3> HIDE DEF put
        <3>3. DOMAIN cache' = DOMAIN cache
            BY <3>1
        <3>4. \A k \in DOMAIN cache : cache'[k] = IF k = q.key THEN put ELSE cache[k]
            BY <3>1
        <3>5. \A k \in DOMAIN cache : /\ \A e \in cache'[k] : Fits(k, e.value)
                                      /\ \A d, e \in cache'[k] : d = e
            BY <3>2, <3>4 DEF Kept, CacheFits
        <3> QED
            BY <3>3, <3>5 DEF Kept, CacheFits, Fits
    <2> QED
        BY <2>1, <2>2
<1>5. PromotionsFit' /\ Bounded'
    BY <1>2 DEF Kept, PromotionsFit, Targets, Bounded, shop, bounds
<1> QED
    BY <1>3, <1>4, <1>5 DEF Kept

-----------------------------------------------------------------------------
(* Entries that go, and changes *)

\* Entries go, or are no longer quiet.
Dwindles ==
    /\ DOMAIN cache' = DOMAIN cache
    /\ \A k \in DOMAIN cache : cache'[k] \in {cache[k], {}, Unquiet[k]}

LEMMA DwindlingFits == ASSUME Inv, CacheFits, Dwindles PROVE CacheFits'
<1>1. ASSUME NEW k \in DOMAIN cache
      PROVE  /\ \A e \in cache'[k] : Fits(k, e.value)
             /\ \A d, e \in cache'[k] : d = e
    <2>1. CASE cache'[k] # Unquiet[k]
        BY <2>1 DEF Dwindles, CacheFits
    <2>2. CASE cache'[k] = Unquiet[k]
        <3>1. Unquiet[k] = {[e EXCEPT !.quiet = FALSE] : e \in cache[k]}
            BY DEF Unquiet
        <3>2. \A e \in cache[k] : [e EXCEPT !.quiet = FALSE].value = e.value
            BY DEF Inv, CacheTyped
        <3> DEFINE From(e) == \E c \in cache[k] : e = [c EXCEPT !.quiet = FALSE]
        <3>5. ASSUME NEW e \in Unquiet[k] PROVE From(e)
            BY <3>1
        <3>3. ASSUME NEW d \in Unquiet[k], NEW e \in Unquiet[k] PROVE d = e
            <4>1. PICK b \in cache[k] : d = [b EXCEPT !.quiet = FALSE]
                BY <3>5
            <4>2. PICK c \in cache[k] : e = [c EXCEPT !.quiet = FALSE]
                BY <3>5
            <4>3. b = c
                BY DEF CacheFits
            <4> QED
                BY <4>1, <4>2, <4>3
        <3>4. ASSUME NEW e \in Unquiet[k] PROVE Fits(k, e.value)
            <4>1. PICK c \in cache[k] : e = [c EXCEPT !.quiet = FALSE]
                BY <3>5
            <4>2. e.value = c.value
                BY <3>2, <4>1
            <4> QED
                BY <4>2 DEF CacheFits
        <3> QED
            BY <2>2, <3>3, <3>4
    <2> QED
        BY <2>1, <2>2
<1> QED
    BY <1>1 DEF Dwindles, CacheFits, Fits

LEMMA DisturbedFit == ASSUME Inv, ReadersFit, reader' = Disturbed PROVE ReadersFit'
<1>1. ASSUME NEW p \in Readers, reader[p] # Free PROVE Fitting(reader'[p])
    <2>1. PICK q : q = reader[p]
        OBVIOUS
    <2>2. PICK x : x = [q EXCEPT !.quiet = FALSE]
        OBVIOUS
    <2>3. q = [phase |-> q.phase, key |-> q.key, filtered |-> q.filtered, quiet |-> q.quiet,
               total |-> q.total, value |-> q.value]
        BY <1>1, <2>1 DEF Inv, ReadersOk, ReaderOk, Asking
    <2>4. x.key = q.key /\ x.total = q.total /\ x.value = q.value
        BY <2>2, <2>3
    <2>5. Fitting(x)
        BY <1>1, <2>1, <2>4 DEF ReadersFit, Fitting
    <2>6. reader'[p] = x
        BY <1>1, <2>1, <2>2 DEF Disturbed
    <2> QED
        BY <2>5, <2>6
<1>2. ASSUME NEW p \in Readers, reader[p] = Free PROVE Fitting(reader'[p])
    BY <1>2 DEF Disturbed, Fitting
<1> QED
    BY <1>1, <1>2 DEF ReadersFit, Fitting, Fits

\* Whoever has flushed a promotion had done so before, or it is as promotions are.
Passes == \A b \in Admins : admin'[b].phase = "flushed" =>
    \/ admin[b].phase = "flushed" /\ admin'[b].change = admin[b].change
    \/ admin'[b].change.kind = "promotion" => admin'[b].change.to \in Targets

LEMMA PassingKept ==
    ASSUME Inv, Kept, Dwindles, Passes, Bounded', promotions' \in [Promotions -> Targets],
           reader' = reader \/ reader' = Disturbed
    PROVE  Kept'
<1>1. ReadersFit'
    BY DisturbedFit DEF Kept, ReadersFit, Fitting, Fits
<1>2. CacheFits'
    BY DwindlingFits DEF Kept
<1>3. PromotionsFit'
    BY DEF Kept, PromotionsFit, Passes, Targets
<1> QED
    BY <1>1, <1>2, <1>3 DEF Kept

LEMMA DeletingKept ==
    ASSUME Inv, Kept, NEW a \in Admins, Deletes(a) \/ DeleteFails(a)
    PROVE  Kept'
<1>1. /\ UNCHANGED <<shop, reader, changes, silent>> /\ admin[a].todo # NoTask
      /\ admin' = [admin EXCEPT ![a].todo = Tail(@)]
    BY DEF Deletes, DeleteFails, bounds
<1>2. outages' \in 0 .. MaxOutages
    BY BoundsAssumption DEF Deletes, DeleteFails, bounds, Kept, Bounded
<1>3. Dwindles
    BY DEF Deletes, DeleteFails, Dwindles
<1>4. PICK x : x = admin[a]
    OBVIOUS
<1>5. PICK y : y = Advanced(x, Tail(x.todo))
    OBVIOUS
<1>6. /\ admin'[a] = y
      /\ \A b \in Admins : b # a => admin'[b] = admin[b]
    BY <1>1, <1>4, <1>5 DEF Inv, AdminsOk, Advanced
<1>7. AdminOk(x) /\ x.todo # NoTask
    BY <1>1, <1>4 DEF Inv, AdminsOk
<1>8. y.phase = "flushed" => x.phase = "flushed" /\ y.change = x.change
    <2>1. CASE x = [phase |-> "free", todo |-> x.todo]
        BY <1>5, <2>1, Advances
    <2>2. CASE x = [phase |-> "flushed", change |-> x.change, todo |-> x.todo]
        <3>1. y.change = x.change
            BY <1>5, <2>2, Advances
        <3>2. x.phase = "flushed"
            BY <2>2
        <3> QED
            BY <3>1, <3>2
    <2> QED
        BY <1>7, <2>1, <2>2 DEF AdminOk
<1>9. Passes
    BY <1>4, <1>6, <1>8 DEF Passes
<1> QED
    BY <1>1, <1>2, <1>3, <1>9, PassingKept DEF Kept, PromotionsFit, Bounded, shop

LEMMA ExpiringKept == ASSUME Inv, Kept, NEW k \in Keys, Expire(k) PROVE Kept'
<1>1. UNCHANGED <<shop, reader, admin, bounds>> /\ cache' = [cache EXCEPT ![k] = {}]
    BY DEF Expire
<1>2. Dwindles /\ Passes
    BY <1>1 DEF Dwindles, Passes
<1> QED
    BY <1>1, <1>2, PassingKept DEF Kept, PromotionsFit, Bounded, shop, bounds

\* Changes that begin, give up or roll back.
LEMMA UnflushedKept ==
    ASSUME Inv, Kept, UNCHANGED <<shop, cache, reader, silent, outages>>,
           changes' \in 0 .. MaxChanges, NEW a \in Admins, NEW x, x.phase # "flushed",
           admin' = admin \/ admin' = [admin EXCEPT ![a] = x]
    PROVE  Kept'
<1>1. Dwindles
    BY DEF Dwindles
<1>2. Passes
    BY DEF Passes, Inv, AdminsOk
<1> QED
    BY <1>1, <1>2, PassingKept DEF Kept, PromotionsFit, Bounded, shop

LEMMA FlushedKept ==
    ASSUME Inv, Kept, UNCHANGED <<shop, cache, silent, outages>>,
           changes' \in 0 .. MaxChanges, NEW a \in Admins, NEW c, NEW todo, Flush(a, c, todo),
           c.kind = "promotion" => c.to \in Targets
    PROVE  Kept'
<1>1. Dwindles
    BY DEF Dwindles
<1>2. Passes
    BY DEF Flush, Passes, Inv, AdminsOk
<1>3. reader' = Disturbed
    BY DEF Flush
<1> QED
    BY <1>1, <1>2, <1>3, PassingKept DEF Kept, PromotionsFit, Bounded, shop

LEMMA ChangingKept ==
    ASSUME Inv, Kept, NEW a \in Admins,
           \/ CreateBegins(a) \/ EditProduct(a) \/ DeleteProduct(a)
           \/ EditPromotion(a) \/ WriteCategoryFails(a) \/ DeleteCategoryBegins(a)
           \/ CreateFlushes(a) \/ DeleteCategoryFlushes(a) \/ RollsBack(a)
    PROVE  Kept'
<1>1. changes' \in 0 .. MaxChanges
    BY BoundsAssumption
       DEF CreateBegins, EditProduct, DeleteProduct, EditPromotion, WriteCategoryFails,
           DeleteCategoryBegins, CreateFlushes, DeleteCategoryFlushes, RollsBack, Starts, bounds,
           Kept, Bounded
<1>2. UNCHANGED <<shop, cache, silent, outages>>
    BY DEF CreateBegins, EditProduct, DeleteProduct, EditPromotion, WriteCategoryFails,
           DeleteCategoryBegins, CreateFlushes, DeleteCategoryFlushes, RollsBack, bounds
<1>3. ASSUME NEW x, x.phase # "flushed", UNCHANGED reader,
             admin' = admin \/ admin' = [admin EXCEPT ![a] = x]
      PROVE  Kept'
    BY <1>1, <1>2, <1>3, UnflushedKept
<1>4. ASSUME NEW c, NEW todo, Flush(a, c, todo), c.kind = "promotion" => c.to \in Targets
      PROVE  Kept'
    BY <1>1, <1>2, <1>4, FlushedKept
<1>5. CASE CreateBegins(a)
    <2> DEFINE x(c) == [phase |-> "named", todo |-> NoTask, disturbed |-> FALSE, change |-> c]
    <2>1. PICK c : admin' = [admin EXCEPT ![a] = x(c)]
        BY <1>5 DEF CreateBegins
    <2>2. x(c).phase # "flushed" /\ UNCHANGED reader
        BY <1>5 DEF CreateBegins
    <2> HIDE DEF x
    <2> QED
        BY <1>3, <2>1, <2>2
<1>6. CASE DeleteCategoryBegins(a)
    <2> DEFINE x(c) == [phase |-> "counted", todo |-> NoTask, change |-> c]
    <2>1. PICK c : admin' = [admin EXCEPT ![a] = x(c)]
        BY <1>6 DEF DeleteCategoryBegins
    <2>2. x(c).phase # "flushed" /\ UNCHANGED reader
        BY <1>6 DEF DeleteCategoryBegins
    <2> HIDE DEF x
    <2> QED
        BY <1>3, <2>1, <2>2
<1>7. CASE WriteCategoryFails(a)
    <2>1. Free.phase # "flushed"
        BY DEF Free
    <2> QED
        BY <1>3, <1>7, <2>1 DEF WriteCategoryFails
<1>8. CASE RollsBack(a)
    <2> DEFINE x == [phase |-> "free", todo |-> admin[a].todo]
    <2>1. x.phase # "flushed" /\ UNCHANGED reader /\ admin' = [admin EXCEPT ![a] = x]
        BY <1>8 DEF RollsBack
    <2> HIDE DEF x
    <2> QED
        BY <1>3, <2>1
<1>9. CASE EditProduct(a) \/ DeleteProduct(a)
    <2>1. PICK c : \E todo : Flush(a, c, todo) /\ c.kind \in {"edit", "delete"}
        <3>1. ASSUME EditProduct(a) PROVE \E c, todo : Flush(a, c, todo) /\ c.kind \in {"edit", "delete"}
            <4>1. PICK s \in Live : \E n :
                    Flush(a, [kind |-> "edit", at |-> s, to |-> n], ProductChanged(s))
                BY <3>1 DEF EditProduct
            <4> QED
                BY <4>1
        <3>2. ASSUME DeleteProduct(a) PROVE \E c, todo : Flush(a, c, todo) /\ c.kind \in {"edit", "delete"}
            <4>1. PICK s \in Live :
                    Flush(a, [kind |-> "delete", at |-> s, to |-> Nothing], ProductChanged(s))
                BY <3>2 DEF DeleteProduct
            <4> QED
                BY <4>1
        <3> QED
            BY <1>9, <3>1, <3>2
    <2> QED
        BY <1>4, <2>1
<1>10. CASE EditPromotion(a)
    <2>1. PICK p \in Promotions, to \in {Nothing, Everything} \cup Slugs :
            Flush(a, [kind |-> "promotion", at |-> p, to |-> to], PromotionChanged)
        BY <1>10 DEF EditPromotion
    <2> QED
        BY <1>4, <2>1 DEF Targets
<1>11. CASE CreateFlushes(a) \/ DeleteCategoryFlushes(a)
    <2> DEFINE c == admin[a].change
    <2>1. c.kind # "promotion"
        BY <1>11 DEF CreateFlushes, DeleteCategoryFlushes, Inv, AdminsOk, AdminOk
    <2>2. CASE \E todo : Flush(a, c, todo)
        BY <1>4, <2>1, <2>2
    <2> DEFINE x == [phase |-> "free", todo |-> NoTask]
    <2>4. x.phase # "flushed"
        OBVIOUS
    <2>3. CASE admin' = [admin EXCEPT ![a] = x] /\ UNCHANGED reader
        <3> HIDE DEF x
        <3> QED
            BY <1>3, <2>3, <2>4
    <2> QED
        BY <1>11, <2>2, <2>3 DEF CreateFlushes, DeleteCategoryFlushes
<1> QED
    BY <1>5, <1>6, <1>7, <1>8, <1>9, <1>10, <1>11

LEMMA NamedStays ==
    ASSUME NEW x, AdminOk(x), x.phase = "named", NEW y, y = [x EXCEPT !.disturbed = TRUE]
    PROVE  y.phase = "named"
<1>1. x = [phase |-> "named", todo |-> NoTask, disturbed |-> x.disturbed, change |-> x.change]
    BY DEF AdminOk
<1> QED
    BY <1>1

LEMMA CommittingKept == ASSUME Inv, Kept, NEW a \in Admins, Commits(a) PROVE Kept'
<1> DEFINE c == admin[a].change
<1>1. /\ admin[a].phase = "flushed" /\ Apply(c) /\ UNCHANGED <<reader, bounds>>
      /\ cache' = IF Orphans(c) THEN Unquiet ELSE cache
      /\ admin' = [b \in Admins |->
            IF b = a THEN [phase |-> "free", todo |-> admin[a].todo]
            ELSE IF admin[b].phase = "named"
                 THEN [admin[b] EXCEPT !.disturbed = TRUE] ELSE admin[b]]
    BY DEF Commits
<1>2. Dwindles
    BY <1>1 DEF Dwindles, Unquiet
<1>3. Passes
    <2>1. ASSUME NEW b \in Admins, admin'[b].phase = "flushed" PROVE admin'[b] = admin[b]
        <3>1. b # a
            BY <1>1, <2>1
        <3>2. ASSUME admin[b].phase = "named" PROVE FALSE
            <4>1. PICK x : x = admin[b]
                OBVIOUS
            <4>2. PICK y : y = [x EXCEPT !.disturbed = TRUE]
                OBVIOUS
            <4>3. y.phase = "named"
                BY <3>2, <4>1, <4>2, NamedStays DEF Inv, AdminsOk
            <4> QED
                BY <1>1, <2>1, <3>1, <3>2, <4>1, <4>2, <4>3
        <3> QED
            BY <1>1, <3>1, <3>2
    <2> QED
        BY <2>1 DEF Passes
<1>4. Changeable(c)
    BY <1>1 DEF Inv, AdminsOk, AdminOk
<1>5. promotions' \in [Promotions -> Targets]
    <2>1. CASE c.kind = "promotion"
        <3>1. c.to \in Targets /\ promotions' = [promotions EXCEPT ![c.at] = c.to]
            BY <1>1, <2>1 DEF Kept, PromotionsFit, Apply
        <3> QED
            BY <3>1 DEF Kept, PromotionsFit
    <2>2. CASE c.kind # "promotion"
        BY <1>1, <1>4, <2>2 DEF Kept, PromotionsFit, Apply, Changeable
    <2> QED
        BY <2>1, <2>2
<1>6. categories' \subseteq categories
    BY <1>1, <1>4 DEF Apply, Changeable
<1> QED
    BY <1>1, <1>2, <1>3, <1>5, <1>6, PassingKept DEF Kept, Bounded, bounds

LEMMA SilentlyKept == ASSUME Inv, Kept, SilentChange PROVE Kept'
<1>1. /\ cache' = Unquiet /\ reader' = Disturbed
      /\ UNCHANGED <<categories, admin, changes, outages>>
    BY DEF SilentChange
<1>2. silent' \in 0 .. MaxSilent
    BY BoundsAssumption DEF SilentChange, Kept, Bounded
<1>3. promotions' \in [Promotions -> Targets]
    <2>1. Nothing \in Targets
        BY DEF Targets
    <2> QED
        BY <2>1 DEF SilentChange, Kept, PromotionsFit
<1>4. Dwindles /\ Passes
    BY <1>1 DEF Dwindles, Unquiet, Passes
<1> QED
    BY <1>1, <1>2, <1>3, <1>4, PassingKept DEF Kept, Bounded

\* Every read, refill and change keeps the answers of their kinds.
THEOREM NextKept == Inv /\ Kept /\ [Next]_vars => Kept'
<1> SUFFICES ASSUME Inv, Kept, [Next]_vars PROVE Kept'
    OBVIOUS
<1>1. ASSUME NEW r \in Readers, ReaderMisses(r) \/ ReaderStep(r) PROVE Kept'
    BY <1>1, ReadingKept, StoringKept DEF ReaderStep
<1>2. ASSUME NEW k \in Keys, Expire(k) PROVE Kept'
    BY <1>2, ExpiringKept
<1>3. ASSUME NEW a \in Admins,
             \/ CreateBegins(a) \/ EditProduct(a) \/ DeleteProduct(a)
             \/ EditPromotion(a) \/ WriteCategoryFails(a) \/ DeleteCategoryBegins(a)
             \/ AdminStep(a)
      PROVE  Kept'
    BY <1>3, ChangingKept, CommittingKept, DeletingKept DEF AdminStep
<1>4. CASE SilentChange
    BY <1>4, SilentlyKept
<1>5. CASE UNCHANGED vars
    <2>1. UNCHANGED <<products, promotions, categories, cache, reader, admin, changes, silent, outages>>
        BY <1>5 DEF vars, shop, bounds
    <2>2. Dwindles /\ Passes
        BY <2>1 DEF Dwindles, Passes
    <2> QED
        BY <2>1, <2>2, PassingKept DEF Kept, PromotionsFit, Bounded
<1> QED
    BY <1>1, <1>2, <1>3, <1>4, <1>5 DEF Next

\* Both invariants hold throughout: that quiet answers are exact, and that every
\* answer could have been given.
THEOREM KeptInvariance == Spec => [](Inv /\ Kept)
<1>1. Init => Inv /\ Kept
    BY InitInv, InitKept
<1>2. (Inv /\ Kept) /\ [Next]_vars => (Inv /\ Kept)'
    BY NextInv, NextKept
<1> QED
    BY <1>1, <1>2, PTL DEF Spec

\* ProductService and the cache: whatever overlaps, a key has one entry at most, of a
\* product that was for sale or of a page no longer than pages are, however old the
\* count it was cut by.
THEOREM AnswersAreOfTheirKind == Spec => []TypeOK
<1>1. ASSUME Inv, Kept PROVE TypeOK
    <2>1. products \in [Slugs -> Product \cup {NoProduct}]
        BY <1>1 DEF Inv, ProductsTyped
    <2>2. promotions \in [Promotions -> Slugs \cup {Nothing, Everything}]
        BY <1>1 DEF Kept, PromotionsFit, Targets
    <2>3. ASSUME NEW k \in DOMAIN cache PROVE Cardinality(cache[k]) <= 1
        <3>1. PICK M : M = cache[k]
            OBVIOUS
        <3>2. \A d, e \in M : d = e
            BY <1>1, <3>1 DEF Kept, CacheFits
        <3>3. CASE M = {}
            BY <3>1, <3>3, FS_EmptySet
        <3>4. ASSUME NEW e \in M PROVE Cardinality(M) <= 1
            <4>1. M = {e}
                BY <3>2, <3>4
            <4>2. Cardinality({e}) = 1
                BY FS_Singleton, Zenon
            <4>3. Cardinality(M) = 1
                BY <4>1, <4>2, Zenon
            <4> QED
                BY <4>3
        <3> QED
            BY <3>1, <3>3, <3>4
    <2>4. /\ DOMAIN cache \in Followed
          /\ \A k \in DetailKeys \cap DOMAIN cache : \A e \in cache[k] :
                e.value \in Product /\ e.value.state = "live"
          /\ \A k \in ListKeys \cap DOMAIN cache : \A e \in cache[k] :
                e.value.total \in 0 .. MaxProducts /\ Len(e.value.rows) <= PerPage
        BY <1>1 DEF Kept, CacheFits, Fits
    <2>5. \A r \in Readers : reader[r].phase \in
            {"free", "missed", "counted", "read", "priced", "failed"}
        BY <1>1 DEF Inv, ReadersOk, ReaderOk, Asking, Free
    <2>6. \A a \in Admins : admin[a].phase \in {"free", "named", "counted", "flushed"}
        BY <1>1 DEF Inv, AdminsOk, AdminOk
    <2> QED
        BY <1>1, <2>1, <2>2, <2>3, <2>4, <2>5, <2>6 DEF TypeOK, Kept, Bounded
<1> QED
    BY <1>1, KeptInvariance, PTL
=============================================================================
