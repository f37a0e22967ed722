------------------------------- MODULE Orders -------------------------------
(***************************************************************************)
(* The order core of the store: checkout, payment settlement, the admin's  *)
(* status machine, the owner's cancel, and the variant, promotion and      *)
(* account changes that race with them.                                    *)
(*                                                                         *)
(* Every HTTP request runs in one database session that commits after the  *)
(* handler and rolls back when it raises.  The database is PostgreSQL at   *)
(* READ COMMITTED and no handler of this module locks a row it reads, so a *)
(* request is                                                              *)
(*    - a load, which copies committed rows into the handler's session, and*)
(*    - a finish, which writes columns and commits.                        *)
(* A written row stays locked until the commit, so the writes of a request *)
(* take effect at one instant.  What a request does outside the database   *)
(* (a Stripe call, an emitted event) is not undone by a rollback.          *)
(***************************************************************************)
EXTENDS Integers, FiniteSets

CONSTANTS
    Variants,    \* product variants
    Orders,      \* ids an order may get
    Handlers,    \* requests served at the same time
    Carts,       \* what a cart may hold: quantities per variant
    Methods,     \* payment providers offered at checkout
    Answers,     \* what may reach the Swish callback: paid, declined
    Scopes,      \* who checks out: logged-in users, guests, or both
    Stocks,      \* stock levels an admin may write
    Caps,        \* values an admin may give a promotion's max_uses
    NoCap,       \* max_uses IS NULL
    ItemsEager,  \* whether order.items can be read after session.get
    MaxDeducts,  \* bound: a settled order is not delivered again past this
    MaxChanges,  \* bound on changes to variants, promotions and accounts
    MaxCrashes   \* bound on requests that die before their commit

ASSUME VariantsAssumption == IsFiniteSet(Variants)
ASSUME OrdersAssumption == IsFiniteSet(Orders)
ASSUME CartsAssumption ==
    /\ Carts \subseteq [Variants -> Nat]
    /\ \A c \in Carts : \E v \in Variants : c[v] > 0
ASSUME StocksAssumption == Stocks \subseteq Nat
ASSUME CapsAssumption == Caps \subseteq Nat /\ NoCap \notin Nat
ASSUME MethodsAssumption == Methods \subseteq {"stripe", "swish"}
ASSUME AnswersAssumption == Answers \subseteq {"swish_paid", "swish_declined"}
ASSUME ScopesAssumption == Scopes \subseteq {"user", "guest"}
ASSUME ItemsEagerAssumption == ItemsEager \in BOOLEAN
ASSUME BoundsAssumption == MaxDeducts \in Nat /\ MaxChanges \in Nat /\ MaxCrashes \in Nat

OrderStatus == {"pending", "confirmed", "shipped", "delivered", "cancelled"}
PaymentStatus == {"pending", "paid", "failed", "refunded"}

\* The statuses of an order whose goods left the sellable stock.
Fulfilled == {"confirmed", "shipped", "delivered"}

ALLOWED_TRANSITIONS ==
    [pending   |-> {"confirmed", "cancelled"},
     confirmed |-> {"shipped", "cancelled"},
     shipped   |-> {"delivered"},
     delivered |-> {},
     cancelled |-> {}]

PaidEvents == {"completed", "swish_paid"}
FailedEvents == {"expired", "swish_declined"}
PaymentEvent == [type : PaidEvents \cup FailedEvents \cup {"refunded"}, ord : Orders]

VARIABLES
    stock,      \* product_variants.stock
    reserved,   \* product_variants.reserved_stock
    deleted,    \* product_variants.deleted_at IS NOT NULL
    status,     \* orders.status, "absent" while the row does not exist
    pay,        \* orders.payment_status
    items,      \* order_items: quantity per variant
    codes,      \* how many order items carry a promotion_code
    owned,      \* orders.user_id IS NOT NULL
    promo,      \* the promotion behind those codes
    gateway,    \* the Stripe Checkout session of an order id
    events,     \* provider notifications sent so far
    acked,      \* notifications answered with 200
    emitted,    \* event-bus events emitted so far
    tx,         \* the session of each handler
    deducts,    \* history: how many times an order's stock was deducted
    received,   \* history: units of a variant ever put into stock, net
    changes,    \* changes made by administration so far
    crashes     \* requests that died so far

variantVars == <<stock, reserved, deleted, received>>
orderVars == <<status, pay, items, codes, owned, deducts>>
paymentVars == <<gateway, events, acked>>
vars == <<variantVars, orderVars, promo, paymentVars, emitted, tx, changes, crashes>>

-----------------------------------------------------------------------------
(* Sessions *)

Idle == [kind |-> "idle"]

CheckoutTx ==
    [kind : {"checkout"}, ord : Orders, cart : Carts, method : Methods,
     owned : BOOLEAN, codes : Nat,
     stock : [Variants -> Nat], reserved : [Variants -> Int]]
PaidTx ==
    [kind : {"paid"}, phase : {"read", "checked"}, event : PaymentEvent, ord : Orders,
     status : OrderStatus, short : BOOLEAN]
FailedTx == [kind : {"failed"}, event : PaymentEvent, ord : Orders]
RefundedTx ==
    [kind : {"refunded"}, event : PaymentEvent, ord : Orders, status : OrderStatus]
AdminTx ==
    [kind : {"admin"}, ord : Orders, status : OrderStatus, pay : PaymentStatus,
     owned : BOOLEAN, target : OrderStatus]
CancelTx ==
    [kind : {"cancel"}, phase : {"read", "viewed"}, ord : Orders,
     status : OrderStatus, pay : PaymentStatus,
     stock : [Variants -> Nat], reserved : [Variants -> Int]]

Tx == {Idle} \cup CheckoutTx \cup PaidTx \cup FailedTx \cup RefundedTx
      \cup AdminTx \cup CancelTx

\* Mutant: a request waits for every payment request of the order, also for one
\* that has only read it.
OrderFreeOfReaders(h, o) ==
    \A g \in Handlers \ {h} : ~ (tx[g].kind = "paid" /\ tx[g].ord = o)

\* A payment handler that has flushed payment_status = PAID holds the order's
\* row lock until it commits; any other write of the row waits for it.
OrderFree(h, o) ==
    \A g \in Handlers \ {h} :
        ~ (tx[g].kind = "paid" /\ tx[g].phase = "checked" /\ tx[g].ord = o)

Begin(h, t) == tx[h] = Idle /\ tx' = [tx EXCEPT ![h] = t]
End(h) == tx' = [tx EXCEPT ![h] = Idle]

TypeOK ==
    /\ stock \in [Variants -> Nat]
    /\ reserved \in [Variants -> Int]
    /\ deleted \in [Variants -> BOOLEAN]
    /\ status \in [Orders -> OrderStatus \cup {"absent"}]
    /\ pay \in [Orders -> PaymentStatus]
    /\ items \in [Orders -> [Variants -> Nat]]
    /\ codes \in [Orders -> Nat]
    /\ owned \in [Orders -> BOOLEAN]
    /\ promo \in [uses : Nat, cap : Nat \cup {NoCap}, live : BOOLEAN]
    /\ gateway \in [Orders -> {"none", "open", "complete", "expired", "refunded"}]
    /\ events \subseteq PaymentEvent
    /\ acked \subseteq PaymentEvent
    /\ tx \in [Handlers -> Tx]
    /\ deducts \in [Orders -> Nat]
    /\ received \in [Variants -> Int]
    /\ changes \in Nat
    /\ crashes \in Nat

Init ==
    /\ stock \in [Variants -> Stocks]
    /\ reserved = [v \in Variants |-> 0]
    /\ deleted = [v \in Variants |-> FALSE]
    /\ status = [o \in Orders |-> "absent"]
    /\ pay = [o \in Orders |-> "pending"]
    /\ items = [o \in Orders |-> [v \in Variants |-> 0]]
    /\ codes = [o \in Orders |-> 0]
    /\ owned = [o \in Orders |-> FALSE]
    /\ \E c \in Caps \cup {NoCap} : promo = [uses |-> 0, cap |-> c, live |-> TRUE]
    /\ gateway = [o \in Orders |-> "none"]
    /\ events = {}
    /\ acked = {}
    /\ emitted = {}
    /\ tx = [h \in Handlers |-> Idle]
    /\ deducts = [o \in Orders |-> 0]
    /\ received = stock
    /\ changes = 0
    /\ crashes = 0

-----------------------------------------------------------------------------
(* Checkout *)

\* current_uses < max_uses or no cap, as the lookup of active promotions asks.
UnderCap(n) == promo.cap # NoCap => promo.uses + n <= promo.cap

Unused(o) ==
    /\ status[o] = "absent"
    /\ gateway[o] = "none"
    /\ \A h \in Handlers : ~ (tx[h].kind = "checkout" /\ tx[h].ord = o)

\* The cart is read together with its variants; session.get later returns these
\* same objects, so availability is judged on what the cart query saw.
CheckoutLoad(h, o) ==
    /\ Unused(o)
    /\ \E c \in Carts, m \in Methods, s \in Scopes,
          n \in 0 .. Cardinality(Variants) :
        /\ n <= Cardinality({v \in Variants : c[v] > 0})
        /\ n > 0 => promo.live /\ UnderCap(1)
        /\ Begin(h, [kind |-> "checkout", ord |-> o, cart |-> c, method |-> m,
                     owned |-> s = "user", codes |-> n,
                     stock |-> stock, reserved |-> reserved])
    /\ UNCHANGED <<variantVars, orderVars, promo, paymentVars, emitted, changes, crashes>>

Reservable(t) ==
    \A v \in Variants : t.cart[v] > 0 => t.stock[v] - t.reserved[v] >= t.cart[v]

\* Columns are written from the session's copy of the row, not from the row.
Reservation(t) ==
    [v \in Variants |->
        IF t.cart[v] > 0 THEN t.reserved[v] + t.cart[v] ELSE reserved[v]]

CheckoutFinish(h) ==
    /\ tx[h].kind = "checkout"
    /\ Reservable(tx[h])
    /\ LET t == tx[h] IN
        /\ reserved' = Reservation(t)
        /\ status' = [status EXCEPT ![t.ord] = "pending"]
        /\ pay' = [pay EXCEPT ![t.ord] = "pending"]
        /\ items' = [items EXCEPT ![t.ord] = t.cart]
        /\ codes' = [codes EXCEPT ![t.ord] = t.codes]
        /\ owned' = [owned EXCEPT ![t.ord] = t.owned]
        /\ gateway' = [gateway EXCEPT ![t.ord] = IF t.method = "stripe" THEN "open" ELSE @]
    /\ End(h)
    /\ UNCHANGED <<stock, deleted, received, deducts, promo,
                   events, acked, emitted, changes, crashes>>

\* StockInsufficientError: 409, the savepoint and the session roll back.
CheckoutRefused(h) ==
    /\ tx[h].kind = "checkout"
    /\ ~ Reservable(tx[h])
    /\ End(h)
    /\ UNCHANGED <<variantVars, orderVars, promo, paymentVars, emitted, changes, crashes>>

\* The Stripe session was created and the transaction did not commit.
CheckoutLost(h) ==
    /\ tx[h].kind = "checkout"
    /\ tx[h].method = "stripe"
    /\ Reservable(tx[h])
    /\ crashes < MaxCrashes
    /\ crashes' = crashes + 1
    /\ gateway' = [gateway EXCEPT ![tx[h].ord] = "open"]
    /\ End(h)
    /\ UNCHANGED <<variantVars, orderVars, promo, events, acked, emitted, changes>>

-----------------------------------------------------------------------------
(* What customers and payment providers do *)

Send(type, o) == events' = events \cup {[type |-> type, ord |-> o]}

\* The payment page's URL is only returned once the order is committed.
CustomerPays(o) ==
    /\ gateway[o] = "open"
    /\ status[o] # "absent"
    /\ gateway' = [gateway EXCEPT ![o] = "complete"]
    /\ Send("completed", o)
    /\ UNCHANGED <<variantVars, orderVars, promo, acked, emitted, tx, changes, crashes>>

SessionExpires(o) ==
    /\ gateway[o] = "open"
    /\ gateway' = [gateway EXCEPT ![o] = "expired"]
    /\ Send("expired", o)
    /\ UNCHANGED <<variantVars, orderVars, promo, acked, emitted, tx, changes, crashes>>

\* A refund issued by the merchant at Stripe.
MerchantRefunds(o) ==
    /\ gateway[o] = "complete"
    /\ gateway' = [gateway EXCEPT ![o] = "refunded"]
    /\ Send("refunded", o)
    /\ UNCHANGED <<variantVars, orderVars, promo, acked, emitted, tx, changes, crashes>>

\* What reaches the Swish callback, in mock mode from the mock-confirm endpoint:
\* paid or declined, also after an earlier answer, and for any order there is.
\* Neither the endpoint nor the handler looks at the order's payment_provider,
\* so that column, which only responses read, is not in the model.
SwishAnswers(o, type) ==
    /\ status[o] # "absent"
    /\ Send(type, o)
    /\ UNCHANGED <<variantVars, orderVars, promo, gateway, acked, emitted, tx, changes, crashes>>

-----------------------------------------------------------------------------
(* Payment callbacks: any notification ever sent may be delivered, again too *)

Acknowledge(e) == acked' = acked \cup {e}

\* Mutant: a cancelled order is skipped as well.
PaidAlreadyOrCancelled(h, e) ==
    /\ tx[h] = Idle
    /\ e.type \in PaidEvents
    /\ status[e.ord] \in {"absent", "cancelled"} \/ pay[e.ord] = "paid"
    /\ Acknowledge(e)
    /\ UNCHANGED <<variantVars, orderVars, promo, gateway, events, emitted, tx, changes, crashes>>

\* The idempotency guard of both providers, and an unknown order: a 200 and
\* nothing else.
PaidAlready(h, e) ==
    /\ tx[h] = Idle
    /\ e.type \in PaidEvents
    /\ status[e.ord] = "absent" \/ pay[e.ord] = "paid"
    /\ Acknowledge(e)
    /\ UNCHANGED <<variantVars, orderVars, promo, gateway, events, emitted, tx, changes, crashes>>

PaidLoad(h, e) ==
    /\ e.type \in PaidEvents
    /\ status[e.ord] # "absent"
    /\ pay[e.ord] # "paid"
    /\ deducts[e.ord] < MaxDeducts
    /\ Begin(h, [kind |-> "paid", phase |-> "read", event |-> e, ord |-> e.ord,
                 status |-> status[e.ord], short |-> FALSE])
    /\ UNCHANGED <<variantVars, orderVars, promo, paymentVars, emitted, changes, crashes>>

\* Mutant: only a deleted variant is refused.
InStockUnlessDeleted(o) == \A v \in Variants : items[o][v] > 0 => ~ deleted[v]

InStock(o) ==
    \A v \in Variants : items[o][v] > 0 => ~ deleted[v] /\ stock[v] >= items[o][v]

\* payment_status = PAID is flushed, then every item is pre-validated.
PaidCheck(h) ==
    /\ tx[h].kind = "paid"
    /\ tx[h].phase = "read"
    /\ OrderFree(h, tx[h].ord)
    /\ tx' = [tx EXCEPT ![h] = [@ EXCEPT !.phase = "checked",
                                         !.short = ~ InStock(tx[h].ord)]]
    /\ UNCHANGED <<variantVars, orderVars, promo, paymentVars, emitted, changes, crashes>>

\* The savepoint of finalize_payment: the usage of every promoted item and the
\* stock of every item, by conditional updates, or nothing.
Deductible(o) ==
    /\ codes[o] > 0 => promo.live /\ UnderCap(codes[o])
    /\ InStock(o)

\* Mutant: the deduction trusts the pre-validation.
SettledByPrecheck(t) == ~ t.short

Settled(t) == ~ t.short /\ Deductible(t.ord)

\* Mutant: one unit per item, whatever its quantity.
DeductOneUnit(o) ==
    /\ stock' = [v \in Variants |-> IF items[o][v] > 0 THEN stock[v] - 1 ELSE stock[v]]
    /\ reserved' = [v \in Variants |-> reserved[v] - items[o][v]]
    /\ promo' = [promo EXCEPT !.uses = @ + codes[o]]
    /\ deducts' = [deducts EXCEPT ![o] = @ + 1]

\* Mutant: one usage per order, whatever the number of promoted items.
DeductOneUse(o) ==
    /\ stock' = [v \in Variants |-> stock[v] - items[o][v]]
    /\ reserved' = [v \in Variants |-> reserved[v] - items[o][v]]
    /\ promo' = [promo EXCEPT !.uses = @ + (IF codes[o] > 0 THEN 1 ELSE 0)]
    /\ deducts' = [deducts EXCEPT ![o] = @ + 1]

DeductStock(o) ==
    /\ stock' = [v \in Variants |-> stock[v] - items[o][v]]
    /\ reserved' = [v \in Variants |-> reserved[v] - items[o][v]]
    /\ promo' = [promo EXCEPT !.uses = @ + codes[o]]
    /\ deducts' = [deducts EXCEPT ![o] = @ + 1]

\* Mutant: the branches are swapped.
ConfirmStatusSwapped(t) ==
    status' = [status EXCEPT ![t.ord] = IF t.status = "confirmed" THEN "confirmed" ELSE @]

\* A column equal to the session's copy is not written.
ConfirmStatus(t) ==
    status' = [status EXCEPT ![t.ord] = IF t.status = "confirmed" THEN @ ELSE "confirmed"]

Confirmation(o) == [type |-> "confirmation", ord |-> o]

PaidConfirms(h) ==
    /\ tx[h].kind = "paid"
    /\ tx[h].phase = "checked"
    /\ Settled(tx[h])
    /\ DeductStock(tx[h].ord)
    /\ ConfirmStatus(tx[h])
    /\ pay' = [pay EXCEPT ![tx[h].ord] = "paid"]
    /\ emitted' = emitted \cup {Confirmation(tx[h].ord)}
    /\ Acknowledge(tx[h].event)
    /\ End(h)
    /\ UNCHANGED <<deleted, received, items, codes, owned,
                   gateway, events, changes, crashes>>

\* stripe.Refund.create in Stripe's handler, whose failure is logged and
\* swallowed; Swish's handler refunds nothing.
AutoRefund(e) ==
    \/ /\ e.type = "completed"
       /\ gateway[e.ord] = "complete"
       /\ gateway' = [gateway EXCEPT ![e.ord] = "refunded"]
       /\ Send("refunded", e.ord)
    \/ UNCHANGED <<gateway, events>>

PaidShort(h) ==
    /\ tx[h].kind = "paid"
    /\ tx[h].phase = "checked"
    /\ ~ Settled(tx[h])
    /\ AutoRefund(tx[h].event)
    /\ pay' = [pay EXCEPT ![tx[h].ord] = "failed"]
    /\ Acknowledge(tx[h].event)
    /\ End(h)
    /\ UNCHANGED <<variantVars, status, items, codes, owned, deducts,
                   promo, emitted, changes, crashes>>

\* The request dies between its outside effects and its commit: the provider
\* gets no 200 and delivers the notification again.
PaidLost(h) ==
    /\ tx[h].kind = "paid"
    /\ tx[h].phase = "checked"
    /\ crashes < MaxCrashes
    /\ crashes' = crashes + 1
    /\ IF Settled(tx[h])
       THEN /\ emitted' = emitted \cup {Confirmation(tx[h].ord)}
            /\ UNCHANGED <<gateway, events>>
       ELSE /\ AutoRefund(tx[h].event)
            /\ UNCHANGED emitted
    /\ End(h)
    /\ UNCHANGED <<variantVars, orderVars, promo, acked, changes>>

\* An expired session or a declined Swish request; an unknown order or one
\* already failed gets a 200.
FailedAlready(h, e) ==
    /\ tx[h] = Idle
    /\ e.type \in FailedEvents
    /\ status[e.ord] = "absent" \/ pay[e.ord] = "failed"
    /\ Acknowledge(e)
    /\ UNCHANGED <<variantVars, orderVars, promo, gateway, events, emitted, tx, changes, crashes>>

FailedLoad(h, e) ==
    /\ e.type \in FailedEvents
    /\ status[e.ord] # "absent"
    /\ pay[e.ord] # "failed"
    /\ Begin(h, [kind |-> "failed", event |-> e, ord |-> e.ord])
    /\ UNCHANGED <<variantVars, orderVars, promo, paymentVars, emitted, changes, crashes>>

FailedFinish(h) ==
    /\ tx[h].kind = "failed"
    /\ OrderFree(h, tx[h].ord)
    /\ pay' = [pay EXCEPT ![tx[h].ord] = "failed"]
    /\ Acknowledge(tx[h].event)
    /\ End(h)
    /\ UNCHANGED <<variantVars, status, items, codes, owned, deducts,
                   promo, gateway, events, emitted, changes, crashes>>

\* charge.refunded: the lookup of the session at Stripe may fail, and then the
\* notification is answered with 200 and lost.
RefundedSkipped(h, e) ==
    /\ tx[h] = Idle
    /\ e.type = "refunded"
    /\ Acknowledge(e)
    /\ UNCHANGED <<variantVars, orderVars, promo, gateway, events, emitted, tx, changes, crashes>>

RefundedLoad(h, e) ==
    /\ e.type = "refunded"
    /\ status[e.ord] # "absent"
    /\ pay[e.ord] # "refunded"
    /\ Begin(h, [kind |-> "refunded", event |-> e, ord |-> e.ord,
                 status |-> status[e.ord]])
    /\ UNCHANGED <<variantVars, orderVars, promo, paymentVars, emitted, changes, crashes>>

RefundedFinish(h) ==
    /\ tx[h].kind = "refunded"
    /\ OrderFree(h, tx[h].ord)
    /\ pay' = [pay EXCEPT ![tx[h].ord] = "refunded"]
    /\ status' = [status EXCEPT ![tx[h].ord] =
                     IF tx[h].status = "cancelled" THEN @ ELSE "cancelled"]
    /\ Acknowledge(tx[h].event)
    /\ End(h)
    /\ UNCHANGED <<variantVars, items, codes, owned, deducts,
                   promo, gateway, events, emitted, changes, crashes>>

-----------------------------------------------------------------------------
(* The admin's status machine *)

\* Mutant: no payment gate.
NoPaymentGate(current, payment, target) == TRUE

\* Mutant: the gate lets a failed payment through.
PaymentGateNotFailed(current, payment, target) ==
    payment \in {"paid", "failed"} \/ (current = "pending" /\ target = "cancelled")

\* A non-paid order may only be cancelled, and only while it is pending.
PaymentGate(current, payment, target) ==
    payment = "paid" \/ (current = "pending" /\ target = "cancelled")

AdminLoad(h, o) ==
    /\ status[o] # "absent"
    /\ \E target \in ALLOWED_TRANSITIONS[status[o]] :
        /\ PaymentGate(status[o], pay[o], target)
        /\ Begin(h, [kind |-> "admin", ord |-> o, status |-> status[o],
                     pay |-> pay[o], owned |-> owned[o], target |-> target])
    /\ UNCHANGED <<variantVars, orderVars, promo, paymentVars, emitted, changes, crashes>>

Audit(t) == [type |-> "audit", ord |-> t.ord, from |-> t.status, to |-> t.target]
Shipped(o) == [type |-> "shipped", ord |-> o]

\* What update_order_status emits before the session commits.
AdminEvents(t) ==
    IF t.target = "shipped" THEN {Audit(t), Shipped(t.ord)} ELSE {Audit(t)}

\* Mutant: UPDATE without the status in its WHERE clause.
MatchedById(t) == status[t.ord] # "absent"

\* UPDATE ... WHERE status = current matched the row.
Matched(t) == status[t.ord] = t.status

AdminFinish(h) ==
    /\ tx[h].kind = "admin"
    /\ OrderFree(h, tx[h].ord)
    /\ Matched(tx[h])
    /\ tx[h].owned
    /\ status' = [status EXCEPT ![tx[h].ord] = tx[h].target]
    /\ emitted' = emitted \cup AdminEvents(tx[h])
    /\ End(h)
    /\ UNCHANGED <<variantVars, pay, items, codes, owned, deducts,
                   promo, paymentVars, changes, crashes>>

\* The request dies between its events and its commit.
AdminLost(h) ==
    /\ tx[h].kind = "admin"
    /\ OrderFree(h, tx[h].ord)
    /\ Matched(tx[h])
    /\ tx[h].owned
    /\ crashes < MaxCrashes
    /\ crashes' = crashes + 1
    /\ emitted' = emitted \cup AdminEvents(tx[h])
    /\ End(h)
    /\ UNCHANGED <<variantVars, orderVars, promo, paymentVars, changes>>

\* order.user is None: the handler raises while it builds the shipping event
\* or, after the audit event, the response; the update is rolled back.
AdminRaises(h) ==
    /\ tx[h].kind = "admin"
    /\ OrderFree(h, tx[h].ord)
    /\ Matched(tx[h])
    /\ ~ tx[h].owned
    /\ emitted' = emitted \cup (IF tx[h].target = "shipped" THEN {} ELSE {Audit(tx[h])})
    /\ End(h)
    /\ UNCHANGED <<variantVars, orderVars, promo, paymentVars, changes, crashes>>

\* Another request changed the status first: 409.
AdminStale(h) ==
    /\ tx[h].kind = "admin"
    /\ OrderFree(h, tx[h].ord)
    /\ ~ Matched(tx[h])
    /\ End(h)
    /\ UNCHANGED <<variantVars, orderVars, promo, paymentVars, emitted, changes, crashes>>

-----------------------------------------------------------------------------
(* The owner's cancel *)

CancelLoad(h, o) ==
    /\ owned[o]
    /\ status[o] \in {"pending", "confirmed"}
    /\ Begin(h, [kind |-> "cancel", phase |-> "read", ord |-> o,
                 status |-> status[o], pay |-> pay[o],
                 stock |-> stock, reserved |-> reserved])
    /\ UNCHANGED <<variantVars, orderVars, promo, paymentVars, emitted, changes, crashes>>

\* session.get does not load order.items, and an async session cannot load
\* them on access: the loop over the items raises.
CancelRaises(h) ==
    /\ tx[h].kind = "cancel"
    /\ ~ ItemsEager
    /\ End(h)
    /\ UNCHANGED <<variantVars, orderVars, promo, paymentVars, emitted, changes, crashes>>

CancelRead(h) ==
    /\ tx[h].kind = "cancel"
    /\ tx[h].phase = "read"
    /\ ItemsEager
    /\ tx' = [tx EXCEPT ![h] = [@ EXCEPT !.phase = "viewed",
                                         !.stock = stock, !.reserved = reserved]]
    /\ UNCHANGED <<variantVars, orderVars, promo, paymentVars, emitted, changes, crashes>>

Least(a, b) == IF a < b THEN a ELSE b

CancelFinish(h) ==
    /\ tx[h].kind = "cancel"
    /\ tx[h].phase = "viewed"
    /\ OrderFree(h, tx[h].ord)
    /\ LET t == tx[h]
           qty == items[t.ord]
           drop == [v \in Variants |-> Least(t.reserved[v], qty[v])]
       IN /\ stock' = [v \in Variants |->
                         IF t.status = "confirmed" /\ qty[v] > 0
                         THEN t.stock[v] + qty[v] ELSE stock[v]]
          /\ reserved' = [v \in Variants |->
                            IF qty[v] > 0 /\ drop[v] # 0
                            THEN t.reserved[v] - drop[v] ELSE reserved[v]]
          /\ status' = [status EXCEPT ![t.ord] = "cancelled"]
          /\ pay' = [pay EXCEPT ![t.ord] = IF t.pay = "refunded" THEN @ ELSE "refunded"]
    /\ End(h)
    /\ UNCHANGED <<deleted, received, items, codes, owned, deducts,
                   promo, paymentVars, emitted, changes, crashes>>

-----------------------------------------------------------------------------
(* Variants, promotions and accounts *)

Change == changes < MaxChanges /\ changes' = changes + 1

\* An absolute write of stock.
UpdateVariant(v, n) ==
    /\ ~ deleted[v]
    /\ Change
    /\ stock' = [stock EXCEPT ![v] = n]
    /\ received' = [received EXCEPT ![v] = @ + n - stock[v]]
    /\ UNCHANGED <<reserved, deleted, orderVars, promo, paymentVars, emitted, tx, crashes>>

\* The only reference looked for is a cart's, and carts empty independently.
DeleteVariant(v) ==
    /\ ~ deleted[v]
    /\ Change
    /\ deleted' = [deleted EXCEPT ![v] = TRUE]
    /\ UNCHANGED <<stock, reserved, received, orderVars, promo, paymentVars,
                   emitted, tx, crashes>>

\* max_uses is written without a look at current_uses.
UpdatePromotion(c) ==
    /\ promo.live
    /\ Change
    /\ promo' = [promo EXCEPT !.cap = c]
    /\ UNCHANGED <<variantVars, orderVars, paymentVars, emitted, tx, crashes>>

DeletePromotion ==
    /\ promo.live
    /\ Change
    /\ promo' = [promo EXCEPT !.live = FALSE]
    /\ UNCHANGED <<variantVars, orderVars, paymentVars, emitted, tx, crashes>>

\* Deleting an account detaches the orders of that user.
UnassignUser(S) ==
    /\ S # {}
    /\ \A o \in S : owned[o] /\ \A h \in Handlers : OrderFree(h, o)
    /\ Change
    /\ owned' = [o \in Orders |-> owned[o] /\ o \notin S]
    /\ UNCHANGED <<variantVars, status, pay, items, codes, deducts,
                   promo, paymentVars, emitted, tx, crashes>>

-----------------------------------------------------------------------------
\* A request that fails before it has touched anything but its own session: a
\* lost connection, a deadlock victim, a Stripe error at checkout.
Crash(h) ==
    /\ tx[h] # Idle
    /\ crashes < MaxCrashes
    /\ crashes' = crashes + 1
    /\ End(h)
    /\ UNCHANGED <<variantVars, orderVars, promo, paymentVars, emitted, changes>>

Checkout(h) ==
    \/ \E o \in Orders : CheckoutLoad(h, o)
    \/ CheckoutFinish(h) \/ CheckoutRefused(h) \/ CheckoutLost(h)

Deliver(h, e) ==
    \/ PaidAlready(h, e) \/ PaidLoad(h, e)
    \/ FailedAlready(h, e) \/ FailedLoad(h, e)
    \/ RefundedSkipped(h, e) \/ RefundedLoad(h, e)

Callback(h) ==
    \/ \E e \in events : Deliver(h, e)
    \/ PaidCheck(h) \/ PaidConfirms(h) \/ PaidShort(h) \/ PaidLost(h)
    \/ FailedFinish(h)
    \/ RefundedFinish(h)

UpdateOrderStatus(h) ==
    \/ \E o \in Orders : AdminLoad(h, o)
    \/ AdminFinish(h) \/ AdminLost(h) \/ AdminRaises(h) \/ AdminStale(h)

CancelOrder(h) ==
    \/ \E o \in Orders : CancelLoad(h, o)
    \/ CancelRaises(h) \/ CancelRead(h) \/ CancelFinish(h)

Payment ==
    \E o \in Orders :
        \/ CustomerPays(o) \/ SessionExpires(o) \/ MerchantRefunds(o)
        \/ \E type \in Answers : SwishAnswers(o, type)

Administration ==
    \/ \E v \in Variants : DeleteVariant(v) \/ \E n \in Stocks : UpdateVariant(v, n)
    \/ DeletePromotion \/ \E c \in Caps : UpdatePromotion(c)
    \/ \E S \in SUBSET Orders : UnassignUser(S)

Next ==
    \/ \E h \in Handlers :
        Checkout(h) \/ Callback(h) \/ UpdateOrderStatus(h) \/ CancelOrder(h) \/ Crash(h)
    \/ Payment
    \/ Administration

Spec == Init /\ [][Next]_vars

\* What is left of a request once it is in flight: the process's own steps.
Finish(h) ==
    \/ CheckoutFinish(h) \/ CheckoutRefused(h)
    \/ PaidCheck(h) \/ PaidConfirms(h) \/ PaidShort(h)
    \/ FailedFinish(h) \/ RefundedFinish(h)
    \/ AdminFinish(h) \/ AdminRaises(h) \/ AdminStale(h)
    \/ CancelRaises(h) \/ CancelRead(h) \/ CancelFinish(h)

\* Stripe delivers a notification again until it is answered with 200; nobody
\* repeats an answer of Swish.
Redeliver(e) == e \in events \ acked /\ \E h \in Handlers : Deliver(h, e)

\* Waiters for a row lock queue in the database, so a request whose row is free
\* again and again gets it: strong fairness.
Fairness ==
    /\ \A h \in Handlers : SF_vars(Finish(h))
    /\ \A type \in {"completed", "expired", "refunded"}, o \in Orders :
        SF_vars(Redeliver([type |-> type, ord |-> o]))

FairSpec == Spec /\ Fairness

=============================================================================
