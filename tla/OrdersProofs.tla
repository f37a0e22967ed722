---------------------------- MODULE OrdersProofs ----------------------------
(***************************************************************************)
(* Proofs, for any number of variants, orders, handlers and any bounds, of *)
(* what the runs of MCOrders check on small instances.                     *)
(***************************************************************************)
EXTENDS OrdersProperties, Sums

-----------------------------------------------------------------------------
(* Type correctness *)

\* A session of each kind is a record of that kind.
LEMMA TxKinds ==
    ASSUME NEW t \in Tx
    PROVE  /\ t.kind = "checkout" => t \in CheckoutTx
           /\ t.kind = "paid" => t \in PaidTx
           /\ t.kind = "failed" => t \in FailedTx
           /\ t.kind = "refunded" => t \in RefundedTx
           /\ t.kind = "admin" => t \in AdminTx
           /\ t.kind = "cancel" => t \in CancelTx
BY DEF Tx, Idle, CheckoutTx, PaidTx, FailedTx, RefundedTx, AdminTx, CancelTx

LEMMA IdleIsTx == Idle \in Tx
BY DEF Tx

\* Ending a request leaves every session well typed.
LEMMA EndTypes ==
    ASSUME tx \in [Handlers -> Tx], NEW h \in Handlers, End(h)
    PROVE  tx' \in [Handlers -> Tx]
BY IdleIsTx DEF End

LEMMA InitTypes == Init => TypeOK
<1> SUFFICES ASSUME Init PROVE TypeOK
  OBVIOUS
<1>1. stock \in [Variants -> Nat] /\ received \in [Variants -> Int]
  <2>1. stock \in [Variants -> Stocks] /\ received = stock
    BY DEF Init
  <2>2. stock \in [Variants -> Nat]
    BY <2>1, StocksAssumption DEF StocksAssumption
  <2> QED
    BY <2>1, <2>2
<1>2. promo \in [uses : Nat, cap : Nat \cup {NoCap}, live : BOOLEAN]
  BY CapsAssumption DEF CapsAssumption, Init
<1>3. tx \in [Handlers -> Tx]
  BY IdleIsTx DEF Init
<1> QED
  BY <1>1, <1>2, <1>3 DEF Init, TypeOK, OrderStatus, PaymentStatus

\* Checkout: the new order's columns come from the session.
LEMMA CheckoutTypes ==
    ASSUME TypeOK, NEW h \in Handlers, Checkout(h)
    PROVE  TypeOK'
<1> USE DEF variantVars, orderVars, paymentVars
<1>1. ASSUME NEW o \in Orders, CheckoutLoad(h, o) PROVE TypeOK'
  <2>1. PICK c \in Carts, m \in Methods, s \in Scopes, n \in 0 .. Cardinality(Variants) :
            Begin(h, [kind |-> "checkout", ord |-> o, cart |-> c, method |-> m,
                      owned |-> s = "user", codes |-> n,
                      stock |-> stock, reserved |-> reserved])
    BY <1>1, Zenon DEF CheckoutLoad
  <2>0. tx' = [tx EXCEPT ![h] =
                     [kind |-> "checkout", ord |-> o, cart |-> c, method |-> m,
                      owned |-> s = "user", codes |-> n,
                      stock |-> stock, reserved |-> reserved]]
    BY <2>1 DEF Begin
  <2>2. n \in Nat
    BY <2>1, VariantsAssumption, FS_CardinalityType DEF VariantsAssumption
  <2>3. [kind |-> "checkout", ord |-> o, cart |-> c, method |-> m,
         owned |-> s = "user", codes |-> n,
         stock |-> stock, reserved |-> reserved] \in Tx
    BY <2>2 DEF Tx, CheckoutTx, TypeOK
  <2>4. tx' \in [Handlers -> Tx]
    BY <2>0, <2>3 DEF TypeOK
  <2> QED
    BY <1>1, <2>4 DEF CheckoutLoad, TypeOK
<1>2. CASE CheckoutFinish(h)
  <2>1. tx[h] \in CheckoutTx
    BY <1>2, TxKinds DEF CheckoutFinish, TypeOK
  <2>2. tx[h].cart \in [Variants -> Nat] /\ tx[h].method \in {"stripe", "swish"}
    BY <2>1, CartsAssumption, MethodsAssumption DEF CartsAssumption, MethodsAssumption, CheckoutTx
  <2>3. reserved' \in [Variants -> Int]
    BY <1>2, <2>1, <2>2 DEF CheckoutFinish, Reservation, CheckoutTx, TypeOK
  <2>4. tx' \in [Handlers -> Tx]
    BY <1>2, EndTypes DEF CheckoutFinish, TypeOK
  <2> QED
    BY <1>2, <2>1, <2>2, <2>3, <2>4
    DEF CheckoutFinish, CheckoutTx, TypeOK, OrderStatus, PaymentStatus
<1>3. CASE CheckoutRefused(h)
  BY <1>3, EndTypes DEF CheckoutRefused, TypeOK
<1>4. CASE CheckoutLost(h)
  <2>1. tx[h] \in CheckoutTx
    BY <1>4, TxKinds DEF CheckoutLost, TypeOK
  <2> QED
    BY <1>4, <2>1, EndTypes, BoundsAssumption DEF BoundsAssumption, CheckoutLost, CheckoutTx, TypeOK
<1> QED
  BY <1>1, <1>2, <1>3, <1>4 DEF Checkout

\* What customers and providers do: only sessions at the provider and their
\* notifications change.
LEMMA PaymentTypes ==
    ASSUME TypeOK, Payment
    PROVE  TypeOK'
<1> USE DEF variantVars, orderVars, paymentVars, TypeOK, PaymentEvent, PaidEvents, FailedEvents
<1>1. ASSUME NEW o \in Orders, CustomerPays(o) PROVE TypeOK'
  BY <1>1 DEF CustomerPays, Send
<1>2. ASSUME NEW o \in Orders, SessionExpires(o) PROVE TypeOK'
  BY <1>2 DEF SessionExpires, Send
<1>3. ASSUME NEW o \in Orders, MerchantRefunds(o) PROVE TypeOK'
  BY <1>3 DEF MerchantRefunds, Send
<1>4. ASSUME NEW o \in Orders, NEW type \in Answers, SwishAnswers(o, type)
      PROVE  TypeOK'
  <2>1. [type |-> type, ord |-> o] \in PaymentEvent
    BY AnswersAssumption DEF AnswersAssumption
  <2> QED
    BY <1>4, <2>1 DEF SwishAnswers, Send
<1> QED
  BY <1>1, <1>2, <1>3, <1>4 DEF Payment

\* A delivery acknowledges the notification or opens a session for it.
LEMMA DeliverTypes ==
    ASSUME TypeOK, NEW h \in Handlers, NEW e \in events, Deliver(h, e)
    PROVE  TypeOK'
<1> USE DEF variantVars, orderVars, paymentVars
<1>1. CASE PaidAlready(h, e) \/ FailedAlready(h, e) \/ RefundedSkipped(h, e)
  BY <1>1 DEF PaidAlready, FailedAlready, RefundedSkipped, Acknowledge, TypeOK
<1>2. e \in PaymentEvent /\ e.ord \in Orders
  BY DEF TypeOK, PaymentEvent
<1>3. status[e.ord] # "absent" => status[e.ord] \in OrderStatus
  BY <1>2 DEF TypeOK
<1>4. CASE PaidLoad(h, e)
  <2> DEFINE t == [kind |-> "paid", phase |-> "read", event |-> e, ord |-> e.ord,
                   status |-> status[e.ord], short |-> FALSE]
  <2>1. t \in Tx
    BY <1>2, <1>3, <1>4 DEF Tx, PaidTx, PaidLoad
  <2>2. tx' = [tx EXCEPT ![h] = t]
    BY <1>4 DEF PaidLoad, Begin
  <2> QED
    BY <1>4, <2>1, <2>2 DEF PaidLoad, TypeOK
<1>5. CASE FailedLoad(h, e)
  <2> DEFINE t == [kind |-> "failed", event |-> e, ord |-> e.ord]
  <2>1. t \in Tx
    BY <1>2, <1>3, <1>5 DEF Tx, FailedTx, FailedLoad
  <2>2. tx' = [tx EXCEPT ![h] = t]
    BY <1>5 DEF FailedLoad, Begin
  <2> QED
    BY <1>5, <2>1, <2>2 DEF FailedLoad, TypeOK
<1>6. CASE RefundedLoad(h, e)
  <2> DEFINE t == [kind |-> "refunded", event |-> e, ord |-> e.ord,
                   status |-> status[e.ord]]
  <2>1. t \in Tx
    BY <1>2, <1>3, <1>6 DEF Tx, RefundedTx, RefundedLoad
  <2>2. tx' = [tx EXCEPT ![h] = t]
    BY <1>6 DEF RefundedLoad, Begin
  <2> QED
    BY <1>6, <2>1, <2>2 DEF RefundedLoad, TypeOK
<1> QED
  BY <1>1, <1>4, <1>5, <1>6 DEF Deliver

LEMMA AutoRefundTypes ==
    ASSUME TypeOK, NEW e \in PaymentEvent, AutoRefund(e)
    PROVE  /\ gateway' \in [Orders -> {"none", "open", "complete", "expired", "refunded"}]
           /\ events' \subseteq PaymentEvent
<1>1. [type |-> "refunded", ord |-> e.ord] \in PaymentEvent
  BY DEF PaymentEvent
<1>2. CASE UNCHANGED <<gateway, events>>
  BY <1>2 DEF TypeOK
<1>3. CASE /\ gateway' = [gateway EXCEPT ![e.ord] = "refunded"]
           /\ Send("refunded", e.ord)
  BY <1>1, <1>3 DEF Send, TypeOK
<1> QED
  BY <1>2, <1>3 DEF AutoRefund

\* The settlement: a stock level stays a natural number because the deduction
\* is conditional on the stock.
LEMMA SettlementTypes ==
    ASSUME TypeOK, NEW h \in Handlers,
           PaidCheck(h) \/ PaidConfirms(h) \/ PaidShort(h) \/ PaidLost(h)
    PROVE  TypeOK'
<1> USE DEF variantVars, orderVars, paymentVars
<1>1. tx[h] \in PaidTx
  BY TxKinds DEF PaidCheck, PaidConfirms, PaidShort, PaidLost, TypeOK
<1>2. tx[h].ord \in Orders /\ tx[h].event \in PaymentEvent
  BY <1>1 DEF PaidTx
<1>3. CASE PaidCheck(h)
  <2> DEFINE t == [tx[h] EXCEPT !.phase = "checked", !.short = ~ InStock(tx[h].ord)]
  <2>1. (~ InStock(tx[h].ord)) \in BOOLEAN
    OBVIOUS
  <2>2. t \in Tx
    BY <1>1, <2>1 DEF PaidTx, Tx
  <2>3. tx' = [tx EXCEPT ![h] = t]
    BY <1>3 DEF PaidCheck
  <2> QED
    BY <1>3, <2>2, <2>3 DEF PaidCheck, TypeOK
<1>4. CASE PaidConfirms(h)
  <2>1. stock' \in [Variants -> Nat]
    BY <1>2, <1>4 DEF PaidConfirms, Settled, Deductible, InStock, DeductStock, TypeOK
  <2>2. reserved' \in [Variants -> Int]
    BY <1>2, <1>4 DEF PaidConfirms, DeductStock, TypeOK
  <2>3. promo' \in [uses : Nat, cap : Nat \cup {NoCap}, live : BOOLEAN]
    <3>1. promo' = [promo EXCEPT !.uses = @ + codes[tx[h].ord]]
      BY <1>4 DEF PaidConfirms, DeductStock
    <3>2. /\ promo \in [uses : Nat, cap : Nat \cup {NoCap}, live : BOOLEAN]
          /\ codes[tx[h].ord] \in Nat
      BY <1>2 DEF TypeOK
    <3>3. promo.uses + codes[tx[h].ord] \in Nat
      BY <3>2
    <3> QED
      BY <3>1, <3>2, <3>3
  <2>4. deducts' \in [Orders -> Nat]
    BY <1>2, <1>4 DEF PaidConfirms, DeductStock, TypeOK
  <2>5. status' \in [Orders -> OrderStatus \cup {"absent"}]
    BY <1>2, <1>4 DEF PaidConfirms, ConfirmStatus, TypeOK, OrderStatus
  <2>6. acked' \subseteq PaymentEvent
    BY <1>2, <1>4 DEF PaidConfirms, Acknowledge, TypeOK
  <2> QED
    BY <1>2, <1>4, <2>1, <2>2, <2>3, <2>4, <2>5, <2>6, EndTypes
    DEF PaidConfirms, TypeOK, PaymentStatus
<1>5. CASE PaidShort(h)
  <2>1. tx' \in [Handlers -> Tx] /\ pay' \in [Orders -> PaymentStatus]
    BY <1>2, <1>5, EndTypes DEF PaidShort, TypeOK, PaymentStatus
  <2> QED
    BY <1>2, <1>5, <2>1, AutoRefundTypes DEF PaidShort, Acknowledge, TypeOK
<1>6. CASE PaidLost(h)
  <2>1. tx' \in [Handlers -> Tx] /\ crashes' \in Nat
    BY <1>6, EndTypes DEF PaidLost, TypeOK
  <2>2. CASE Settled(tx[h])
    BY <1>6, <2>1, <2>2 DEF PaidLost, TypeOK
  <2>3. CASE ~ Settled(tx[h])
    BY <1>2, <1>6, <2>1, <2>3, AutoRefundTypes DEF PaidLost, TypeOK
  <2> QED
    BY <2>2, <2>3
<1> QED
  BY <1>3, <1>4, <1>5, <1>6

\* Expired sessions, declined requests and refunds.
LEMMA FailureTypes ==
    ASSUME TypeOK, NEW h \in Handlers, FailedFinish(h) \/ RefundedFinish(h)
    PROVE  TypeOK'
<1> USE DEF variantVars, orderVars, paymentVars
<1>1. tx[h] \in FailedTx \cup RefundedTx
  BY TxKinds DEF FailedFinish, RefundedFinish, TypeOK
<1>2. tx[h].ord \in Orders /\ tx[h].event \in PaymentEvent
  BY <1>1 DEF FailedTx, RefundedTx
<1>3. tx' \in [Handlers -> Tx]
  BY EndTypes DEF FailedFinish, RefundedFinish, TypeOK
<1>4. acked' \subseteq PaymentEvent
  BY <1>2 DEF FailedFinish, RefundedFinish, Acknowledge, TypeOK
<1>5. pay' \in [Orders -> PaymentStatus]
  BY <1>2 DEF FailedFinish, RefundedFinish, TypeOK, PaymentStatus
<1>6. status' \in [Orders -> OrderStatus \cup {"absent"}]
  <2>1. CASE FailedFinish(h)
    BY <2>1 DEF FailedFinish, TypeOK
  <2>2. CASE RefundedFinish(h)
    BY <1>2, <2>2 DEF RefundedFinish, TypeOK, OrderStatus
  <2> QED
    BY <2>1, <2>2
<1> QED
  BY <1>3, <1>4, <1>5, <1>6 DEF FailedFinish, RefundedFinish, TypeOK

\* The admin's status machine.
LEMMA AdminTypes ==
    ASSUME TypeOK, NEW h \in Handlers, UpdateOrderStatus(h)
    PROVE  TypeOK'
<1> USE DEF variantVars, orderVars, paymentVars
<1>1. ASSUME NEW o \in Orders, AdminLoad(h, o) PROVE TypeOK'
  <2>1. PICK target \in ALLOWED_TRANSITIONS[status[o]] :
            Begin(h, [kind |-> "admin", ord |-> o, status |-> status[o],
                      pay |-> pay[o], owned |-> owned[o], target |-> target])
    BY <1>1 DEF AdminLoad
  <2>2. status[o] \in OrderStatus
    BY <1>1 DEF AdminLoad, TypeOK
  <2>3. target \in OrderStatus
    BY <2>1, <2>2 DEF ALLOWED_TRANSITIONS, OrderStatus
  <2>4. [kind |-> "admin", ord |-> o, status |-> status[o],
         pay |-> pay[o], owned |-> owned[o], target |-> target] \in Tx
    BY <2>2, <2>3 DEF Tx, AdminTx, TypeOK
  <2>5. tx' \in [Handlers -> Tx]
    BY <2>1, <2>4 DEF Begin, TypeOK
  <2> QED
    BY <1>1, <2>5 DEF AdminLoad, TypeOK
<1>2. CASE AdminFinish(h)
  <2>1. tx[h] \in AdminTx
    BY <1>2, TxKinds DEF AdminFinish, TypeOK
  <2>2. status' \in [Orders -> OrderStatus \cup {"absent"}]
    BY <1>2, <2>1 DEF AdminFinish, AdminTx, TypeOK
  <2> QED
    BY <1>2, <2>2, EndTypes DEF AdminFinish, TypeOK
<1>3. CASE AdminLost(h)
  BY <1>3, EndTypes DEF AdminLost, TypeOK
<1>4. CASE AdminRaises(h) \/ AdminStale(h)
  BY <1>4, EndTypes DEF AdminRaises, AdminStale, TypeOK
<1> QED
  BY <1>1, <1>2, <1>3, <1>4 DEF UpdateOrderStatus

\* The owner's cancel, with and without loaded items.
LEMMA CancelTypes ==
    ASSUME TypeOK, NEW h \in Handlers, CancelOrder(h)
    PROVE  TypeOK'
<1> USE DEF variantVars, orderVars, paymentVars
<1>1. ASSUME NEW o \in Orders, CancelLoad(h, o) PROVE TypeOK'
  <2> DEFINE t == [kind |-> "cancel", phase |-> "read", ord |-> o,
                   status |-> status[o], pay |-> pay[o],
                   stock |-> stock, reserved |-> reserved]
  <2>1. t \in Tx
    BY <1>1 DEF Tx, CancelTx, CancelLoad, TypeOK, OrderStatus
  <2>2. tx' = [tx EXCEPT ![h] = t]
    BY <1>1 DEF CancelLoad, Begin
  <2> QED
    BY <1>1, <2>1, <2>2 DEF CancelLoad, TypeOK
<1>2. CASE CancelRaises(h)
  BY <1>2, EndTypes DEF CancelRaises, TypeOK
<1>3. CASE CancelRead(h)
  <2> DEFINE t == [tx[h] EXCEPT !.phase = "viewed", !.stock = stock, !.reserved = reserved]
  <2>1. tx[h] \in CancelTx
    BY <1>3, TxKinds DEF CancelRead, TypeOK
  <2>2. t \in Tx
    BY <2>1 DEF CancelTx, Tx, TypeOK
  <2>3. tx' = [tx EXCEPT ![h] = t]
    BY <1>3 DEF CancelRead
  <2> QED
    BY <1>3, <2>2, <2>3 DEF CancelRead, TypeOK
<1>4. CASE CancelFinish(h)
  <2>1. tx[h] \in CancelTx
    BY <1>4, TxKinds DEF CancelFinish, TypeOK
  <2>2. tx' \in [Handlers -> Tx]
    BY <1>4, EndTypes DEF CancelFinish, TypeOK
  <2>3. stock' \in [Variants -> Nat]
    BY <1>4, <2>1 DEF CancelFinish, CancelTx, TypeOK
  <2>4. reserved' \in [Variants -> Int]
    BY <1>4, <2>1 DEF CancelFinish, CancelTx, Least, TypeOK
  <2>5. status' \in [Orders -> OrderStatus \cup {"absent"}]
    BY <1>4, <2>1 DEF CancelFinish, CancelTx, TypeOK, OrderStatus
  <2>6. pay' \in [Orders -> PaymentStatus]
    BY <1>4, <2>1 DEF CancelFinish, CancelTx, TypeOK, PaymentStatus
  <2> QED
    BY <1>4, <2>2, <2>3, <2>4, <2>5, <2>6 DEF CancelFinish, TypeOK
<1> QED
  BY <1>1, <1>2, <1>3, <1>4 DEF CancelOrder

\* Changes to variants, promotions and accounts.
LEMMA AdministrationTypes ==
    ASSUME TypeOK, Administration
    PROVE  TypeOK'
<1> USE DEF variantVars, orderVars, paymentVars
<1>0. Change => changes' \in Nat
  BY DEF Change, TypeOK
<1>1. ASSUME NEW v \in Variants, DeleteVariant(v) PROVE TypeOK'
  BY <1>0, <1>1 DEF DeleteVariant, TypeOK
<1>2. ASSUME NEW v \in Variants, NEW n \in Stocks, UpdateVariant(v, n) PROVE TypeOK'
  <2>1. n \in Nat
    BY StocksAssumption DEF StocksAssumption
  <2>2. stock' \in [Variants -> Nat]
    BY <1>2, <2>1 DEF UpdateVariant, TypeOK
  <2>3. received' \in [Variants -> Int]
    BY <1>2, <2>1 DEF UpdateVariant, TypeOK
  <2> QED
    BY <1>0, <1>2, <2>2, <2>3 DEF UpdateVariant, TypeOK
<1>3. CASE DeletePromotion
  BY <1>0, <1>3 DEF DeletePromotion, TypeOK
<1>4. ASSUME NEW c \in Caps, UpdatePromotion(c) PROVE TypeOK'
  <2>1. c \in Nat
    BY CapsAssumption DEF CapsAssumption
  <2> QED
    BY <1>0, <1>4, <2>1 DEF UpdatePromotion, TypeOK
<1>5. ASSUME NEW S \in SUBSET Orders, UnassignUser(S) PROVE TypeOK'
  BY <1>0, <1>5 DEF UnassignUser, TypeOK
<1> QED
  BY <1>1, <1>2, <1>3, <1>4, <1>5 DEF Administration

LEMMA NextTypes ==
    ASSUME TypeOK, [Next]_vars
    PROVE  TypeOK'
<1>1. ASSUME NEW h \in Handlers, Callback(h) PROVE TypeOK'
  BY <1>1, DeliverTypes, SettlementTypes, FailureTypes DEF Callback
<1>2. ASSUME NEW h \in Handlers, Crash(h) PROVE TypeOK'
  BY <1>2, EndTypes DEF Crash, TypeOK, variantVars, orderVars, paymentVars
<1>3. CASE UNCHANGED vars
  BY <1>3 DEF vars, TypeOK, variantVars, orderVars, paymentVars
<1> QED
  BY <1>1, <1>2, <1>3, CheckoutTypes, AdminTypes, CancelTypes, PaymentTypes,
     AdministrationTypes DEF Next

\* The order core is well typed: in particular a variant's stock never becomes
\* negative, whatever requests, redeliveries, admin changes and crashes
\* interleave (deduct_stock's conditional UPDATE).
THEOREM TypeCorrect == Spec => []TypeOK
<1>1. TypeOK /\ [Next]_vars => TypeOK'
  BY NextTypes
<1> QED
  BY <1>1, InitTypes, PTL DEF Spec

-----------------------------------------------------------------------------
(* The inductive invariant behind the safety theorems *)

\* A checkout that has not finished owns its order id: no row, no provider
\* session and no other checkout has it.
CheckoutOwnsItsOrder ==
    \A h \in Handlers :
        tx[h].kind = "checkout" =>
            /\ status[tx[h].ord] = "absent"
            /\ gateway[tx[h].ord] = "none"
            /\ \A g \in Handlers \ {h} :
                  ~ (tx[g].kind = "checkout" /\ tx[g].ord = tx[h].ord)

\* Every other request has loaded an order that exists, and rows stay.
LoadedOrderExists ==
    \A h \in Handlers :
        tx[h].kind \in {"paid", "failed", "refunded", "admin", "cancel"} =>
            status[tx[h].ord] # "absent"

\* A payment handler works for a reported payment; a copy that says confirmed
\* is of an order that is pending no more.
PaidSessions ==
    \A h \in Handlers :
        tx[h].kind = "paid" =>
            /\ tx[h].event \in events
            /\ tx[h].event.type \in PaidEvents
            /\ tx[h].event.ord = tx[h].ord
            /\ tx[h].status = "confirmed" => status[tx[h].ord] # "pending"

PaymentReported(o) == \E e \in events : e.ord = o /\ e.type \in PaidEvents

\* An admin request that got through the payment gate towards a fulfilled
\* status is for an order that was settled; from pending, it cancels.
AdminSessions ==
    \A h \in Handlers :
        tx[h].kind = "admin" =>
            /\ tx[h].target \in ALLOWED_TRANSITIONS[tx[h].status]
            /\ tx[h].status = "pending" => tx[h].target = "cancelled"
            /\ tx[h].target \in Fulfilled =>
                  deducts[tx[h].ord] >= 1 /\ PaymentReported(tx[h].ord)

\* The owner's cancel gets past the order's items only where they can be read.
CancelSessions ==
    \A h \in Handlers :
        tx[h].kind = "cancel" /\ tx[h].phase = "viewed" => ItemsEager

\* What a report of a payment says about the order and its Stripe session.
PaidEventsAreTrue ==
    \A e \in events :
        e.type \in PaidEvents =>
            /\ status[e.ord] # "absent"
            /\ e.type = "completed" => gateway[e.ord] \in {"complete", "refunded"}

\* FulfilledWasPaid for paid orders as well: it is through the payment status
\* that the admin's gate sees a report.
ReportedBeforeFulfilled ==
    \A o \in Orders :
        status[o] \in Fulfilled \/ pay[o] = "paid" => PaymentReported(o)

SessionsInv ==
    /\ CheckoutOwnsItsOrder /\ LoadedOrderExists
    /\ PaidSessions /\ AdminSessions /\ CancelSessions

RowsInv ==
    /\ PaidEventsAreTrue
    /\ FulfilledWasDeducted
    /\ ReportedBeforeFulfilled
    /\ PaidIsNotPending

Inv == TypeOK /\ SessionsInv /\ RowsInv

\* What the rows part of the invariant is about.
rows == <<status, pay, gateway, deducts, events>>

LEMMA InitInv == Init => Inv
<1> SUFFICES ASSUME Init PROVE Inv
  OBVIOUS
<1>1. TypeOK
  BY InitTypes
<1>2. SessionsInv
  BY DEF Init, Idle, SessionsInv, CheckoutOwnsItsOrder, LoadedOrderExists,
         PaidSessions, AdminSessions, CancelSessions
<1>3. RowsInv
  BY DEF Init, RowsInv, PaidEventsAreTrue, FulfilledWasDeducted,
         ReportedBeforeFulfilled, PaidIsNotPending, Fulfilled
<1> QED
  BY <1>1, <1>2, <1>3 DEF Inv

LEMMA RowsUnchanged ==
    ASSUME RowsInv, UNCHANGED rows
    PROVE  RowsInv'
BY DEF RowsInv, rows, PaidEventsAreTrue, FulfilledWasDeducted,
       ReportedBeforeFulfilled, PaymentReported, PaidIsNotPending

\* A step of one session that leaves the rows alone: the new session is held
\* to what the invariant asks of its kind.
LEMMA SessionStep ==
    ASSUME Inv, NEW h \in Handlers, NEW t, tx' = [tx EXCEPT ![h] = t], UNCHANGED rows,
           t.kind = "checkout" =>
              /\ status[t.ord] = "absent"
              /\ gateway[t.ord] = "none"
              /\ \A g \in Handlers \ {h} :
                    ~ (tx[g].kind = "checkout" /\ tx[g].ord = t.ord),
           t.kind \in {"paid", "failed", "refunded", "admin", "cancel"} =>
              status[t.ord] # "absent",
           t.kind = "paid" =>
              /\ t.event \in events
              /\ t.event.type \in PaidEvents
              /\ t.event.ord = t.ord
              /\ t.status = "confirmed" => status[t.ord] # "pending",
           t.kind = "admin" =>
              /\ t.target \in ALLOWED_TRANSITIONS[t.status]
              /\ t.status = "pending" => t.target = "cancelled"
              /\ t.target \in Fulfilled => deducts[t.ord] >= 1 /\ PaymentReported(t.ord),
           t.kind = "cancel" /\ t.phase = "viewed" => ItemsEager
    PROVE  SessionsInv' /\ RowsInv'
<1>1. /\ tx'[h] = t
      /\ \A g \in Handlers \ {h} : tx'[g] = tx[g]
  BY DEF Inv, TypeOK
<1>2. CheckoutOwnsItsOrder'
  BY <1>1 DEF Inv, SessionsInv, CheckoutOwnsItsOrder, rows
<1>3. LoadedOrderExists'
  BY <1>1 DEF Inv, SessionsInv, LoadedOrderExists, rows
<1>4. PaidSessions'
  BY <1>1 DEF Inv, SessionsInv, PaidSessions, rows
<1>5. AdminSessions'
  BY <1>1 DEF Inv, SessionsInv, AdminSessions, PaymentReported, rows
<1>6. CancelSessions'
  BY <1>1 DEF Inv, SessionsInv, CancelSessions
<1> QED
  BY <1>2, <1>3, <1>4, <1>5, <1>6, RowsUnchanged DEF SessionsInv, Inv

\* A request that ends without a trace in the rows.
LEMMA EndStep ==
    ASSUME Inv, NEW h \in Handlers, End(h), UNCHANGED rows
    PROVE  SessionsInv' /\ RowsInv'
BY SessionStep DEF End, Idle

\* Steps that write rows and at most end one session: what is left of the
\* sessions part to show.
LEMMA SessionsKept ==
    ASSUME Inv,
           \A g \in Handlers : tx'[g] = tx[g] \/ tx'[g] = Idle,
           events \subseteq events',
           \A o \in Orders : deducts'[o] \in Nat /\ deducts'[o] >= deducts[o],
           \A o \in Orders :
              status[o] # "absent" =>
                 /\ status'[o] # "absent"
                 /\ status[o] # "pending" => status'[o] # "pending",
           \A g \in Handlers :
              tx'[g].kind = "checkout" =>
                 status'[tx[g].ord] = "absent" /\ gateway'[tx[g].ord] = "none"
    PROVE  SessionsInv'
<1>1. \A g \in Handlers : tx[g].kind # "idle" => tx[g].ord \in Orders
  BY DEF Inv, TypeOK, Tx, Idle, CheckoutTx, PaidTx, FailedTx, RefundedTx, AdminTx, CancelTx
<1>2. Idle.kind = "idle"
  BY DEF Idle
<1>3. CheckoutOwnsItsOrder'
  BY <1>1, <1>2 DEF Inv, SessionsInv, CheckoutOwnsItsOrder
<1>4. LoadedOrderExists'
  BY <1>1, <1>2 DEF Inv, SessionsInv, LoadedOrderExists
<1>5. PaidSessions'
  BY <1>1, <1>2 DEF Inv, SessionsInv, PaidSessions, LoadedOrderExists
<1>6. AdminSessions'
  <2> SUFFICES ASSUME NEW g \in Handlers, tx'[g].kind = "admin"
               PROVE  (/\ tx[g].target \in ALLOWED_TRANSITIONS[tx[g].status]
                       /\ tx[g].status = "pending" => tx[g].target = "cancelled"
                       /\ tx[g].target \in Fulfilled =>
                             deducts[tx[g].ord] >= 1 /\ PaymentReported(tx[g].ord))'
    BY DEF AdminSessions
  <2>1. tx'[g] = tx[g] /\ tx[g].ord \in Orders
    BY <1>1, <1>2
  <2>2. deducts[tx[g].ord] \in Nat
    BY <2>1 DEF Inv, TypeOK
  <2>3. PaymentReported(tx[g].ord) => PaymentReported(tx[g].ord)'
    BY <2>1 DEF PaymentReported
  <2>4. /\ tx[g].target \in ALLOWED_TRANSITIONS[tx[g].status]
        /\ tx[g].status = "pending" => tx[g].target = "cancelled"
        /\ tx[g].target \in Fulfilled => deducts[tx[g].ord] >= 1 /\ PaymentReported(tx[g].ord)
    BY <2>1 DEF Inv, SessionsInv, AdminSessions
  <2>5. deducts[tx[g].ord] >= 1 => deducts'[tx[g].ord] >= 1
    BY <2>1, <2>2
  <2> QED
    BY <2>1, <2>3, <2>4, <2>5
<1>7. CancelSessions'
  BY <1>1, <1>2 DEF Inv, SessionsInv, CancelSessions
<1> QED
  BY <1>3, <1>4, <1>5, <1>6, <1>7 DEF SessionsInv

-----------------------------------------------------------------------------
(* Every action keeps it *)

LEMMA CheckoutInv ==
    ASSUME Inv, NEW h \in Handlers, Checkout(h)
    PROVE  SessionsInv' /\ RowsInv'
<1> USE DEF variantVars, orderVars, paymentVars
<1>1. ASSUME NEW o \in Orders, CheckoutLoad(h, o) PROVE SessionsInv' /\ RowsInv'
  <2>1. PICK c \in Carts, m \in Methods, s \in Scopes, n \in 0 .. Cardinality(Variants) :
            Begin(h, [kind |-> "checkout", ord |-> o, cart |-> c, method |-> m,
                      owned |-> s = "user", codes |-> n,
                      stock |-> stock, reserved |-> reserved])
    BY <1>1, Zenon DEF CheckoutLoad
  <2> DEFINE t == [kind |-> "checkout", ord |-> o, cart |-> c, method |-> m,
                   owned |-> s = "user", codes |-> n,
                   stock |-> stock, reserved |-> reserved]
  <2>2. tx' = [tx EXCEPT ![h] = t]
    BY <2>1 DEF Begin
  <2>3. t.kind = "checkout" /\ t.ord = o
    OBVIOUS
  <2>4. UNCHANGED rows
    BY <1>1 DEF CheckoutLoad, rows
  <2> HIDE DEF t
  <2> QED
    BY <1>1, <2>2, <2>3, <2>4, SessionStep DEF CheckoutLoad, Unused
<1>2. CASE CheckoutFinish(h)
  <2> DEFINE o == tx[h].ord
  <2>1. o \in Orders
    BY <1>2, TxKinds DEF CheckoutFinish, CheckoutTx, Inv, TypeOK
  <2>2. /\ tx' = [tx EXCEPT ![h] = Idle]
        /\ status' = [status EXCEPT ![o] = "pending"]
        /\ pay' = [pay EXCEPT ![o] = "pending"]
        /\ \A p \in Orders \ {o} : gateway'[p] = gateway[p]
        /\ deducts' = deducts /\ events' = events
    BY <1>2 DEF CheckoutFinish, End, Inv, TypeOK
  <2>3. status[o] = "absent"
    BY <1>2 DEF CheckoutFinish, Inv, SessionsInv, CheckoutOwnsItsOrder
  <2>4. \A g \in Handlers :
            tx'[g].kind = "checkout" =>
               status'[tx[g].ord] = "absent" /\ gateway'[tx[g].ord] = "none"
    <3> SUFFICES ASSUME NEW g \in Handlers, tx'[g].kind = "checkout"
                 PROVE  status'[tx[g].ord] = "absent" /\ gateway'[tx[g].ord] = "none"
      OBVIOUS
    <3>1. g # h /\ tx[g].kind = "checkout"
      BY <2>2 DEF Inv, TypeOK, Idle
    <3>2. tx[g].ord \in Orders \ {o}
      BY <1>2, <3>1, TxKinds
      DEF CheckoutFinish, CheckoutTx, Inv, TypeOK, SessionsInv, CheckoutOwnsItsOrder
    <3> QED
      BY <2>2, <3>1, <3>2 DEF Inv, TypeOK, SessionsInv, CheckoutOwnsItsOrder
  <2>5. SessionsInv'
    BY <2>1, <2>2, <2>3, <2>4, SessionsKept DEF Inv, TypeOK
  <2>6. PaidEventsAreTrue'
    BY <2>1, <2>2, <2>3 DEF Inv, RowsInv, PaidEventsAreTrue, TypeOK, PaymentEvent
  <2>7. FulfilledWasDeducted' /\ ReportedBeforeFulfilled' /\ PaidIsNotPending'
    BY <2>1, <2>2 DEF Inv, RowsInv, FulfilledWasDeducted, ReportedBeforeFulfilled,
       PaymentReported, PaidIsNotPending, TypeOK, Fulfilled
  <2> QED
    BY <2>5, <2>6, <2>7 DEF RowsInv
<1>3. CASE CheckoutRefused(h)
  BY <1>3, EndStep DEF CheckoutRefused, rows
<1>4. CASE CheckoutLost(h)
  <2> DEFINE o == tx[h].ord
  <2>1. o \in Orders
    BY <1>4, TxKinds DEF CheckoutLost, CheckoutTx, Inv, TypeOK
  <2>2. /\ tx' = [tx EXCEPT ![h] = Idle]
        /\ gateway' = [gateway EXCEPT ![o] = "open"]
        /\ UNCHANGED <<status, pay, deducts, events>>
    BY <1>4 DEF CheckoutLost, End
  <2>3. status[o] = "absent"
    BY <1>4 DEF CheckoutLost, Inv, SessionsInv, CheckoutOwnsItsOrder
  <2>4. \A g \in Handlers :
            tx'[g].kind = "checkout" =>
               status'[tx[g].ord] = "absent" /\ gateway'[tx[g].ord] = "none"
    <3> SUFFICES ASSUME NEW g \in Handlers, tx'[g].kind = "checkout"
                 PROVE  status'[tx[g].ord] = "absent" /\ gateway'[tx[g].ord] = "none"
      OBVIOUS
    <3>1. g # h /\ tx[g].kind = "checkout"
      BY <2>2 DEF Inv, TypeOK, Idle
    <3>2. tx[g].ord \in Orders \ {o}
      BY <1>4, <3>1, TxKinds
      DEF CheckoutLost, CheckoutTx, Inv, TypeOK, SessionsInv, CheckoutOwnsItsOrder
    <3> QED
      BY <2>2, <3>1, <3>2 DEF Inv, TypeOK, SessionsInv, CheckoutOwnsItsOrder
  <2>5. SessionsInv'
    BY <2>1, <2>2, <2>4, SessionsKept DEF Inv, TypeOK
  <2>6. PaidEventsAreTrue'
    BY <2>1, <2>2, <2>3 DEF Inv, RowsInv, PaidEventsAreTrue, TypeOK, PaymentEvent
  <2>7. FulfilledWasDeducted' /\ ReportedBeforeFulfilled' /\ PaidIsNotPending'
    BY <2>2 DEF Inv, RowsInv, FulfilledWasDeducted, ReportedBeforeFulfilled,
       PaymentReported, PaidIsNotPending
  <2> QED
    BY <2>5, <2>6, <2>7 DEF RowsInv
<1> QED
  BY <1>1, <1>2, <1>3, <1>4 DEF Checkout

\* Customers and providers touch no session of the store.
LEMMA PaymentInv ==
    ASSUME Inv, Payment
    PROVE  SessionsInv' /\ RowsInv'
<1> USE DEF variantVars, orderVars, paymentVars
<1>1. PICK o \in Orders :
          CustomerPays(o) \/ SessionExpires(o) \/ MerchantRefunds(o)
          \/ \E type \in Answers : SwishAnswers(o, type)
  BY DEF Payment
<1>2. /\ UNCHANGED <<status, pay, deducts, tx>>
      /\ events \subseteq events'
  BY <1>1 DEF CustomerPays, SessionExpires, MerchantRefunds, SwishAnswers, Send
<1>3. gateway'[o] = gateway[o] \/ gateway[o] # "none"
  BY <1>1 DEF CustomerPays, SessionExpires, MerchantRefunds, SwishAnswers
<1>4. \A p \in Orders \ {o} : gateway'[p] = gateway[p]
  BY <1>1 DEF CustomerPays, SessionExpires, MerchantRefunds, SwishAnswers, Inv, TypeOK
<1>5. \A g \in Handlers : tx[g].kind = "checkout" => tx[g].ord \in Orders
  BY TxKinds DEF CheckoutTx, Inv, TypeOK
<1>6. SessionsInv'
  BY <1>2, <1>3, <1>4, <1>5, SessionsKept
  DEF Inv, TypeOK, SessionsInv, CheckoutOwnsItsOrder
<1>7. PaidEventsAreTrue'
  <2>1. CASE CustomerPays(o)
    BY <2>1 DEF CustomerPays, Send, Inv, RowsInv, PaidEventsAreTrue, TypeOK, PaymentEvent
  <2>2. CASE SessionExpires(o)
    BY <2>2 DEF SessionExpires, Send, Inv, RowsInv, PaidEventsAreTrue, TypeOK,
       PaymentEvent, PaidEvents
  <2>3. CASE MerchantRefunds(o)
    BY <2>3 DEF MerchantRefunds, Send, Inv, RowsInv, PaidEventsAreTrue, TypeOK,
       PaymentEvent, PaidEvents
  <2>4. ASSUME NEW type \in Answers, SwishAnswers(o, type) PROVE PaidEventsAreTrue'
    BY <2>4, AnswersAssumption
    DEF AnswersAssumption, SwishAnswers, Send, Inv, RowsInv, PaidEventsAreTrue, TypeOK,
        PaymentEvent, PaidEvents
  <2> QED
    BY <1>1, <2>1, <2>2, <2>3, <2>4
<1>8. FulfilledWasDeducted' /\ ReportedBeforeFulfilled' /\ PaidIsNotPending'
  BY <1>2 DEF Inv, RowsInv, FulfilledWasDeducted, ReportedBeforeFulfilled,
     PaymentReported, PaidIsNotPending
<1> QED
  BY <1>6, <1>7, <1>8 DEF RowsInv

\* A delivery takes up the notification, whose order exists.
LEMMA DeliverInv ==
    ASSUME Inv, NEW h \in Handlers, NEW e \in events, Deliver(h, e)
    PROVE  SessionsInv' /\ RowsInv'
<1> USE DEF variantVars, orderVars, paymentVars
<1>1. CASE PaidAlready(h, e) \/ FailedAlready(h, e) \/ RefundedSkipped(h, e)
  <2>1. UNCHANGED rows /\ UNCHANGED tx
    BY <1>1 DEF PaidAlready, FailedAlready, RefundedSkipped, rows
  <2>2. SessionsInv'
    BY <2>1 DEF rows, Inv, SessionsInv, CheckoutOwnsItsOrder, LoadedOrderExists, CancelSessions,
       PaidSessions, AdminSessions, PaymentReported
  <2> QED
    BY <2>1, <2>2, RowsUnchanged DEF Inv
<1>2. CASE PaidLoad(h, e)
  <2> DEFINE t == [kind |-> "paid", phase |-> "read", event |-> e, ord |-> e.ord,
                   status |-> status[e.ord], short |-> FALSE]
  <2>1. tx' = [tx EXCEPT ![h] = t] /\ UNCHANGED rows
    BY <1>2 DEF PaidLoad, Begin, rows
  <2>2. /\ t.kind = "paid" /\ t.ord = e.ord /\ t.event = e
        /\ t.status = "confirmed" => status[t.ord] # "pending"
        /\ status[e.ord] # "absent" /\ e.type \in PaidEvents
    BY <1>2 DEF PaidLoad
  <2> HIDE DEF t
  <2> QED
    BY <2>1, <2>2, SessionStep
<1>3. CASE FailedLoad(h, e)
  BY <1>3, SessionStep DEF FailedLoad, Begin, rows
<1>4. CASE RefundedLoad(h, e)
  <2> DEFINE t == [kind |-> "refunded", event |-> e, ord |-> e.ord,
                   status |-> status[e.ord]]
  <2>1. tx' = [tx EXCEPT ![h] = t] /\ UNCHANGED rows
    BY <1>4 DEF RefundedLoad, Begin, rows
  <2>2. t.kind = "refunded" /\ t.ord = e.ord /\ status[e.ord] # "absent"
    BY <1>4 DEF RefundedLoad
  <2> HIDE DEF t
  <2> QED
    BY <2>1, <2>2, SessionStep
<1> QED
  BY <1>1, <1>2, <1>3, <1>4 DEF Deliver

\* An automatic refund requested for a captured payment keeps what the reports
\* of payments say.
LEMMA AutoRefundKeeps ==
    ASSUME Inv, NEW e \in PaymentEvent, AutoRefund(e), UNCHANGED status
    PROVE  /\ PaidEventsAreTrue'
           /\ events \subseteq events'
           /\ \A p \in Orders : gateway[p] = "none" => gateway'[p] = "none"
<1>1. CASE UNCHANGED <<gateway, events>>
  BY <1>1 DEF Inv, RowsInv, PaidEventsAreTrue
<1>2. CASE /\ gateway[e.ord] = "complete"
           /\ gateway' = [gateway EXCEPT ![e.ord] = "refunded"]
           /\ Send("refunded", e.ord)
  <2>1. e.ord \in Orders
    BY DEF PaymentEvent
  <2>2. PaidEventsAreTrue'
    BY <1>2, <2>1 DEF Send, Inv, RowsInv, PaidEventsAreTrue, TypeOK, PaymentEvent, PaidEvents
  <2> QED
    BY <1>2, <2>1, <2>2 DEF Send, Inv, TypeOK
<1> QED
  BY <1>1, <1>2 DEF AutoRefund

\* A request that ends and moves existing orders, but none back to pending,
\* leaves the other sessions what the invariant asks of them.
LEMMA EndingKeeps ==
    ASSUME Inv, NEW h \in Handlers, tx' = [tx EXCEPT ![h] = Idle],
           events \subseteq events',
           \A o \in Orders : deducts'[o] \in Nat /\ deducts'[o] >= deducts[o],
           \A o \in Orders :
              \/ status'[o] = status[o]
              \/ status[o] # "absent" /\ status'[o] \notin {"absent", "pending"},
           \A o \in Orders : gateway[o] = "none" => gateway'[o] = "none"
    PROVE  SessionsInv'
<1>1. \A g \in Handlers : tx'[g] = tx[g] \/ tx'[g] = Idle
  BY DEF Inv, TypeOK
<1>2. ASSUME NEW g \in Handlers, tx'[g].kind = "checkout"
      PROVE  status'[tx[g].ord] = "absent" /\ gateway'[tx[g].ord] = "none"
  <2>1. tx[g].kind = "checkout"
    BY <1>1, <1>2 DEF Idle
  <2>2. tx[g].ord \in Orders
    BY <2>1, TxKinds DEF CheckoutTx, Inv, TypeOK
  <2> QED
    BY <2>1, <2>2 DEF Inv, SessionsInv, CheckoutOwnsItsOrder
<1>3. \A o \in Orders :
         status[o] # "absent" =>
            /\ status'[o] # "absent"
            /\ status[o] # "pending" => status'[o] # "pending"
  OBVIOUS
<1> QED
  BY <1>1, <1>2, <1>3, SessionsKept

\* The settlement of a reported payment.
LEMMA SettlementInv ==
    ASSUME Inv, NEW h \in Handlers,
           PaidCheck(h) \/ PaidConfirms(h) \/ PaidShort(h) \/ PaidLost(h)
    PROVE  SessionsInv' /\ RowsInv'
<1> USE DEF variantVars, orderVars, paymentVars
<1> DEFINE o == tx[h].ord
<1>1. tx[h] \in PaidTx
  BY TxKinds DEF PaidCheck, PaidConfirms, PaidShort, PaidLost, Inv, TypeOK
<1>2. o \in Orders /\ tx[h].event \in PaymentEvent /\ tx[h].kind = "paid"
  BY <1>1 DEF PaidTx
<1>3. /\ status[o] # "absent"
      /\ PaymentReported(o)
      /\ tx[h].status = "confirmed" => status[o] # "pending"
  BY <1>2 DEF Inv, SessionsInv, LoadedOrderExists, PaidSessions, PaymentReported
<1>4. CASE PaidCheck(h)
  <2> DEFINE t == [tx[h] EXCEPT !.phase = "checked", !.short = ~ InStock(o)]
  <2>1. tx' = [tx EXCEPT ![h] = t] /\ UNCHANGED rows
    BY <1>4 DEF PaidCheck, rows
  <2>2. t.kind = "paid" /\ t.ord = o /\ t.event = tx[h].event /\ t.status = tx[h].status
    BY <1>1 DEF PaidTx
  <2>3. /\ t.event \in events
        /\ t.event.type \in PaidEvents
        /\ t.event.ord = t.ord
    BY <1>2, <2>2 DEF Inv, SessionsInv, PaidSessions
  <2> HIDE DEF t
  <2> QED
    BY <1>3, <2>1, <2>2, <2>3, SessionStep
<1>5. CASE PaidConfirms(h)
  <2>1. /\ tx' = [tx EXCEPT ![h] = Idle]
        /\ pay' = [pay EXCEPT ![o] = "paid"]
        /\ deducts' = [deducts EXCEPT ![o] = @ + 1]
        /\ UNCHANGED <<gateway, events>>
    BY <1>5 DEF PaidConfirms, DeductStock, End
  <2>2. status' = status \/ status' = [status EXCEPT ![o] = "confirmed"]
    BY <1>2, <1>5 DEF PaidConfirms, ConfirmStatus, Inv, TypeOK
  <2>3. tx[h].status # "confirmed" => status'[o] = "confirmed"
    BY <1>2, <1>5 DEF PaidConfirms, ConfirmStatus, Inv, TypeOK
  <2>4. \A p \in Orders :
           \/ status'[p] = status[p]
           \/ status[p] # "absent" /\ status'[p] \notin {"absent", "pending"}
    BY <1>2, <1>3, <2>2 DEF Inv, TypeOK
  <2>5. \A p \in Orders : deducts'[p] \in Nat /\ deducts'[p] >= deducts[p]
    BY <1>2, <2>1 DEF Inv, TypeOK
  <2>6. SessionsInv'
    BY <2>1, <2>4, <2>5, EndingKeeps
  <2>7. PaidEventsAreTrue'
    BY <2>1, <2>4 DEF Inv, RowsInv, PaidEventsAreTrue, TypeOK, PaymentEvent
  <2>8. deducts'[o] >= 1 /\ status'[o] # "pending"
    BY <1>2, <1>3, <2>1, <2>2, <2>3 DEF Inv, TypeOK
  <2>9. FulfilledWasDeducted' /\ ReportedBeforeFulfilled' /\ PaidIsNotPending'
    BY <1>2, <1>3, <2>1, <2>2, <2>8
    DEF Inv, RowsInv, FulfilledWasDeducted, ReportedBeforeFulfilled, PaymentReported,
        PaidIsNotPending, TypeOK
  <2> QED
    BY <2>6, <2>7, <2>9 DEF RowsInv
<1>6. CASE PaidShort(h)
  <2>1. /\ tx' = [tx EXCEPT ![h] = Idle]
        /\ pay' = [pay EXCEPT ![o] = "failed"]
        /\ UNCHANGED <<status, deducts>>
        /\ AutoRefund(tx[h].event)
    BY <1>6 DEF PaidShort, End
  <2>2. SessionsInv'
    <3>1. \A p \in Orders : deducts'[p] \in Nat /\ deducts'[p] >= deducts[p]
      BY <2>1 DEF Inv, TypeOK
    <3> QED
      BY <1>2, <2>1, <3>1, AutoRefundKeeps, EndingKeeps
  <2>3. FulfilledWasDeducted' /\ ReportedBeforeFulfilled' /\ PaidIsNotPending'
    BY <1>2, <2>1, AutoRefundKeeps
    DEF Inv, RowsInv, FulfilledWasDeducted, ReportedBeforeFulfilled, PaymentReported,
        PaidIsNotPending, TypeOK
  <2> QED
    BY <1>2, <2>1, <2>2, <2>3, AutoRefundKeeps DEF RowsInv
<1>7. CASE PaidLost(h)
  <2>1. /\ tx' = [tx EXCEPT ![h] = Idle]
        /\ UNCHANGED <<status, pay, deducts>>
        /\ UNCHANGED <<gateway, events>> \/ AutoRefund(tx[h].event)
    BY <1>7 DEF PaidLost, End
  <2>2. AutoRefund(tx[h].event)
    BY <2>1 DEF AutoRefund
  <2>3. SessionsInv'
    <3>1. \A p \in Orders : deducts'[p] \in Nat /\ deducts'[p] >= deducts[p]
      BY <2>1 DEF Inv, TypeOK
    <3> QED
      BY <1>2, <2>1, <2>2, <3>1, AutoRefundKeeps, EndingKeeps
  <2>4. FulfilledWasDeducted' /\ ReportedBeforeFulfilled' /\ PaidIsNotPending'
    BY <1>2, <2>1, <2>2, AutoRefundKeeps
    DEF Inv, RowsInv, FulfilledWasDeducted, ReportedBeforeFulfilled, PaymentReported,
        PaidIsNotPending
  <2> QED
    BY <1>2, <2>1, <2>2, <2>3, <2>4, AutoRefundKeeps DEF RowsInv
<1> QED
  BY <1>4, <1>5, <1>6, <1>7

\* Failed and refunded payments.
LEMMA FailureInv ==
    ASSUME Inv, NEW h \in Handlers, FailedFinish(h) \/ RefundedFinish(h)
    PROVE  SessionsInv' /\ RowsInv'
<1> USE DEF variantVars, orderVars, paymentVars
<1> DEFINE o == tx[h].ord
<1>1. o \in Orders
  BY TxKinds DEF FailedFinish, RefundedFinish, FailedTx, RefundedTx, Inv, TypeOK
<1>2. status[o] # "absent"
  BY DEF FailedFinish, RefundedFinish, Inv, SessionsInv, LoadedOrderExists
<1>3. /\ tx' = [tx EXCEPT ![h] = Idle]
      /\ UNCHANGED <<gateway, events, deducts>>
  BY DEF FailedFinish, RefundedFinish, End
<1>4. status' = status \/ status' = [status EXCEPT ![o] = "cancelled"]
  BY <1>1 DEF FailedFinish, RefundedFinish, Inv, TypeOK
<1>5. \E p \in {"failed", "refunded"} : pay' = [pay EXCEPT ![o] = p]
  BY DEF FailedFinish, RefundedFinish
<1>6. \A p \in Orders : deducts'[p] \in Nat /\ deducts'[p] >= deducts[p]
  BY <1>3 DEF Inv, TypeOK
<1>7. \A p \in Orders :
         \/ status'[p] = status[p]
         \/ status[p] # "absent" /\ status'[p] \notin {"absent", "pending"}
  BY <1>1, <1>2, <1>4 DEF Inv, TypeOK
<1>8. SessionsInv'
  BY <1>3, <1>6, <1>7, EndingKeeps
<1>9. PaidEventsAreTrue'
  BY <1>3, <1>7 DEF Inv, RowsInv, PaidEventsAreTrue, TypeOK, PaymentEvent
<1>10. FulfilledWasDeducted' /\ ReportedBeforeFulfilled' /\ PaidIsNotPending'
  BY <1>1, <1>3, <1>4, <1>5
  DEF Inv, RowsInv, FulfilledWasDeducted, ReportedBeforeFulfilled, PaymentReported,
      PaidIsNotPending, TypeOK, Fulfilled
<1> QED
  BY <1>8, <1>9, <1>10 DEF RowsInv

\* The admin's status machine.
LEMMA AdminInv ==
    ASSUME Inv, NEW h \in Handlers, UpdateOrderStatus(h)
    PROVE  SessionsInv' /\ RowsInv'
<1> USE DEF variantVars, orderVars, paymentVars
<1>1. ASSUME NEW o \in Orders, AdminLoad(h, o) PROVE SessionsInv' /\ RowsInv'
  <2>1. PICK target \in ALLOWED_TRANSITIONS[status[o]] :
            /\ PaymentGate(status[o], pay[o], target)
            /\ Begin(h, [kind |-> "admin", ord |-> o, status |-> status[o],
                         pay |-> pay[o], owned |-> owned[o], target |-> target])
    BY <1>1 DEF AdminLoad
  <2> DEFINE t == [kind |-> "admin", ord |-> o, status |-> status[o],
                   pay |-> pay[o], owned |-> owned[o], target |-> target]
  <2>2. tx' = [tx EXCEPT ![h] = t] /\ UNCHANGED rows
    BY <1>1, <2>1 DEF AdminLoad, Begin, rows
  <2>3. t.kind = "admin" /\ t.ord = o /\ t.status = status[o] /\ t.target = target
    OBVIOUS
  <2>4. target \in Fulfilled => deducts[o] >= 1 /\ PaymentReported(o)
    BY <2>1 DEF PaymentGate, Fulfilled, Inv, RowsInv, FulfilledWasDeducted,
       ReportedBeforeFulfilled
  <2>5. status[o] # "absent"
    BY <1>1 DEF AdminLoad
  <2>6. status[o] = "pending" => target = "cancelled"
    BY <2>1 DEF PaymentGate, Inv, RowsInv, PaidIsNotPending
  <2> HIDE DEF t
  <2> QED
    BY <2>1, <2>2, <2>3, <2>4, <2>5, <2>6, SessionStep
<1>2. CASE AdminFinish(h)
  <2> DEFINE o == tx[h].ord
  <2>1. tx[h] \in AdminTx /\ tx[h].kind = "admin"
    BY <1>2, TxKinds DEF AdminFinish, Inv, TypeOK
  <2>2. o \in Orders /\ tx[h].status \in OrderStatus
    BY <2>1 DEF AdminTx
  <2>3. /\ tx' = [tx EXCEPT ![h] = Idle]
        /\ status' = [status EXCEPT ![o] = tx[h].target]
        /\ UNCHANGED <<pay, gateway, events, deducts>>
    BY <1>2 DEF AdminFinish, End
  <2>4. /\ status[o] # "absent"
        /\ tx[h].target \in ALLOWED_TRANSITIONS[tx[h].status]
        /\ tx[h].target \in Fulfilled => deducts[o] >= 1 /\ PaymentReported(o)
    BY <2>1 DEF Inv, SessionsInv, LoadedOrderExists, AdminSessions
  <2>5. tx[h].target \notin {"absent", "pending"}
    BY <2>2, <2>4 DEF ALLOWED_TRANSITIONS, OrderStatus
  <2>6. \A p \in Orders : deducts'[p] \in Nat /\ deducts'[p] >= deducts[p]
    BY <2>3 DEF Inv, TypeOK
  <2>7. \A p \in Orders :
           \/ status'[p] = status[p]
           \/ status[p] # "absent" /\ status'[p] \notin {"absent", "pending"}
    BY <2>2, <2>3, <2>4, <2>5 DEF Inv, TypeOK
  <2>8. SessionsInv'
    BY <2>3, <2>6, <2>7, EndingKeeps
  <2>9. PaidEventsAreTrue'
    BY <2>3, <2>7 DEF Inv, RowsInv, PaidEventsAreTrue, TypeOK, PaymentEvent
  <2>10. FulfilledWasDeducted' /\ ReportedBeforeFulfilled' /\ PaidIsNotPending'
    BY <2>2, <2>3, <2>4, <2>5
    DEF Inv, RowsInv, FulfilledWasDeducted, ReportedBeforeFulfilled, PaymentReported,
        PaidIsNotPending, TypeOK
  <2> QED
    BY <2>8, <2>9, <2>10 DEF RowsInv
<1>3. CASE AdminLost(h) \/ AdminRaises(h) \/ AdminStale(h)
  BY <1>3, EndStep DEF AdminLost, AdminRaises, AdminStale, rows
<1> QED
  BY <1>1, <1>2, <1>3 DEF UpdateOrderStatus

\* The owner's cancel.
LEMMA CancelInv ==
    ASSUME Inv, NEW h \in Handlers, CancelOrder(h)
    PROVE  SessionsInv' /\ RowsInv'
<1> USE DEF variantVars, orderVars, paymentVars
<1>1. ASSUME NEW o \in Orders, CancelLoad(h, o) PROVE SessionsInv' /\ RowsInv'
  <2> DEFINE t == [kind |-> "cancel", phase |-> "read", ord |-> o,
                   status |-> status[o], pay |-> pay[o],
                   stock |-> stock, reserved |-> reserved]
  <2>1. tx' = [tx EXCEPT ![h] = t] /\ UNCHANGED rows
    BY <1>1 DEF CancelLoad, Begin, rows
  <2>2. t.kind = "cancel" /\ t.phase = "read" /\ t.ord = o /\ status[o] # "absent"
    BY <1>1 DEF CancelLoad
  <2> HIDE DEF t
  <2> QED
    BY <2>1, <2>2, SessionStep
<1>2. CASE CancelRaises(h)
  BY <1>2, EndStep DEF CancelRaises, rows
<1>3. CASE CancelRead(h)
  <2> DEFINE t == [tx[h] EXCEPT !.phase = "viewed", !.stock = stock, !.reserved = reserved]
  <2>1. tx' = [tx EXCEPT ![h] = t] /\ UNCHANGED rows
    BY <1>3 DEF CancelRead, rows
  <2>2. tx[h] \in CancelTx
    BY <1>3, TxKinds DEF CancelRead, Inv, TypeOK
  <2>3. t.kind = "cancel" /\ t.ord = tx[h].ord
    BY <2>2 DEF CancelTx
  <2>4. status[tx[h].ord] # "absent"
    BY <1>3 DEF CancelRead, Inv, SessionsInv, LoadedOrderExists
  <2>5. ItemsEager
    BY <1>3 DEF CancelRead
  <2> HIDE DEF t
  <2> QED
    BY <2>1, <2>3, <2>4, <2>5, SessionStep
<1>4. CASE CancelFinish(h)
  <2> DEFINE o == tx[h].ord
  <2>1. tx[h] \in CancelTx /\ tx[h].kind = "cancel"
    BY <1>4, TxKinds DEF CancelFinish, Inv, TypeOK
  <2>2. o \in Orders /\ status[o] # "absent"
    BY <2>1 DEF CancelTx, Inv, SessionsInv, LoadedOrderExists
  <2>3. /\ tx' = [tx EXCEPT ![h] = Idle]
        /\ status' = [status EXCEPT ![o] = "cancelled"]
        /\ UNCHANGED <<gateway, events, deducts>>
    BY <1>4 DEF CancelFinish, End
  <2>4. \A p \in Orders : pay'[p] \in {pay[p], "refunded"}
    BY <1>4, <2>2 DEF CancelFinish, Inv, TypeOK
  <2>5. \A p \in Orders : deducts'[p] \in Nat /\ deducts'[p] >= deducts[p]
    BY <2>3 DEF Inv, TypeOK
  <2>6. \A p \in Orders :
           \/ status'[p] = status[p]
           \/ status[p] # "absent" /\ status'[p] \notin {"absent", "pending"}
    BY <2>2, <2>3 DEF Inv, TypeOK
  <2>7. SessionsInv'
    BY <2>3, <2>5, <2>6, EndingKeeps
  <2>8. PaidEventsAreTrue'
    BY <2>3, <2>6 DEF Inv, RowsInv, PaidEventsAreTrue, TypeOK, PaymentEvent
  <2>9. FulfilledWasDeducted' /\ ReportedBeforeFulfilled' /\ PaidIsNotPending'
    BY <2>2, <2>3, <2>4
    DEF Inv, RowsInv, FulfilledWasDeducted, ReportedBeforeFulfilled, PaymentReported,
        PaidIsNotPending, TypeOK, Fulfilled
  <2> QED
    BY <2>7, <2>8, <2>9 DEF RowsInv
<1> QED
  BY <1>1, <1>2, <1>3, <1>4 DEF CancelOrder

\* Steps of the administration, and stuttering, touch neither orders' payment
\* and status nor sessions.
LEMMA UntouchedInv ==
    ASSUME Inv, UNCHANGED rows, UNCHANGED tx
    PROVE  SessionsInv' /\ RowsInv'
<1>1. SessionsInv'
  BY DEF rows, Inv, SessionsInv, CheckoutOwnsItsOrder, LoadedOrderExists, CancelSessions,
     PaidSessions, AdminSessions, PaymentReported
<1> QED
  BY <1>1, RowsUnchanged DEF Inv

LEMMA AdministrationInv ==
    ASSUME Inv, Administration
    PROVE  SessionsInv' /\ RowsInv'
<1>1. UNCHANGED rows /\ UNCHANGED tx
  BY DEF Administration, DeleteVariant, UpdateVariant, DeletePromotion, UpdatePromotion,
     UnassignUser, rows, variantVars, orderVars, paymentVars
<1> QED
  BY <1>1, UntouchedInv

LEMMA NextInv ==
    ASSUME Inv, [Next]_vars
    PROVE  Inv'
<1>1. TypeOK'
  BY NextTypes DEF Inv
<1>2. ASSUME NEW h \in Handlers, Callback(h) PROVE SessionsInv' /\ RowsInv'
  BY <1>2, DeliverInv, SettlementInv, FailureInv DEF Callback
<1>3. ASSUME NEW h \in Handlers, Crash(h) PROVE SessionsInv' /\ RowsInv'
  BY <1>3, EndStep DEF Crash, rows, variantVars, orderVars, paymentVars
<1>4. CASE UNCHANGED vars
  <2>1. UNCHANGED rows /\ UNCHANGED tx
    BY <1>4 DEF vars, rows, variantVars, orderVars, paymentVars
  <2> QED
    BY <1>1, <2>1, UntouchedInv DEF Inv
<1>5. ASSUME NEW h \in Handlers,
             Checkout(h) \/ Callback(h) \/ UpdateOrderStatus(h) \/ CancelOrder(h) \/ Crash(h)
      PROVE  Inv'
  BY <1>1, <1>2, <1>3, <1>5, CheckoutInv, AdminInv, CancelInv DEF Inv
<1>6. CASE Payment \/ Administration
  BY <1>1, <1>6, PaymentInv, AdministrationInv DEF Inv
<1> QED
  BY <1>4, <1>5, <1>6 DEF Next

LEMMA Invariance == Spec => []Inv
<1>1. Inv /\ [Next]_vars => Inv'
  BY NextInv
<1> QED
  BY <1>1, InitInv, PTL DEF Spec

-----------------------------------------------------------------------------
(* The safety theorems *)

\* An order is confirmed, shipped, delivered or marked paid only if its stock
\* was deducted, however webhooks, admins, the owner and crashes interleave.
THEOREM DeductedBeforeFulfilled == Spec => []FulfilledWasDeducted
<1>1. Inv => FulfilledWasDeducted
  BY DEF Inv, RowsInv
<1> QED
  BY <1>1, Invariance, PTL

\* Goods leave the sellable stock only for an order that Stripe reported paid, of
\* a session that was completed, or whose payment the Swish callback was told of.
THEOREM PaidBeforeFulfilled == Spec => []FulfilledWasPaid
<1>1. Inv => FulfilledWasPaid
  <2> SUFFICES ASSUME Inv, NEW o \in Orders, status[o] \in Fulfilled
               PROVE  StripePaid(o) \/ SwishPaid(o)
    BY DEF FulfilledWasPaid
  <2>1. PICK e \in events : e.ord = o /\ e.type \in PaidEvents
    BY DEF Inv, RowsInv, ReportedBeforeFulfilled, PaymentReported
  <2>2. e = [type |-> e.type, ord |-> o]
    BY <2>1 DEF Inv, TypeOK, PaymentEvent
  <2>3. CASE e.type = "completed"
    BY <2>1, <2>2, <2>3 DEF Inv, RowsInv, PaidEventsAreTrue, PaidEvents, StripePaid
  <2>4. CASE e.type = "swish_paid"
    BY <2>2, <2>4 DEF SwishPaid
  <2> QED
    BY <2>1, <2>3, <2>4 DEF PaidEvents
<1> QED
  BY <1>1, Invariance, PTL

\* A paid order is never left pending.
THEOREM PaidLeavesPending == Spec => []PaidIsNotPending
<1>1. Inv => PaidIsNotPending
  BY DEF Inv, RowsInv
<1> QED
  BY <1>1, Invariance, PTL

-----------------------------------------------------------------------------
(* The step theorems *)

\* The steps that write orders.status.
LEMMA StatusWriters ==
    ASSUME [Next]_vars
    PROVE  \/ UNCHANGED status
           \/ \E h \in Handlers :
                 \/ CheckoutFinish(h) \/ PaidConfirms(h) \/ RefundedFinish(h)
                 \/ AdminFinish(h) \/ CancelFinish(h)
<1> USE DEF variantVars, orderVars, paymentVars
<1>1. ASSUME NEW h \in Handlers, Checkout(h), ~ CheckoutFinish(h) PROVE UNCHANGED status
  BY <1>1 DEF Checkout, CheckoutLoad, CheckoutRefused, CheckoutLost
<1>2. ASSUME NEW h \in Handlers, Callback(h), ~ PaidConfirms(h), ~ RefundedFinish(h)
      PROVE  UNCHANGED status
  BY <1>2 DEF Callback, Deliver, PaidAlready, PaidLoad, FailedAlready, FailedLoad,
     RefundedSkipped, RefundedLoad, PaidCheck, PaidShort, PaidLost, FailedFinish
<1>3. ASSUME NEW h \in Handlers, UpdateOrderStatus(h), ~ AdminFinish(h)
      PROVE  UNCHANGED status
  BY <1>3 DEF UpdateOrderStatus, AdminLoad, AdminLost, AdminRaises, AdminStale
<1>4. ASSUME NEW h \in Handlers, CancelOrder(h), ~ CancelFinish(h) PROVE UNCHANGED status
  BY <1>4 DEF CancelOrder, CancelLoad, CancelRaises, CancelRead
<1>5. ASSUME NEW h \in Handlers, Crash(h) PROVE UNCHANGED status
  BY <1>5 DEF Crash
<1>6. CASE Payment
  BY <1>6 DEF Payment, CustomerPays, SessionExpires, MerchantRefunds, SwishAnswers
<1>7. CASE Administration
  BY <1>7 DEF Administration, DeleteVariant, UpdateVariant, DeletePromotion,
     UpdatePromotion, UnassignUser
<1>8. CASE UNCHANGED vars
  BY <1>8 DEF vars
<1> QED
  BY <1>1, <1>2, <1>3, <1>4, <1>5, <1>6, <1>7, <1>8 DEF Next

\* Whoever writes the status, an order is shipped only from confirmed and
\* delivered only from shipped, and none returns to pending.
THEOREM ShippingOrder == Spec => ShippedFromConfirmed
<1> DEFINE Step ==
      \A o \in Orders :
         status'[o] # status[o] =>
            /\ status'[o] = "shipped" => status[o] = "confirmed"
            /\ status'[o] = "delivered" => status[o] = "shipped"
            /\ status'[o] = "pending" => status[o] = "absent"
<1>1. Inv /\ [Next]_vars => [Step]_vars
  <2> SUFFICES ASSUME Inv, [Next]_vars PROVE Step
    OBVIOUS
  <2>1. ASSUME NEW h \in Handlers, CheckoutFinish(h) PROVE Step
    <3>1. status[tx[h].ord] = "absent"
      BY <2>1 DEF CheckoutFinish, Inv, SessionsInv, CheckoutOwnsItsOrder
    <3> QED
      BY <2>1, <3>1 DEF CheckoutFinish, Inv, TypeOK
  <2>2. ASSUME NEW h \in Handlers, PaidConfirms(h) PROVE Step
    BY <2>2 DEF PaidConfirms, ConfirmStatus, Inv, TypeOK
  <2>3. ASSUME NEW h \in Handlers, RefundedFinish(h) PROVE Step
    BY <2>3 DEF RefundedFinish, Inv, TypeOK
  <2>4. ASSUME NEW h \in Handlers, AdminFinish(h) PROVE Step
    <3>1. /\ tx[h].status \in OrderStatus
          /\ tx[h].target \in ALLOWED_TRANSITIONS[tx[h].status]
          /\ status[tx[h].ord] = tx[h].status
      BY <2>4, TxKinds DEF AdminFinish, Matched, AdminTx, Inv, TypeOK, SessionsInv,
         AdminSessions
    <3>2. /\ tx[h].target # "pending"
          /\ tx[h].target = "shipped" => tx[h].status = "confirmed"
          /\ tx[h].target = "delivered" => tx[h].status = "shipped"
      BY <3>1 DEF ALLOWED_TRANSITIONS, OrderStatus
    <3> QED
      BY <2>4, <3>1, <3>2 DEF AdminFinish, Inv, TypeOK
  <2>5. ASSUME NEW h \in Handlers, CancelFinish(h) PROVE Step
    BY <2>5 DEF CancelFinish, Inv, TypeOK
  <2> QED
    BY <2>1, <2>2, <2>3, <2>4, <2>5, StatusWriters
<1> QED
  BY <1>1, Invariance, PTL DEF Spec, ShippedFromConfirmed

-----------------------------------------------------------------------------
(* The order core implements Fulfilment: every request, however its load, its *)
(* writes and its failure interleave with others, amounts to one of the       *)
(* abstract steps or to none                                                  *)

\* What the abstract specification sees.
seen == <<stock, status, items, deducts>>

AbstractStep == [Abstract!Next]_(Abstract!vars)

-----------------------------------------------------------------------------
(* Reports of payments *)

LEMMA ReportAdds ==
    ASSUME NEW o, NEW type \in PaidEvents, Send(type, o)
    PROVE  PaidOrders' = PaidOrders \cup {o}
<1>1. events' = events \cup {[type |-> type, ord |-> o]}
  BY DEF Send
<1>2. ASSUME NEW p \in PaidOrders' PROVE p \in PaidOrders \cup {o}
  BY <1>1, <1>2 DEF PaidOrders
<1>3. ASSUME NEW p \in PaidOrders PROVE p \in PaidOrders'
  BY <1>1, <1>3 DEF PaidOrders
<1>4. o \in PaidOrders'
  <2> DEFINE e == [type |-> type, ord |-> o]
  <2>1. e \in events' /\ e.type \in PaidEvents /\ e.ord = o
    BY <1>1
  <2> QED
    BY <2>1 DEF PaidOrders
<1> QED
  BY <1>2, <1>3, <1>4

LEMMA OtherEventsAddNothing ==
    ASSUME NEW o, NEW type, type \notin PaidEvents, Send(type, o)
    PROVE  PaidOrders' = PaidOrders
BY DEF Send, PaidOrders

LEMMA Stutter ==
    ASSUME UNCHANGED seen, PaidOrders' = PaidOrders
    PROVE  AbstractStep
BY DEF AbstractStep, seen, Abstract!vars

LEMMA RefundIsNoReport ==
    ASSUME NEW e \in PaymentEvent, AutoRefund(e)
    PROVE  PaidOrders' = PaidOrders
<1>1. CASE UNCHANGED events
  BY <1>1 DEF PaidOrders
<1>2. CASE Send("refunded", e.ord)
  BY <1>2, OtherEventsAddNothing DEF PaidEvents
<1> QED
  BY <1>1, <1>2 DEF AutoRefund

-----------------------------------------------------------------------------
(* Every action is an abstract step *)

LEMMA CheckoutSimulates ==
    ASSUME Inv, NEW h \in Handlers, Checkout(h)
    PROVE  AbstractStep
<1> USE DEF variantVars, orderVars, paymentVars
<1>1. CASE CheckoutFinish(h)
  <2>1. tx[h].ord \in Orders /\ tx[h].cart \in Carts
    BY <1>1, TxKinds DEF CheckoutFinish, CheckoutTx, Inv, TypeOK
  <2>2. status[tx[h].ord] = "absent"
    BY <1>1 DEF CheckoutFinish, Inv, SessionsInv, CheckoutOwnsItsOrder
  <2>3. PaidOrders' = PaidOrders
    BY <1>1 DEF CheckoutFinish, PaidOrders
  <2>4. Abstract!Place(tx[h].ord)
    BY <1>1, <2>1, <2>2, <2>3 DEF CheckoutFinish, Abstract!Place
  <2> QED
    BY <2>1, <2>4 DEF AbstractStep, Abstract!Next
<1>2. CASE (\E o \in Orders : CheckoutLoad(h, o)) \/ CheckoutRefused(h) \/ CheckoutLost(h)
  BY <1>2, Stutter
  DEF CheckoutLoad, CheckoutRefused, CheckoutLost, seen, PaidOrders
<1> QED
  BY <1>1, <1>2 DEF Checkout

LEMMA PaymentSimulates ==
    ASSUME Inv, Payment
    PROVE  AbstractStep
<1> USE DEF variantVars, orderVars, paymentVars
<1>1. ASSUME NEW o \in Orders, NEW type \in PaidEvents, Send(type, o),
             status[o] # "absent", UNCHANGED seen
      PROVE  AbstractStep
  <2>1. Abstract!Report(o)
    BY <1>1, ReportAdds DEF Abstract!Report, seen
  <2> QED
    BY <2>1 DEF AbstractStep, Abstract!Next
<1>2. ASSUME NEW o \in Orders, CustomerPays(o) PROVE AbstractStep
  BY <1>1, <1>2 DEF CustomerPays, PaidEvents, seen
<1>3. ASSUME NEW o \in Orders, SessionExpires(o) \/ MerchantRefunds(o) PROVE AbstractStep
  BY <1>3, OtherEventsAddNothing, Stutter
  DEF SessionExpires, MerchantRefunds, PaidEvents, seen
<1>4. ASSUME NEW o \in Orders, SwishAnswers(o, "swish_paid") PROVE AbstractStep
  BY <1>1, <1>4 DEF SwishAnswers, PaidEvents, seen
<1>5. ASSUME NEW o \in Orders, SwishAnswers(o, "swish_declined") PROVE AbstractStep
  BY <1>5, OtherEventsAddNothing, Stutter DEF SwishAnswers, PaidEvents, seen
<1> QED
  BY <1>2, <1>3, <1>4, <1>5, AnswersAssumption DEF AnswersAssumption, Payment

\* The settlement: its session stems from a report, and the conditional
\* updates judge the present stock, not the one that was pre-validated.
LEMMA SettlementSimulates ==
    ASSUME Inv, NEW h \in Handlers, PaidConfirms(h)
    PROVE  AbstractStep
<1> DEFINE o == tx[h].ord
<1>1. tx[h] \in PaidTx /\ o \in Orders
  BY TxKinds DEF PaidConfirms, PaidTx, Inv, TypeOK
<1>2. o \in PaidOrders
  BY DEF PaidConfirms, Inv, SessionsInv, PaidSessions, PaidOrders
<1>3. \A v \in Variants : items[o][v] <= stock[v]
  BY <1>1 DEF PaidConfirms, Settled, Deductible, InStock, Inv, TypeOK
<1>4. \/ status' = [status EXCEPT ![o] = "confirmed"]
      \/ status[o] \in Fulfilled \cup {"cancelled"} /\ UNCHANGED status
  <2>1. CASE tx[h].status = "confirmed"
    <3>1. status[o] \notin {"absent", "pending"}
      BY <2>1 DEF PaidConfirms, Inv, SessionsInv, PaidSessions, LoadedOrderExists
    <3>2. status[o] \in Fulfilled \cup {"cancelled"}
      BY <1>1, <3>1 DEF Inv, TypeOK, OrderStatus, Fulfilled
    <3>3. UNCHANGED status
      BY <1>1, <2>1 DEF PaidConfirms, ConfirmStatus, Inv, TypeOK
    <3> QED
      BY <3>2, <3>3
  <2>2. CASE tx[h].status # "confirmed"
    BY <2>2 DEF PaidConfirms, ConfirmStatus
  <2> QED
    BY <2>1, <2>2
<1>5. PaidOrders' = PaidOrders
  BY DEF PaidConfirms, PaidOrders
<1>6. Abstract!Settle(o)
  BY <1>2, <1>3, <1>4, <1>5
  DEF PaidConfirms, DeductStock, Abstract!Settle, Abstract!Fulfilled, Fulfilled
<1> QED
  BY <1>1, <1>6 DEF AbstractStep, Abstract!Next

LEMMA CallbackSimulates ==
    ASSUME Inv, NEW h \in Handlers, Callback(h)
    PROVE  AbstractStep
<1> USE DEF variantVars, orderVars, paymentVars
<1>1. ASSUME NEW e \in events, Deliver(h, e) PROVE AbstractStep
  BY <1>1, Stutter
  DEF Deliver, PaidAlready, PaidLoad, FailedAlready, FailedLoad, RefundedSkipped,
      RefundedLoad, seen, PaidOrders
<1>2. CASE PaidCheck(h) \/ FailedFinish(h)
  BY <1>2, Stutter DEF PaidCheck, FailedFinish, seen, PaidOrders
<1>3. CASE PaidShort(h) \/ PaidLost(h)
  <2>1. tx[h].event \in PaymentEvent
    BY <1>3, TxKinds DEF PaidShort, PaidLost, PaidTx, Inv, TypeOK
  <2>2. PaidOrders' = PaidOrders
    BY <1>3, <2>1, RefundIsNoReport DEF PaidShort, PaidLost, PaidOrders
  <2> QED
    BY <1>3, <2>2, Stutter DEF PaidShort, PaidLost, seen
<1>4. CASE RefundedFinish(h)
  <2> DEFINE o == tx[h].ord
  <2>1. tx[h] \in RefundedTx /\ o \in Orders
    BY <1>4, TxKinds DEF RefundedFinish, RefundedTx, Inv, TypeOK
  <2>2. status[o] # "absent"
    BY <1>4 DEF RefundedFinish, Inv, SessionsInv, LoadedOrderExists
  <2>3. PaidOrders' = PaidOrders
    BY <1>4 DEF RefundedFinish, PaidOrders
  <2>4. CASE tx[h].status = "cancelled"
    <3>1. UNCHANGED status
      BY <1>4, <2>1, <2>4 DEF RefundedFinish, Inv, TypeOK
    <3> QED
      BY <1>4, <2>3, <3>1, Stutter DEF RefundedFinish, seen
  <2>5. CASE tx[h].status # "cancelled"
    <3>1. Abstract!Cancel(o)
      BY <1>4, <2>2, <2>3, <2>5 DEF RefundedFinish, Abstract!Cancel
    <3> QED
      BY <2>1, <3>1 DEF AbstractStep, Abstract!Next
  <2> QED
    BY <2>4, <2>5
<1> QED
  BY <1>1, <1>2, <1>3, <1>4, SettlementSimulates DEF Callback

\* The admin's update matches the status it was judged on, and from pending it
\* can only cancel.
LEMMA AdminSimulates ==
    ASSUME Inv, NEW h \in Handlers, UpdateOrderStatus(h)
    PROVE  AbstractStep
<1> USE DEF variantVars, orderVars, paymentVars
<1>1. CASE AdminFinish(h)
  <2> DEFINE o == tx[h].ord
  <2>1. tx[h] \in AdminTx /\ o \in Orders
    BY <1>1, TxKinds DEF AdminFinish, AdminTx, Inv, TypeOK
  <2>2. /\ status[o] = tx[h].status
        /\ status' = [status EXCEPT ![o] = tx[h].target]
        /\ UNCHANGED <<stock, items, deducts>>
        /\ PaidOrders' = PaidOrders
    BY <1>1 DEF AdminFinish, Matched, PaidOrders
  <2>3. /\ tx[h].target \in ALLOWED_TRANSITIONS[tx[h].status]
        /\ tx[h].status = "pending" => tx[h].target = "cancelled"
    BY <1>1 DEF AdminFinish, Inv, SessionsInv, AdminSessions
  <2>4. \/ tx[h].target = "cancelled"
        \/ tx[h].status = "confirmed" /\ tx[h].target = "shipped"
        \/ tx[h].status = "shipped" /\ tx[h].target = "delivered"
    BY <2>1, <2>3 DEF ALLOWED_TRANSITIONS, AdminTx, OrderStatus
  <2>5. status[o] # "absent"
    BY <2>1, <2>2 DEF AdminTx, OrderStatus
  <2>6. Abstract!Cancel(o) \/ Abstract!Ship(o) \/ Abstract!Deliver(o)
    BY <2>2, <2>4, <2>5 DEF Abstract!Cancel, Abstract!Ship, Abstract!Deliver
  <2> QED
    BY <2>1, <2>6 DEF AbstractStep, Abstract!Next
<1>2. CASE \/ \E o \in Orders : AdminLoad(h, o)
           \/ AdminLost(h) \/ AdminRaises(h) \/ AdminStale(h)
  BY <1>2, Stutter
  DEF AdminLoad, AdminLost, AdminRaises, AdminStale, seen, PaidOrders
<1> QED
  BY <1>1, <1>2 DEF UpdateOrderStatus

\* The owner's cancel never gets past the items it cannot read.
LEMMA CancelSimulates ==
    ASSUME Inv, ~ ItemsEager, NEW h \in Handlers, CancelOrder(h)
    PROVE  AbstractStep
<1> USE DEF variantVars, orderVars, paymentVars
<1>1. ~ CancelFinish(h)
  BY DEF CancelFinish, Inv, SessionsInv, CancelSessions
<1> QED
  BY <1>1, Stutter DEF CancelOrder, CancelLoad, CancelRaises, CancelRead, seen, PaidOrders

LEMMA AdministrationSimulates ==
    ASSUME Inv, Administration
    PROVE  AbstractStep
<1> USE DEF variantVars, orderVars, paymentVars
<1>1. ASSUME NEW v \in Variants, NEW n \in Stocks, UpdateVariant(v, n) PROVE AbstractStep
  <2>1. PaidOrders' = PaidOrders
    BY <1>1 DEF UpdateVariant, PaidOrders
  <2>2. Abstract!Restock(v)
    BY <1>1, <2>1 DEF UpdateVariant, Abstract!Restock
  <2> QED
    BY <2>2 DEF AbstractStep, Abstract!Next
<1>2. ASSUME NEW v \in Variants, DeleteVariant(v) PROVE AbstractStep
  BY <1>2, Stutter DEF DeleteVariant, seen, PaidOrders
<1>3. CASE DeletePromotion \/ \E c \in Caps : UpdatePromotion(c)
  BY <1>3, Stutter DEF DeletePromotion, UpdatePromotion, seen, PaidOrders
<1>4. CASE \E S \in SUBSET Orders : UnassignUser(S)
  BY <1>4, Stutter DEF UnassignUser, seen, PaidOrders
<1> QED
  BY <1>1, <1>2, <1>3, <1>4 DEF Administration

-----------------------------------------------------------------------------
(* The refinement *)

\* With the cancel as the code has it (its items cannot be read), the order
\* core implements Fulfilment: an order is settled only after a report and out
\* of stock that is there, in one step, and shipped and delivered in order,
\* whatever sessions, redeliveries and failures lie underneath.
THEOREM Implementation ==
    ASSUME ~ ItemsEager
    PROVE  Spec => ImplementsFulfilment
<1>1. Init => Abstract!Init
  BY DEF Init, Abstract!Init, PaidOrders
<1>2. Inv /\ [Next]_vars => [Abstract!Next]_(Abstract!vars)
  <2> SUFFICES ASSUME Inv, [Next]_vars PROVE AbstractStep
    BY DEF AbstractStep
  <2>1. ASSUME NEW h \in Handlers, Crash(h) PROVE AbstractStep
    BY <2>1, Stutter DEF Crash, seen, PaidOrders, variantVars, orderVars, paymentVars
  <2>2. CASE UNCHANGED vars
    BY <2>2, Stutter DEF vars, seen, PaidOrders, variantVars, orderVars, paymentVars
  <2> QED
    BY <2>1, <2>2, CheckoutSimulates, CallbackSimulates, AdminSimulates,
       CancelSimulates, PaymentSimulates, AdministrationSimulates DEF Next
<1> QED
  BY <1>1, <1>2, Invariance, PTL DEF Spec, ImplementsFulfilment, Abstract!Spec

-----------------------------------------------------------------------------
(* The ledgers: what settlements took adds up *)

\* A row that is not there yet was not settled: a checkout, which writes the
\* items and codes of such a row, cannot rewrite what was taken.
AbsentIsUnsettled == \A o \in Orders : status[o] = "absent" => deducts[o] = 0

\* The steps that write a column of a ledger.
LEMMA LedgerWriters ==
    ASSUME TypeOK, [Next]_vars
    PROVE  \/ \E h \in Handlers : CheckoutFinish(h) \/ PaidConfirms(h) \/ CancelFinish(h)
           \/ \E v \in Variants, n \in Stocks : UpdateVariant(v, n)
           \/ /\ UNCHANGED <<stock, received, items, codes, deducts>>
              /\ promo'.uses = promo.uses
<1> DEFINE Kept == /\ UNCHANGED <<stock, received, items, codes, deducts>>
                   /\ promo'.uses = promo.uses
<1> USE DEF variantVars, orderVars, paymentVars
<1>1. ASSUME NEW h \in Handlers, Checkout(h), ~ CheckoutFinish(h) PROVE Kept
  BY <1>1 DEF Checkout, CheckoutLoad, CheckoutRefused, CheckoutLost
<1>2. ASSUME NEW h \in Handlers, Callback(h), ~ PaidConfirms(h) PROVE Kept
  BY <1>2 DEF Callback, Deliver, PaidAlready, PaidLoad, FailedAlready, FailedLoad,
     RefundedSkipped, RefundedLoad, PaidCheck, PaidShort, PaidLost, FailedFinish,
     RefundedFinish
<1>3. ASSUME NEW h \in Handlers, UpdateOrderStatus(h) PROVE Kept
  BY <1>3 DEF UpdateOrderStatus, AdminLoad, AdminFinish, AdminLost, AdminRaises, AdminStale
<1>4. ASSUME NEW h \in Handlers, CancelOrder(h), ~ CancelFinish(h) PROVE Kept
  BY <1>4 DEF CancelOrder, CancelLoad, CancelRaises, CancelRead
<1>5. ASSUME NEW h \in Handlers, Crash(h) PROVE Kept
  BY <1>5 DEF Crash
<1>6. CASE Payment
  BY <1>6 DEF Payment, CustomerPays, SessionExpires, MerchantRefunds, SwishAnswers
<1>7. ASSUME NEW v \in Variants, DeleteVariant(v) PROVE Kept
  BY <1>7 DEF DeleteVariant
<1>8. CASE DeletePromotion \/ \E c \in Caps : UpdatePromotion(c)
  BY <1>8 DEF DeletePromotion, UpdatePromotion, TypeOK
<1>9. CASE \E S \in SUBSET Orders : UnassignUser(S)
  BY <1>9 DEF UnassignUser
<1>10. CASE UNCHANGED vars
  BY <1>10 DEF vars
<1> QED
  BY <1>1, <1>2, <1>3, <1>4, <1>5, <1>6, <1>7, <1>8, <1>9, <1>10 DEF Next, Administration

\* Settling order o adds one settlement of it to both ledgers.
LEMMA SettlementAdds ==
    ASSUME TypeOK, TypeOK', NEW o \in Orders,
           deducts' = [deducts EXCEPT ![o] = @ + 1], UNCHANGED <<items, codes>>
    PROVE  /\ \A v \in Variants :
                 SumFunction([p \in Orders |-> deducts'[p] * items'[p][v]]) =
                    SumFunction([p \in Orders |-> deducts[p] * items[p][v]]) + items[o][v]
           /\ SumFunction([p \in Orders |-> deducts'[p] * codes'[p]]) =
                 SumFunction([p \in Orders |-> deducts[p] * codes[p]]) + codes[o]
<1>1. OneMoreOf(o, Orders, deducts', deducts)
  BY DEF OneMoreOf, TypeOK
<1>2. ASSUME NEW v \in Variants
      PROVE  SumFunction([p \in Orders |-> deducts'[p] * items'[p][v]]) =
                SumFunction([p \in Orders |-> deducts[p] * items[p][v]]) + items[o][v]
  <2> DEFINE w == [p \in Orders |-> items[p][v]]
             f == [p \in Orders |-> deducts[p] * items[p][v]]
             g == [p \in Orders |-> deducts'[p] * items'[p][v]]
  <2>1. Weighs(f, Orders, deducts, w) /\ Weighs(g, Orders, deducts', w)
    BY DEF Weighs, TypeOK
  <2>2. SumFunction(g) = SumFunction(f) + w[o]
    <3> HIDE DEF w, f, g
    <3> QED
      BY <1>1, <2>1, OrdersAssumption, SumOneMore DEF OrdersAssumption
  <2> QED
    BY <2>2
<1>3. SumFunction([p \in Orders |-> deducts'[p] * codes'[p]]) =
         SumFunction([p \in Orders |-> deducts[p] * codes[p]]) + codes[o]
  <2> DEFINE f == [p \in Orders |-> deducts[p] * codes[p]]
             g == [p \in Orders |-> deducts'[p] * codes'[p]]
  <2>1. Weighs(f, Orders, deducts, codes) /\ Weighs(g, Orders, deducts', codes)
    BY DEF Weighs, TypeOK
  <2>2. SumFunction(g) = SumFunction(f) + codes[o]
    <3> HIDE DEF f, g
    <3> QED
      BY <1>1, <2>1, OrdersAssumption, SumOneMore DEF OrdersAssumption
  <2> QED
    BY <2>2
<1> QED
  BY <1>2, <1>3

\* A checkout writes the row of an order that was not settled.
LEMMA CheckoutAddsNothing ==
    ASSUME Inv, AbsentIsUnsettled, NEW h \in Handlers, CheckoutFinish(h)
    PROVE  /\ \A v \in Variants :
                 [p \in Orders |-> deducts'[p] * items'[p][v]] =
                    [p \in Orders |-> deducts[p] * items[p][v]]
           /\ [p \in Orders |-> deducts'[p] * codes'[p]] =
                 [p \in Orders |-> deducts[p] * codes[p]]
<1> DEFINE o == tx[h].ord
<1>1. tx[h] \in CheckoutTx /\ o \in Orders
  BY TxKinds DEF CheckoutFinish, CheckoutTx, Inv, TypeOK
<1>2. deducts[o] = 0 /\ UNCHANGED deducts
  BY <1>1 DEF CheckoutFinish, Inv, SessionsInv, CheckoutOwnsItsOrder, AbsentIsUnsettled
<1>3. \A p \in Orders : p # o => items'[p] = items[p] /\ codes'[p] = codes[p]
  BY DEF CheckoutFinish, Inv, TypeOK
<1>4. ASSUME NEW v \in Variants
      PROVE  items[o][v] \in Nat /\ items'[o][v] \in Nat
  <2>1. Inv'
    BY NextInv DEF Next, Checkout
  <2> QED
    BY <1>1, <2>1 DEF Inv, TypeOK
<1>5. codes[o] \in Nat /\ codes'[o] \in Nat
  BY <1>1 DEF CheckoutFinish, CheckoutTx, Inv, TypeOK
<1>6. \A n \in Nat : 0 * n = 0
  OBVIOUS
<1>7. ASSUME NEW v \in Variants, NEW p \in Orders
      PROVE  deducts'[p] * items'[p][v] = deducts[p] * items[p][v]
  BY <1>2, <1>3, <1>4, <1>6
<1>8. ASSUME NEW p \in Orders
      PROVE  deducts'[p] * codes'[p] = deducts[p] * codes[p]
  BY <1>2, <1>3, <1>5, <1>6
<1> QED
  BY <1>7, <1>8

LEMMA AbsentInv ==
    ASSUME Inv, AbsentIsUnsettled, [Next]_vars
    PROVE  AbsentIsUnsettled'
<1>1. Inv'
  BY NextInv
<1>2. ASSUME NEW h \in Handlers, PaidConfirms(h) PROVE AbsentIsUnsettled'
  <2>1. tx[h] \in PaidTx /\ tx[h].ord \in Orders
    BY <1>2, TxKinds DEF PaidConfirms, PaidTx, Inv, TypeOK
  <2>2. status[tx[h].ord] # "absent"
    BY <1>2 DEF PaidConfirms, Inv, SessionsInv, LoadedOrderExists
  <2> QED
    BY <1>2, <2>1, <2>2
    DEF PaidConfirms, ConfirmStatus, DeductStock, AbsentIsUnsettled, Inv, TypeOK
<1>3. ASSUME NEW h \in Handlers, CheckoutFinish(h) PROVE AbsentIsUnsettled'
  BY <1>3 DEF CheckoutFinish, AbsentIsUnsettled, Inv, TypeOK
<1>4. ASSUME NEW h \in Handlers, CancelFinish(h) PROVE AbsentIsUnsettled'
  BY <1>4 DEF CancelFinish, AbsentIsUnsettled, Inv, TypeOK
<1>5. ASSUME NEW h \in Handlers, AdminFinish(h) PROVE AbsentIsUnsettled'
  <2>1. tx[h] \in AdminTx
    BY <1>5, TxKinds DEF AdminFinish, Inv, TypeOK
  <2>2. tx[h].target # "absent"
    BY <2>1 DEF AdminTx, OrderStatus
  <2> QED
    BY <1>5, <2>2
    DEF AdminFinish, AbsentIsUnsettled, Inv, TypeOK
<1>6. ASSUME NEW h \in Handlers, RefundedFinish(h) PROVE AbsentIsUnsettled'
  BY <1>6 DEF RefundedFinish, AbsentIsUnsettled, Inv, TypeOK
<1>7. CASE UNCHANGED <<status, deducts>>
  BY <1>7 DEF AbsentIsUnsettled
<1>8. \/ UNCHANGED deducts
      \/ \E h \in Handlers : CheckoutFinish(h) \/ PaidConfirms(h) \/ CancelFinish(h)
  BY LedgerWriters DEF Inv, UpdateVariant, orderVars
<1> QED
  BY <1>2, <1>3, <1>4, <1>5, <1>6, <1>7, <1>8, StatusWriters

LEMMA EmptyLedgers ==
    ASSUME Init
    PROVE  AbsentIsUnsettled /\ UsesLedger /\ StockLedger
<1>1. AbsentIsUnsettled
  BY DEF Init, AbsentIsUnsettled
<1>2. ASSUME NEW w, \A o \in Orders : w[o] \in Nat
      PROVE  SumFunction([o \in Orders |-> deducts[o] * w[o]]) = 0
  <2> DEFINE f == [o \in Orders |-> deducts[o] * w[o]]
             zero == [o \in Orders |-> 0]
  <2>1. f = zero
    BY <1>2 DEF Init
  <2>2. SumFunctionOnSet(zero, Orders) = 0
    BY OrdersAssumption, SumOfZeros DEF OrdersAssumption
  <2> QED
    BY <2>1, <2>2 DEF SumFunction
<1>3. UsesLedger
  <2>1. \A o \in Orders : codes[o] \in Nat
    BY DEF Init
  <2> QED
    BY <1>2, <2>1 DEF Init, UsesLedger
<1>4. StockLedger
  <2> SUFFICES ASSUME NEW v \in Variants
               PROVE  stock[v] = received[v] -
                        SumFunction([o \in Orders |-> deducts[o] * items[o][v]])
    BY DEF StockLedger
  <2> DEFINE w == [o \in Orders |-> items[o][v]]
  <2>1. \A o \in Orders : w[o] \in Nat
    BY DEF Init
  <2>2. [o \in Orders |-> deducts[o] * items[o][v]] = [o \in Orders |-> deducts[o] * w[o]]
    OBVIOUS
  <2>3. SumFunction([o \in Orders |-> deducts[o] * items[o][v]]) = 0
    BY <1>2, <2>1, <2>2
  <2>4. stock[v] \in Nat /\ received[v] = stock[v]
    BY InitTypes DEF Init, TypeOK
  <2> QED
    BY <2>3, <2>4
<1> QED
  BY <1>1, <1>3, <1>4

LEMMA UsesLedgerInv ==
    ASSUME Inv, AbsentIsUnsettled, UsesLedger, [Next]_vars
    PROVE  UsesLedger'
<1>1. Inv'
  BY NextInv
<1>2. ASSUME NEW h \in Handlers, PaidConfirms(h) PROVE UsesLedger'
  <2> DEFINE o == tx[h].ord
  <2>1. o \in Orders
    BY <1>2, TxKinds DEF PaidConfirms, PaidTx, Inv, TypeOK
  <2>2. SumFunction([p \in Orders |-> deducts'[p] * codes'[p]]) =
           SumFunction([p \in Orders |-> deducts[p] * codes[p]]) + codes[o]
    BY <1>1, <1>2, <2>1, SettlementAdds DEF PaidConfirms, DeductStock, Inv
  <2>3. promo'.uses = promo.uses + codes[o]
    BY <1>2 DEF PaidConfirms, DeductStock, Inv, TypeOK
  <2> QED
    BY <2>2, <2>3 DEF UsesLedger
<1>3. ASSUME NEW h \in Handlers, CheckoutFinish(h) PROVE UsesLedger'
  <2>1. promo' = promo
    BY <1>3 DEF CheckoutFinish
  <2> QED
    BY <1>3, <2>1, CheckoutAddsNothing DEF UsesLedger
<1>4. CASE promo'.uses = promo.uses /\ UNCHANGED <<codes, deducts>>
  BY <1>4 DEF UsesLedger
<1>5. ASSUME NEW h \in Handlers, CancelFinish(h) PROVE UsesLedger'
  BY <1>4, <1>5 DEF CancelFinish
<1>6. ASSUME NEW v \in Variants, NEW n \in Stocks, UpdateVariant(v, n) PROVE UsesLedger'
  BY <1>4, <1>6 DEF UpdateVariant, orderVars
<1> QED
  BY <1>2, <1>3, <1>4, <1>5, <1>6, LedgerWriters DEF Inv

LEMMA StockLedgerInv ==
    ASSUME ~ ItemsEager, Inv, AbsentIsUnsettled, StockLedger, [Next]_vars
    PROVE  StockLedger'
<1> DEFINE Sum(v) == SumFunction([p \in Orders |-> deducts[p] * items[p][v]])
<1>1. Inv'
  BY NextInv
<1>2. \A v \in Variants : stock[v] = received[v] - Sum(v)
  BY DEF StockLedger
<1>3. \A v \in Variants : Sum(v) \in Int
  <2> SUFFICES ASSUME NEW v \in Variants PROVE Sum(v) \in Int
    OBVIOUS
  <2> DEFINE f == [p \in Orders |-> deducts[p] * items[p][v]]
  <2>1. \A p \in Orders : f[p] \in Int
    <3>1. \A p \in Orders : deducts[p] \in Nat /\ items[p][v] \in Nat
      BY DEF Inv, TypeOK
    <3>2. \A i, j \in Nat : i * j \in Int
      OBVIOUS
    <3> QED
      BY <3>1, <3>2
  <2>2. DOMAIN f = Orders
    OBVIOUS
  <2> HIDE DEF f
  <2>3. SumFunction(f) \in Int
    BY <2>1, <2>2, OrdersAssumption, SumIsInt DEF OrdersAssumption, SumFunction
  <2> QED
    BY <2>3 DEF f
<1> SUFFICES ASSUME NEW v \in Variants
             PROVE  stock'[v] = received'[v] - Sum(v)'
  BY DEF StockLedger
<1>4. ASSUME NEW h \in Handlers, PaidConfirms(h)
      PROVE  stock'[v] = received'[v] - Sum(v)'
  <2> DEFINE o == tx[h].ord
  <2>1. o \in Orders
    BY <1>4, TxKinds DEF PaidConfirms, PaidTx, Inv, TypeOK
  <2>2. Sum(v)' = Sum(v) + items[o][v]
    BY <1>1, <1>4, <2>1, SettlementAdds DEF PaidConfirms, DeductStock, Inv
  <2>3. stock'[v] = stock[v] - items[o][v] /\ received'[v] = received[v]
    BY <1>4 DEF PaidConfirms, DeductStock
  <2>4. items[o][v] \in Int /\ received[v] \in Int /\ Sum(v) \in Int
    BY <1>3, <2>1 DEF Inv, TypeOK
  <2> HIDE DEF Sum
  <2> QED
    BY <1>2, <2>2, <2>3, <2>4
<1>5. ASSUME NEW h \in Handlers, CheckoutFinish(h)
      PROVE  stock'[v] = received'[v] - Sum(v)'
  <2>1. Sum(v)' = Sum(v)
    BY <1>5, CheckoutAddsNothing
  <2>2. UNCHANGED <<stock, received>>
    BY <1>5 DEF CheckoutFinish
  <2> QED
    BY <1>2, <2>1, <2>2
<1>6. ASSUME NEW h \in Handlers, CancelFinish(h) PROVE FALSE
  BY <1>6 DEF CancelFinish, Inv, SessionsInv, CancelSessions
<1>7. ASSUME NEW w \in Variants, NEW n \in Stocks, UpdateVariant(w, n)
      PROVE  stock'[v] = received'[v] - Sum(v)'
  <2>1. Sum(v)' = Sum(v)
    BY <1>7 DEF UpdateVariant, orderVars
  <2>2. /\ stock[v] \in Int /\ received[v] \in Int /\ Sum(v) \in Int /\ n \in Int
        /\ stock \in [Variants -> Nat] /\ received \in [Variants -> Int]
    BY <1>3, StocksAssumption DEF Inv, TypeOK, StocksAssumption
  <2> HIDE DEF Sum
  <2>3. CASE v = w
    <3>1. stock'[v] = n /\ received'[v] = received[v] + n - stock[v]
      BY <1>7, <2>2, <2>3 DEF UpdateVariant
    <3> QED
      BY <1>2, <2>1, <2>2, <3>1
  <2>4. CASE v # w
    <3>1. stock'[v] = stock[v] /\ received'[v] = received[v]
      BY <1>7, <2>2, <2>4 DEF UpdateVariant
    <3> QED
      BY <1>2, <2>1, <3>1
  <2> QED
    BY <2>3, <2>4
<1>8. CASE UNCHANGED <<stock, received, items, codes, deducts>>
  BY <1>2, <1>8
<1> QED
  BY <1>4, <1>5, <1>6, <1>7, <1>8, LedgerWriters DEF Inv

\* A promotion's current_uses counts the promoted items of the settlements that
\* committed, whatever rolled back or died (finalize_payment).
THEOREM UsesAreCounted == Spec => []UsesLedger
<1>1. Init => Inv /\ AbsentIsUnsettled /\ UsesLedger
  BY InitInv, EmptyLedgers
<1>2. Inv /\ AbsentIsUnsettled /\ UsesLedger /\ [Next]_vars
      => (Inv /\ AbsentIsUnsettled /\ UsesLedger)'
  BY NextInv, AbsentInv, UsesLedgerInv
<1> QED
  BY <1>1, <1>2, PTL DEF Spec

\* With the owner's cancel as the code has it, every unit that left the stock
\* left it for one settlement of one order: no request writes a stale level over
\* another's (deduct_stock's conditional UPDATE).
THEOREM StockIsAccountedFor ==
    ASSUME ~ ItemsEager
    PROVE  Spec => []StockLedger
<1>1. Init => Inv /\ AbsentIsUnsettled /\ StockLedger
  BY InitInv, EmptyLedgers
<1>2. Inv /\ AbsentIsUnsettled /\ StockLedger /\ [Next]_vars
      => (Inv /\ AbsentIsUnsettled /\ StockLedger)'
  BY NextInv, AbsentInv, StockLedgerInv
<1> QED
  BY <1>1, <1>2, PTL DEF Spec

\* What the ledger leaves for the orders that are fulfilled: each was settled at
\* least once.
LEMMA FulfilledWithinLedger ==
    ASSUME Inv, StockLedger
    PROVE  NoOversell
<1> SUFFICES ASSUME NEW v \in Variants
             PROVE  Units(v, {o \in Orders : status[o] \in Fulfilled}) <= received[v]
  BY DEF NoOversell
<1> DEFINE S == {o \in Orders : status[o] \in Fulfilled}
           f == [o \in Orders |-> items[o][v]]
           g == [o \in Orders |-> deducts[o] * items[o][v]]
<1>1. \A i \in Nat \ {0}, j \in Nat : j <= i * j
  OBVIOUS
<1>2. \A i, j \in Nat : i * j \in Nat
  OBVIOUS
<1>3. \A o \in Orders : deducts[o] \in Nat /\ items[o][v] \in Nat
  BY DEF Inv, TypeOK
<1>4. \A o \in S : deducts[o] \in Nat \ {0}
  BY <1>3 DEF Inv, RowsInv, FulfilledWasDeducted
<1>5. \A o \in Orders : f[o] \in Nat /\ g[o] \in Nat
  BY <1>2, <1>3
<1>6. \A o \in S : f[o] <= g[o]
  BY <1>1, <1>3, <1>4
<1>7. stock[v] = received[v] - SumFunctionOnSet(g, Orders)
  <2>1. stock[v] = received[v] - SumFunction(g)
    BY DEF StockLedger
  <2> QED
    BY <2>1 DEF SumFunction
<1>8. stock[v] \in Nat /\ received[v] \in Int
  BY DEF Inv, TypeOK
<1>9. IsFiniteSet(S) /\ S \subseteq Orders
  BY OrdersAssumption, FS_Subset DEF OrdersAssumption
<1> HIDE DEF S, f, g
<1>10. SumFunctionOnSet(f, S) <= SumFunctionOnSet(g, S)
  BY <1>5, <1>6, <1>9, SumMonotone
<1>11. SumFunctionOnSet(g, S) <= SumFunctionOnSet(g, Orders)
  BY <1>5, <1>9, OrdersAssumption, SumOfPart DEF OrdersAssumption
<1>12. /\ SumFunctionOnSet(f, S) \in Int /\ SumFunctionOnSet(g, S) \in Int
       /\ SumFunctionOnSet(g, Orders) \in Int
  BY <1>5, <1>9, OrdersAssumption, SumIsInt DEF OrdersAssumption
<1>13. SumFunctionOnSet(f, S) <= received[v]
  BY <1>7, <1>8, <1>10, <1>11, <1>12
<1> QED
  BY <1>13 DEF Units, f, S

\* The orders that are confirmed, shipped or delivered never need more of a
\* variant than was ever put into its stock.
THEOREM NothingIsOversold ==
    ASSUME ~ ItemsEager
    PROVE  Spec => []NoOversell
<1>1. Inv /\ StockLedger => NoOversell
  BY FulfilledWithinLedger
<1>2. Spec => []StockLedger
  BY StockIsAccountedFor
<1> QED
  BY <1>1, <1>2, Invariance, PTL
=============================================================================
