-------------------------- MODULE OrdersProperties --------------------------
(***************************************************************************)
(* What the order core keeps, and what its documentation claims.           *)
(***************************************************************************)
EXTENDS Orders, Functions

Units(v, S) == SumFunctionOnSet([o \in Orders |-> items[o][v]], S)

-----------------------------------------------------------------------------
(* State properties the code keeps *)

\* The orders that are confirmed, shipped or delivered never need more units of
\* a variant than were ever put into its stock, whatever checkouts, deliveries
\* of webhooks, admin stock updates and crashes interleave (deduct_stock's
\* conditional UPDATE).
NoOversell ==
    \A v \in Variants :
        Units(v, {o \in Orders : status[o] \in Fulfilled}) <= received[v]

\* Every unit that left the stock left it for one settlement of one order: no
\* checkout or settlement writes a stale stock level over another's.  The code
\* breaks this only in the owner's cancel, which never reaches its writes
\* unless ItemsEager.
StockLedger ==
    \A v \in Variants :
        stock[v] = received[v] -
            SumFunction([o \in Orders |-> deducts[o] * items[o][v]])

\* A promotion's current_uses counts the promoted items of settlements that
\* committed, neither those of a settlement that rolled back to its savepoint
\* nor those of one that died.
UsesLedger ==
    promo.uses = SumFunction([o \in Orders |-> deducts[o] * codes[o]])

\* An order is confirmed, shipped, delivered or marked paid only if its stock
\* was deducted: the admin's status machine and a webhook with a stale copy of
\* the order cannot get ahead of the settlement.
FulfilledWasDeducted ==
    \A o \in Orders :
        status[o] \in Fulfilled \/ pay[o] = "paid" => deducts[o] >= 1

\* Stripe completed a session of the order and reported it.
StripePaid(o) ==
    /\ [type |-> "completed", ord |-> o] \in events
    /\ gateway[o] \in {"complete", "refunded"}

\* The Swish callback was told that the order is paid.
SwishPaid(o) == [type |-> "swish_paid", ord |-> o] \in events

\* Goods leave the sellable stock only for an order that Stripe reported paid,
\* of a session that was indeed completed, or whose payment the Swish callback
\* was told of: no admin transition, failed settlement or late notification
\* gets an order there by itself.  Which provider the order was placed with
\* does not matter to the code: in mock mode the second way is open for a
\* Stripe order as well.
FulfilledWasPaid ==
    \A o \in Orders : status[o] \in Fulfilled => StripePaid(o) \/ SwishPaid(o)

\* A paid order is never left pending, where the admin could cancel it as if it
\* had not been paid.
PaidIsNotPending == \A o \in Orders : pay[o] = "paid" => status[o] # "pending"

-----------------------------------------------------------------------------
(* Step properties the code keeps *)

\* Whoever writes the status, an order is shipped only from confirmed and
\* delivered only from shipped, and none returns to pending.
ShippedFromConfirmed ==
    [][\A o \in Orders :
        status'[o] # status[o] =>
            /\ status'[o] = "shipped" => status[o] = "confirmed"
            /\ status'[o] = "delivered" => status[o] = "shipped"
            /\ status'[o] = "pending" => status[o] = "absent"]_vars

-----------------------------------------------------------------------------
(* The abstract specification *)

PaidOrders == {e.ord : e \in {f \in events : f.type \in PaidEvents}}

Abstract == INSTANCE Fulfilment WITH reported <- PaidOrders, settled <- deducts

\* Seen from outside, sessions with stale copies, repeated notifications,
\* savepoints and lost requests amount to atomic steps on present rows: place,
\* report, settle, ship, deliver, cancel, restock, and nothing else.  The
\* owner's cancel, were its items readable, would be something else.
ImplementsFulfilment == Abstract!Spec

-----------------------------------------------------------------------------
(* Liveness under FairSpec *)

\* Every request ends: one that waits for the row lock of an order gets it, also
\* when notifications of that order keep arriving.
RequestEnds == \A h \in Handlers : tx[h] # Idle ~> tx[h] = Idle

\* A payment captured by Stripe does not stay pending in the store: redelivery
\* brings the order to paid, or to failed with the refund requested.
PaymentSettles ==
    \A o \in Orders : gateway[o] = "complete" ~> pay[o] # "pending"

-----------------------------------------------------------------------------
(* What a docstring says, and the code does not keep *)

\* stripe_provider.py: the row lock prevents races when the same event is
\* delivered concurrently, and the idempotency guard handles an event that is
\* delivered many times: an order's stock is deducted once.
SettledOnce == \A o \in Orders : deducts[o] <= 1
=============================================================================
