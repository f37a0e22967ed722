---------------------------------- MODULE Mail ----------------------------------
(***************************************************************************)
(* Transactional e-mail: requests emit events on the bus of the process,   *)
(* a task per event reads what it needs in a session of its own and hands  *)
(* the e-mail to the mail server.                                          *)
(*                                                                         *)
(* An event leaves when its request has flushed, before it commits.  Tasks *)
(* live in memory: nothing is tried again, and a restart forgets them.     *)
(* Orders are as far as their e-mails need them; Credentials adds the      *)
(* requests for reset links.                                               *)
(***************************************************************************)
EXTENDS Naturals, FiniteSets

CONSTANTS
    Orders,
    Guests,            \* orders of a guest; the others are the account's
    Requests,          \* requests under way at the same time
    MaxRequests,       \* bound on requests
    MaxRestarts        \* bound on restarts of the process

\* Orders and the numbers of requests are told apart.
ASSUME MailAssumption ==
    /\ Guests \subseteq Orders
    /\ \A o \in Orders : o \notin 1 .. MaxRequests
    /\ MaxRequests \in Nat /\ MaxRestarts \in Nat

Numbers == 1 .. MaxRequests

VARIABLES
    account,      \* "live" or "gone"
    orders,       \* status of each order, whether it is paid, and its owner
    request,      \* requests under way
    started,      \* how many requests there were; each has its number
    tasks,        \* events whose handler has yet to run
    outbox,       \* e-mails the mail server took
    undelivered,  \* e-mails it did not take
    rolledBack,   \* requests that emitted an event and did not commit
    settled,      \* history: how often a payment of each order was settled
    shipments,    \* history: the requests that shipped each order
    restarts

mailVars == <<account, orders, request, started, tasks, outbox, undelivered, rolledBack,
              settled, shipments, restarts>>

Nobody == "nobody"
Owner == "account"
Free == [phase |-> "free"]
\* Delivered orders count as shipped: nobody is told of a delivery.
Statuses == {"pending", "confirmed", "shipped", "cancelled"}
Order == [status : Statuses, paid : BOOLEAN, owner : {Owner, Nobody}]
Kinds == {"confirmation", "shipped", "reset"}
Event == [kind : Kinds, of : Orders \cup Numbers, to : {Owner, Nobody}, no : Numbers]

MailInit ==
    /\ account = "live"
    /\ orders = [o \in Orders |->
            [status |-> "pending", paid |-> FALSE,
             owner |-> IF o \in Guests THEN Nobody ELSE Owner]]
    /\ request = [r \in Requests |-> Free]
    /\ started = 0
    /\ tasks = {} /\ outbox = {} /\ undelivered = {}
    /\ rolledBack = {}
    /\ settled = [o \in Orders |-> 0] /\ shipments = [o \in Orders |-> {}]
    /\ restarts = 0

-----------------------------------------------------------------------------
\* The steps every request is made of.

Starts(r, op, of, seen) ==
    /\ request[r] = Free
    /\ started < MaxRequests
    /\ started' = started + 1
    /\ request' = [request EXCEPT ![r] =
            [phase |-> "read", op |-> op, of |-> of, seen |-> seen,
             no |-> started + 1, disturbed |-> FALSE]]
    /\ UNCHANGED <<account, orders, tasks, outbox, undelivered, rolledBack, settled,
              shipments, restarts>>

Fails(r) ==
    /\ request' = [request EXCEPT ![r] = Free]
    /\ UNCHANGED <<account, orders, started, tasks, outbox, undelivered, rolledBack, settled,
              shipments, restarts>>

\* EventBus.emit: a task per handler, and every event has one.
Emits(events) == tasks' = tasks \cup events

Flushes(r, events) ==
    /\ request' = [request EXCEPT ![r].phase = "flushed"]
    /\ Emits(events)
    /\ UNCHANGED <<account, orders, started, outbox, undelivered, rolledBack, settled,
              shipments, restarts>>

Emitting == {"settle", "ship", "forgot"}
Under(op, phase) == {r \in Requests :
    request[r].phase = phase /\ request[r].op = op}
Active == {r \in Requests : request[r] # Free}
Flushed == {r \in Requests : request[r].phase = "flushed"}

\* What the request has changed and therefore locked.
Row(q) == IF q.of \in Orders THEN q.of ELSE Owner
RowFree(r) == \A s \in Flushed \ {r} :
    request[s].op # "forgot" => Row(request[s]) # Row(request[r])

\* A commit is beside whoever else is at work on the same row.
Committed(r) == [s \in Requests |->
    IF s = r THEN Free
    ELSE IF s \in Active /\ Row(request[s]) = Row(request[r])
         THEN [request[s] EXCEPT !.disturbed = TRUE]
         ELSE request[s]]

RollsBack(r) ==
    /\ r \in Flushed
    /\ request' = [request EXCEPT ![r] = Free]
    /\ rolledBack' = IF request[r].op \in Emitting
                     THEN rolledBack \cup {request[r].no} ELSE rolledBack
    /\ UNCHANGED <<account, orders, started, tasks, outbox, undelivered, settled, shipments,
                   restarts>>

-----------------------------------------------------------------------------
\* The steps of orders that tell their customer.

\* A payment settles that was not paid when its order was loaded, whatever the
\* order's status is.
SettleReads(r, o) ==
    /\ ~orders[o].paid
    /\ Starts(r, "settle", o, orders[o])

\* An administrator ships what he read as confirmed and paid; a guest's order has
\* no user to tell, and the request fails.
ShipReads(r, o) ==
    /\ orders[o].status = "confirmed" /\ orders[o].paid
    /\ Starts(r, "ship", o, orders[o])

\* Mutant: an UPDATE without the status it expects.
AnyStatus(o, seen) == TRUE

\* UPDATE ... WHERE status = the one that was read.
StillAs(o, seen) == orders[o].status = seen.status

\* The user is the one loaded with the order.
Telling(q, kind) == {[kind |-> kind, of |-> q.of, to |-> q.seen.owner, no |-> q.no]}

OrderFlushes(r) ==
    LET q == request[r] IN
    /\ q.phase = "read" /\ q.op \in {"settle", "ship"}
    /\ RowFree(r)
    /\ IF q.op = "settle" THEN Flushes(r, Telling(q, "confirmation"))
       ELSE IF StillAs(q.of, q.seen) /\ q.seen.owner # Nobody
            THEN Flushes(r, Telling(q, "shipped"))
            ELSE Fails(r)

\* A status is written only where it differs from the one that was loaded.
OrderCommits(r) ==
    LET q == request[r] IN
    /\ q.phase = "flushed" /\ q.op \in {"settle", "ship"}
    /\ IF q.op = "settle"
       THEN /\ orders' = [orders EXCEPT ![q.of].paid = TRUE,
                    ![q.of].status = IF q.seen.status = "confirmed" THEN @ ELSE "confirmed"]
            /\ settled' = [settled EXCEPT ![q.of] = @ + 1]
            /\ UNCHANGED shipments
       ELSE /\ orders' = [orders EXCEPT ![q.of].status = "shipped"]
            /\ shipments' = [shipments EXCEPT ![q.of] = @ \cup {q.no}]
            /\ UNCHANGED settled
    /\ request' = [request EXCEPT ![r] = Free]
    /\ UNCHANGED <<account, started, tasks, outbox, undelivered, rolledBack, restarts>>

\* Requests about an order that tell nobody: each is one UPDATE, once no other
\* request holds the row.
Becomes(o, new) ==
    /\ \A s \in Flushed : Row(request[s]) # o
    /\ orders' = [orders EXCEPT ![o] = new]
    /\ UNCHANGED <<account, request, started, tasks, outbox, undelivered, rolledBack, settled,
                   shipments, restarts>>

\* A payment is declined, expires or finds no stock, also after another was settled.
PaymentFails(o) ==
    /\ orders[o].paid
    /\ Becomes(o, [orders[o] EXCEPT !.paid = FALSE])

\* A refund cancels the order, shipped or not.
Refunded(o) == Becomes(o, [orders[o] EXCEPT !.paid = FALSE, !.status = "cancelled"])

\* An administrator cancels it; whether it was paid he read before.
Cancelled(o) ==
    /\ orders[o].status \in {"pending", "confirmed"}
    /\ Becomes(o, [orders[o] EXCEPT !.status = "cancelled"])

\* The account is deleted; its orders are kept without an owner.
DeleteAccount ==
    /\ account = "live"
    /\ Flushed = {}
    /\ account' = "gone"
    /\ orders' = [o \in Orders |-> [orders[o] EXCEPT !.owner = Nobody]]
    /\ request' = [r \in Requests |->
            IF r \in Active THEN [request[r] EXCEPT !.disturbed = TRUE] ELSE Free]
    /\ UNCHANGED <<started, tasks, outbox, undelivered, rolledBack, settled,
              shipments, restarts>>

-----------------------------------------------------------------------------
\* Handlers.  A handler's reads and its delivery are one step: an e-mail says
\* nothing that changes in between.

\* The handler reads order.user and order.items, which are not loaded with the
\* order and cannot be loaded there: it fails, whoever the order belongs to.
ConfirmationIsWritten(t) == FALSE

\* It is still the order of the account it was.
ShippedIsWritten(t) == t.to = Owner /\ orders[t.of].owner = t.to

\* What is written goes to the account, which is loaded for its address.
Written(t) ==
    /\ account = "live"
    /\ CASE t.kind = "confirmation" -> ConfirmationIsWritten(t)
         [] t.kind = "shipped" -> ShippedIsWritten(t)
         [] t.kind = "reset" -> TRUE

\* A handler that fails is logged; so is a delivery that does.
Handle(t) ==
    /\ tasks' = tasks \ {t}
    /\ \/ Written(t) /\ outbox' = outbox \cup {t} /\ UNCHANGED undelivered
       \/ Written(t) /\ undelivered' = undelivered \cup {t} /\ UNCHANGED outbox
       \/ ~Written(t) /\ UNCHANGED <<outbox, undelivered>>
    /\ UNCHANGED <<account, orders, request, started, rolledBack, settled,
              shipments, restarts>>

\* The process stops and starts again: what is flushed is rolled back, tasks are lost.
Restart ==
    /\ restarts < MaxRestarts
    /\ restarts' = restarts + 1
    /\ rolledBack' = rolledBack \cup
            {request[r].no : r \in {s \in Flushed : request[s].op \in Emitting}}
    /\ request' = [r \in Requests |-> Free]
    /\ tasks' = {}
    /\ UNCHANGED <<account, orders, started, outbox, undelivered, settled, shipments>>

-----------------------------------------------------------------------------
OrdersNext ==
    \/ \E r \in Requests, o \in Orders : SettleReads(r, o) \/ ShipReads(r, o)
    \/ \E r \in Requests : OrderFlushes(r) \/ OrderCommits(r)
    \/ \E o \in Orders : PaymentFails(o) \/ Refunded(o) \/ Cancelled(o)

ProcessNext ==
    \/ \E r \in Requests : RollsBack(r)
    \/ \E t \in tasks : Handle(t)
    \/ Restart

MailNext == OrdersNext \/ ProcessNext
=============================================================================
