------------------------------ MODULE Fulfilment ------------------------------
(***************************************************************************)
(* What the order core promises, without sessions, copies of rows, retries *)
(* and failures: an order is placed, its payment is reported, it is settled*)
(* out of the stock in one piece, shipped and delivered, or cancelled.     *)
(* Every step is atomic and judges the present state.                      *)
(***************************************************************************)
EXTENDS Integers

CONSTANTS Variants, Orders, Carts, Stocks

VARIABLES
    stock,     \* sellable units of a variant
    status,    \* where an order stands
    items,     \* what an order wants
    reported,  \* orders whose payment some provider reported
    settled    \* how many times an order was taken out of the stock

vars == <<stock, status, items, reported, settled>>

Fulfilled == {"confirmed", "shipped", "delivered"}

Init ==
    /\ stock \in [Variants -> Stocks]
    /\ status = [o \in Orders |-> "absent"]
    /\ items = [o \in Orders |-> [v \in Variants |-> 0]]
    /\ reported = {}
    /\ settled = [o \in Orders |-> 0]

Place(o) ==
    /\ status[o] = "absent"
    /\ status' = [status EXCEPT ![o] = "pending"]
    /\ \E c \in Carts : items' = [items EXCEPT ![o] = c]
    /\ UNCHANGED <<stock, reported, settled>>

Report(o) ==
    /\ status[o] # "absent"
    /\ reported' = reported \cup {o}
    /\ UNCHANGED <<stock, status, items, settled>>

\* A settlement confirms the order; one that comes again for an order that has
\* moved on may leave it where it is.
Settle(o) ==
    /\ o \in reported
    /\ \A v \in Variants : items[o][v] <= stock[v]
    /\ stock' = [v \in Variants |-> stock[v] - items[o][v]]
    /\ settled' = [settled EXCEPT ![o] = @ + 1]
    /\ \/ status' = [status EXCEPT ![o] = "confirmed"]
       \/ status[o] \in Fulfilled \cup {"cancelled"} /\ UNCHANGED status
    /\ UNCHANGED <<items, reported>>

Ship(o) ==
    /\ status[o] = "confirmed"
    /\ status' = [status EXCEPT ![o] = "shipped"]
    /\ UNCHANGED <<stock, items, reported, settled>>

Deliver(o) ==
    /\ status[o] = "shipped"
    /\ status' = [status EXCEPT ![o] = "delivered"]
    /\ UNCHANGED <<stock, items, reported, settled>>

Cancel(o) ==
    /\ status[o] # "absent"
    /\ status' = [status EXCEPT ![o] = "cancelled"]
    /\ UNCHANGED <<stock, items, reported, settled>>

Restock(v) ==
    /\ \E n \in Stocks : stock' = [stock EXCEPT ![v] = n]
    /\ UNCHANGED <<status, items, reported, settled>>

Next ==
    \/ \E o \in Orders :
        Place(o) \/ Report(o) \/ Settle(o) \/ Ship(o) \/ Deliver(o) \/ Cancel(o)
    \/ \E v \in Variants : Restock(v)

Spec == Init /\ [][Next]_vars
=============================================================================
