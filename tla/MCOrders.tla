------------------------------ MODULE MCOrders ------------------------------
(***************************************************************************)
(* Small instances of Orders for TLC.                                      *)
(***************************************************************************)
EXTENDS OrdersProperties, TLC

CONSTANT MaxQty

\* Carts of at most MaxQty units in all.
MCCarts ==
    {c \in [Variants -> 0 .. MaxQty] :
        \E v \in Variants : c[v] > 0 /\ \A w \in Variants \ {v} : c[v] + c[w] <= MaxQty}

Symmetry == Permutations(Handlers) \cup Permutations(Orders)

\* Nothing reads what was emitted or answered: runs of state properties that do
\* not mention them leave them out of a state's identity.
Core == <<stock, reserved, deleted, received, orderVars, promo, gateway, events, tx,
          changes, crashes>>
=============================================================================
