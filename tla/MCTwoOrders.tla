---------------------------- MODULE MCTwoOrders ----------------------------
(***************************************************************************)
(* Two orders at once, small enough for TLC.                               *)
(*                                                                         *)
(* What happens at the payment providers is independent of the requests,   *)
(* so a behaviour of MCSpec is one of Spec in which only some of it does:  *)
(* the answers of Swish beside completed sessions, the same beside expired *)
(* ones, or whatever Stripe alone may report.  Changes by administration   *)
(* and requests that die are for the runs of one order.                    *)
(***************************************************************************)
EXTENDS MCOrders

VARIABLE part

MCInit ==
    /\ Init
    /\ part \in {{"pays", "answers"}, {"expires", "answers"}, {"pays", "expires", "refunds"}}

MCPayment(o) ==
    \/ "pays" \in part /\ CustomerPays(o)
    \/ "expires" \in part /\ SessionExpires(o)
    \/ "refunds" \in part /\ MerchantRefunds(o)
    \/ "answers" \in part /\ \E type \in Answers : SwishAnswers(o, type)

MCRequest(h) == Checkout(h) \/ Callback(h) \/ UpdateOrderStatus(h) \/ CancelOrder(h)

MCNext ==
    \/ (\E h \in Handlers : MCRequest(h)) /\ UNCHANGED part
    \/ (\E o \in Orders : MCPayment(o)) /\ UNCHANGED part

MCSpec == MCInit /\ [][MCNext]_<<vars, part>>

MCCore == <<Core, part>>
=============================================================================
