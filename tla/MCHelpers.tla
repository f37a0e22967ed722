--------------------------------- MODULE MCHelpers ---------------------------------
(***************************************************************************)
(* Small instances of Helpers, for TLC.                                    *)
(*                                                                         *)
(* The limiter and the uploads share Redis and the process, and nothing    *)
(* else: a behaviour of MCSpec is one of Spec that has either requests for *)
(* limited paths or uploads, beside time, outages and restarts.  Uploads   *)
(* see at most one of the outages.                                         *)
(***************************************************************************)
EXTENDS HelpersProperties, TLC

VARIABLE part

MCInit ==
    /\ Init
    /\ part \in {"limits", "uploads"}
    /\ part = "limits" => image = [f \in Files |-> "fits"]

MCNext ==
    \/ part = "limits" /\ RateNext /\ UNCHANGED <<uploadVars, restarts, part>>
    \/ part = "uploads" /\ UploadsNext /\ UNCHANGED <<rateVars, restarts, part>>
    \/ part = "uploads" /\ Tick /\ UNCHANGED <<uploadVars, restarts, part>>
    \/ Outage /\ (part = "uploads" => outages' <= 1) /\ UNCHANGED <<restarts, part>>
    \/ Restart /\ UNCHANGED part

MCSpec == MCInit /\ [][MCNext]_<<vars, part>> /\ Fairness
=============================================================================
