--------------------------------- MODULE Helpers ---------------------------------
(***************************************************************************)
(* The rate limiter and the uploads beside one another: they share Redis,  *)
(* and the process whose restart takes both of their memories.             *)
(***************************************************************************)
EXTENDS RateLimit, Uploads

CONSTANT MaxRestarts    \* bound on restarts of the process

ASSUME HelpersAssumption == MaxRestarts \in Nat

VARIABLE restarts

vars == <<redisVars, rateVars, uploadVars, restarts>>

Init == RedisInit /\ RateInit /\ UploadsInit /\ restarts = 0

Restart ==
    /\ restarts < MaxRestarts
    /\ restarts' = restarts + 1
    /\ ForgetsBuckets
    /\ ForgetsUploads
    /\ UNCHANGED redisVars

Outage == (GoesDown \/ ComesBack) /\ UNCHANGED <<rateVars, uploadVars>>

Next ==
    \/ RateNext /\ UNCHANGED <<uploadVars, restarts>>
    \/ UploadsNext /\ UNCHANGED <<rateVars, restarts>>
    \/ Outage /\ UNCHANGED restarts
    \/ Restart

\* Time passes, calls come back, and Redis and the worker are started again after
\* they stopped.
Fairness ==
    /\ WF_vars(Tick /\ UNCHANGED <<uploadVars, restarts>>)
    /\ \A p \in Paths :
        WF_vars((Expires(p) \/ ExpiryFails(p)) /\ UNCHANGED <<uploadVars, restarts>>)
    /\ \A f \in Files :
        /\ WF_vars(RequestStep(f) /\ UNCHANGED <<rateVars, restarts>>)
        /\ WF_vars(WorkerStep(f) /\ UNCHANGED <<rateVars, restarts>>)
    /\ WF_vars(WorkerStarts /\ UNCHANGED <<rateVars, restarts>>)
    /\ WF_vars(ComesBack /\ UNCHANGED <<rateVars, uploadVars, restarts>>)

Spec == Init /\ [][Next]_vars /\ Fairness
=============================================================================
