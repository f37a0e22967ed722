---------------------------------- MODULE Redis ----------------------------------
(***************************************************************************)
(* The Redis server that the rate limiter counts in and the image worker   *)
(* takes its jobs from: it is reachable or not, and keeps what it holds.   *)
(***************************************************************************)
EXTENDS Naturals

CONSTANT MaxOutages    \* bound on outages

ASSUME RedisAssumption == MaxOutages \in Nat

VARIABLES
    up,        \* whether the server answers
    outages    \* how often it has not

redisVars == <<up, outages>>

RedisInit == up = TRUE /\ outages = 0

GoesDown ==
    /\ up /\ outages < MaxOutages
    /\ up' = FALSE
    /\ outages' = outages + 1

ComesBack ==
    /\ ~up
    /\ up' = TRUE
    /\ UNCHANGED outages
=============================================================================
