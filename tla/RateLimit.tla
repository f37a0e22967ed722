-------------------------------- MODULE RateLimit --------------------------------
(***************************************************************************)
(* RateLimitMiddleware for one address: requests for a limited path are    *)
(* counted under a key of their path in Redis, and in the memory of the    *)
(* process, over all paths, while Redis does not answer.                   *)
(*                                                                         *)
(* The first request of a key gives it a life of Window ticks, in a call   *)
(* after the one that counted it.  There is one such request per key at a  *)
(* time: a key that has no life yet does not end.                          *)
(***************************************************************************)
EXTENDS Redis, Functions

CONSTANTS
    Paths,     \* the limited ones
    Limit,     \* RATE_LIMIT_REQUESTS
    Window     \* RATE_LIMIT_WINDOW, in ticks

ASSUME RateLimitAssumption == Limit \in Nat \ {0} /\ Window \in Nat \ {0}

VARIABLES
    key,       \* the counter of a path, and the ticks it has left
    expiring,  \* paths whose first request has yet to give the key its life
    undying,   \* paths whose key was left without one
    admitted,  \* requests Redis let through, by path and age
    buckets,   \* requests the process remembers that its fallback let through, by age
    fallback,  \* history: those and the ones a restart forgot, by age
    restarted  \* history: restarts of the process, by age

memoryVars == <<buckets, fallback, restarted>>
rateVars == <<key, expiring, undying, admitted, memoryVars>>

Ages == 0 .. Window - 1
NoTtl == Window + 1
NoKey == [count |-> 0, ttl |-> NoTtl]
Total(counts) == FoldFunction(+, 0, counts)
OneMore(counts) == [counts EXCEPT ![0] = @ + 1]
NothingYet == [a \in Ages |-> 0]

RateInit ==
    /\ key = [p \in Paths |-> NoKey]
    /\ expiring = {} /\ undying = {}
    /\ admitted = [p \in Paths |-> NothingYet]
    /\ buckets = NothingYet /\ fallback = NothingYet /\ restarted = NothingYet

\* Mutant: the limit is one more.
OneTooMany(count) == count <= Limit + 1

WithinLimit(count) == count <= Limit

\* Mutant: every request prolongs the key.
Always(count) == TRUE

SetsExpiry(count) == count = 1

\* Counts beyond the limit are alike.
Incremented(p) == [key EXCEPT ![p].count = IF @ > Limit THEN @ ELSE @ + 1]

\* The answer: on to the application, or 429.
Decides(p, count) ==
    admitted' = IF WithinLimit(count) THEN [admitted EXCEPT ![p] = OneMore(@)] ELSE admitted

\* INCR; all but the first request of a key are decided by the count alone.
Counts(p) ==
    LET count == Incremented(p)[p].count IN
    /\ up
    /\ key' = Incremented(p)
    /\ IF SetsExpiry(count)
       THEN expiring' = expiring \cup {p} /\ UNCHANGED admitted
       ELSE Decides(p, count) /\ UNCHANGED expiring
    /\ UNCHANGED <<undying, memoryVars, redisVars>>

\* EXPIRE, and the first request is decided.
Expires(p) ==
    /\ up
    /\ p \in expiring
    /\ expiring' = expiring \ {p}
    /\ key' = [key EXCEPT ![p].ttl = Window]
    /\ Decides(p, 1)
    /\ UNCHANGED <<undying, memoryVars, redisVars>>

\* The sliding window in memory.
FallsBack ==
    /\ IF Total(buckets) < Limit
       THEN buckets' = OneMore(buckets) /\ fallback' = OneMore(fallback)
       ELSE UNCHANGED <<buckets, fallback>>
    /\ UNCHANGED restarted

\* INCR fails.
Unreachable ==
    /\ ~up
    /\ FallsBack
    /\ UNCHANGED <<key, expiring, undying, admitted, redisVars>>

\* INCR is done as the server goes, and its answer lost: nobody sets the life of
\* a key that this request made.
IncrIsLost(p) ==
    /\ GoesDown
    /\ key' = Incremented(p)
    /\ undying' = IF key[p].count = 0 THEN undying \cup {p} ELSE undying
    /\ FallsBack
    /\ UNCHANGED <<expiring, admitted>>

\* EXPIRE fails: the request is judged in memory, and its key stays for good.
ExpiryFails(p) ==
    /\ ~up
    /\ p \in expiring
    /\ expiring' = expiring \ {p}
    /\ undying' = undying \cup {p}
    /\ FallsBack
    /\ UNCHANGED <<key, admitted, redisVars>>

\* The process stops and starts again: what its memory counted is forgotten, and
\* was served nevertheless.
ForgetsBuckets ==
    /\ undying' = undying \cup expiring
    /\ expiring' = {}
    /\ buckets' = NothingYet
    /\ restarted' = OneMore(restarted)
    /\ UNCHANGED <<key, admitted, fallback>>

Aged(counts) == [a \in Ages |-> IF a = 0 THEN 0 ELSE counts[a - 1]]

\* _prune: what is older than the window counts no more.
Tick ==
    /\ key' = [p \in Paths |->
            IF key[p].ttl = NoTtl THEN key[p]
            ELSE IF key[p].ttl = 1 THEN NoKey
            ELSE [key[p] EXCEPT !.ttl = @ - 1]]
    /\ admitted' = [p \in Paths |-> Aged(admitted[p])]
    /\ buckets' = Aged(buckets) /\ fallback' = Aged(fallback) /\ restarted' = Aged(restarted)
    /\ UNCHANGED <<expiring, undying, redisVars>>

RateNext ==
    \/ \E p \in Paths : Counts(p) \/ Expires(p) \/ IncrIsLost(p) \/ ExpiryFails(p)
    \/ Unreachable
    \/ Tick
=============================================================================
