-------------------------- MODULE SessionsProperties --------------------------
(***************************************************************************)
(* What the session handling keeps: of one token, of one storage and of    *)
(* those who wait.                                                         *)
(***************************************************************************)
EXTENDS Sessions

TypeOK ==
    /\ live \subseteq Tokens
    /\ issued \in 0 .. MaxTokens
    /\ storage \in Tokens \cup {NoToken}
    /\ user \in [Tabs -> BOOLEAN]
    /\ refreshing \in [Tabs -> Requests \cup {NoRequest}]
    /\ request \in [Requests -> Request]
    /\ call \in [Calls -> Call]
    /\ login \in [Tabs -> Tokens \cup {NoToken}]
    /\ leaving \in [Tabs -> Leaving]
    /\ parent \in [Tokens -> Tokens \cup {NoToken}]
    /\ stored \subseteq Tokens
    /\ contested \subseteq Tokens
    /\ losses \in Nat

\* However many tabs present the same refresh token at the same time, it is
\* exchanged at most once: FOR UPDATE makes the second wait and find no row.
ExchangedOnce ==
    \A m, n \in Tokens : parent[m] = parent[n] /\ parent[m] # NoToken => m = n

\* The refresh token in storage works, unless it was exchanged for a pair that
\* has not reached the storage, because its answer is under way or got lost.
\* No login and no logout of another tab ends a session: a logout revokes the one
\* token it presents.
StoredIsLive ==
    \/ storage \in live \cup {NoToken}
    \/ \E n \in Tokens \ stored : parent[n] = storage

\* Nobody waits for a refresh that is not under way.
WaitersAreServed ==
    \A t \in Tabs :
        Subscribers(t) # {} =>
            /\ refreshing[t] # NoRequest
            /\ request[refreshing[t]].phase # "free"
            /\ request[refreshing[t]].tab = t

\* A tab never spoils its own session: a refresh presents a token the server
\* accepts, unless another tab presents it too, the customer logged out, or an
\* earlier refresh with it was aborted.
OwnRefreshIsAccepted ==
    \A r \in Requests :
        request[r].phase = "sent" => request[r].token \in live \cup contested \cup {NoToken}

\* What refresh and its specification promise of a replay: when a refresh presents
\* a token that was exchanged before, every token of the user is revoked by the time
\* it is answered.  Not so: the deletions are rolled back with the 401.
ReplayRevokes == [][
    \A r \in Requests :
        /\ request[r].phase = "sent" /\ request'[r].phase = "answered"
        /\ request[r].token \notin live
        /\ \E n \in Tokens : request[r].token = parent[n] /\ parent[n] # NoToken
        => live' = {}]_vars
=============================================================================
