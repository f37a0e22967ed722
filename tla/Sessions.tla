------------------------------- MODULE Sessions -------------------------------
(***************************************************************************)
(* The session of a customer: the tabs of one browser, which share the     *)
(* tokens in localStorage, and the refresh tokens the backend keeps.       *)
(*                                                                         *)
(* A pair of tokens is issued together, so one number stands for both.  The*)
(* access token of a pair expires after some time; its refresh token is    *)
(* exchanged for the next pair, once, or revoked by a logout.  A tab runs  *)
(* its callbacks one at a time; between a request and its answer anything  *)
(* may happen.                                                             *)
(***************************************************************************)
EXTENDS Integers, FiniteSets

CONSTANTS
    Tabs,       \* tabs of the browser, each with its own AuthService
    Calls,      \* what may wait for a refresh at the same time
    Requests,   \* refresh requests in flight at the same time
    NoRequest,  \* refreshing$ === null
    MaxTokens,  \* bound on pairs ever issued
    MaxLosses   \* bound on answers lost and transactions rolled back

ASSUME NoRequestAssumption == NoRequest \notin Requests
ASSUME BoundsAssumption == MaxTokens \in Nat /\ MaxLosses \in Nat

Tokens == 1 .. MaxTokens
NoToken == 0

VARIABLES
    live,        \* refresh_tokens: the pairs that can still be exchanged
    issued,      \* how many pairs were issued
    storage,     \* the pair in localStorage
    user,        \* AuthStateService.isAuthenticated of a tab
    refreshing,  \* AuthService.refreshing$ of a tab
    request,     \* POST /auth/refresh, from sending to its answer
    call,        \* what waits for a refresh: an API call or the expiry dialog
    login,       \* the pair a login's answer carries to a tab
    leaving,     \* POST /auth/logout of a tab
    parent,      \* history: the pair a pair was exchanged for, if any
    stored,      \* history: pairs that were ever in localStorage
    contested,   \* history: pairs another tab, an aborted refresh or a logout may
                 \* have used up while the browser still presents them
    losses       \* answers lost and transactions rolled back so far

serverVars == <<live, issued, parent>>
browserVars == <<storage, user, stored>>
vars == <<serverVars, browserVars, refreshing, request, call, login, leaving,
          contested, losses>>

Free == [phase |-> "free"]
Request ==
    {Free}
    \cup [phase : {"sent"}, tab : Tabs, token : Tokens \cup {NoToken}]
    \cup [phase : {"locked"}, tab : Tabs, token : Tokens, rows : SUBSET Tokens]
    \cup [phase : {"answered"}, tab : Tabs, token : Tokens \cup {NoToken},
          result : Tokens \cup {NoToken}]

Quiet == [phase |-> "quiet"]
Call == {Quiet} \cup [phase : {"waiting"}, tab : Tabs]

Stays == [phase |-> "stays"]
Leaving ==
    {Stays}
    \cup [phase : {"sent"}, token : Tokens \cup {NoToken}]
    \cup [phase : {"failed"}]

Init ==
    /\ live = {}
    /\ issued = 0
    /\ storage = NoToken
    /\ user = [t \in Tabs |-> FALSE]
    /\ refreshing = [t \in Tabs |-> NoRequest]
    /\ request = [r \in Requests |-> Free]
    /\ call = [c \in Calls |-> Quiet]
    /\ login = [t \in Tabs |-> NoToken]
    /\ leaving = [t \in Tabs |-> Stays]
    /\ parent = [n \in Tokens |-> NoToken]
    /\ stored = {}
    /\ contested = {}
    /\ losses = 0

-----------------------------------------------------------------------------
(* The browser's own steps *)

\* TokenStorage.setTokens and AuthStateService.setUser
SignIn(t, n) ==
    /\ storage' = n
    /\ stored' = stored \cup {n}
    /\ user' = [user EXCEPT ![t] = TRUE]

\* TokenStorage.clear and AuthStateService.clearUser
SignOut(t) ==
    /\ storage' = NoToken
    /\ user' = [user EXCEPT ![t] = FALSE]
    /\ UNCHANGED stored

Lose ==
    /\ losses < MaxLosses
    /\ losses' = losses + 1

\* Everything in a tab that is subscribed to refreshing$.
Subscribers(t) == {c \in Calls : call[c] # Quiet /\ call[c].tab = t}

PresentedBy(n, tabs) ==
    \E r \in Requests :
        request[r] # Free /\ request[r].token = n /\ request[r].tab \in tabs

\* Mutant: every 401 sends a refresh of its own.
RefreshTokenUnshared(t) ==
    \E r \in Requests :
        /\ request[r] = Free
        /\ request' = [request EXCEPT ![r] =
                           [phase |-> "sent", tab |-> t, token |-> storage]]
        /\ refreshing' = [refreshing EXCEPT ![t] = r]
        /\ UNCHANGED contested

\* refreshToken: a refresh in flight is shared, otherwise one is sent with the
\* refresh token now in storage.
RefreshToken(t) ==
    IF refreshing[t] # NoRequest
    THEN UNCHANGED <<refreshing, request, contested>>
    ELSE \E r \in Requests :
            /\ request[r] = Free
            /\ request' = [request EXCEPT ![r] =
                               [phase |-> "sent", tab |-> t, token |-> storage]]
            /\ refreshing' = [refreshing EXCEPT ![t] = r]
            /\ contested' = contested \cup {n \in {storage} \ {NoToken} : PresentedBy(n, Tabs \ {t})}

-----------------------------------------------------------------------------
(* What asks for a refresh *)

\* errorInterceptor on a 401.  It can come at any time: the call may have left
\* without a token, or with one that expired on its way.  The customer who wants
\* to stay when warned of the expiry waits for a refresh in the same way.
CallRefused(c, t) ==
    /\ call[c] = Quiet
    /\ RefreshToken(t)
    /\ call' = [call EXCEPT ![c] = [phase |-> "waiting", tab |-> t]]
    /\ UNCHANGED <<serverVars, browserVars, login, leaving, losses>>

\* The app starts in a tab where nothing is under way: with tokens in storage it
\* asks for the user, who may not be told; otherwise it shows a guest.
Starts(t) ==
    /\ refreshing[t] = NoRequest /\ login[t] = NoToken /\ leaving[t] = Stays
    /\ \E known \in {storage # NoToken, FALSE} : user' = [user EXCEPT ![t] = known]
    /\ UNCHANGED <<serverVars, storage, stored, refreshing, request, call, login, leaving,
                   contested, losses>>

\* The customer wants to leave, or a check finds the access token expired.
SessionExpired(t) ==
    /\ storage # NoToken
    /\ SignOut(t)
    /\ UNCHANGED <<serverVars, refreshing, request, call, login, leaving, contested, losses>>

\* A component that is destroyed unsubscribes its call.
CallCancelled(c) ==
    /\ call[c].phase = "waiting"
    /\ Subscribers(call[c].tab) # {c}
    /\ call' = [call EXCEPT ![c] = Quiet]
    /\ UNCHANGED <<serverVars, browserVars, refreshing, request, login, leaving, contested,
                   losses>>

\* The tab stops listening; an answer on its way goes nowhere.
HangUp(t) ==
    request' = [r \in Requests |->
                   IF r = refreshing[t] /\ request[r].phase = "answered"
                   THEN Free ELSE request[r]]

\* Mutant: any subscriber that goes takes the refresh with it.
RefreshAbortedByAny(c) ==
    /\ call[c].phase = "waiting"
    /\ call' = [call EXCEPT ![c] = Quiet]
    /\ refreshing' = [refreshing EXCEPT ![call[c].tab] = NoRequest]
    /\ HangUp(call[c].tab)
    /\ contested' = contested \cup ({storage} \ {NoToken})
    /\ UNCHANGED <<serverVars, browserVars, login, leaving, losses>>

\* share() aborts the refresh when its last subscriber goes.
RefreshAborted(c) ==
    /\ call[c].phase = "waiting"
    /\ Subscribers(call[c].tab) = {c}
    /\ call' = [call EXCEPT ![c] = Quiet]
    /\ refreshing' = [refreshing EXCEPT ![call[c].tab] = NoRequest]
    /\ HangUp(call[c].tab)
    /\ contested' = contested \cup ({storage} \ {NoToken})
    /\ UNCHANGED <<serverVars, browserVars, login, leaving, losses>>

-----------------------------------------------------------------------------
(* POST /auth/refresh at the server *)

\* Mutant: find_by_user without lock=True.
RowsUnlocked == TRUE

\* SELECT ... FOR UPDATE waits while another refresh holds a row of the user.
RowsFree ==
    \A q \in Requests : request[q].phase = "locked" => request[q].rows \cap live = {}

\* Whether a tab still listens.
Wanted(r) == refreshing[request[r].tab] = r

Answer(r, n) ==
    request' = [request EXCEPT ![r] =
                   IF Wanted(r)
                   THEN [phase |-> "answered", tab |-> @.tab, token |-> @.token, result |-> n]
                   ELSE Free]

RefreshLocks(r) ==
    /\ request[r].phase = "sent"
    /\ request[r].token \in live
    /\ RowsFree
    /\ request' = [request EXCEPT ![r] =
                       [phase |-> "locked", tab |-> @.tab, token |-> @.token, rows |-> live]]
    /\ UNCHANGED <<serverVars, browserVars, refreshing, call, login, leaving, contested, losses>>

\* The row is deleted, the next pair inserted, both at the commit.
RefreshCommits(r) ==
    /\ request[r].phase = "locked"
    /\ issued < MaxTokens
    /\ issued' = issued + 1
    /\ live' = (live \ {request[r].token}) \cup {issued + 1}
    /\ parent' = [parent EXCEPT ![issued + 1] = request[r].token]
    /\ Answer(r, issued + 1)
    /\ UNCHANGED <<browserVars, refreshing, call, login, leaving, contested, losses>>

\* No row matches.  Every token of the user is deleted, then ValueError becomes a
\* 401 and provide_session rolls the deletions back.
RefreshRefused(r) ==
    /\ request[r].phase = "sent"
    /\ request[r].token \notin live
    /\ request[r].token = NoToken \/ RowsFree
    /\ Answer(r, NoToken)
    /\ UNCHANGED <<serverVars, browserVars, refreshing, call, login, leaving, contested, losses>>

\* The transaction dies before its commit.
RefreshRollsBack(r) ==
    /\ request[r].phase = "locked"
    /\ Lose
    /\ Answer(r, NoToken)
    /\ UNCHANGED <<serverVars, browserVars, refreshing, call, login, leaving, contested>>

\* Aborted before the server saw it.
RequestForgotten(r) ==
    /\ request[r].phase = "sent" /\ ~ Wanted(r)
    /\ request' = [request EXCEPT ![r] = Free]
    /\ UNCHANGED <<serverVars, browserVars, refreshing, call, login, leaving, contested, losses>>

-----------------------------------------------------------------------------
(* The answer to a refresh *)

\* Everyone who waited goes on; finalize ends the sharing.
Release(t) ==
    /\ refreshing' = [refreshing EXCEPT ![t] = NoRequest]
    /\ call' = [c \in Calls |-> IF c \in Subscribers(t) THEN Quiet ELSE call[c]]

\* Mutant: whatever comes back is stored.
RefreshTakenForSuccess(r) ==
    /\ request[r].phase = "answered"
    /\ SignIn(request[r].tab, request[r].result)
    /\ Release(request[r].tab)
    /\ request' = [request EXCEPT ![r] = Free]
    /\ UNCHANGED <<serverVars, login, leaving, contested, losses>>

\* The pair is stored, then the waiting calls are sent again with it; whatever
\* becomes of them, the interceptor does not refresh a second time.
RefreshSucceeds(r) ==
    /\ request[r].phase = "answered" /\ request[r].result # NoToken
    /\ LET t == request[r].tab IN
        /\ SignIn(t, request[r].result)
        /\ Release(t)
    /\ request' = [request EXCEPT ![r] = Free]
    /\ UNCHANGED <<serverVars, login, leaving, contested, losses>>

\* Whatever the error, the tokens in storage are dropped; those who waited fail.
RefreshToNothing(t) ==
    /\ SignOut(t)
    /\ Release(t)

RefreshFails(r) ==
    /\ request[r].phase = "answered" /\ request[r].result = NoToken
    /\ RefreshToNothing(request[r].tab)
    /\ request' = [request EXCEPT ![r] = Free]
    /\ UNCHANGED <<serverVars, login, leaving, contested, losses>>

\* The connection breaks; the server may be anywhere in its work and goes on.
RefreshBreaks(t) ==
    /\ refreshing[t] # NoRequest
    /\ Lose
    /\ RefreshToNothing(t)
    /\ HangUp(t)
    /\ UNCHANGED <<serverVars, login, leaving, contested>>

-----------------------------------------------------------------------------
(* Login and logout.  Bound: the customer waits for the answer to a login, and to
   a logout, before sending another one from another tab. *)

LoginServed(t) ==
    /\ ~ user[t]
    /\ \A u \in Tabs : login[u] = NoToken
    /\ issued < MaxTokens
    /\ issued' = issued + 1
    /\ live' = live \cup {issued + 1}
    /\ login' = [login EXCEPT ![t] = issued + 1]
    /\ UNCHANGED <<parent, browserVars, refreshing, request, call, leaving, contested, losses>>

LoginAnswered(t) ==
    /\ login[t] # NoToken
    /\ SignIn(t, login[t])
    /\ login' = [login EXCEPT ![t] = NoToken]
    /\ UNCHANGED <<serverVars, refreshing, request, call, leaving, contested, losses>>

LoginLost(t) ==
    /\ login[t] # NoToken
    /\ Lose
    /\ login' = [login EXCEPT ![t] = NoToken]
    /\ UNCHANGED <<serverVars, browserVars, refreshing, request, call, leaving, contested>>

\* The browser forgets first and tells the server afterwards.
Logout(t) ==
    /\ user[t]
    /\ \A u \in Tabs : leaving[u] = Stays
    /\ leaving' = [leaving EXCEPT ![t] = [phase |-> "sent", token |-> storage]]
    /\ SignOut(t)
    /\ contested' = contested \cup ({storage} \ {NoToken})
    /\ UNCHANGED <<serverVars, refreshing, request, call, login, losses>>

\* Mutant: revoke_all_user_tokens for the one the customer presents.
LogoutServedRevokesAll(t) ==
    /\ leaving[t].phase = "sent"
    /\ \A q \in Requests : request[q].phase # "locked"
    /\ live' = IF leaving[t].token \in live THEN {} ELSE live
    /\ leaving' = [leaving EXCEPT ![t] = Stays]
    /\ UNCHANGED <<issued, parent, browserVars, refreshing, request, call, login, contested,
                   losses>>

\* The lookup takes no lock, and deleting a row that is gone by then deletes
\* nothing; the DELETE itself waits for a refresh that holds the row.
LogoutServed(t) ==
    /\ leaving[t].phase = "sent"
    /\ \A q \in Requests :
        request[q].phase = "locked" => leaving[t].token \notin request[q].rows
    /\ live' = live \ {leaving[t].token}
    /\ \/ /\ leaving[t].token # NoToken
          /\ leaving' = [leaving EXCEPT ![t] = Stays]
          /\ UNCHANGED losses
       \/ /\ leaving[t].token # NoToken => Lose
          /\ leaving[t].token = NoToken => UNCHANGED losses
          /\ leaving' = [leaving EXCEPT ![t] = [phase |-> "failed"]]
    /\ UNCHANGED <<issued, parent, browserVars, refreshing, request, call, login, contested>>

\* The menu's error branch clears the storage again.
LogoutFails(t) ==
    /\ \/ leaving[t].phase = "failed" /\ UNCHANGED losses
       \/ leaving[t].phase = "sent" /\ Lose
    /\ SignOut(t)
    /\ leaving' = [leaving EXCEPT ![t] = Stays]
    /\ UNCHANGED <<serverVars, refreshing, request, call, login, contested>>

-----------------------------------------------------------------------------

CallStep(c) ==
    \/ \E t \in Tabs : CallRefused(c, t)
    \/ CallCancelled(c) \/ RefreshAborted(c)

RequestStep(r) ==
    \/ RefreshLocks(r) \/ RefreshCommits(r) \/ RefreshRefused(r) \/ RefreshRollsBack(r)
    \/ RequestForgotten(r) \/ RefreshSucceeds(r) \/ RefreshFails(r)

TabStep(t) ==
    \/ RefreshBreaks(t) \/ Starts(t) \/ SessionExpired(t)
    \/ LoginServed(t) \/ LoginAnswered(t) \/ LoginLost(t)
    \/ Logout(t) \/ LogoutServed(t) \/ LogoutFails(t)

Next ==
    \/ \E c \in Calls : CallStep(c)
    \/ \E r \in Requests : RequestStep(r)
    \/ \E t \in Tabs : TabStep(t)

Spec == Init /\ [][Next]_vars
=============================================================================
