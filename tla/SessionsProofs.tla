---------------------------- MODULE SessionsProofs ----------------------------
(***************************************************************************)
(* Proofs, for any number of tabs, calls, requests and pairs of tokens, of *)
(* what the run of MCSessions checks on a small instance.                  *)
(***************************************************************************)
EXTENDS SessionsProperties, TLAPS

-----------------------------------------------------------------------------
(* The invariant *)

Sent(r) == request[r].phase = "sent"
Locked(r) == request[r].phase = "locked"
Answered(r) == request[r].phase = "answered"
InFlight(r) == request[r].phase # "free"

\* Pairs are numbered in the order they are issued; a pair that can still be
\* exchanged has no successor.
IssueInv ==
    /\ live \subseteq 1 .. issued
    /\ stored \subseteq 1 .. issued
    /\ \A n \in Tokens :
        /\ parent[n] <= issued
        /\ n > issued => parent[n] = NoToken
        /\ parent[n] \notin live

\* The row lock: one refresh at a time is between its lookup and its commit, and
\* nobody deletes the row it found.
LockInv ==
    /\ \A r \in Requests : Locked(r) => request[r].token \in live \cap request[r].rows
    /\ \A q, r \in Requests : Locked(q) /\ Locked(r) => q = r

\* What was presented has been in the storage; what is on its way to the browser
\* has not, can still be exchanged, and is carried by one answer only.
CarriedInv ==
    /\ storage \in stored \cup {NoToken}
    /\ \A r \in Requests :
        /\ InFlight(r) => request[r].token \in stored \cup {NoToken}
        /\ Answered(r) => request[r].result \in (live \ stored) \cup {NoToken}
    /\ \A t \in Tabs : login[t] \in (live \ stored) \cup {NoToken}
    /\ \A q, r \in Requests :
        Answered(q) /\ Answered(r) /\ request[q].result = request[r].result
        /\ request[q].result # NoToken => q = r
    /\ \A t, u \in Tabs : login[t] = login[u] /\ login[t] # NoToken => t = u
    /\ \A r \in Requests, t \in Tabs :
        Answered(r) /\ request[r].result = login[t] => login[t] = NoToken

\* A logout tells the server of a pair that no longer is in the storage.
LeavingInv ==
    \A t \in Tabs : leaving[t].phase = "sent" =>
        \/ leaving[t].token = NoToken
        \/ leaving[t].token \in (stored \cap contested) \ {storage}

\* A tab knows the refresh its callers wait for.
SharingInv ==
    /\ \A t \in Tabs : refreshing[t] # NoRequest =>
        InFlight(refreshing[t]) /\ request[refreshing[t]].tab = t
    /\ \A c \in Calls : call[c].phase = "waiting" => refreshing[call[c].tab] # NoRequest

\* Who may find that its token was exchanged by somebody else.
ContestInv ==
    /\ \A r \in Requests : Sent(r) => request[r].token \in live \cup contested \cup {NoToken}
    /\ \A q, r \in Requests :
        InFlight(q) /\ InFlight(r) /\ request[q].token = request[r].token /\ q # r
            => request[q].token \in contested \cup {NoToken}
    /\ \A r \in Requests :
        InFlight(r) /\ request[r].token = storage /\ refreshing[request[r].tab] # r
            => storage \in contested \cup {NoToken}
    /\ \/ storage \in live \cup contested \cup {NoToken}
       \/ \E r \in Requests :
            InFlight(r) /\ request[r].token = storage /\ refreshing[request[r].tab] = r

Inv ==
    /\ TypeOK
    /\ IssueInv /\ LockInv /\ CarriedInv /\ LeavingInv
    /\ ExchangedOnce /\ StoredIsLive
    /\ SharingInv /\ ContestInv

-----------------------------------------------------------------------------
(* Type correctness *)

LEMMA RequestKinds ==
    ASSUME NEW q \in Request
    PROVE  /\ q.phase \in {"free", "sent", "locked", "answered"}
           /\ q.phase = "sent" => q \in [phase : {"sent"}, tab : Tabs, token : Tokens \cup {NoToken}]
           /\ q.phase = "locked" =>
                q \in [phase : {"locked"}, tab : Tabs, token : Tokens, rows : SUBSET Tokens]
           /\ q.phase = "answered" =>
                q \in [phase : {"answered"}, tab : Tabs, token : Tokens \cup {NoToken},
                       result : Tokens \cup {NoToken}]
           /\ q.phase = "free" <=> q = Free
           /\ q.phase # "free" => q.tab \in Tabs /\ q.token \in Tokens \cup {NoToken}
BY DEF Request, Free

LEMMA FreeIsRequest == Free \in Request
BY DEF Request

LEMMA CallKinds ==
    ASSUME NEW q \in Call
    PROVE  /\ q # Quiet <=> q.phase = "waiting"
           /\ q.phase = "waiting" => q.tab \in Tabs
BY DEF Call, Quiet

LEMMA LeavingKinds ==
    ASSUME NEW q \in Leaving
    PROVE  q.phase = "sent" => q.token \in Tokens \cup {NoToken}
BY DEF Leaving, Stays

LEMMA InitTypes == Init => TypeOK
<1> SUFFICES ASSUME Init PROVE TypeOK
  OBVIOUS
<1> QED
  BY BoundsAssumption DEF BoundsAssumption, Init, TypeOK, Tokens, NoToken, Request, Call, Leaving

\* What asks for a refresh leaves the requests, calls and tabs well typed.
LEMMA CallTypes ==
    ASSUME TypeOK, NEW c \in Calls, CallStep(c)
    PROVE  TypeOK'
<1> USE DEF serverVars, browserVars, TypeOK
<1>1. ASSUME NEW t \in Tabs, CallRefused(c, t) PROVE TypeOK'
  <2>1. [phase |-> "waiting", tab |-> t] \in Call
    BY DEF Call
  <2>2. [phase |-> "sent", tab |-> t, token |-> storage] \in Request
    BY DEF Request
  <2>3. refreshing' \in [Tabs -> Requests \cup {NoRequest}] /\ request' \in [Requests -> Request]
        /\ contested' \subseteq Tokens
    BY <1>1, <2>2 DEF CallRefused, RefreshToken, NoToken
  <2> QED
    BY <1>1, <2>1, <2>3 DEF CallRefused
<1>2. ASSUME NEW t \in Tabs, HangUp(t) PROVE request' \in [Requests -> Request]
  BY <1>2, FreeIsRequest DEF HangUp
<1>3. CASE CallCancelled(c)
  BY <1>3 DEF CallCancelled, Call
<1>4. CASE RefreshAborted(c)
  <2>1. call[c].tab \in Tabs
    BY <1>4, CallKinds DEF RefreshAborted
  <2> QED
    BY <1>2, <1>4, <2>1 DEF RefreshAborted, Call, NoToken
<1> QED
  BY <1>1, <1>3, <1>4 DEF CallStep

LEMMA RequestTypes ==
    ASSUME TypeOK, NEW r \in Requests, RequestStep(r)
    PROVE  TypeOK'
<1> USE DEF serverVars, browserVars, TypeOK
<1>0. request[r].phase # "free" => request[r].tab \in Tabs /\ request[r].token \in Tokens \cup {NoToken}
  BY RequestKinds
<1>1. ASSUME NEW n \in Tokens \cup {NoToken}, request[r].phase # "free", Answer(r, n)
      PROVE  request' \in [Requests -> Request]
  <2>1. [phase |-> "answered", tab |-> request[r].tab, token |-> request[r].token,
         result |-> n] \in Request
    BY <1>0, <1>1 DEF Request
  <2> QED
    BY <1>1, <2>1, FreeIsRequest DEF Answer
<1>2. ASSUME NEW t \in Tabs, Release(t)
      PROVE  refreshing' \in [Tabs -> Requests \cup {NoRequest}] /\ call' \in [Calls -> Call]
  BY <1>2 DEF Release, Call
<1>3. CASE RefreshLocks(r)
  <2>1. [phase |-> "locked", tab |-> request[r].tab, token |-> request[r].token,
         rows |-> live] \in Request
    BY <1>0, <1>3 DEF RefreshLocks, Request
  <2> QED
    BY <1>3, <2>1 DEF RefreshLocks
<1>4. CASE RefreshCommits(r)
  <2>1. issued + 1 \in Tokens /\ issued + 1 \in 0 .. MaxTokens
    BY <1>4, BoundsAssumption DEF BoundsAssumption, RefreshCommits, Tokens
  <2>2. request[r].token \in Tokens
    BY <1>4, RequestKinds DEF RefreshCommits
  <2> QED
    BY <1>1, <1>4, <2>1, <2>2 DEF RefreshCommits
<1>5. CASE RefreshRefused(r) \/ RequestForgotten(r)
  BY <1>1, <1>5, FreeIsRequest DEF RefreshRefused, RequestForgotten
<1>6. CASE RefreshRollsBack(r)
  BY <1>1, <1>6 DEF RefreshRollsBack, Lose
<1>7. CASE RefreshSucceeds(r)
  <2>1. request[r].result \in Tokens \cup {NoToken}
    BY <1>7, RequestKinds DEF RefreshSucceeds
  <2> QED
    BY <1>0, <1>2, <1>7, <2>1, FreeIsRequest DEF RefreshSucceeds, SignIn
<1>8. CASE RefreshFails(r)
  BY <1>0, <1>2, <1>8, FreeIsRequest DEF RefreshFails, RefreshToNothing, SignOut
<1> QED
  BY <1>3, <1>4, <1>5, <1>6, <1>7, <1>8 DEF RequestStep

LEMMA TabTypes ==
    ASSUME TypeOK, NEW t \in Tabs, TabStep(t)
    PROVE  TypeOK'
<1> USE DEF serverVars, browserVars, TypeOK
<1>1. CASE RefreshBreaks(t)
  <2>1. request' \in [Requests -> Request]
    BY <1>1, FreeIsRequest DEF RefreshBreaks, HangUp
  <2>2. refreshing' \in [Tabs -> Requests \cup {NoRequest}] /\ call' \in [Calls -> Call]
    BY <1>1 DEF RefreshBreaks, RefreshToNothing, Release, Call
  <2>3. losses' \in Nat
    BY <1>1 DEF RefreshBreaks, Lose
  <2> QED
    BY <1>1, <2>1, <2>2, <2>3 DEF RefreshBreaks, RefreshToNothing, SignOut
<1>2. CASE Starts(t) \/ SessionExpired(t)
  BY <1>2 DEF Starts, SessionExpired, SignOut
<1>3. CASE LoginServed(t)
  <2>1. issued + 1 \in Tokens /\ issued + 1 \in 0 .. MaxTokens
    BY <1>3, BoundsAssumption DEF BoundsAssumption, LoginServed, Tokens
  <2> QED
    BY <1>3, <2>1 DEF LoginServed
<1>4. CASE LoginAnswered(t)
  BY <1>4 DEF LoginAnswered, SignIn
<1>7. CASE LoginLost(t)
  BY <1>7 DEF LoginLost, Lose, NoToken
<1>5. CASE Logout(t)
  <2>1. [phase |-> "sent", token |-> storage] \in Leaving
    BY DEF Leaving
  <2> QED
    BY <1>5, <2>1 DEF Logout, SignOut
<1>6. CASE LogoutServed(t) \/ LogoutFails(t)
  <2>1. Stays \in Leaving /\ [phase |-> "failed"] \in Leaving
    BY DEF Leaving
  <2>2. leaving' \in [Tabs -> Leaving]
    BY <1>6, <2>1 DEF LogoutServed, LogoutFails
  <2>3. losses' \in Nat
    BY <1>6 DEF LogoutServed, LogoutFails, Lose
  <2> QED
    BY <1>6, <2>2, <2>3 DEF LogoutServed, LogoutFails, SignOut
<1> QED
  BY <1>1, <1>2, <1>3, <1>4, <1>5, <1>6, <1>7 DEF TabStep

LEMMA TypesKept ==
    ASSUME TypeOK, [Next]_vars
    PROVE  TypeOK'
<1>1. CASE Next
  BY <1>1, CallTypes, RequestTypes, TabTypes DEF Next
<1>2. CASE UNCHANGED vars
  BY <1>2 DEF vars, serverVars, browserVars, TypeOK
<1> QED
  BY <1>1, <1>2

-----------------------------------------------------------------------------
(* What a step may change *)

LEMMA ServerSteps ==
    ASSUME [Next]_vars
    PROVE  \/ UNCHANGED serverVars
           \/ \E r \in Requests : RefreshCommits(r)
           \/ \E t \in Tabs : LoginServed(t) \/ LogoutServed(t)
BY DEF Next, vars, CallStep, RequestStep, TabStep, CallRefused, CallCancelled, RefreshAborted,
       RefreshLocks, RefreshRefused, RefreshRollsBack, RequestForgotten, RefreshSucceeds,
       RefreshFails, RefreshBreaks, Starts, SessionExpired, LoginAnswered, LoginLost, Logout,
       LogoutFails

LEMMA StorageSteps ==
    ASSUME [Next]_vars
    PROVE  \/ UNCHANGED <<storage, stored>>
           \/ storage' = NoToken /\ UNCHANGED stored
           \/ \E r \in Requests : RefreshSucceeds(r)
           \/ \E t \in Tabs : LoginAnswered(t)
BY DEF Next, vars, browserVars, CallStep, RequestStep, TabStep, CallRefused, CallCancelled,
       RefreshAborted, RefreshLocks, RefreshCommits, RefreshRefused, RefreshRollsBack,
       RequestForgotten, RefreshFails, RefreshBreaks, RefreshToNothing, SignOut, Starts,
       SessionExpired, LoginServed, LoginLost, Logout, LogoutServed, LogoutFails

\* A request keeps its tab and its token until it is answered or given up.
LEMMA RequestSteps ==
    ASSUME TypeOK, [Next]_vars
    PROVE  \/ \E c \in Calls, t \in Tabs : CallRefused(c, t)
           \/ \A r \in Requests : InFlight(r)' =>
                /\ InFlight(r)
                /\ request'[r].token = request[r].token
                /\ request'[r].tab = request[r].tab
                /\ Sent(r)' => Sent(r)
<1> SUFFICES ASSUME NEW r \in Requests, InFlight(r)',
                    ~ \E c \in Calls, t \in Tabs : CallRefused(c, t)
             PROVE  InFlight(r) /\ request'[r].token = request[r].token
                    /\ request'[r].tab = request[r].tab /\ (Sent(r)' => Sent(r))
  OBVIOUS
<1> USE DEF InFlight, Sent, Free, TypeOK
<1> DEFINE Goes == InFlight(r) /\ request'[r].token = request[r].token
                   /\ request'[r].tab = request[r].tab /\ (Sent(r)' => Sent(r))
<1>1. ASSUME NEW q \in Requests, NEW n, request[q].phase # "free", Answer(q, n)
      PROVE  Goes
  BY <1>1 DEF Answer
<1>2. ASSUME NEW t \in Tabs, HangUp(t)
      PROVE  Goes
  BY <1>2 DEF HangUp
<1>3. CASE request' = request
  BY <1>3
<1>4. ASSUME NEW c \in Calls, CallStep(c)
      PROVE  Goes
  <2>1. CASE RefreshAborted(c)
    <3>1. call[c].tab \in Tabs
      BY <2>1, CallKinds DEF RefreshAborted
    <3> QED
      BY <1>2, <2>1, <3>1 DEF RefreshAborted
  <2> QED
    BY <1>3, <1>4, <2>1 DEF CallStep, CallCancelled
<1>5. ASSUME NEW q \in Requests, RequestStep(q)
      PROVE  Goes
  <2>1. CASE RefreshLocks(q)
    BY <2>1 DEF RefreshLocks
  <2>2. CASE RefreshCommits(q) \/ RefreshRefused(q) \/ RefreshRollsBack(q)
    BY <1>1, <2>2 DEF RefreshCommits, RefreshRefused, RefreshRollsBack
  <2>3. CASE RequestForgotten(q) \/ RefreshSucceeds(q) \/ RefreshFails(q)
    BY <2>3 DEF RequestForgotten, RefreshSucceeds, RefreshFails
  <2> QED
    BY <1>5, <2>1, <2>2, <2>3 DEF RequestStep
<1>6. ASSUME NEW t \in Tabs, TabStep(t)
      PROVE  Goes
  <2>1. CASE RefreshBreaks(t)
    BY <1>2, <2>1 DEF RefreshBreaks
  <2> QED
    BY <1>3, <1>6, <2>1 DEF TabStep, Starts, SessionExpired, LoginServed, LoginAnswered, LoginLost,
       Logout, LogoutServed, LogoutFails
<1> QED
  BY <1>3, <1>4, <1>5, <1>6 DEF Next, vars

\* Only its lookup locks the rows of a refresh.
LEMMA LockSteps ==
    ASSUME TypeOK, [Next]_vars
    PROVE  \/ \E r \in Requests : RefreshLocks(r)
           \/ \A r \in Requests : Locked(r)' => request'[r] = request[r]
<1> SUFFICES ASSUME NEW r \in Requests, Locked(r)', ~ \E q \in Requests : RefreshLocks(q)
             PROVE  request'[r] = request[r]
  OBVIOUS
<1> USE DEF Locked, Free, TypeOK
<1>1. ASSUME NEW q \in Requests, NEW n, Answer(q, n) PROVE request'[r] = request[r]
  BY <1>1 DEF Answer
<1>2. ASSUME NEW t \in Tabs, HangUp(t) PROVE request'[r] = request[r]
  BY <1>2 DEF HangUp
<1>3. ASSUME NEW c \in Calls, CallStep(c) PROVE request'[r] = request[r]
  <2>1. ASSUME NEW t \in Tabs, CallRefused(c, t) PROVE request'[r] = request[r]
    BY <2>1 DEF CallRefused, RefreshToken
  <2>2. CASE RefreshAborted(c)
    <3>1. call[c].tab \in Tabs
      BY <2>2, CallKinds DEF RefreshAborted
    <3> QED
      BY <1>2, <2>2, <3>1 DEF RefreshAborted
  <2> QED
    BY <1>3, <2>1, <2>2 DEF CallStep, CallCancelled
<1>4. ASSUME NEW q \in Requests, RequestStep(q) PROVE request'[r] = request[r]
  <2>1. CASE RefreshCommits(q) \/ RefreshRefused(q) \/ RefreshRollsBack(q)
    BY <1>1, <2>1 DEF RefreshCommits, RefreshRefused, RefreshRollsBack
  <2>2. CASE RequestForgotten(q) \/ RefreshSucceeds(q) \/ RefreshFails(q)
    BY <2>2 DEF RequestForgotten, RefreshSucceeds, RefreshFails
  <2> QED
    BY <1>4, <2>1, <2>2 DEF RequestStep
<1>5. ASSUME NEW t \in Tabs, TabStep(t) PROVE request'[r] = request[r]
  <2>1. CASE RefreshBreaks(t)
    BY <1>2, <2>1 DEF RefreshBreaks
  <2> QED
    BY <1>5, <2>1 DEF TabStep, Starts, SessionExpired, LoginServed, LoginAnswered, LoginLost,
       Logout, LogoutServed, LogoutFails
<1> QED
  BY <1>3, <1>4, <1>5 DEF Next, vars

\* A pair is answered by the commit that issues it.
LEMMA AnswerSteps ==
    ASSUME TypeOK, [Next]_vars, NEW r \in Requests, Answered(r)'
    PROVE  \/ request'[r] = request[r]
           \/ request'[r].result = NoToken
           \/ RefreshCommits(r) /\ request'[r].result = issued + 1
<1> USE DEF Answered, Free, TypeOK
<1> DEFINE G == \/ request'[r] = request[r]
                \/ request'[r].result = NoToken
                \/ RefreshCommits(r) /\ request'[r].result = issued + 1
<1>1. ASSUME NEW t \in Tabs, HangUp(t) PROVE G
  BY <1>1 DEF HangUp
<1>2. ASSUME NEW c \in Calls, CallStep(c) PROVE G
  <2>1. ASSUME NEW t \in Tabs, CallRefused(c, t) PROVE G
    BY <2>1 DEF CallRefused, RefreshToken
  <2>2. CASE RefreshAborted(c)
    <3>1. call[c].tab \in Tabs
      BY <2>2, CallKinds DEF RefreshAborted
    <3> QED
      BY <1>1, <2>2, <3>1 DEF RefreshAborted
  <2> QED
    BY <1>2, <2>1, <2>2 DEF CallStep, CallCancelled
<1>3. ASSUME NEW q \in Requests, RequestStep(q) PROVE G
  <2>1. CASE RefreshCommits(q)
    <3>1. Answer(q, issued + 1)
      BY <2>1 DEF RefreshCommits
    <3>2. q # r => request'[r] = request[r]
      BY <3>1 DEF Answer
    <3>3. q = r => request'[r].result = issued + 1
      BY <3>1 DEF Answer
    <3> QED
      BY <2>1, <3>2, <3>3
  <2>2. CASE RefreshRefused(q) \/ RefreshRollsBack(q)
    BY <2>2 DEF RefreshRefused, RefreshRollsBack, Answer
  <2>3. CASE RefreshLocks(q)
    BY <2>3 DEF RefreshLocks
  <2>4. CASE RequestForgotten(q) \/ RefreshSucceeds(q) \/ RefreshFails(q)
    BY <2>4 DEF RequestForgotten, RefreshSucceeds, RefreshFails
  <2> QED
    BY <1>3, <2>1, <2>2, <2>3, <2>4 DEF RequestStep
<1>4. ASSUME NEW t \in Tabs, TabStep(t) PROVE G
  <2>1. CASE RefreshBreaks(t)
    BY <1>1, <2>1 DEF RefreshBreaks
  <2> QED
    BY <1>4, <2>1 DEF TabStep, Starts, SessionExpired, LoginServed, LoginAnswered, LoginLost,
       Logout, LogoutServed, LogoutFails
<1> QED
  BY <1>2, <1>3, <1>4 DEF Next, vars

\* A pair reaches a tab by the login that issues it.
LEMMA LoginSteps ==
    ASSUME TypeOK, [Next]_vars, NEW t \in Tabs
    PROVE  \/ login'[t] \in {login[t], NoToken}
           \/ LoginServed(t) /\ login'[t] = issued + 1
<1>1. CASE login' = login
  BY <1>1
<1>2. ASSUME NEW u \in Tabs, LoginServed(u)
      PROVE  login'[t] = login[t] \/ (LoginServed(t) /\ login'[t] = issued + 1)
  <2>1. login' = [login EXCEPT ![u] = issued + 1]
    BY <1>2 DEF LoginServed
  <2>2. CASE u = t
    BY <1>2, <2>1, <2>2 DEF TypeOK
  <2>3. CASE u # t
    BY <2>1, <2>3 DEF TypeOK
  <2> QED
    BY <2>2, <2>3
<1>3. ASSUME NEW u \in Tabs, LoginAnswered(u) \/ LoginLost(u)
      PROVE  login'[t] \in {login[t], NoToken}
  BY <1>3 DEF LoginAnswered, LoginLost, TypeOK
<1>4. \/ login' = login
      \/ \E u \in Tabs : LoginServed(u) \/ LoginAnswered(u) \/ LoginLost(u)
  BY DEF Next, vars, CallStep, RequestStep, TabStep, CallRefused, CallCancelled, RefreshAborted,
         RefreshLocks, RefreshCommits, RefreshRefused, RefreshRollsBack, RequestForgotten,
         RefreshSucceeds, RefreshFails, RefreshBreaks, Starts, SessionExpired, Logout,
         LogoutServed, LogoutFails
<1> QED
  BY <1>1, <1>2, <1>3, <1>4

-----------------------------------------------------------------------------
(* Each part of the invariant is kept *)

LEMMA InitInv == Init => Inv
<1> SUFFICES ASSUME Init PROVE Inv
  OBVIOUS
<1>1. TypeOK
  BY InitTypes
<1>2. IssueInv /\ LockInv /\ LeavingInv
  BY BoundsAssumption
  DEF BoundsAssumption, Init, IssueInv, LockInv, LeavingInv, Locked, Free, Stays, Tokens, NoToken
<1>3. CarriedInv /\ SharingInv /\ ContestInv
  BY DEF Init, CarriedInv, SharingInv, ContestInv, Sent, Answered, InFlight, Free, Quiet, NoToken
<1>4. ExchangedOnce /\ StoredIsLive
  BY DEF Init, ExchangedOnce, StoredIsLive
<1> QED
  BY <1>1, <1>2, <1>3, <1>4 DEF Inv

LEMMA IssueKept ==
    ASSUME TypeOK, IssueInv, LockInv, CarriedInv, [Next]_vars
    PROVE  IssueInv'
<1> USE DEF IssueInv, TypeOK, Tokens, NoToken
<1>0. issued \in Nat /\ (issued < MaxTokens => issued + 1 \in Tokens)
  BY BoundsAssumption DEF BoundsAssumption
<1>1. ASSUME NEW r \in Requests, RefreshCommits(r) PROVE IssueInv'
  <2>1. /\ live' = (live \ {request[r].token}) \cup {issued + 1}
        /\ parent' = [parent EXCEPT ![issued + 1] = request[r].token]
        /\ issued' = issued + 1 /\ stored' = stored
    BY <1>1 DEF RefreshCommits, browserVars
  <2>2. request[r].token \in live
    BY <1>1 DEF RefreshCommits, LockInv, Locked
  <2>3. issued + 1 \in Tokens /\ request[r].token \in 1 .. issued
    BY <1>0, <1>1, <2>2 DEF RefreshCommits
  <2>4. live' \subseteq 1 .. issued' /\ stored' \subseteq 1 .. issued'
    <3>1. \A n \in 1 .. issued : n \in 1 .. issued'
      BY <1>0, <2>1
    <3>2. issued + 1 \in 1 .. issued'
      BY <1>0, <2>1
    <3> QED
      BY <2>1, <3>1, <3>2
  <2>5. ASSUME NEW n \in Tokens
        PROVE  parent'[n] <= issued' /\ (n > issued' => parent'[n] = NoToken)
               /\ parent'[n] \notin live'
    <3>1. CASE n = issued + 1
      BY <2>1, <2>2, <2>3, <3>1
    <3>2. CASE n # issued + 1
      <4>1. parent'[n] = parent[n] /\ parent[n] \in Nat /\ parent[n] <= issued
            /\ parent[n] \notin live
        BY <2>1, <3>2
      <4>2. n > issued' => parent[n] = NoToken
        BY <2>1
      <4> QED
        BY <2>1, <4>1, <4>2
    <3> QED
      BY <3>1, <3>2
  <2> QED
    BY <2>4, <2>5
<1>2. ASSUME NEW t \in Tabs, LoginServed(t) PROVE IssueInv'
  BY <1>2, BoundsAssumption DEF BoundsAssumption, LoginServed, browserVars
<1>3. ASSUME NEW t \in Tabs, LogoutServed(t) PROVE IssueInv'
  BY <1>3 DEF LogoutServed, browserVars
<1>4. CASE UNCHANGED serverVars
  <2>1. stored' \subseteq 1 .. issued
    <3>1. ASSUME NEW r \in Requests, RefreshSucceeds(r) PROVE stored' \subseteq 1 .. issued
      BY <3>1 DEF RefreshSucceeds, SignIn, CarriedInv, Answered
    <3>2. ASSUME NEW t \in Tabs, LoginAnswered(t) PROVE stored' \subseteq 1 .. issued
      BY <3>2 DEF LoginAnswered, SignIn, CarriedInv
    <3> QED
      BY <3>1, <3>2, StorageSteps
  <2> QED
    BY <1>4, <2>1 DEF serverVars
<1> QED
  BY <1>1, <1>2, <1>3, <1>4, ServerSteps

\* Whoever deletes a row waits for the refresh that holds it.
LEMMA LockKept ==
    ASSUME TypeOK, IssueInv, LockInv, [Next]_vars
    PROVE  LockInv'
<1> USE DEF LockInv, Locked
<1>1. ASSUME NEW r \in Requests, RefreshLocks(r) PROVE LockInv'
  <2>1. \A q \in Requests : ~ Locked(q)
    BY <1>1 DEF RefreshLocks, RowsFree
  <2> QED
    BY <1>1, <2>1 DEF RefreshLocks, serverVars, TypeOK
<1>2. CASE \A r \in Requests : Locked(r)' => request'[r] = request[r]
  <2>1. \A q, r \in Requests : Locked(q)' /\ Locked(r)' => q = r
    BY <1>2
  <2>2. ASSUME NEW q \in Requests, Locked(q)'
        PROVE  request'[q].token \in live' \cap request'[q].rows
    <3>1. Locked(q) /\ request'[q] = request[q]
      BY <1>2, <2>2
    <3>2. ASSUME NEW r \in Requests, RefreshCommits(r) PROVE request[q].token \in live'
      <4>1. r = q
        BY <3>1, <3>2 DEF RefreshCommits
      <4>2. ~ Locked(q)'
        BY <3>2, <4>1 DEF RefreshCommits, Answer, Free, TypeOK
      <4> QED
        BY <2>2, <4>2
    <3>3. ASSUME NEW t \in Tabs, LogoutServed(t) PROVE request[q].token \in live'
      BY <3>1, <3>3 DEF LogoutServed
    <3>4. ASSUME NEW t \in Tabs, LoginServed(t) PROVE request[q].token \in live'
      BY <3>1, <3>4 DEF LoginServed
    <3> QED
      BY <3>1, <3>2, <3>3, <3>4, ServerSteps DEF serverVars
  <2> QED
    BY <2>1, <2>2
<1> QED
  BY <1>1, <1>2, LockSteps

\* A pair the browser has not stored cannot be presented, so it stays live.
LEMMA UnstoredStays ==
    ASSUME TypeOK, IssueInv, CarriedInv, LeavingInv, [Next]_vars, NEW n \in live \ stored
    PROVE  n \in live'
<1>0. n # NoToken
  BY DEF IssueInv, NoToken, TypeOK
<1>1. ASSUME NEW r \in Requests, RefreshCommits(r) PROVE n \in live'
  <2>1. request[r].token \in stored \cup {NoToken}
    BY <1>1 DEF RefreshCommits, CarriedInv, InFlight
  <2> QED
    BY <1>0, <1>1, <2>1 DEF RefreshCommits
<1>2. ASSUME NEW t \in Tabs, LogoutServed(t) PROVE n \in live'
  <2>1. leaving[t].token \in stored \cup {NoToken}
    BY <1>2 DEF LogoutServed, LeavingInv
  <2> QED
    BY <1>0, <1>2, <2>1 DEF LogoutServed
<1>3. ASSUME NEW t \in Tabs, LoginServed(t) PROVE n \in live'
  BY <1>3 DEF LoginServed
<1> QED
  BY <1>1, <1>2, <1>3, ServerSteps DEF serverVars

\* What comes to the storage is what its carrier no longer carries.
LEMMA CarriedStays ==
    ASSUME TypeOK, CarriedInv, [Next]_vars
    PROVE  /\ stored \subseteq stored' /\ storage' \in stored' \cup {NoToken}
           /\ \A r \in Requests :
                Answered(r)' /\ request'[r] = request[r] /\ request[r].result # NoToken
                    => request[r].result \notin stored'
           /\ \A t \in Tabs :
                login'[t] = login[t] /\ login[t] # NoToken => login[t] \notin stored'
<1>1. CASE UNCHANGED stored /\ (UNCHANGED storage \/ storage' = NoToken)
  BY <1>1 DEF CarriedInv, Answered
<1>2. ASSUME NEW q \in Requests, RefreshSucceeds(q)
      PROVE  /\ stored \subseteq stored' /\ storage' \in stored' \cup {NoToken}
             /\ \A r \in Requests :
                  Answered(r)' /\ request'[r] = request[r] /\ request[r].result # NoToken
                      => request[r].result \notin stored'
             /\ \A t \in Tabs :
                  login'[t] = login[t] /\ login[t] # NoToken => login[t] \notin stored'
  <2>1. /\ Answered(q) /\ stored' = stored \cup {request[q].result}
        /\ storage' = request[q].result /\ ~ Answered(q)'
    BY <1>2 DEF RefreshSucceeds, SignIn, Answered, Free, TypeOK
  <2>2. ASSUME NEW r \in Requests, Answered(r)', request'[r] = request[r],
               request[r].result # NoToken
        PROVE  request[r].result \notin stored'
    <3>1. r # q /\ Answered(r)
      BY <2>1, <2>2 DEF Answered
    <3> QED
      BY <2>1, <2>2, <3>1 DEF CarriedInv
  <2>3. ASSUME NEW t \in Tabs, login[t] # NoToken PROVE login[t] \notin stored'
    BY <2>1, <2>3 DEF CarriedInv
  <2> QED
    BY <2>1, <2>2, <2>3
<1>3. ASSUME NEW u \in Tabs, LoginAnswered(u)
      PROVE  /\ stored \subseteq stored' /\ storage' \in stored' \cup {NoToken}
             /\ \A r \in Requests :
                  Answered(r)' /\ request'[r] = request[r] /\ request[r].result # NoToken
                      => request[r].result \notin stored'
             /\ \A t \in Tabs :
                  login'[t] = login[t] /\ login[t] # NoToken => login[t] \notin stored'
  <2>1. /\ login[u] # NoToken /\ stored' = stored \cup {login[u]} /\ storage' = login[u]
        /\ login'[u] = NoToken
    BY <1>3 DEF LoginAnswered, SignIn, TypeOK
  <2>2. ASSUME NEW r \in Requests, Answered(r)', request'[r] = request[r],
               request[r].result # NoToken
        PROVE  request[r].result \notin stored'
    <3>1. Answered(r)
      BY <2>2 DEF Answered
    <3> QED
      BY <2>1, <2>2, <3>1 DEF CarriedInv
  <2>3. ASSUME NEW t \in Tabs, login'[t] = login[t], login[t] # NoToken
        PROVE  login[t] \notin stored'
    BY <2>1, <2>3 DEF CarriedInv
  <2> QED
    BY <2>1, <2>2, <2>3
<1> QED
  BY <1>1, <1>2, <1>3, StorageSteps

LEMMA CarriedKept ==
    ASSUME TypeOK, IssueInv, CarriedInv, LeavingInv, [Next]_vars
    PROVE  CarriedInv'
<1>1. storage' \in stored' \cup {NoToken}
  BY CarriedStays
<1>2. ASSUME NEW r \in Requests, InFlight(r)' PROVE request'[r].token \in stored' \cup {NoToken}
  <2>1. ASSUME NEW c \in Calls, NEW t \in Tabs, CallRefused(c, t)
        PROVE  request'[r].token \in stored' \cup {NoToken}
    <3>1. request'[r] = request[r] \/ request'[r].token = storage
      BY <2>1 DEF CallRefused, RefreshToken, TypeOK
    <3>2. stored' = stored
      BY <2>1 DEF CallRefused, browserVars
    <3> QED
      BY <1>2, <3>1, <3>2 DEF CarriedInv, InFlight
  <2> QED
    BY <1>2, <2>1, RequestSteps, CarriedStays DEF CarriedInv
<1>0. issued \in Nat /\ issued + 1 # NoToken /\ issued + 1 \notin live /\ issued + 1 \notin stored
  BY DEF TypeOK, IssueInv, NoToken
<1>3. ASSUME NEW r \in Requests, RefreshCommits(r)
      PROVE  issued + 1 \in live' \ stored' /\ UNCHANGED login
             /\ \A q \in Requests : q # r => request'[q] = request[q]
  BY <1>0, <1>3 DEF RefreshCommits, Answer, browserVars, TypeOK
<1>4. ASSUME NEW t \in Tabs, LoginServed(t)
      PROVE  issued + 1 \in live' \ stored' /\ UNCHANGED request
             /\ \A u \in Tabs : u # t => login'[u] = NoToken
  BY <1>0, <1>4 DEF LoginServed, browserVars, TypeOK
<1>5. ASSUME NEW r \in Requests, Answered(r)'
      PROVE  \/ request'[r] = request[r] /\ Answered(r)
             \/ request'[r].result = NoToken
             \/ RefreshCommits(r) /\ request'[r].result = issued + 1
  BY <1>5, AnswerSteps DEF Answered
<1>6. ASSUME NEW r \in Requests, Answered(r)'
      PROVE  request'[r].result \in (live' \ stored') \cup {NoToken}
  <2>1. CASE request'[r] = request[r] /\ Answered(r) /\ request[r].result # NoToken
    <3>1. request[r].result \in live \ stored
      BY <2>1 DEF CarriedInv
    <3> QED
      BY <1>6, <2>1, <3>1, UnstoredStays, CarriedStays
  <2> QED
    BY <1>3, <1>5, <1>6, <2>1
<1>7. ASSUME NEW t \in Tabs PROVE login'[t] \in (live' \ stored') \cup {NoToken}
  <2>1. CASE login'[t] = login[t] /\ login[t] # NoToken
    <3>1. login[t] \in live \ stored
      BY <2>1 DEF CarriedInv
    <3> QED
      BY <2>1, <3>1, UnstoredStays, CarriedStays
  <2> QED
    BY <1>4, <2>1, LoginSteps
<1>8. ASSUME NEW q \in Requests, NEW r \in Requests, Answered(q)', Answered(r)',
             request'[q].result = request'[r].result, request'[q].result # NoToken
      PROVE  q = r
  <2>1. CASE Answered(q) /\ Answered(r) /\ request'[q] = request[q] /\ request'[r] = request[r]
    BY <1>8, <2>1 DEF CarriedInv
  <2>2. CASE RefreshCommits(q) /\ request'[q].result = issued + 1
    <3>1. ~ (Answered(r) /\ request'[r] = request[r])
      BY <1>0, <1>8, <2>2 DEF CarriedInv
    <3> QED
      BY <1>3, <1>8, <2>2, <3>1 DEF Answered
  <2>3. CASE RefreshCommits(r) /\ request'[r].result = issued + 1
    <3>1. ~ (Answered(q) /\ request'[q] = request[q])
      BY <1>0, <1>8, <2>3 DEF CarriedInv
    <3> QED
      BY <1>3, <1>8, <2>3, <3>1 DEF Answered
  <2> QED
    BY <1>5, <1>8, <2>1, <2>2, <2>3
<1>9. ASSUME NEW t \in Tabs, NEW u \in Tabs, login'[t] = login'[u], login'[t] # NoToken
      PROVE  t = u
  <2>1. CASE login'[t] = login[t] /\ login'[u] = login[u]
    BY <1>9, <2>1 DEF CarriedInv
  <2> QED
    BY <1>4, <1>9, <2>1, LoginSteps
<1>10. ASSUME NEW r \in Requests, NEW t \in Tabs, Answered(r)', request'[r].result = login'[t]
       PROVE  login'[t] = NoToken
  <2>1. CASE request'[r] = request[r] /\ Answered(r) /\ login'[t] = login[t]
    BY <1>10, <2>1 DEF CarriedInv
  <2>2. CASE RefreshCommits(r) /\ request'[r].result = issued + 1
    <3>1. login'[t] = login[t]
      BY <1>3, <2>2
    <3> QED
      BY <1>0, <1>10, <2>2, <3>1 DEF CarriedInv
  <2>3. CASE LoginServed(t) /\ login'[t] = issued + 1
    <3>1. request'[r] = request[r] /\ Answered(r)
      BY <1>4, <1>10, <2>3 DEF Answered
    <3> QED
      BY <1>0, <1>10, <2>3, <3>1 DEF CarriedInv
  <2> QED
    BY <1>5, <1>10, <2>1, <2>2, <2>3, LoginSteps
<1> QED
  BY <1>1, <1>2, <1>6, <1>7, <1>8, <1>9, <1>10 DEF CarriedInv

LEMMA ContestedGrows ==
    ASSUME [Next]_vars
    PROVE  contested \subseteq contested'
BY DEF Next, vars, CallStep, RequestStep, TabStep, CallRefused, CallCancelled, RefreshAborted,
       RefreshLocks, RefreshCommits, RefreshRefused, RefreshRollsBack, RequestForgotten,
       RefreshSucceeds, RefreshFails, RefreshBreaks, Starts, SessionExpired, LoginServed,
       LoginAnswered, LoginLost, Logout, LogoutServed, LogoutFails, RefreshToken

LEMMA LeavingKept ==
    ASSUME TypeOK, CarriedInv, LeavingInv, [Next]_vars
    PROVE  LeavingInv'
<1> SUFFICES ASSUME NEW t \in Tabs, leaving'[t].phase = "sent"
             PROVE  \/ leaving'[t].token = NoToken
                    \/ leaving'[t].token \in (stored' \cap contested') \ {storage'}
  BY DEF LeavingInv
<1>1. contested \subseteq contested'
  BY ContestedGrows
<1>2. CASE leaving'[t] = leaving[t] /\ leaving[t].token # NoToken
  <2>1. leaving[t].token \in (stored \cap contested) \ {storage}
    BY <1>2 DEF LeavingInv
  <2>2. storage' \in {storage, NoToken} \/ storage' \notin stored
    <3>1. ASSUME NEW r \in Requests, RefreshSucceeds(r) PROVE storage' \notin stored
      BY <3>1 DEF RefreshSucceeds, SignIn, CarriedInv, Answered
    <3>2. ASSUME NEW u \in Tabs, LoginAnswered(u) PROVE storage' \notin stored
      BY <3>2 DEF LoginAnswered, SignIn, CarriedInv
    <3> QED
      BY <3>1, <3>2, StorageSteps
  <2> QED
    BY <1>1, <1>2, <2>1, <2>2, CarriedStays
<1>3. ASSUME NEW u \in Tabs, Logout(u), leaving'[t] # leaving[t]
      PROVE  \/ leaving'[t].token = NoToken
             \/ leaving'[t].token \in (stored' \cap contested') \ {storage'}
  <2>1. leaving'[t].token = storage
    BY <1>3 DEF Logout, TypeOK
  <2> QED
    BY <1>3, <2>1 DEF Logout, SignOut, CarriedInv
<1>4. ASSUME NEW u \in Tabs, LogoutServed(u) \/ LogoutFails(u) PROVE leaving'[t] = leaving[t]
  BY <1>4 DEF LogoutServed, LogoutFails, Stays, TypeOK
<1>5. leaving' = leaving \/ \E u \in Tabs : Logout(u) \/ LogoutServed(u) \/ LogoutFails(u)
  BY DEF Next, vars, CallStep, RequestStep, TabStep, CallRefused, CallCancelled, RefreshAborted,
         RefreshLocks, RefreshCommits, RefreshRefused, RefreshRollsBack, RequestForgotten,
         RefreshSucceeds, RefreshFails, RefreshBreaks, Starts, SessionExpired, LoginServed,
         LoginAnswered, LoginLost
<1> QED
  BY <1>2, <1>3, <1>4, <1>5

\* The exchange that commits finds a token without a successor.
LEMMA ExchangeKept ==
    ASSUME TypeOK, IssueInv, LockInv, ExchangedOnce, [Next]_vars
    PROVE  ExchangedOnce'
<1>1. ASSUME NEW r \in Requests, RefreshCommits(r) PROVE ExchangedOnce'
  <2>1. request[r].token \in live
    BY <1>1 DEF RefreshCommits, LockInv, Locked
  <2>2. parent' = [parent EXCEPT ![issued + 1] = request[r].token]
    BY <1>1 DEF RefreshCommits
  <2>3. \A n \in Tokens : parent[n] # request[r].token
    BY <2>1 DEF IssueInv
  <2> QED
    BY <2>2, <2>3 DEF ExchangedOnce, TypeOK
<1>2. CASE UNCHANGED parent
  BY <1>2 DEF ExchangedOnce
<1> QED
  BY <1>1, <1>2, ServerSteps DEF serverVars, LoginServed, LogoutServed

\* A live pair leaves the storage only by a sign-out, and is revoked only after.
LEMMA StoredKept ==
    ASSUME TypeOK, IssueInv, CarriedInv, LeavingInv, StoredIsLive, [Next]_vars
    PROVE  StoredIsLive'
<1> USE DEF StoredIsLive
<1>1. CASE storage' = NoToken
  BY <1>1
<1>2. CASE UNCHANGED <<storage, stored>>
  <2>1. ASSUME NEW r \in Requests, RefreshCommits(r) PROVE StoredIsLive'
    <3>1. /\ issued + 1 \in Tokens \ stored
          /\ parent' = [parent EXCEPT ![issued + 1] = request[r].token]
          /\ live' = (live \ {request[r].token}) \cup {issued + 1}
      BY <2>1, BoundsAssumption
      DEF BoundsAssumption, RefreshCommits, IssueInv, Tokens, TypeOK
    <3>2. CASE storage = request[r].token
      BY <1>2, <3>1, <3>2 DEF TypeOK
    <3>3. CASE storage # request[r].token /\ storage \in live \cup {NoToken}
      BY <1>2, <3>1, <3>3
    <3>4. CASE storage # NoToken /\ \E n \in Tokens \ stored : parent[n] = storage
      <4>1. PICK n \in Tokens \ stored : parent[n] = storage
        BY <3>4
      <4>2. n # issued + 1
        BY <3>1, <3>4, <4>1 DEF IssueInv, TypeOK
      <4> QED
        BY <1>2, <3>1, <4>1, <4>2 DEF TypeOK
    <3> QED
      BY <3>2, <3>3, <3>4
  <2>2. ASSUME NEW t \in Tabs, LogoutServed(t) PROVE StoredIsLive'
    <3>1. leaving[t].token # storage \/ leaving[t].token = NoToken
      BY <2>2 DEF LogoutServed, LeavingInv
    <3> QED
      BY <1>2, <2>2, <3>1 DEF LogoutServed
  <2>3. ASSUME NEW t \in Tabs, LoginServed(t) PROVE StoredIsLive'
    BY <1>2, <2>3 DEF LoginServed
  <2> QED
    BY <1>2, <2>1, <2>2, <2>3, ServerSteps DEF serverVars
<1>3. ASSUME NEW r \in Requests, RefreshSucceeds(r) PROVE StoredIsLive'
  BY <1>3 DEF RefreshSucceeds, SignIn, serverVars, CarriedInv, Answered
<1>4. ASSUME NEW t \in Tabs, LoginAnswered(t) PROVE StoredIsLive'
  BY <1>4 DEF LoginAnswered, SignIn, serverVars, CarriedInv
<1> QED
  BY <1>1, <1>2, <1>3, <1>4, StorageSteps

\* A refresh a tab waits for goes on until it is answered or the tab lets it go.
LEMMA WantedSteps ==
    ASSUME TypeOK, SharingInv, [Next]_vars,
           NEW r \in Requests, InFlight(r), refreshing[request[r].tab] = r
    PROVE  \/ /\ InFlight(r)'
              /\ request'[r].tab = request[r].tab /\ request'[r].token = request[r].token
              /\ refreshing'[request[r].tab] = r
           \/ /\ refreshing'[request[r].tab] = NoRequest
              /\ \/ storage' = NoToken
                 \/ storage \in contested' \cup {NoToken}
                 \/ \E q \in Requests : RefreshSucceeds(q)
<1> USE DEF InFlight, Free, TypeOK
<1> DEFINE t == request[r].tab
           Lasts == /\ InFlight(r)'
                    /\ request'[r].tab = request[r].tab /\ request'[r].token = request[r].token
                    /\ refreshing'[t] = r
           Ends == /\ refreshing'[t] = NoRequest
                   /\ \/ storage' = NoToken
                      \/ storage \in contested' \cup {NoToken}
                      \/ \E q \in Requests : RefreshSucceeds(q)
<1>0. t \in Tabs
  BY RequestKinds
<1>1. ASSUME NEW u \in Tabs, HangUp(u), u # t
      PROVE  request'[r] = request[r]
  BY <1>1, NoRequestAssumption DEF NoRequestAssumption, HangUp, SharingInv
<1>2. ASSUME NEW u \in Tabs, Release(u)
      PROVE  IF u = t THEN refreshing'[t] = NoRequest ELSE refreshing'[t] = r
  BY <1>0, <1>2 DEF Release
<1>3. ASSUME NEW q \in Requests, NEW n, request[q].phase # "free", Answer(q, n), UNCHANGED refreshing
      PROVE  Lasts
  BY <1>3 DEF Answer, Wanted
<1>4. CASE UNCHANGED <<request, refreshing>>
  BY <1>4
<1>5. ASSUME NEW c \in Calls, CallStep(c) PROVE Lasts \/ Ends
  <2>1. ASSUME NEW u \in Tabs, CallRefused(c, u) PROVE Lasts
    <3>1. CASE UNCHANGED <<request, refreshing>>
      BY <1>4, <3>1
    <3>2. ASSUME NEW q \in Requests, request[q] = Free, refreshing[u] = NoRequest,
                 refreshing' = [refreshing EXCEPT ![u] = q],
                 request' = [request EXCEPT ![q] =
                                 [phase |-> "sent", tab |-> u, token |-> storage]]
          PROVE  Lasts
      <4>1. q # r /\ u # t
        BY <3>2, NoRequestAssumption DEF NoRequestAssumption
      <4> QED
        BY <1>0, <3>2, <4>1
    <3> QED
      BY <2>1, <3>1, <3>2 DEF CallRefused, RefreshToken
  <2>2. CASE RefreshAborted(c)
    <3>1. call[c].tab \in Tabs
      BY <2>2, CallKinds DEF RefreshAborted
    <3>2. CASE call[c].tab = t
      BY <1>0, <2>2, <3>2 DEF RefreshAborted
    <3>3. CASE call[c].tab # t
      BY <1>0, <1>1, <2>2, <3>1, <3>3 DEF RefreshAborted
    <3> QED
      BY <3>2, <3>3
  <2> QED
    BY <1>4, <1>5, <2>1, <2>2 DEF CallStep, CallCancelled
<1>6. ASSUME NEW q \in Requests, RequestStep(q) PROVE Lasts \/ Ends
  <2>1. CASE RefreshCommits(q) \/ RefreshRefused(q) \/ RefreshRollsBack(q)
    BY <1>3, <2>1 DEF RefreshCommits, RefreshRefused, RefreshRollsBack
  <2>2. CASE RefreshLocks(q)
    BY <2>2 DEF RefreshLocks
  <2>3. CASE RequestForgotten(q)
    BY <2>3 DEF RequestForgotten, Wanted
  <2>4. CASE RefreshSucceeds(q) \/ RefreshFails(q)
    <3>1. /\ request[q].tab \in Tabs /\ Release(request[q].tab)
          /\ request' = [request EXCEPT ![q] = Free]
          /\ storage' = NoToken \/ RefreshSucceeds(q)
      BY <2>4, RequestKinds DEF RefreshSucceeds, RefreshFails, RefreshToNothing, SignOut
    <3>2. CASE request[q].tab = t
      BY <1>2, <3>1, <3>2
    <3>3. CASE request[q].tab # t
      BY <1>2, <3>1, <3>3
    <3> QED
      BY <3>2, <3>3
  <2> QED
    BY <1>6, <2>1, <2>2, <2>3, <2>4 DEF RequestStep
<1>7. ASSUME NEW u \in Tabs, TabStep(u) PROVE Lasts \/ Ends
  <2>1. CASE RefreshBreaks(u)
    <3>1. HangUp(u) /\ Release(u) /\ storage' = NoToken
      BY <2>1 DEF RefreshBreaks, RefreshToNothing, SignOut
    <3>2. CASE u = t
      BY <1>2, <3>1, <3>2
    <3>3. CASE u # t
      BY <1>1, <1>2, <3>1, <3>3
    <3> QED
      BY <3>2, <3>3
  <2> QED
    BY <1>4, <1>7, <2>1 DEF TabStep, Starts, SessionExpired, LoginServed, LoginAnswered, LoginLost,
       Logout, LogoutServed, LogoutFails
<1> QED
  BY <1>4, <1>5, <1>6, <1>7 DEF Next, vars

\* Only a refused call starts a refresh.
LEMMA RefreshingSteps ==
    ASSUME TypeOK, [Next]_vars, NEW t \in Tabs
    PROVE  \/ refreshing'[t] \in {refreshing[t], NoRequest}
           \/ /\ InFlight(refreshing[t])' /\ request'[refreshing'[t]].tab = t
              /\ refreshing'[t] \in Requests
<1> USE DEF InFlight, Free, TypeOK
<1>1. ASSUME NEW c \in Calls, NEW u \in Tabs, CallRefused(c, u)
      PROVE  \/ refreshing'[t] = refreshing[t]
             \/ /\ InFlight(refreshing[t])' /\ request'[refreshing'[t]].tab = t
                /\ refreshing'[t] \in Requests
  BY <1>1 DEF CallRefused, RefreshToken
<1>2. ASSUME NEW u \in Tabs, Release(u) PROVE refreshing'[t] \in {refreshing[t], NoRequest}
  BY <1>2 DEF Release
<1>3. ASSUME NEW c \in Calls, CallCancelled(c) \/ RefreshAborted(c)
      PROVE  refreshing'[t] \in {refreshing[t], NoRequest}
  <2>1. call[c].tab \in Tabs
    BY <1>3, CallKinds DEF CallCancelled, RefreshAborted
  <2> QED
    BY <1>3, <2>1 DEF CallCancelled, RefreshAborted
<1>4. ASSUME NEW q \in Requests, RequestStep(q)
      PROVE  refreshing'[t] \in {refreshing[t], NoRequest}
  <2>1. CASE RefreshSucceeds(q) \/ RefreshFails(q)
    <3>1. request[q].tab \in Tabs
      BY <2>1, RequestKinds DEF RefreshSucceeds, RefreshFails
    <3> QED
      BY <1>2, <2>1, <3>1 DEF RefreshSucceeds, RefreshFails, RefreshToNothing
  <2> QED
    BY <1>4, <2>1 DEF RequestStep, RefreshLocks, RefreshCommits, RefreshRefused, RefreshRollsBack,
       RequestForgotten
<1>5. ASSUME NEW u \in Tabs, TabStep(u)
      PROVE  refreshing'[t] \in {refreshing[t], NoRequest}
  <2>1. CASE RefreshBreaks(u)
    BY <1>2, <2>1 DEF RefreshBreaks, RefreshToNothing
  <2> QED
    BY <1>5, <2>1 DEF TabStep, Starts, SessionExpired, LoginServed, LoginAnswered, LoginLost,
       Logout, LogoutServed, LogoutFails
<1> QED
  BY <1>1, <1>3, <1>4, <1>5 DEF Next, vars, CallStep

\* Whoever lets a refresh go takes all that wait for it along.
LEMMA WaiterSteps ==
    ASSUME TypeOK, SharingInv, [Next]_vars, NEW c \in Calls, call'[c].phase = "waiting"
    PROVE  refreshing'[call'[c].tab] # NoRequest
<1> USE DEF TypeOK
<1> DEFINE Served == refreshing'[call'[c].tab] # NoRequest
<1>0. Quiet.phase # "waiting"
  BY DEF Quiet
<1>1. CASE UNCHANGED <<call, refreshing>>
  BY <1>1 DEF SharingInv
<1>2. ASSUME NEW u \in Tabs, Release(u) PROVE Served
  <2>1. call[c].phase = "waiting" /\ call'[c] = call[c] /\ c \notin Subscribers(u)
    BY <1>0, <1>2 DEF Release
  <2>2. call[c].tab # u
    BY <1>0, <2>1 DEF Subscribers
  <2>3. call[c].tab \in Tabs
    BY <2>1, CallKinds
  <2> QED
    BY <1>2, <2>1, <2>2, <2>3 DEF Release, SharingInv
<1>3. ASSUME NEW d \in Calls, CallStep(d) PROVE Served
  <2>1. ASSUME NEW u \in Tabs, CallRefused(d, u) PROVE Served
    <3>1. \A t \in Tabs : refreshing[t] # NoRequest \/ t = u => refreshing'[t] # NoRequest
      BY <2>1, NoRequestAssumption DEF NoRequestAssumption, CallRefused, RefreshToken
    <3>2. call'[c] = call[c] \/ call'[c].tab = u
      BY <2>1 DEF CallRefused
    <3>3. CASE call'[c] = call[c]
      <4>1. call[c].tab \in Tabs
        BY <3>3, CallKinds
      <4> QED
        BY <3>1, <3>3, <4>1 DEF SharingInv
    <3> QED
      BY <3>1, <3>2, <3>3
  <2>2. CASE CallCancelled(d)
    BY <1>0, <2>2 DEF CallCancelled, SharingInv
  <2>3. CASE RefreshAborted(d)
    <3>1. c # d /\ call'[c] = call[c]
      BY <1>0, <2>3 DEF RefreshAborted
    <3>2. call[c] # Quiet /\ call[c].tab \in Tabs
      BY <1>0, <3>1, CallKinds
    <3>3. call[c].tab # call[d].tab
      BY <2>3, <3>1, <3>2 DEF RefreshAborted, Subscribers
    <3> QED
      BY <2>3, <3>1, <3>2, <3>3 DEF RefreshAborted, SharingInv
  <2> QED
    BY <1>3, <2>1, <2>2, <2>3 DEF CallStep
<1>4. ASSUME NEW q \in Requests, RequestStep(q) PROVE Served
  <2>1. CASE RefreshSucceeds(q) \/ RefreshFails(q)
    <3>1. request[q].tab \in Tabs
      BY <2>1, RequestKinds DEF RefreshSucceeds, RefreshFails
    <3> QED
      BY <1>2, <2>1, <3>1 DEF RefreshSucceeds, RefreshFails, RefreshToNothing
  <2> QED
    BY <1>1, <1>4, <2>1 DEF RequestStep, RefreshLocks, RefreshCommits, RefreshRefused,
       RefreshRollsBack, RequestForgotten
<1>5. ASSUME NEW u \in Tabs, TabStep(u) PROVE Served
  <2>1. CASE RefreshBreaks(u)
    BY <1>2, <2>1 DEF RefreshBreaks, RefreshToNothing
  <2> QED
    BY <1>1, <1>5, <2>1 DEF TabStep, Starts, SessionExpired, LoginServed, LoginAnswered, LoginLost,
       Logout, LogoutServed, LogoutFails
<1> QED
  BY <1>1, <1>3, <1>4, <1>5 DEF Next, vars

LEMMA SharingKept ==
    ASSUME TypeOK, SharingInv, [Next]_vars
    PROVE  SharingInv'
<1>1. ASSUME NEW t \in Tabs, refreshing'[t] # NoRequest
      PROVE  InFlight(refreshing[t])' /\ request'[refreshing'[t]].tab = t
  <2>1. CASE refreshing'[t] = refreshing[t]
    <3> DEFINE r == refreshing[t]
    <3>1. r \in Requests /\ InFlight(r) /\ request[r].tab = t
      BY <1>1, <2>1 DEF SharingInv, TypeOK
    <3> QED
      BY <1>1, <2>1, <3>1, WantedSteps DEF InFlight
  <2> QED
    BY <1>1, <2>1, RefreshingSteps
<1> QED
  BY <1>1, WaiterSteps DEF SharingInv

\* A token that another party may exchange is known to be contested.
LEMMA ContestKept ==
    ASSUME Inv, [Next]_vars
    PROVE  ContestInv'
<1> USE DEF Inv
<1>0. contested \subseteq contested'
  BY ContestedGrows
<1>1. ASSUME NEW r \in Requests, Sent(r)'
      PROVE  request'[r].token \in live' \cup contested' \cup {NoToken}
  <2>1. ASSUME NEW c \in Calls, NEW t \in Tabs, CallRefused(c, t), ~ Sent(r)
        PROVE  request'[r].token \in live' \cup contested' \cup {NoToken}
    <3>1. /\ request'[r].token = storage /\ refreshing[t] = NoRequest /\ live' = live
          /\ contested' = contested \cup {n \in {storage} \ {NoToken} : PresentedBy(n, Tabs \ {t})}
      <4>1. request' # request
        BY <1>1, <2>1 DEF Sent
      <4>2. PICK q \in Requests :
                request' = [request EXCEPT ![q] =
                                [phase |-> "sent", tab |-> t, token |-> storage]]
        BY <2>1, <4>1 DEF CallRefused, RefreshToken
      <4>3. q = r
        BY <1>1, <2>1, <4>2 DEF Sent, TypeOK
      <4>4. request'[r].token = storage
        BY <4>2, <4>3 DEF TypeOK
      <4> QED
        BY <2>1, <4>1, <4>4 DEF CallRefused, RefreshToken, serverVars
    <3>2. ASSUME NEW q \in Requests, InFlight(q), request[q].token = storage,
                 refreshing[request[q].tab] = q
          PROVE  storage \in contested' \cup {NoToken}
      <4>1. request[q].tab \in Tabs \ {t}
        BY <3>1, <3>2, RequestKinds, NoRequestAssumption DEF NoRequestAssumption, InFlight, TypeOK
      <4> QED
        BY <3>1, <3>2, <4>1 DEF PresentedBy, InFlight, Free
    <3> QED
      BY <3>1, <3>2 DEF ContestInv
  <2>2. CASE Sent(r) /\ request'[r].token = request[r].token
    <3>1. request[r].token \in live \cup contested \cup {NoToken}
      BY <2>2 DEF ContestInv
    <3>2. ASSUME NEW q \in Requests, RefreshCommits(q), request[r].token = request[q].token
          PROVE  request[r].token \in contested \cup {NoToken}
      <4>1. q # r
        BY <2>2, <3>2 DEF Sent, RefreshCommits
      <4> QED
        BY <2>2, <3>2, <4>1 DEF ContestInv, InFlight, Sent, RefreshCommits
    <3>3. ASSUME NEW t \in Tabs, LogoutServed(t), request[r].token = leaving[t].token
          PROVE  request[r].token \in contested \cup {NoToken}
      BY <3>3 DEF LogoutServed, LeavingInv
    <3>4. request[r].token \in live' \cup contested \cup {NoToken}
      BY <3>1, <3>2, <3>3, ServerSteps DEF serverVars, RefreshCommits, LogoutServed, LoginServed
    <3> QED
      BY <1>0, <2>2, <3>4
  <2>3. ASSUME NEW c \in Calls, NEW t \in Tabs, CallRefused(c, t), Sent(r)
        PROVE  request'[r].token = request[r].token
    BY <2>3 DEF CallRefused, RefreshToken, Sent, Free, TypeOK
  <2> QED
    BY <1>1, <2>1, <2>2, <2>3, RequestSteps DEF InFlight, Sent
<1>2. ASSUME NEW q \in Requests, NEW r \in Requests, InFlight(q)', InFlight(r)',
             request'[q].token = request'[r].token, q # r
      PROVE  request'[q].token \in contested' \cup {NoToken}
  <2>1. CASE /\ InFlight(q) /\ request'[q].token = request[q].token
             /\ InFlight(r) /\ request'[r].token = request[r].token
    BY <1>0, <1>2, <2>1 DEF ContestInv
  <2>2. ASSUME NEW c \in Calls, NEW t \in Tabs, CallRefused(c, t),
               NEW x \in Requests, NEW y \in Requests, x # y, ~ InFlight(x), InFlight(x)',
               InFlight(y), request[y].token = storage, request'[y] = request[y]
        PROVE  storage \in contested' \cup {NoToken}
    <3>1. /\ refreshing[t] = NoRequest
          /\ contested' = contested \cup {n \in {storage} \ {NoToken} : PresentedBy(n, Tabs \ {t})}
      BY <2>2 DEF CallRefused, RefreshToken, InFlight
    <3>2. CASE request[y].tab = t
      <4>1. refreshing[request[y].tab] # y
        BY <3>1, <3>2, NoRequestAssumption DEF NoRequestAssumption
      <4> QED
        BY <1>0, <2>2, <4>1 DEF ContestInv
    <3>3. CASE request[y].tab # t
      <4>1. request[y].tab \in Tabs \ {t}
        BY <2>2, <3>3, RequestKinds DEF InFlight, TypeOK
      <4> QED
        BY <2>2, <3>1, <4>1 DEF PresentedBy, InFlight, Free
    <3> QED
      BY <3>2, <3>3
  <2>3. ASSUME NEW c \in Calls, NEW t \in Tabs, CallRefused(c, t), NEW x \in Requests, InFlight(x)'
        PROVE  \/ InFlight(x) /\ request'[x] = request[x]
               \/ /\ ~ InFlight(x) /\ request'[x].token = storage
                  /\ \A y \in Requests : y # x => request'[y] = request[y]
    BY <2>3 DEF CallRefused, RefreshToken, InFlight, Free, TypeOK
  <2>4. ASSUME NEW c \in Calls, NEW t \in Tabs, CallRefused(c, t)
        PROVE  request'[q].token \in contested' \cup {NoToken}
    <3>1. CASE ~ InFlight(q)
      <4>1. request'[q].token = storage /\ request'[r] = request[r]
        BY <1>2, <2>3, <2>4, <3>1
      <4>2. InFlight(r) /\ request[r].token = storage
        BY <1>2, <4>1 DEF InFlight
      <4> QED
        BY <1>2, <2>2, <2>4, <3>1, <4>1, <4>2
    <3>2. CASE ~ InFlight(r)
      <4>1. request'[r].token = storage /\ request'[q] = request[q]
        BY <1>2, <2>3, <2>4, <3>2
      <4>2. InFlight(q) /\ request[q].token = storage
        BY <1>2, <4>1 DEF InFlight
      <4> QED
        BY <1>2, <2>2, <2>4, <3>2, <4>1, <4>2
    <3> QED
      BY <1>2, <2>1, <2>3, <2>4, <3>1, <3>2
  <2> QED
    BY <1>2, <2>1, <2>4, RequestSteps
<1>3. ASSUME NEW r \in Requests, RefreshSucceeds(r)
      PROVE  storage' \in (live \ stored) \cup {NoToken} /\ UNCHANGED live
  BY <1>3 DEF RefreshSucceeds, SignIn, serverVars, CarriedInv, Answered
<1>4. ASSUME NEW t \in Tabs, LoginAnswered(t)
      PROVE  storage' \in (live \ stored) \cup {NoToken} /\ UNCHANGED live
  BY <1>4 DEF LoginAnswered, SignIn, serverVars, CarriedInv
<1>5. \/ storage' = NoToken
      \/ storage' \in live \ stored /\ UNCHANGED live
      \/ /\ storage' = storage
         /\ ~ \E r \in Requests : RefreshSucceeds(r)
  BY <1>3, <1>4, StorageSteps
<1>6. ASSUME NEW r \in Requests, InFlight(r)', request'[r].token = storage',
             refreshing'[request'[r].tab] # r
      PROVE  storage' \in contested' \cup {NoToken}
  <2>1. CASE /\ InFlight(r) /\ request'[r].token = request[r].token
             /\ request'[r].tab = request[r].tab
    <3>1. storage' \notin live \ stored \/ storage' = NoToken
      BY <1>6, <2>1 DEF CarriedInv
    <3>2. CASE storage' = storage /\ ~ \E q \in Requests : RefreshSucceeds(q)
      <4>1. CASE refreshing[request[r].tab] # r
        BY <1>0, <1>6, <2>1, <3>2, <4>1 DEF ContestInv
      <4>2. CASE refreshing[request[r].tab] = r
        BY <1>6, <2>1, <3>2, <4>2, WantedSteps
      <4> QED
        BY <4>1, <4>2
    <3> QED
      BY <1>5, <3>1, <3>2
  <2>2. ASSUME NEW c \in Calls, NEW t \in Tabs, CallRefused(c, t)
        PROVE  InFlight(r) /\ request'[r] = request[r]
    BY <1>6, <2>2 DEF CallRefused, RefreshToken, InFlight, Free, TypeOK
  <2> QED
    BY <1>6, <2>1, <2>2, RequestSteps
<1>7. \/ storage' \in live' \cup contested' \cup {NoToken}
      \/ \E r \in Requests :
            InFlight(r)' /\ request'[r].token = storage' /\ refreshing'[request'[r].tab] = r
  <2>1. CASE storage' = storage /\ ~ \E r \in Requests : RefreshSucceeds(r)
    <3>1. CASE storage \in contested \cup {NoToken}
      BY <1>0, <2>1, <3>1
    <3>2. ASSUME NEW r \in Requests, InFlight(r), request[r].token = storage
          PROVE  \/ storage' \in contested' \cup {NoToken}
                 \/ /\ InFlight(r)' /\ request'[r].token = storage'
                    /\ refreshing'[request'[r].tab] = r
      <4>1. CASE refreshing[request[r].tab] # r
        BY <1>0, <2>1, <3>2, <4>1 DEF ContestInv
      <4>2. CASE refreshing[request[r].tab] = r
        BY <2>1, <3>2, <4>2, WantedSteps
      <4> QED
        BY <4>1, <4>2
    <3>3. CASE storage \in live /\ storage # NoToken
      <4>1. ASSUME NEW r \in Requests, RefreshCommits(r)
            PROVE  storage \in live' \/ (InFlight(r) /\ request[r].token = storage)
        BY <3>3, <4>1 DEF RefreshCommits, InFlight
      <4>2. ASSUME NEW t \in Tabs, LogoutServed(t) PROVE storage \in live'
        BY <3>3, <4>2 DEF LogoutServed, LeavingInv
      <4>3. ASSUME NEW t \in Tabs, LoginServed(t) PROVE storage \in live'
        BY <3>3, <4>3 DEF LoginServed
      <4> QED
        BY <2>1, <3>2, <3>3, <4>1, <4>2, <4>3, ServerSteps DEF serverVars
    <3> QED
      BY <3>1, <3>2, <3>3 DEF ContestInv
  <2> QED
    BY <1>5, <2>1
<1> QED
  BY <1>1, <1>2, <1>6, <1>7 DEF ContestInv

-----------------------------------------------------------------------------
(* The theorems *)

LEMMA InvKept == Inv /\ [Next]_vars => Inv'
<1> SUFFICES ASSUME Inv, [Next]_vars PROVE Inv'
  OBVIOUS
<1>1. TypeOK'
  BY TypesKept DEF Inv
<1>2. IssueInv' /\ LockInv' /\ CarriedInv' /\ LeavingInv'
  BY IssueKept, LockKept, CarriedKept, LeavingKept DEF Inv
<1>3. ExchangedOnce' /\ StoredIsLive'
  BY ExchangeKept, StoredKept DEF Inv
<1>4. SharingInv' /\ ContestInv'
  BY SharingKept, ContestKept DEF Inv
<1> QED
  BY <1>1, <1>2, <1>3, <1>4 DEF Inv

LEMMA InvHolds == Spec => []Inv
BY InitInv, InvKept, PTL DEF Spec

\* Every value the browser and the server hold has its type; in particular a
\* refused refresh never reaches the storage as a token.
THEOREM SessionTypes == Spec => []TypeOK
<1>1. Inv => TypeOK
  BY DEF Inv
<1> QED
  BY <1>1, InvHolds, PTL

\* However many tabs present a refresh token, TokenService.refresh exchanges it once.
THEOREM OneExchange == Spec => []ExchangedOnce
<1>1. Inv => ExchangedOnce
  BY DEF Inv
<1> QED
  BY <1>1, InvHolds, PTL

\* The token in storage can be exchanged, unless its exchange is under way or its
\* answer got lost: neither a logout nor a refused refresh ends another session.
THEOREM StorageStaysLive == Spec => []StoredIsLive
<1>1. Inv => StoredIsLive
  BY DEF Inv
<1> QED
  BY <1>1, InvHolds, PTL

\* Every subscriber of AuthService.refreshToken waits for a request under way.
THEOREM EveryWaiterIsServed == Spec => []WaitersAreServed
<1>1. Inv => WaitersAreServed
  <2> SUFFICES ASSUME Inv, NEW t \in Tabs, Subscribers(t) # {}
               PROVE  /\ refreshing[t] # NoRequest
                      /\ request[refreshing[t]].phase # "free"
                      /\ request[refreshing[t]].tab = t
    BY DEF WaitersAreServed
  <2>1. PICK c \in Calls : call[c] # Quiet /\ call[c].tab = t
    BY DEF Subscribers
  <2>2. call[c].phase = "waiting"
    BY <2>1, CallKinds DEF Inv, TypeOK
  <2> QED
    BY <2>1, <2>2 DEF Inv, SharingInv, InFlight
<1> QED
  BY <1>1, InvHolds, PTL

\* A tab's own refresh is refused only where somebody else may have used its token.
THEOREM OwnRefreshSucceeds == Spec => []OwnRefreshIsAccepted
<1>1. Inv => OwnRefreshIsAccepted
  BY DEF Inv, ContestInv, Sent, OwnRefreshIsAccepted
<1> QED
  BY <1>1, InvHolds, PTL
=============================================================================
