------------------------------- MODULE Credentials -------------------------------
(***************************************************************************)
(* The credentials of one account, an administrator's: its password, the   *)
(* reset links sent to it, and its second factor.                          *)
(*                                                                         *)
(* A request loads the account, changes it and commits.  Only columns that *)
(* differ from what was loaded are written, so two requests that overlap   *)
(* may each write a part.                                                  *)
(***************************************************************************)
EXTENDS Mail

VARIABLES
    password,  \* number of the request that set it; 0 is the first one
    links,     \* reset tokens by the number of the request that made them
    resets,    \* how often each was used
    totp,      \* secret (a setup's number; 0 is none) and whether it is enabled
    shown,     \* secrets that setup has answered with
    proven,    \* the secret that was enabled with a code and not replaced since
    login      \* the administrator's login in two steps

credentialVars == <<password, links, resets, totp, shown, proven, login>>
vars == <<mailVars, credentialVars>>

None == 0
LoggedOut == [step |-> "out", code |-> None]

Init ==
    /\ MailInit
    /\ password = 0
    /\ links = [l \in Numbers |-> "none"]
    /\ resets = [l \in Numbers |-> 0]
    /\ totp = [secret |-> None, enabled |-> FALSE]
    /\ shown = {} /\ proven = {}
    /\ login = LoggedOut

-----------------------------------------------------------------------------
\* Reset links.

MailedLinks == {m.of : m \in {e \in outbox : e.kind = "reset"}}

\* POST /auth/forgot-password; an unknown e-mail is answered alike.
Forgot(r) ==
    /\ account = "live"
    /\ Starts(r, "forgot", started + 1, None)
    /\ UNCHANGED credentialVars

\* The token is inserted, the link is on its way.
ForgotFlushes(r) ==
    LET q == request[r] IN
    /\ r \in Under("forgot", "read")
    /\ IF account = "live"
       THEN Flushes(r, {[kind |-> "reset", of |-> q.no, to |-> Owner, no |-> q.no]})
       ELSE Fails(r)
    /\ UNCHANGED credentialVars

ForgotCommits(r) ==
    /\ r \in Under("forgot", "flushed")
    /\ links' = [links EXCEPT ![request[r].no] = "valid"]
    /\ request' = [request EXCEPT ![r] = Free]
    /\ UNCHANGED <<account, orders, started, tasks, outbox, undelivered, rolledBack, settled,
                   shipments, restarts>>
    /\ UNCHANGED <<password, resets, totp, shown, proven, login>>

\* Mutant: whether a token was used is not looked at.
UsedOrValid == {l \in Numbers : links[l] \in {"valid", "used"}}

\* Tokens that are neither used nor expired.
ValidLinks == {l \in Numbers : links[l] = "valid"}

\* POST /auth/reset-password with a link from an e-mail; any other is refused.
Reset(r) == \E l \in MailedLinks \cap ValidLinks :
    Starts(r, "reset", l, None) /\ UNCHANGED credentialVars

\* Mutant: every token of the account is used up.
AllLinks(l) == {k \in Numbers : links[k] = "valid"} \cup {l}

\* Only this one.
SpentWith(l) == {l}

ResetCommits(r) ==
    LET q == request[r] IN
    /\ r \in Under("reset", "flushed")
    /\ password' = q.no
    /\ links' = [l \in Numbers |-> IF l \in SpentWith(q.of) THEN "used" ELSE links[l]]
    /\ resets' = [resets EXCEPT ![q.of] = @ + 1]
    /\ request' = Committed(r)
    /\ UNCHANGED <<account, orders, started, tasks, outbox, undelivered, rolledBack, settled,
                   shipments, restarts>>
    /\ UNCHANGED <<totp, shown, proven, login>>

\* An hour has passed.
LinkExpires == \E l \in ValidLinks :
    /\ links' = [links EXCEPT ![l] = "expired"]
    /\ UNCHANGED <<mailVars, password, resets, totp, shown, proven, login>>

-----------------------------------------------------------------------------
\* The second factor.  What a request loads is what it compares with.

Setup(r) == Starts(r, "setup", Owner, totp) /\ UNCHANGED credentialVars

Disable(r) == Starts(r, "disable", Owner, totp) /\ UNCHANGED credentialVars

\* A code of the loaded secret, from somebody who was shown it.
CodeFits(secret) == secret # None /\ secret \in shown

Enable(r) ==
    /\ CodeFits(totp.secret)
    /\ Starts(r, "enable", Owner, totp)
    /\ UNCHANGED credentialVars

\* An account that is gone is not found, or its row is not.
AccountFlushes(r) ==
    /\ request[r].phase = "read"
    /\ request[r].op \in {"reset", "setup", "enable", "disable"}
    /\ RowFree(r)
    /\ IF account = "live" THEN Flushes(r, {}) ELSE Fails(r)
    /\ UNCHANGED credentialVars

\* Mutant: the new secret leaves the old one's switch alone.
SecretOnly(q) == [totp EXCEPT !.secret = IF q.op = "setup" THEN q.no ELSE None]

\* secret and enabled after setup and disable: enabled is written only where it
\* was loaded as set, and so is the secret that is taken away.
SwitchedOff(q) ==
    [secret |-> IF q.op = "setup" THEN q.no
                ELSE IF q.seen.secret # None THEN None ELSE totp.secret,
     enabled |-> totp.enabled /\ ~q.seen.enabled]

\* Mutant: enabling makes a new secret, as setup does.
SecretAfresh(q) == [secret |-> q.no, enabled |-> TRUE]

\* enable writes its switch only.
SwitchedOn(q) == [totp EXCEPT !.enabled = @ \/ ~q.seen.enabled]

SecondFactorCommits(r) ==
    LET q == request[r] IN
    /\ q.phase = "flushed" /\ q.op \in {"setup", "enable", "disable"}
    /\ totp' = IF q.op = "enable" THEN SwitchedOn(q) ELSE SwitchedOff(q)
    /\ shown' = IF q.op = "setup" THEN shown \cup {q.no} ELSE shown
    /\ proven' = IF q.op = "enable"
                 THEN IF q.disturbed THEN proven ELSE {q.seen.secret}
                 ELSE {}
    /\ request' = Committed(r)
    /\ UNCHANGED <<account, orders, started, tasks, outbox, undelivered, rolledBack, settled,
                   shipments, restarts>>
    /\ UNCHANGED <<password, links, resets, login>>

-----------------------------------------------------------------------------
\* The administrator logs in with his password, and with a code where the second
\* factor is enabled.  His device makes codes of one secret he was shown.

AdminLogin(code) ==
    /\ account = "live"
    /\ login.step # "ticket"
    /\ login' = [step |-> IF totp.enabled THEN "ticket" ELSE "in", code |-> code]
    /\ UNCHANGED <<mailVars, password, links, resets, totp, shown, proven>>

\* verify_2fa refuses an account without a secret, and a code of another one.
Accepts(code) == account = "live" /\ totp.enabled /\ totp.secret # None /\ code = totp.secret

Verify2fa ==
    /\ login.step = "ticket"
    /\ login' = [login EXCEPT !.step = IF Accepts(login.code) THEN "in" ELSE "refused"]
    /\ UNCHANGED <<mailVars, password, links, resets, totp, shown, proven>>

\* The login token lives for five minutes.
TicketExpires ==
    /\ login.step = "ticket"
    /\ login' = LoggedOut
    /\ UNCHANGED <<mailVars, password, links, resets, totp, shown, proven>>

-----------------------------------------------------------------------------
\* Tokens go with the account.
AccountGoes ==
    /\ DeleteAccount
    /\ links' = [l \in Numbers |-> "none"]
    /\ UNCHANGED <<password, resets, totp, shown, proven, login>>

CredentialsNext ==
    \/ \E r \in Requests :
        \/ Forgot(r) \/ ForgotFlushes(r) \/ ForgotCommits(r)
        \/ Reset(r) \/ ResetCommits(r)
        \/ Setup(r) \/ Disable(r) \/ Enable(r)
        \/ AccountFlushes(r) \/ SecondFactorCommits(r)
    \/ LinkExpires
    \/ \E code \in shown \cup {None} : AdminLogin(code)
    \/ Verify2fa \/ TicketExpires

Next ==
    \/ MailNext /\ UNCHANGED credentialVars
    \/ CredentialsNext
    \/ AccountGoes

Spec == Init /\ [][Next]_vars
=============================================================================
