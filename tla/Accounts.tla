-------------------------------- MODULE Accounts --------------------------------
(***************************************************************************)
(* Accounts, the rows that refer to them and the tasks that follow from    *)
(* their changes: registration, Google login, the administrators' changes  *)
(* of roles, e-mails and accounts, an owner's deletion of his account, and *)
(* the inserts that run beside a deletion.                                 *)
(*                                                                         *)
(* A request reads, then flushes what it writes (and waits for the locks   *)
(* of others that have flushed), then commits.  Its events are emitted     *)
(* after the flush and handled by tasks that see only what is committed.   *)
(***************************************************************************)
EXTENDS Integers, FiniteSets

CONSTANTS
    MaxUsers,     \* accounts there may ever be
    Emails,
    Identities,   \* Google accounts
    Opening,      \* accounts to start from
    Requests,     \* requests under way at the same time
    MaxRequests   \* bound on requests

ASSUME BoundsAssumption == MaxUsers \in Nat \ {0} /\ MaxRequests \in Nat

Users == 1 .. MaxUsers
Nobody == 0
Roles == {"customer", "admin"}

\* What refers to an account: rows that go with it by cascade, rows a deletion
\* removes first, and orders, which it keeps without an owner.
Cascading == {"token"}
Swept == {"cart", "wish", "review", "audit"}
Kinds == Cascading \cup Swept \cup {"order"}

VARIABLES
    users,     \* accounts by id; ids are not used again
    spoilt,    \* ids given to accounts whose insert was rolled back
    owns,      \* kinds of rows that refer to an account
    kept,      \* accounts whose order outlived them
    tasks,     \* handlers of emitted events that have yet to run
    welcomed,  \* accounts the welcome e-mail was sent to
    request,   \* requests under way
    started    \* how many requests there were

rowVars == <<users, owns, kept>>
vars == <<rowVars, spoilt, tasks, welcomed, request, started>>

Absent == [state |-> "absent"]
Gone == [state |-> "gone"]
Account == [state : {"live"}, email : Emails, google : Identities \cup {Nobody}, role : Roles]
Free == [phase |-> "free"]

\* Nobody is nobody; the accounts to start from are of their kinds and share no
\* e-mail.
ASSUME OpeningAssumption ==
    /\ Nobody \notin Identities \cup Requests
    /\ \A opening \in Opening :
        /\ opening \in [Users -> Account \cup {Absent, Gone}]
        /\ \A u, v \in Users :
            opening[u].state = "live" /\ opening[v].state = "live"
                /\ opening[u].email = opening[v].email => u = v

Live == {u \in Users : users[u].state = "live"}
IsAdmin(u) == u \in Live /\ users[u].role = "admin"
WithEmail(e) == {u \in Live : users[u].email = e}
WithGoogle(g) == {u \in Live : users[u].google = g}

Init ==
    /\ users \in Opening
    /\ owns = [u \in Users |-> {}]
    /\ kept = {}
    /\ spoilt = {}
    /\ tasks = {}
    /\ welcomed = {}
    /\ request = [r \in Requests |-> Free]
    /\ started = 0

-----------------------------------------------------------------------------
\* The steps every request is made of.

Starts(r, q) ==
    /\ request[r] = Free
    /\ started < MaxRequests
    /\ started' = started + 1
    /\ request' = [request EXCEPT ![r] = q]
    /\ UNCHANGED <<rowVars, spoilt, tasks, welcomed>>

Asks(op, by, on, arg, phase) ==
    [op |-> op, by |-> by, on |-> on, arg |-> arg, phase |-> phase,
     disturbed |-> FALSE, swept |-> {}]

Continues(r, q) ==
    /\ request' = [request EXCEPT ![r] = q]
    /\ UNCHANGED <<rowVars, spoilt, tasks, welcomed, started>>

Fails(r) == Continues(r, Free)

Flushes(r, q, emits) ==
    /\ request' = [request EXCEPT ![r] = [q EXCEPT !.phase = "flushed"]]
    /\ tasks' = tasks \cup emits
    /\ UNCHANGED <<rowVars, spoilt, welcomed, started>>

\* Whoever is at work has a commit beside him from now on; rows it inserted after
\* a deletion swept theirs are not swept.
BesideOthers(r, u, rows) == [s \in Requests |->
    IF s = r \/ request[s] = Free THEN Free
    ELSE [request[s] EXCEPT !.disturbed = TRUE,
                            !.swept = IF request[s].on = u THEN @ \ rows ELSE @]]

Flushed == {request[r] : r \in {s \in Requests : request[s].phase = "flushed"}}

\* Locks of flushed rows: an account that is inserted or changed holds its
\* e-mail, a changed or deleted one its row, an insert that refers to it a share.
EmailFree(e) == \A q \in Flushed :
    q.op \in {"register", "create", "email"} => q.arg.email # e
RowFree(u) == \A q \in Flushed :
    q.op \in {"link", "role", "email", "delete"} => q.on # u
Referable(u) == \A q \in Flushed : q.op = "delete" => q.on # u
Unreferred(u) == \A q \in Flushed : q.op = "insert" => q.on # u
Sweeping(u) == \E r \in Requests :
    request[r].phase \in {"swept", "flushed"} /\ request[r].op = "delete" /\ request[r].on = u

-----------------------------------------------------------------------------
\* POST /auth/register and the callback of Google's login.

Register(r) == \E e \in Emails :
    /\ WithEmail(e) = {}
    /\ Starts(r, Asks("register", Nobody, Nobody, [email |-> e, google |-> Nobody], "checked"))

\* Mutant: an account is looked for by its e-mail only.
GoogleReadsEmail(r) == \E g \in Identities, e \in Emails :
    Starts(r, Asks("google", Nobody, Nobody, [email |-> e, google |-> g], "unknown"))

\* The account with this identity, which needs a new token only.
GoogleReadsIdentity(r) == \E g \in Identities, e \in Emails :
    IF WithGoogle(g) # {}
    THEN \E u \in WithGoogle(g) : Starts(r, Asks("insert", u, u, [kind |-> "token"], "checked"))
    ELSE Starts(r, Asks("google", Nobody, Nobody, [email |-> e, google |-> g], "unknown"))

\* Or the one with its e-mail, which is linked, or a new one.
GoogleFindsEmail(r) ==
    LET q == request[r]
        found == WithEmail(q.arg.email)
    IN
    /\ q.phase = "unknown"
    /\ \/ /\ found = {}
          /\ Continues(r, [q EXCEPT !.op = "create", !.phase = "checked"])
       \/ \E u \in found :
            Continues(r, [q EXCEPT !.op = "link", !.on = u, !.phase = "checked"])

\* Mutant: no index keeps e-mails apart.
NeverTaken(e, u) == FALSE

EmailTaken(e, u) == WithEmail(e) \ {u} # {}

\* Every insert draws a new id, whatever becomes of it.
NextId == {u \in Users \ spoilt : users[u] = Absent /\ \A q \in Flushed :
    q.op \in {"register", "create"} => q.on # u}

\* The unique index decides; the welcome e-mail leaves before the commit.
CreateFlushes(r) ==
    LET q == request[r] IN
    /\ q.phase = "checked" /\ q.op \in {"register", "create"}
    /\ EmailFree(q.arg.email)
    /\ NextId # {}
    /\ IF EmailTaken(q.arg.email, Nobody) THEN Fails(r)
       ELSE LET u == CHOOSE v \in NextId : \A w \in NextId : v <= w IN
            Flushes(r, [q EXCEPT !.on = u],
                    IF q.op = "register" THEN {[kind |-> "welcome", of |-> u]} ELSE {})

LinkFlushes(r) ==
    LET q == request[r] IN
    /\ q.phase = "checked" /\ q.op = "link"
    /\ RowFree(q.on)
    /\ IF q.on \in Live THEN Flushes(r, q, {}) ELSE Fails(r)

-----------------------------------------------------------------------------
\* The administrators: the guard reads who asks, the handler whom it is about.

\* Mutant: an administrator may change his own role and delete his own account.
Anyone(a) == Users

\* Nobody changes his own role or deletes his own account here.
Others(a) == Users \ {a}

ChangeRole(r) == \E a \in Users, n \in Roles : \E u \in Others(a) \cap Live :
    IsAdmin(a) /\ Starts(r, Asks("role", a, u, [role |-> n], "checked"))
ChangeEmail(r) == \E a \in Users, u \in Live, e \in Emails :
    IsAdmin(a) /\ e # users[u].email /\ Starts(r, Asks("email", a, u, [email |-> e], "checked"))
DeleteUser(r) == \E a \in Users : \E u \in Others(a) \cap Live :
    IsAdmin(a) /\ Starts(r, Asks("delete", a, u, [role |-> Nobody], "checked"))

\* The owner's own deletion leaves no trace.
Audit(q) == IF q.op = "delete" /\ q.by = q.on THEN {} ELSE {[kind |-> "audit", of |-> q.by]}

\* UPDATE users ... RETURNING, or of what was loaded; a taken e-mail fails it.
ChangeFlushes(r) ==
    LET q == request[r] IN
    /\ q.phase = "checked" /\ q.op \in {"role", "email"}
    /\ RowFree(q.on)
    /\ q.op = "email" => EmailFree(q.arg.email)
    /\ IF q.on \notin Live \/ (q.op = "email" /\ EmailTaken(q.arg.email, q.on))
       THEN Fails(r)
       ELSE Flushes(r, q, Audit(q))

\* DELETE /profile: the owner's, who needs no guard and leaves no audit.
DeleteProfile(r) == \E u \in Live :
    Starts(r, Asks("delete", u, u, [role |-> Nobody], "checked"))

\* Mutant: the audit log is forgotten.
SweepsAllButAudit == {"cart", "wish", "review", "token", "order"}

\* The statements that delete what refers to the account, as one step: what
\* matters is what is inserted after them.
SweepsWhat == Swept \cup {"token", "order"}

Sweeps(r) ==
    LET q == request[r] IN
    /\ q.phase = "checked" /\ q.op = "delete"
    /\ ~Sweeping(q.on)
    /\ IF q.on \notin Live THEN Fails(r)
       ELSE Continues(r, [q EXCEPT !.phase = "swept", !.swept = owns[q.on] \cap SweepsWhat])

\* DELETE FROM users: refused while a row refers to it that was not swept.
DeleteFlushes(r) ==
    LET q == request[r] IN
    /\ q.phase = "swept"
    /\ RowFree(q.on) /\ Unreferred(q.on)
    /\ IF owns[q.on] \ (q.swept \cup Cascading) # {} THEN Fails(r)
       ELSE Flushes(r, q, Audit(q))

-----------------------------------------------------------------------------
\* Rows that come to refer to an account: the token of a login, an order, a line of
\* its cart, a wish, a review of what was bought.
Present(u, k) == k \in owns[u]
\* The order must be confirmed; that is left to whoever asks.
Purchased(u) == "order" \in owns[u]

Insert(r, k) == \E u \in Live :
    /\ k \in {"token", "order", "cart"} \/ ~Present(u, k)
    /\ k = "review" => Purchased(u)
    /\ Starts(r, Asks("insert", u, u, [kind |-> k], "checked"))

InsertFlushes(r) ==
    LET q == request[r]
        k == q.arg.kind
        unique == k \in {"wish", "review"}
    IN
    /\ q.phase = "checked" /\ q.op = "insert"
    /\ Referable(q.on)
    /\ unique => ~(k \in owns[q.on] /\ Sweeping(q.on))
    /\ unique => [op |-> "insert", on |-> q.on, kind |-> k] \notin
                    {[op |-> p.op, on |-> p.on, kind |-> p.arg.kind] :
                        p \in {f \in Flushed : f.op = "insert"}}
    /\ IF q.on \notin Live \/ (unique /\ k \in owns[q.on]) THEN Fails(r)
       ELSE Flushes(r, q, {})

\* The owner takes a wish back, or empties his cart.
Removes == \E u \in Live, k \in {"wish", "cart"} :
    /\ k \in owns[u]
    /\ ~Sweeping(u)
    /\ owns' = [owns EXCEPT ![u] = @ \ {k}]
    /\ UNCHANGED <<users, kept, spoilt, tasks, welcomed, request, started>>

-----------------------------------------------------------------------------
Written(q) ==
    CASE q.op \in {"register", "create"} ->
            [users EXCEPT ![q.on] = [state |-> "live", email |-> q.arg.email,
                                     google |-> q.arg.google, role |-> "customer"]]
      [] q.op = "link" -> [users EXCEPT ![q.on].google = q.arg.google]
      [] q.op = "role" -> [users EXCEPT ![q.on].role = q.arg.role]
      [] q.op = "email" -> [users EXCEPT ![q.on].email = q.arg.email]
      [] q.op = "delete" -> [users EXCEPT ![q.on] = Gone]
      [] q.op = "insert" -> users

\* A registration and a Google login insert a token as well.
Refers(q) ==
    CASE q.op \in {"register", "create", "link"} -> owns[q.on] \cup {"token"}
      [] q.op = "insert" -> owns[q.on] \cup {q.arg.kind}
      [] q.op = "delete" -> {}
      [] q.op \in {"role", "email"} -> owns[q.on]

Commits(r) ==
    LET q == request[r] IN
    /\ q.phase = "flushed"
    /\ users' = Written(q)
    /\ owns' = [owns EXCEPT ![q.on] = Refers(q)]
    /\ kept' = IF q.op = "delete" /\ "order" \in owns[q.on] THEN kept \cup {q.on} ELSE kept
    /\ request' = BesideOthers(r, q.on, IF q.op = "insert" THEN {q.arg.kind} ELSE {})
    /\ UNCHANGED <<spoilt, tasks, welcomed, started>>

RollsBack(r) ==
    LET q == request[r] IN
    /\ q.phase = "flushed"
    /\ spoilt' = IF q.op \in {"register", "create"} THEN spoilt \cup {q.on} ELSE spoilt
    /\ request' = [request EXCEPT ![r] = Free]
    /\ UNCHANGED <<rowVars, tasks, welcomed, started>>

-----------------------------------------------------------------------------
\* Tasks of the event bus, each with a session of its own.

\* Mutant: the e-mail goes out without the account.
WelcomeUnseen(t) ==
    /\ t.kind = "welcome"
    /\ welcomed' = welcomed \cup {t.of}
    /\ tasks' = tasks \ {t}
    /\ UNCHANGED <<rowVars, spoilt, request, started>>

\* An account that cannot be read is not written to, and nobody tries again.
Welcome(t) ==
    /\ t.kind = "welcome"
    /\ welcomed' = IF t.of \in Live THEN welcomed \cup {t.of} ELSE welcomed
    /\ tasks' = tasks \ {t}
    /\ UNCHANGED <<rowVars, spoilt, request, started>>

\* The row refers to its actor; without him it cannot be inserted and is lost.
Record(t) ==
    /\ t.kind = "audit"
    /\ Referable(t.of)
    /\ owns' = IF t.of \in Live THEN [owns EXCEPT ![t.of] = @ \cup {"audit"}] ELSE owns
    /\ request' = IF t.of \in Live THEN BesideOthers(Nobody, t.of, {"audit"}) ELSE request
    /\ tasks' = tasks \ {t}
    /\ UNCHANGED <<users, kept, spoilt, welcomed, started>>

-----------------------------------------------------------------------------
Begins(r) ==
    \/ Register(r) \/ GoogleReadsIdentity(r)
    \/ ChangeRole(r) \/ ChangeEmail(r) \/ DeleteUser(r) \/ DeleteProfile(r)
    \/ \E k \in Kinds \ {"audit"} : Insert(r, k)

Ends(r) ==
    \/ GoogleFindsEmail(r) \/ CreateFlushes(r) \/ LinkFlushes(r) \/ ChangeFlushes(r)
    \/ Sweeps(r) \/ DeleteFlushes(r) \/ InsertFlushes(r) \/ Commits(r) \/ RollsBack(r)

Next ==
    \/ \E r \in Requests : Begins(r) \/ Ends(r)
    \/ Removes
    \/ \E t \in tasks : Welcome(t) \/ Record(t)

Spec == Init /\ [][Next]_vars
=============================================================================
