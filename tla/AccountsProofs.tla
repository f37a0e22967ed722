----------------------------- MODULE AccountsProofs -----------------------------
(***************************************************************************)
(* What accounts keep, for any number of accounts, identities and requests.*)
(*                                                                         *)
(* The argument is about what a request may rely on: one with nobody's     *)
(* commit beside it on all it was let in for, one that has flushed on what *)
(* its locks keep others from changing.                                    *)
(***************************************************************************)
EXTENDS AccountsProperties, FiniteSetTheorems, Sums, TLAPS

-----------------------------------------------------------------------------
(* The invariant *)

Creating == {"register", "create"}
Changing == {"link", "role", "email", "delete"}
Someone == [email : Emails, google : Identities \cup {Nobody}]
Asked == [op : Creating \cup Changing \cup {"google", "insert"},
          by : Users \cup {Nobody}, on : Users \cup {Nobody},
          arg : Someone \cup [role : Roles \cup {Nobody}] \cup [email : Emails] \cup [kind : Kinds],
          phase : {"unknown", "checked", "swept", "flushed"},
          disturbed : BOOLEAN, swept : SUBSET Kinds]

Types ==
    /\ users \in [Users -> Account \cup {Absent, Gone}]
    /\ owns \in [Users -> SUBSET Kinds]
    /\ kept \subseteq Users
    /\ tasks \subseteq [kind : {"welcome", "audit"}, of : Users]
    /\ welcomed \subseteq Users
    /\ request \in [Requests -> Asked \cup {Free}]
    /\ started \in 0 .. MaxRequests

Active == {r \in Requests : request[r] # Free}
HasFlushed == {r \in Active : request[r].phase = "flushed"}

\* Each request is about what its operation is about.
Fits(q) ==
    /\ q.op = "google" <=> q.phase = "unknown"
    /\ q.phase = "swept" => q.op = "delete"
    /\ q.op \in Creating \cup {"google", "link"} => q.arg \in Someone
    /\ q.op \in {"google", "create", "link"} => q.arg.google \in Identities
    /\ q.op = "register" => q.arg.google = Nobody
    /\ q.op = "role" => q.arg \in [role : Roles]
    /\ q.op = "email" => q.arg \in [email : Emails]
    /\ q.op = "insert" => q.arg \in [kind : Kinds]
    /\ q.op \in Changing \cup {"insert"} => q.on \in Users
    /\ q.op \in {"role", "email", "delete"} => q.by \in Users
    /\ q.op = "role" => q.by # q.on

\* What a flushed request has locked stays.
Holds(q) ==
    /\ q.op \in Creating =>
        /\ q.on \in Users /\ users[q.on] = Absent
        /\ \A u \in Live : users[u].email # q.arg.email
    /\ q.op \in {"link", "role", "email", "insert"} => q.on \in Live
    /\ q.op = "email" => \A u \in Live \ {q.on} : users[u].email # q.arg.email

\* What was checked is so while nobody commits; an account that was there is
\* never unknown again.
Knows(q) ==
    /\ q.op \in Changing \cup {"insert"} => users[q.on].state # "absent"
    /\ ~q.disturbed =>
        /\ q.op \in Creating =>
            \A u \in Live : users[u].email # q.arg.email \/ q.phase = "flushed"
        /\ q.op \in {"google", "create", "link"} => WithGoogle(q.arg.google) = {}
        /\ q.op \in Changing \cup {"insert"} => q.on \in Live
        /\ q.op = "role" \/ (q.op = "delete" /\ q.by # q.on) => IsAdmin(q.by)
        /\ q.op = "insert" /\ q.arg.kind \in {"wish", "review"} => q.arg.kind \notin owns[q.on]
        /\ q.phase = "swept" => owns[q.on] \subseteq q.swept \cup Cascading

\* Two requests that have flushed wait for none of each other's locks.
Compatible(p, q) ==
    /\ p.op \in Creating /\ q.op \in Creating => p.on # q.on
    /\ p.op \in Changing /\ q.op \in Changing => p.on # q.on
    /\ p.op = "delete" /\ q.op = "insert" => p.on # q.on
    /\ p.op = "insert" /\ q.op = "delete" => p.on # q.on
    /\ p.op \in Creating \cup {"email"} /\ q.op \in Creating \cup {"email"} =>
        p.arg.email # q.arg.email

OwnEmails == \A u, v \in Live : users[u].email = users[v].email => u = v
Referential ==
    /\ \A u \in Users \ Live : owns[u] = {}
    /\ \A u \in kept : users[u] = Gone
    /\ \A u \in welcomed : users[u] # Absent

Requesting ==
    /\ \A r \in Active : Fits(request[r]) /\ Knows(request[r])
    /\ \A r \in HasFlushed : Holds(request[r])
    /\ \A r, s \in HasFlushed : r # s => Compatible(request[r], request[s])

Inv == Types /\ Requesting /\ OwnEmails /\ Referential

LEMMA AskedIsNotFree == \A q \in Asked : q # Free /\ q.phase # Free.phase
BY DEF Asked, Free

LEMMA StatesDiffer ==
    /\ Absent # Gone /\ Absent.state = "absent" /\ Gone.state = "gone"
    /\ \A a \in Account : a.state = "live" /\ a # Absent /\ a # Gone
BY DEF Absent, Gone, Account

\* The accounts a shop opens with satisfy the invariant.
THEOREM InitInv == Init => Inv
<1> SUFFICES ASSUME Init PROVE Inv
    OBVIOUS
<1>1. Types
    BY OpeningAssumption, BoundsAssumption DEF Init, Types
<1>2. Active = {} /\ HasFlushed = {}
    BY DEF Init, Active, HasFlushed
<1>3. OwnEmails /\ Referential
    BY OpeningAssumption DEF Init, OwnEmails, Referential, Live
<1> QED
    BY <1>1, <1>2, <1>3 DEF Inv, Requesting

-----------------------------------------------------------------------------
(* Steps of one request that change no row *)

LEMMA RequestKeepsInv ==
    ASSUME Inv, NEW r \in Requests, NEW q \in Asked \cup {Free},
           request' = [request EXCEPT ![r] = q],
           UNCHANGED <<rowVars, welcomed>>,
           tasks' \subseteq [kind : {"welcome", "audit"}, of : Users],
           started' \in 0 .. MaxRequests,
           q # Free => Fits(q) /\ Knows(q),
           q.phase = "flushed" =>
            /\ Holds(q)
            /\ \A s \in HasFlushed \ {r} :
                Compatible(q, request[s]) /\ Compatible(request[s], q)
    PROVE  Inv'
<1>1. UNCHANGED <<users, owns, kept>> /\ Live' = Live
    BY DEF rowVars, Live
<1>2. Types' /\ OwnEmails' /\ Referential'
    BY <1>1 DEF Inv, Types, OwnEmails, Referential
<1>3. \A s \in Requests : request'[s] = IF s = r THEN q ELSE request[s]
    BY DEF Inv, Types
<1>4. ASSUME NEW s \in Active' PROVE Fits(request[s])' /\ Knows(request[s])'
    BY <1>1, <1>3 DEF Inv, Requesting, Active, Fits, Knows, WithGoogle, IsAdmin
<1>5. HasFlushed' \subseteq HasFlushed \cup {r}
    BY <1>3 DEF HasFlushed, Active
<1>6. ASSUME NEW s \in HasFlushed' PROVE Holds(request[s])'
    BY <1>1, <1>3, <1>5 DEF Inv, Requesting, HasFlushed, Active, Holds
<1>7. ASSUME NEW s \in HasFlushed', NEW t \in HasFlushed', s # t
      PROVE  Compatible(request[s], request[t])'
    BY <1>3, <1>5, <1>7 DEF Inv, Requesting, HasFlushed, Active, Compatible
<1> QED
    BY <1>2, <1>4, <1>6, <1>7 DEF Inv, Requesting

LEMMA StartKeepsInv ==
    ASSUME Inv, NEW r \in Requests, NEW op \in Creating \cup Changing \cup {"google", "insert"},
           NEW by \in Users \cup {Nobody}, NEW on \in Users \cup {Nobody},
           NEW arg \in Someone \cup [role : Roles \cup {Nobody}] \cup [email : Emails]
                        \cup [kind : Kinds],
           NEW phase \in {"unknown", "checked"},
           Starts(r, Asks(op, by, on, arg, phase)),
           Fits(Asks(op, by, on, arg, phase)), Knows(Asks(op, by, on, arg, phase))
    PROVE  Inv'
<1> DEFINE q == Asks(op, by, on, arg, phase)
<1>1. q \in Asked /\ q.phase # "flushed"
    BY DEF Asked, Asks
<1>2. /\ request' = [request EXCEPT ![r] = q]
      /\ started < MaxRequests /\ started' = started + 1
      /\ UNCHANGED <<rowVars, tasks, welcomed>>
    BY DEF Starts
<1>3. started' \in 0 .. MaxRequests
    BY <1>2, BoundsAssumption DEF Inv, Types
<1>4. tasks' \subseteq [kind : {"welcome", "audit"}, of : Users]
    BY <1>2 DEF Inv, Types
<1> HIDE DEF q
<1>5. Fits(q) /\ Knows(q)
    BY DEF q
<1> QED
    BY <1>1, <1>2, <1>3, <1>4, <1>5, RequestKeepsInv

LEMMA RegisterKeepsInv == ASSUME Inv, NEW r \in Requests, Register(r) PROVE Inv'
<1>1. PICK e \in Emails :
        /\ WithEmail(e) = {}
        /\ Starts(r, Asks("register", Nobody, Nobody, [email |-> e, google |-> Nobody], "checked"))
    BY DEF Register
<1> DEFINE who == [email |-> e, google |-> Nobody]
           q == Asks("register", Nobody, Nobody, who, "checked")
<1>2. who \in Someone
    BY DEF Someone
<1>3. Fits(q)
    BY <1>2 DEF Fits, Asks, Creating, Changing
<1>4. Knows(q)
    BY <1>1 DEF Knows, Asks, Creating, Changing, WithEmail
<1> QED
    BY <1>1, <1>2, <1>3, <1>4, StartKeepsInv DEF Creating

LEMMA GoogleKeepsInv == ASSUME Inv, NEW r \in Requests, GoogleReadsIdentity(r) PROVE Inv'
<1>1. PICK g \in Identities, e \in Emails :
        IF WithGoogle(g) # {}
        THEN \E u \in WithGoogle(g) :
                Starts(r, Asks("insert", u, u, [kind |-> "token"], "checked"))
        ELSE Starts(r, Asks("google", Nobody, Nobody, [email |-> e, google |-> g], "unknown"))
    BY DEF GoogleReadsIdentity
<1>2. CASE WithGoogle(g) # {}
    <2>1. PICK u \in WithGoogle(g) :
            Starts(r, Asks("insert", u, u, [kind |-> "token"], "checked"))
        BY <1>1, <1>2
    <2>2. u \in Live /\ u \in Users
        BY DEF WithGoogle, Live
    <2> DEFINE q == Asks("insert", u, u, [kind |-> "token"], "checked")
    <2>3. [kind |-> "token"] \in [kind : Kinds]
        BY DEF Kinds, Cascading
    <2>4. Fits(q) /\ Knows(q)
        BY <2>2, <2>3 DEF Fits, Knows, Asks, Creating, Changing, Live
    <2> QED
        BY <2>1, <2>2, <2>3, <2>4, StartKeepsInv
<1>3. CASE WithGoogle(g) = {}
    <2> DEFINE who == [email |-> e, google |-> g]
               q == Asks("google", Nobody, Nobody, who, "unknown")
    <2>1. who \in Someone
        BY DEF Someone
    <2>2. Fits(q) /\ Knows(q)
        BY <1>3, <2>1 DEF Fits, Knows, Asks, Creating, Changing, Live
    <2> QED
        BY <1>1, <1>3, <2>1, <2>2, StartKeepsInv
<1> QED
    BY <1>2, <1>3

LEMMA AdministratorsKeepInv ==
    ASSUME Inv, NEW r \in Requests,
           ChangeRole(r) \/ ChangeEmail(r) \/ DeleteUser(r) \/ DeleteProfile(r)
    PROVE  Inv'
<1>1. CASE ChangeRole(r)
    <2>1. PICK a \in Users, n \in Roles : \E u \in Others(a) \cap Live :
            IsAdmin(a) /\ Starts(r, Asks("role", a, u, [role |-> n], "checked"))
        BY <1>1 DEF ChangeRole
    <2>2. PICK u \in Others(a) \cap Live :
            IsAdmin(a) /\ Starts(r, Asks("role", a, u, [role |-> n], "checked"))
        BY <2>1
    <2> DEFINE arg == [role |-> n]
               q == Asks("role", a, u, arg, "checked")
    <2>3. u \in Users /\ u # a /\ u \in Live
        BY DEF Others, Live
    <2>4. arg \in [role : Roles] /\ arg \in [role : Roles \cup {Nobody}]
        OBVIOUS
    <2>5. Fits(q) /\ Knows(q)
        BY <2>2, <2>3, <2>4 DEF Fits, Knows, Asks, Creating, Changing, Live
    <2> QED
        BY <2>2, <2>3, <2>4, <2>5, StartKeepsInv DEF Changing
<1>2. CASE ChangeEmail(r)
    <2>1. PICK a \in Users, u \in Live, e \in Emails :
            Starts(r, Asks("email", a, u, [email |-> e], "checked"))
        BY <1>2 DEF ChangeEmail
    <2> DEFINE arg == [email |-> e]
               q == Asks("email", a, u, arg, "checked")
    <2>2. u \in Users /\ arg \in [email : Emails]
        BY DEF Live
    <2>3. Fits(q) /\ Knows(q)
        BY <2>2 DEF Fits, Knows, Asks, Creating, Changing, Live
    <2> QED
        BY <2>1, <2>2, <2>3, StartKeepsInv DEF Changing
<1>3. CASE DeleteUser(r)
    <2>1. PICK a \in Users : \E u \in Others(a) \cap Live :
            IsAdmin(a) /\ Starts(r, Asks("delete", a, u, [role |-> Nobody], "checked"))
        BY <1>3 DEF DeleteUser
    <2>2. PICK u \in Others(a) \cap Live :
            IsAdmin(a) /\ Starts(r, Asks("delete", a, u, [role |-> Nobody], "checked"))
        BY <2>1
    <2> DEFINE arg == [role |-> Nobody]
               q == Asks("delete", a, u, arg, "checked")
    <2>3. u \in Users /\ u \in Live /\ arg \in [role : Roles \cup {Nobody}]
        BY DEF Live
    <2>4. Fits(q) /\ Knows(q)
        BY <2>2, <2>3 DEF Fits, Knows, Asks, Creating, Changing, Live
    <2> QED
        BY <2>2, <2>3, <2>4, StartKeepsInv DEF Changing
<1>4. CASE DeleteProfile(r)
    <2>1. PICK u \in Live : Starts(r, Asks("delete", u, u, [role |-> Nobody], "checked"))
        BY <1>4 DEF DeleteProfile
    <2> DEFINE arg == [role |-> Nobody]
               q == Asks("delete", u, u, arg, "checked")
    <2>2. u \in Users /\ arg \in [role : Roles \cup {Nobody}]
        BY DEF Live
    <2>3. Fits(q) /\ Knows(q)
        BY <2>2 DEF Fits, Knows, Asks, Creating, Changing, Live
    <2> QED
        BY <2>1, <2>2, <2>3, StartKeepsInv DEF Changing
<1> QED
    BY <1>1, <1>2, <1>3, <1>4

LEMMA InsertKeepsInv ==
    ASSUME Inv, NEW r \in Requests, NEW k \in Kinds, Insert(r, k)
    PROVE  Inv'
<1>1. PICK u \in Live :
        /\ k \in {"token", "order", "cart"} \/ ~Present(u, k)
        /\ Starts(r, Asks("insert", u, u, [kind |-> k], "checked"))
    BY DEF Insert
<1> DEFINE arg == [kind |-> k]
           q == Asks("insert", u, u, arg, "checked")
<1>2. u \in Users /\ arg \in [kind : Kinds]
    BY DEF Live
<1>3. Fits(q) /\ Knows(q)
    BY <1>1, <1>2 DEF Fits, Knows, Asks, Creating, Changing, Live, Present
<1> QED
    BY <1>1, <1>2, <1>3, StartKeepsInv

-----------------------------------------------------------------------------
(* Requests that go on, flush and fail *)

LEMMA UnderWay ==
    ASSUME Inv, NEW r \in Requests, request[r].phase # Free.phase
    PROVE  /\ request[r] \in Asked /\ r \in Active
           /\ Fits(request[r]) /\ Knows(request[r])
BY DEF Inv, Types, Requesting, Active

LEMMA FailKeepsInv == ASSUME Inv, NEW r \in Requests, Fails(r) PROVE Inv'
<1>1. /\ request' = [request EXCEPT ![r] = Free]
      /\ UNCHANGED <<rowVars, tasks, welcomed, started>>
    BY DEF Fails, Continues
<1>2. Free.phase # "flushed"
    BY DEF Free
<1> QED
    BY <1>1, <1>2, RequestKeepsInv DEF Inv, Types

LEMMA RollsBackKeepsInv == ASSUME Inv, NEW r \in Requests, RollsBack(r) PROVE Inv'
<1>1. /\ request' = [request EXCEPT ![r] = Free]
      /\ UNCHANGED <<rowVars, tasks, welcomed, started>>
    BY DEF RollsBack
<1>2. Free.phase # "flushed"
    BY DEF Free
<1> QED
    BY <1>1, <1>2, RequestKeepsInv DEF Inv, Types

LEMMA ContinueKeepsInv ==
    ASSUME Inv, NEW r \in Requests, NEW n \in Asked, Continues(r, n), n.phase # "flushed",
           Fits(n), Knows(n)
    PROVE  Inv'
<1>1. /\ request' = [request EXCEPT ![r] = n]
      /\ UNCHANGED <<rowVars, tasks, welcomed, started>>
    BY DEF Continues
<1> QED
    BY <1>1, RequestKeepsInv DEF Inv, Types

LEMMA FlushKeepsInv ==
    ASSUME Inv, NEW r \in Requests, NEW n \in Asked, n.phase = "flushed",
           NEW events \in SUBSET [kind : {"welcome", "audit"}, of : Users],
           request' = [request EXCEPT ![r] = n], tasks' = tasks \cup events,
           UNCHANGED <<rowVars, welcomed, started>>,
           Fits(n), Knows(n), Holds(n),
           \A s \in HasFlushed \ {r} :
                Compatible(n, request[s]) /\ Compatible(request[s], n)
    PROVE  Inv'
<1>1. tasks' \subseteq [kind : {"welcome", "audit"}, of : Users]
    BY DEF Inv, Types
<1>2. started' \in 0 .. MaxRequests
    BY DEF Inv, Types
<1> QED
    BY <1>1, <1>2, RequestKeepsInv

LEMMA GoogleFindsKeepsInv == ASSUME Inv, NEW r \in Requests, GoogleFindsEmail(r) PROVE Inv'
<1> DEFINE q == request[r]
<1>1. q.phase = "unknown"
    BY DEF GoogleFindsEmail
<1>2. q \in Asked /\ Fits(q) /\ Knows(q)
    BY <1>1, UnderWay DEF Free
<1>3. q.op = "google" /\ q.arg \in Someone /\ q.arg.google \in Identities
    BY <1>1, <1>2 DEF Fits
<1>4. ASSUME WithEmail(q.arg.email) = {},
             Continues(r, [q EXCEPT !.op = "create", !.phase = "checked"])
      PROVE  Inv'
    <2> DEFINE n == [q EXCEPT !.op = "create", !.phase = "checked"]
    <2>1. /\ n \in Asked
          /\ n.op = "create" /\ n.phase = "checked" /\ n.arg = q.arg
          /\ n.disturbed = q.disturbed
        BY <1>2 DEF Asked, Creating, Changing
    <2> HIDE DEF n
    <2>2. Fits(n)
        BY <1>3, <2>1 DEF Fits, Creating, Changing
    <2>3. Knows(n)
        BY <1>2, <1>3, <1>4, <2>1 DEF Knows, Creating, Changing, WithEmail
    <2> QED
        BY <1>4, <2>1, <2>2, <2>3, ContinueKeepsInv DEF n
<1>5. ASSUME NEW u \in WithEmail(q.arg.email),
             Continues(r, [q EXCEPT !.op = "link", !.on = u, !.phase = "checked"])
      PROVE  Inv'
    <2> DEFINE n == [q EXCEPT !.op = "link", !.on = u, !.phase = "checked"]
    <2>1. u \in Live /\ u \in Users
        BY DEF WithEmail, Live
    <2>2. /\ n \in Asked
          /\ n.op = "link" /\ n.phase = "checked" /\ n.arg = q.arg /\ n.on = u
          /\ n.disturbed = q.disturbed
        BY <1>2, <2>1 DEF Asked, Creating, Changing
    <2> HIDE DEF n
    <2>3. Fits(n)
        BY <1>3, <2>1, <2>2 DEF Fits, Creating, Changing
    <2>4. Knows(n)
        BY <1>2, <1>3, <2>1, <2>2 DEF Knows, Creating, Changing, Live
    <2> QED
        BY <1>5, <2>2, <2>3, <2>4, ContinueKeepsInv DEF n
<1> QED
    BY <1>4, <1>5 DEF GoogleFindsEmail

LEMMA FlushedIs == ASSUME Inv, NEW s \in HasFlushed PROVE request[s] \in Flushed
BY DEF HasFlushed, Active, Flushed

LEMMA CreateFlushesKeepsInv == ASSUME Inv, NEW r \in Requests, CreateFlushes(r) PROVE Inv'
<1> DEFINE q == request[r]
           u == CHOOSE v \in NextId : \A w \in NextId : v <= w
           n == [[q EXCEPT !.on = u] EXCEPT !.phase = "flushed"]
           events == IF q.op = "register" THEN {[kind |-> "welcome", of |-> u]} ELSE {}
<1>1. q.phase = "checked" /\ q.op \in Creating /\ EmailFree(q.arg.email) /\ NextId # {}
    BY DEF CreateFlushes, Creating
<1>2. q \in Asked /\ Fits(q) /\ Knows(q)
    BY <1>1, UnderWay DEF Free
<1>3. CASE EmailTaken(q.arg.email, Nobody)
    BY <1>3, FailKeepsInv DEF CreateFlushes
<1>4. CASE ~EmailTaken(q.arg.email, Nobody)
    <2>1. NextId \subseteq Nat /\ NextId \subseteq Users
        BY BoundsAssumption DEF NextId, Users
    <2>2. u \in NextId
        BY <1>1, <2>1, Smallest
    <2> HIDE DEF u
    <2>3. u \in Users /\ users[u] = Absent
        BY <2>2 DEF NextId
    <2>4. /\ request' = [request EXCEPT ![r] = n] /\ tasks' = tasks \cup events
          /\ UNCHANGED <<rowVars, welcomed, started>>
        BY <1>4 DEF CreateFlushes, Flushes, u
    <2>5. events \in SUBSET [kind : {"welcome", "audit"}, of : Users]
        BY <2>3
    <2>6. /\ n \in Asked
          /\ n.op = q.op /\ n.phase = "flushed" /\ n.arg = q.arg /\ n.on = u
          /\ n.disturbed = q.disturbed
        BY <1>2, <2>3 DEF Asked
    <2> HIDE DEF n, events
    <2>7. Fits(n)
        BY <1>1, <1>2, <2>6 DEF Fits, Creating, Changing
    <2>8. Knows(n)
        BY <1>1, <1>2, <2>6 DEF Knows, Creating, Changing
    <2>9. \A v \in Live : users[v].email # q.arg.email
        BY <1>4 DEF EmailTaken, WithEmail, Live, Users, Nobody
    <2>10. Holds(n)
        BY <1>1, <2>3, <2>6, <2>9 DEF Holds, Creating
    <2>11. ASSUME NEW s \in HasFlushed
           PROVE  Compatible(n, request[s]) /\ Compatible(request[s], n)
        <3>1. request[s] \in Flushed
            BY FlushedIs
        <3>2. request[s].op \in Creating =>
                request[s].on # u /\ request[s].arg.email # q.arg.email
            BY <1>1, <2>2, <3>1 DEF NextId, EmailFree, Creating
        <3>3. request[s].op = "email" => request[s].arg.email # q.arg.email
            BY <1>1, <3>1 DEF EmailFree
        <3> QED
            BY <1>1, <2>6, <3>2, <3>3 DEF Compatible, Creating, Changing
    <2> QED
        BY <2>4, <2>5, <2>6, <2>7, <2>8, <2>10, <2>11, FlushKeepsInv
<1> QED
    BY <1>3, <1>4

\* Flushes that change nothing of the request but its phase.
LEMMA PlainFlushKeepsInv ==
    ASSUME Inv, NEW r \in Requests, request[r].phase \in {"checked", "swept"},
           request[r].op \in Changing \cup {"insert"},
           NEW events \in SUBSET [kind : {"welcome", "audit"}, of : Users],
           Flushes(r, request[r], events), Holds(request[r]),
           \A s \in HasFlushed \ {r} :
                Compatible(request[r], request[s]) /\ Compatible(request[s], request[r])
    PROVE  Inv'
<1> DEFINE q == request[r]
           n == [q EXCEPT !.phase = "flushed"]
<1>1. q \in Asked /\ Fits(q) /\ Knows(q)
    BY UnderWay DEF Free
<1>2. /\ n \in Asked
      /\ n.op = q.op /\ n.phase = "flushed" /\ n.arg = q.arg /\ n.on = q.on /\ n.by = q.by
      /\ n.disturbed = q.disturbed /\ n.swept = q.swept
    BY <1>1 DEF Asked
<1>3. /\ request' = [request EXCEPT ![r] = n] /\ tasks' = tasks \cup events
      /\ UNCHANGED <<rowVars, welcomed, started>>
    BY DEF Flushes
<1> HIDE DEF n
<1>4. Fits(n) /\ Knows(n) /\ Holds(n)
    BY <1>1, <1>2 DEF Fits, Knows, Holds, Creating, Changing
<1>5. \A s \in HasFlushed \ {r} : Compatible(n, request[s]) /\ Compatible(request[s], n)
    BY <1>2 DEF Compatible
<1> QED
    BY <1>2, <1>3, <1>4, <1>5, FlushKeepsInv

LEMMA LinkFlushesKeepsInv == ASSUME Inv, NEW r \in Requests, LinkFlushes(r) PROVE Inv'
<1> DEFINE q == request[r]
<1>1. q.phase = "checked" /\ q.op = "link" /\ RowFree(q.on)
    BY DEF LinkFlushes
<1>2. ASSUME NEW s \in HasFlushed
      PROVE  Compatible(q, request[s]) /\ Compatible(request[s], q)
    BY <1>1, FlushedIs DEF RowFree, Compatible, Creating, Changing
<1>3. CASE q.on \in Live
    <2>1. Holds(q)
        BY <1>1, <1>3 DEF Holds, Creating
    <2> QED
        BY <1>1, <1>2, <1>3, <2>1, PlainFlushKeepsInv DEF LinkFlushes, Changing
<1>4. CASE q.on \notin Live
    BY <1>4, FailKeepsInv DEF LinkFlushes
<1> QED
    BY <1>3, <1>4

LEMMA ChangeFlushesKeepsInv == ASSUME Inv, NEW r \in Requests, ChangeFlushes(r) PROVE Inv'
<1> DEFINE q == request[r]
<1>1. /\ q.phase = "checked" /\ q.op \in {"role", "email"} /\ RowFree(q.on)
      /\ q.op = "email" => EmailFree(q.arg.email)
    BY DEF ChangeFlushes
<1>2. q \in Asked /\ Fits(q)
    BY <1>1, UnderWay DEF Free
<1>3. ASSUME NEW s \in HasFlushed
      PROVE  Compatible(q, request[s]) /\ Compatible(request[s], q)
    BY <1>1, FlushedIs DEF RowFree, EmailFree, Compatible, Creating, Changing
<1>4. CASE q.on \notin Live \/ (q.op = "email" /\ EmailTaken(q.arg.email, q.on))
    BY <1>4, FailKeepsInv DEF ChangeFlushes
<1>5. CASE ~(q.on \notin Live \/ (q.op = "email" /\ EmailTaken(q.arg.email, q.on)))
    <2>1. Flushes(r, q, Audit(q))
        BY <1>5 DEF ChangeFlushes
    <2>2. Audit(q) \in SUBSET [kind : {"welcome", "audit"}, of : Users]
        BY <1>1, <1>2 DEF Audit, Fits
    <2>3. Holds(q)
        BY <1>1, <1>5 DEF Holds, Creating, EmailTaken, WithEmail
    <2> QED
        BY <1>1, <1>3, <2>1, <2>2, <2>3, PlainFlushKeepsInv DEF Changing
<1> QED
    BY <1>4, <1>5

LEMMA SweepsKeepsInv == ASSUME Inv, NEW r \in Requests, Sweeps(r) PROVE Inv'
<1> DEFINE q == request[r]
           n == [q EXCEPT !.phase = "swept", !.swept = owns[q.on] \cap SweepsWhat]
<1>1. q.phase = "checked" /\ q.op = "delete"
    BY DEF Sweeps
<1>2. q \in Asked /\ Fits(q) /\ Knows(q) /\ q.on \in Users
    BY <1>1, UnderWay DEF Free, Fits, Changing
<1>3. CASE q.on \notin Live
    BY <1>3, FailKeepsInv DEF Sweeps
<1>4. CASE q.on \in Live
    <2>1. Continues(r, n)
        BY <1>4 DEF Sweeps
    <2>2. owns[q.on] \subseteq Kinds
        BY <1>2 DEF Inv, Types
    <2>3. /\ n \in Asked
          /\ n.op = "delete" /\ n.phase = "swept" /\ n.arg = q.arg /\ n.on = q.on
          /\ n.by = q.by /\ n.disturbed = q.disturbed
          /\ n.swept = owns[q.on] \cap SweepsWhat
        BY <1>1, <1>2, <2>2 DEF Asked
    <2> HIDE DEF n
    <2>4. Fits(n)
        BY <1>1, <1>2, <2>3 DEF Fits, Creating, Changing
    <2>5. owns[n.on] \subseteq n.swept \cup Cascading
        BY <2>2, <2>3 DEF SweepsWhat, Swept, Kinds, Cascading
    <2>6. Knows(n)
        BY <1>1, <1>2, <2>3, <2>5 DEF Knows, Creating, Changing
    <2> QED
        BY <2>1, <2>3, <2>4, <2>6, ContinueKeepsInv
<1> QED
    BY <1>3, <1>4

LEMMA DeleteFlushesKeepsInv == ASSUME Inv, NEW r \in Requests, DeleteFlushes(r) PROVE Inv'
<1> DEFINE q == request[r]
<1>1. q.phase = "swept" /\ RowFree(q.on) /\ Unreferred(q.on)
    BY DEF DeleteFlushes
<1>2. q \in Asked /\ Fits(q) /\ q.op = "delete"
    BY <1>1, UnderWay DEF Free, Fits
<1>3. ASSUME NEW s \in HasFlushed
      PROVE  Compatible(q, request[s]) /\ Compatible(request[s], q)
    BY <1>1, <1>2, FlushedIs DEF RowFree, Unreferred, Compatible, Creating, Changing
<1>4. CASE owns[q.on] \ (q.swept \cup Cascading) # {}
    BY <1>4, FailKeepsInv DEF DeleteFlushes
<1>5. CASE owns[q.on] \ (q.swept \cup Cascading) = {}
    <2>1. Flushes(r, q, Audit(q))
        BY <1>5 DEF DeleteFlushes
    <2>2. Audit(q) \in SUBSET [kind : {"welcome", "audit"}, of : Users]
        BY <1>2 DEF Audit, Fits
    <2>3. Holds(q)
        BY <1>2 DEF Holds, Creating
    <2> QED
        BY <1>1, <1>2, <1>3, <2>1, <2>2, <2>3, PlainFlushKeepsInv DEF Changing
<1> QED
    BY <1>4, <1>5

LEMMA InsertFlushesKeepsInv == ASSUME Inv, NEW r \in Requests, InsertFlushes(r) PROVE Inv'
<1> DEFINE q == request[r]
<1>1. q.phase = "checked" /\ q.op = "insert" /\ Referable(q.on)
    BY DEF InsertFlushes
<1>2. ASSUME NEW s \in HasFlushed
      PROVE  Compatible(q, request[s]) /\ Compatible(request[s], q)
    BY <1>1, FlushedIs DEF Referable, Compatible, Creating, Changing
<1>3. Fails(r) \/ (q.on \in Live /\ Flushes(r, q, {}))
    BY DEF InsertFlushes
<1>4. ASSUME q.on \in Live, Flushes(r, q, {}) PROVE Inv'
    <2>1. Holds(q)
        BY <1>1, <1>4 DEF Holds, Creating
    <2>2. {} \in SUBSET [kind : {"welcome", "audit"}, of : Users]
        OBVIOUS
    <2> QED
        BY <1>1, <1>2, <1>4, <2>1, <2>2, PlainFlushKeepsInv DEF Changing
<1> QED
    BY <1>3, <1>4, FailKeepsInv

-----------------------------------------------------------------------------
(* Commits *)

\* Who was beside the commit keeps what he asks for.
LEMMA BesideIs ==
    ASSUME Inv, NEW r, NEW u, NEW rows, request' = BesideOthers(r, u, rows)
    PROVE  /\ request' \in [Requests -> Asked \cup {Free}]
           /\ Active' \subseteq Active \ {r}
           /\ \A s \in Active' :
                /\ request[s] \in Asked /\ request'[s] \in Asked
                /\ request'[s].disturbed
                /\ request'[s].op = request[s].op /\ request'[s].by = request[s].by
                /\ request'[s].on = request[s].on /\ request'[s].arg = request[s].arg
                /\ request'[s].phase = request[s].phase
<1> DEFINE Left(q) == IF q.on = u THEN q.swept \ rows ELSE q.swept
           Beside(q) == [q EXCEPT !.disturbed = TRUE, !.swept = Left(q)]
<1>1. ASSUME NEW q \in Asked
      PROVE  /\ Beside(q) \in Asked /\ Beside(q).disturbed
             /\ Beside(q).op = q.op /\ Beside(q).by = q.by /\ Beside(q).on = q.on
             /\ Beside(q).arg = q.arg /\ Beside(q).phase = q.phase
    <2>1. Left(q) \in SUBSET Kinds
        BY DEF Asked
    <2> HIDE DEF Left
    <2> QED
        BY <2>1 DEF Asked
<1>2. \A s \in Requests : request'[s] =
        IF s = r \/ request[s] = Free THEN Free ELSE Beside(request[s])
    BY DEF BesideOthers
<1> HIDE DEF Beside
<1>3. request' \in [Requests -> Asked \cup {Free}]
    <2>1. request' = [s \in Requests |-> request'[s]]
        BY DEF BesideOthers
    <2> QED
        BY <1>1, <1>2, <2>1 DEF Inv, Types
<1>4. ASSUME NEW s \in Active'
      PROVE  s \in Active /\ s # r /\ request[s] \in Asked
             /\ request'[s] = Beside(request[s])
    BY <1>2 DEF Active, Inv, Types
<1> QED
    <2>1. Active' \subseteq Active \ {r}
        BY <1>4
    <2>2. ASSUME NEW s \in Active'
          PROVE  /\ request[s] \in Asked /\ request'[s] \in Asked
                 /\ request'[s].disturbed
                 /\ request'[s].op = request[s].op /\ request'[s].by = request[s].by
                 /\ request'[s].on = request[s].on /\ request'[s].arg = request[s].arg
                 /\ request'[s].phase = request[s].phase
        BY <1>1, <1>4
    <2> QED
        BY <1>3, <2>1, <2>2

LEMMA OthersStay ==
    ASSUME Inv, NEW r, NEW u, NEW rows, request' = BesideOthers(r, u, rows),
           NEW s \in Requests \ {r}, request[s] # Free
    PROVE  request'[s] # Free
<1> DEFINE left == IF request[s].on = u THEN request[s].swept \ rows ELSE request[s].swept
           n == [request[s] EXCEPT !.disturbed = TRUE, !.swept = left]
<1>1. request[s] \in Asked /\ left \in SUBSET Kinds
    BY DEF Inv, Types, Asked
<1>2. request'[s] = n
    BY DEF BesideOthers
<1> HIDE DEF left
<1>3. n \in Asked
    BY <1>1 DEF Asked
<1> QED
    BY <1>2, <1>3, AskedIsNotFree

\* What a flushed request has locked, whoever commits.
Locked(q) ==
    /\ q.op \in Creating => q.on \in Users /\ users'[q.on] = Absent
    /\ q.op \in {"link", "role", "email", "insert"} => q.on \in Live'
    /\ q.op \in Creating => \A u \in Live' : users'[u].email # q.arg.email
    /\ q.op = "email" => \A u \in Live' \ {q.on} : users'[u].email # q.arg.email

LEMMA RowsKeepInv ==
    ASSUME Inv, NEW r, NEW on, NEW rows, request' = BesideOthers(r, on, rows),
           Types', OwnEmails', Referential',
           \A u \in Users : users[u].state # "absent" => users'[u].state # "absent",
           \A s \in HasFlushed \ {r} : Locked(request[s])
    PROVE  Inv'
<1>1. /\ Active' \subseteq Active \ {r}
      /\ \A s \in Active' :
            /\ request[s] \in Asked /\ request'[s] \in Asked
            /\ request'[s].disturbed
            /\ request'[s].op = request[s].op /\ request'[s].by = request[s].by
            /\ request'[s].on = request[s].on /\ request'[s].arg = request[s].arg
            /\ request'[s].phase = request[s].phase
    BY BesideIs
<1>2. HasFlushed' \subseteq HasFlushed \ {r} /\ HasFlushed' \subseteq Active'
    BY <1>1 DEF HasFlushed
<1>3. ASSUME NEW s \in Active' PROVE Fits(request[s])' /\ Knows(request[s])'
    <2>1. Fits(request[s]) /\ Knows(request[s])
        BY <1>1 DEF Inv, Requesting
    <2> QED
        BY <1>1, <2>1 DEF Fits, Knows
<1>4. ASSUME NEW s \in HasFlushed' PROVE Holds(request[s])'
    BY <1>1, <1>2 DEF Holds, Locked
<1>5. ASSUME NEW s \in HasFlushed', NEW t \in HasFlushed', s # t
      PROVE  Compatible(request[s], request[t])'
    <2>1. Compatible(request[s], request[t])
        BY <1>2, <1>5 DEF Inv, Requesting
    <2> QED
        BY <1>1, <1>2, <2>1 DEF Compatible
<1> QED
    BY <1>3, <1>4, <1>5 DEF Inv, Requesting

\* Where no account is created, changed or deleted, what is locked stays so.
LEMMA SameUsers ==
    ASSUME Inv, UNCHANGED users
    PROVE  /\ Live' = Live /\ OwnEmails'
           /\ \A s \in HasFlushed : Locked(request[s])
<1>1. Live' = Live
    BY DEF Live
<1> QED
    BY <1>1 DEF Inv, OwnEmails, Requesting, Holds, Locked

\* The accounts after a commit: those there were, and the one it wrote.
LEMMA CommitKeepsInv ==
    ASSUME Inv, NEW r \in Requests, Commits(r)
    PROVE  Inv'
<1> DEFINE q == request[r]
           u == q.on
<1>1. /\ q \in Asked /\ r \in HasFlushed /\ q.phase = "flushed"
      /\ Fits(q) /\ Knows(q) /\ Holds(q)
      /\ q.op \in Creating \cup Changing \cup {"insert"}
      /\ u \in Users
    <2>1. q.phase = "flushed"
        BY DEF Commits
    <2>2. q \in Asked /\ r \in HasFlushed /\ Fits(q) /\ Knows(q)
        BY <2>1, UnderWay DEF Free, HasFlushed
    <2>3. Holds(q)
        BY <2>2 DEF Inv, Requesting
    <2> QED
        BY <2>1, <2>2, <2>3 DEF Fits, Holds, Asked
<1> DEFINE rows == IF q.op = "insert" THEN {q.arg.kind} ELSE {}
<1>2. /\ users' = Written(q)
      /\ owns' = [owns EXCEPT ![u] = Refers(q)]
      /\ kept' = IF q.op = "delete" /\ "order" \in owns[u] THEN kept \cup {u} ELSE kept
      /\ request' = BesideOthers(r, u, rows)
      /\ UNCHANGED <<tasks, welcomed, started>>
    BY DEF Commits
<1> DEFINE new == CASE q.op \in Creating -> [state |-> "live", email |-> q.arg.email,
                                             google |-> q.arg.google, role |-> "customer"]
                    [] q.op = "link" -> [users[u] EXCEPT !.google = q.arg.google]
                    [] q.op = "role" -> [users[u] EXCEPT !.role = q.arg.role]
                    [] q.op = "email" -> [users[u] EXCEPT !.email = q.arg.email]
                    [] q.op = "delete" -> Gone
                    [] q.op = "insert" -> users[u]
<1>3. users' = [users EXCEPT ![u] = new]
    BY <1>1, <1>2 DEF Written, Creating, Changing, Inv, Types
<1>4. q.op \in {"link", "role", "email", "insert"} => u \in Live /\ users[u] \in Account
    BY <1>1, StatesDiffer DEF Holds, Live, Inv, Types
<1>5. /\ q.op = "delete" => new = Gone
      /\ q.op # "delete" => new \in Account
      /\ q.op \in Creating \cup {"email"} => new.email = q.arg.email
      /\ q.op \in {"link", "role", "insert"} => new.email = users[u].email
    <2>1. CASE q.op \in Creating
        BY <1>1, <2>1 DEF Creating, Fits, Someone, Account, Roles
    <2>2. CASE q.op = "link"
        BY <1>1, <1>4, <2>2 DEF Creating, Fits, Someone, Account
    <2>3. CASE q.op = "role"
        BY <1>1, <1>4, <2>3 DEF Creating, Fits, Account
    <2>4. CASE q.op = "email"
        BY <1>1, <1>4, <2>4 DEF Creating, Fits, Account
    <2>5. CASE q.op = "delete"
        BY <2>5 DEF Creating
    <2>6. CASE q.op = "insert"
        BY <1>4, <2>6 DEF Creating
    <2> QED
        BY <1>1, <2>1, <2>2, <2>3, <2>4, <2>5, <2>6 DEF Creating, Changing
<1> HIDE DEF new
<1>6. users' \in [Users -> Account \cup {Absent, Gone}]
      /\ \A v \in Users : users'[v] = IF v = u THEN new ELSE users[v]
    BY <1>1, <1>3, <1>5 DEF Inv, Types
<1>7. /\ q.op = "delete" => Live' = Live \ {u}
      /\ q.op # "delete" => Live' = Live \cup {u}
    BY <1>1, <1>5, <1>6, StatesDiffer DEF Live
\* An e-mail is the one it was, or the one that nobody has.
<1>8. ASSUME NEW v \in Live'
      PROVE  \/ v \in Live /\ users'[v].email = users[v].email
             \/ /\ v = u /\ q.op \in Creating \cup {"email"}
                /\ users'[v].email = q.arg.email
    <2>1. CASE v # u
        BY <1>6, <1>7, <2>1 DEF Live
    <2>2. CASE v = u /\ q.op \in Creating \cup {"email"}
        BY <1>1, <1>5, <1>6, <2>2
    <2>3. CASE v = u /\ q.op \in {"link", "role", "insert"}
        BY <1>1, <1>4, <1>5, <1>6, <2>3
    <2>4. CASE v = u /\ q.op = "delete"
        BY <1>7, <2>4
    <2> QED
        BY <1>1, <2>1, <2>2, <2>3, <2>4 DEF Creating, Changing
<1>9. q.op \in Creating \cup {"email"} => \A v \in Live \ {u} : users[v].email # q.arg.email
    BY <1>1 DEF Holds, Creating
<1>10. OwnEmails'
    BY <1>8, <1>9 DEF Inv, OwnEmails
<1>11. Refers(q) \subseteq Kinds /\ (q.op = "delete" => Refers(q) = {})
    <2>1. owns[u] \subseteq Kinds
        BY <1>1 DEF Inv, Types
    <2>2. q.op = "insert" => q.arg.kind \in Kinds
        BY <1>1 DEF Fits
    <2> QED
        BY <1>1, <2>1, <2>2 DEF Refers, Kinds, Cascading, Creating, Changing
<1>12. Types'
    BY <1>1, <1>2, <1>6, <1>11, BesideIs DEF Inv, Types
<1>13. Referential'
    <2>1. \A v \in Users \ Live' : owns'[v] = {}
        BY <1>1, <1>2, <1>7, <1>11 DEF Inv, Types, Referential
    <2>2. \A v \in kept' : users'[v] = Gone
        BY <1>1, <1>2, <1>4, <1>5, <1>6, StatesDiffer DEF Inv, Types, Referential, Holds, Creating, Changing
    <2>3. \A v \in welcomed' : users'[v] # Absent
        BY <1>2, <1>5, <1>6, StatesDiffer DEF Inv, Types, Referential
    <2> QED
        BY <2>1, <2>2, <2>3 DEF Referential
<1>14. ASSUME NEW s \in HasFlushed \ {r} PROVE Locked(request[s])
    <2> DEFINE p == request[s]
    <2>1. Holds(p) /\ Compatible(p, q) /\ Compatible(q, p)
        BY <1>1 DEF Inv, Requesting
    <2>2. p.op \in Creating => p.on \in Users /\ users'[p.on] = Absent
        <3>1. q.op \in Changing \cup {"insert"} => users[u] # Absent
            BY <1>1, StatesDiffer DEF Knows
        <3>2. p.op \in Creating => p.on # u
            BY <1>1, <2>1, <3>1 DEF Holds, Compatible
        <3> QED
            BY <1>6, <2>1, <3>2 DEF Holds
    <2>3. p.op \in {"link", "role", "email", "insert"} => p.on \in Live'
        BY <1>1, <1>7, <2>1 DEF Holds, Compatible, Creating, Changing
    <2>4. p.op \in Creating => \A v \in Live' : users'[v].email # p.arg.email
        BY <1>8, <2>1 DEF Holds, Compatible
    <2>5. p.op = "email" => \A v \in Live' \ {p.on} : users'[v].email # p.arg.email
        BY <1>8, <2>1 DEF Holds, Compatible, Creating
    <2> QED
        BY <2>2, <2>3, <2>4, <2>5 DEF Locked
<1>15. \A v \in Users : users[v].state # "absent" => users'[v].state # "absent"
    BY <1>5, <1>6, StatesDiffer
<1> QED
    BY <1>2, <1>10, <1>12, <1>13, <1>14, <1>15, RowsKeepInv

-----------------------------------------------------------------------------
(* Tasks and rows that go *)

LEMMA RemoveKeepsInv == ASSUME Inv, Removes PROVE Inv'
<1>1. PICK u \in Live, k \in {"wish", "cart"} :
        /\ owns' = [owns EXCEPT ![u] = @ \ {k}]
        /\ UNCHANGED <<users, kept, tasks, welcomed, request, started>>
    BY DEF Removes
<1>2. /\ Live' = Live /\ Active' = Active /\ HasFlushed' = HasFlushed
      /\ owns' \in [Users -> SUBSET Kinds]
      /\ \A v \in Users : owns'[v] \subseteq owns[v]
    BY <1>1 DEF Live, Active, HasFlushed, Inv, Types
<1>3. Types' /\ OwnEmails' /\ Referential'
    BY <1>1, <1>2 DEF Inv, Types, OwnEmails, Referential
<1>4. ASSUME NEW r \in Active PROVE Fits(request[r])' /\ Knows(request[r])'
    <2>1. request[r] \in Asked /\ Fits(request[r]) /\ Knows(request[r])
        BY DEF Inv, Types, Requesting, Active
    <2>2. request[r].op \in Changing \cup {"insert"} => request[r].on \in Users
        BY <2>1 DEF Fits
    <2>3. Fits(request[r])'
        BY <1>1, <2>1 DEF Fits
    <2>4. request[r].phase = "swept" => request[r].op \in Changing
        BY <2>1 DEF Fits, Changing
    <2> QED
        BY <1>1, <1>2, <2>1, <2>2, <2>3, <2>4 DEF Knows, WithGoogle, IsAdmin
<1>5. ASSUME NEW r \in HasFlushed PROVE Holds(request[r])'
    BY <1>1, <1>2 DEF Inv, Requesting, Holds
<1>6. ASSUME NEW r \in HasFlushed, NEW s \in HasFlushed, r # s
      PROVE  Compatible(request[r], request[s])'
    BY <1>1, <1>6 DEF Inv, Requesting, Compatible
<1> QED
    BY <1>2, <1>3, <1>4, <1>5, <1>6 DEF Inv, Requesting

LEMMA WelcomeKeepsInv == ASSUME Inv, NEW t \in tasks, Welcome(t) PROVE Inv'
<1>1. /\ UNCHANGED <<users, owns, kept, request, started>>
      /\ tasks' = tasks \ {t}
      /\ welcomed' = IF t.of \in Live THEN welcomed \cup {t.of} ELSE welcomed
    BY DEF Welcome, rowVars
<1>2. Live' = Live /\ Active' = Active /\ HasFlushed' = HasFlushed /\ Live \subseteq Users
    BY <1>1 DEF Live, Active, HasFlushed
<1>3. Types' /\ OwnEmails'
    BY <1>1, <1>2 DEF Inv, Types, OwnEmails
<1>4. Referential'
    BY <1>1, <1>2, StatesDiffer DEF Inv, Referential, Live
<1>5. Requesting'
    BY <1>1, <1>2 DEF Inv, Requesting, Fits, Knows, Holds, Compatible, WithGoogle, IsAdmin
<1> QED
    BY <1>3, <1>4, <1>5 DEF Inv

LEMMA RecordKeepsInv == ASSUME Inv, NEW t \in tasks, Record(t) PROVE Inv'
<1>1. /\ UNCHANGED <<users, kept, welcomed, started>>
      /\ tasks' = tasks \ {t}
    BY DEF Record
<1>2. CASE t.of \in Live
    <2>1. /\ owns' = [owns EXCEPT ![t.of] = @ \cup {"audit"}]
          /\ request' = BesideOthers(Nobody, t.of, {"audit"})
        BY <1>2 DEF Record
    <2>2. t.of \in Users /\ Live' = Live
        BY <1>1, <1>2 DEF Live
    <2>3. OwnEmails' /\ \A s \in HasFlushed : Locked(request[s])
        BY <1>1, SameUsers
    <2>4. owns' \in [Users -> SUBSET Kinds]
        BY <2>1, <2>2 DEF Inv, Types, Kinds, Swept
    <2>5. Types'
        BY <1>1, <2>1, <2>4, BesideIs DEF Inv, Types
    <2>6. Referential'
        BY <1>1, <1>2, <2>1, <2>2 DEF Inv, Types, Referential
    <2> QED
        BY <1>1, <2>1, <2>3, <2>5, <2>6, RowsKeepInv
<1>3. CASE t.of \notin Live
    <2>1. UNCHANGED <<owns, request>>
        BY <1>3 DEF Record
    <2>2. Live' = Live /\ Active' = Active /\ HasFlushed' = HasFlushed
        BY <1>1, <2>1 DEF Live, Active, HasFlushed
    <2>3. Types' /\ OwnEmails' /\ Referential'
        BY <1>1, <2>1, <2>2 DEF Inv, Types, OwnEmails, Referential
    <2>4. Requesting'
        BY <1>1, <2>1, <2>2 DEF Inv, Requesting, Fits, Knows, Holds, Compatible, WithGoogle, IsAdmin
    <2> QED
        BY <2>3, <2>4 DEF Inv
<1> QED
    BY <1>2, <1>3

-----------------------------------------------------------------------------
(* Every step *)

LEMMA EndsKeepInv == ASSUME Inv, NEW r \in Requests, Ends(r) PROVE Inv'
<1>1. CASE RollsBack(r)
    BY <1>1, RollsBackKeepsInv
<1> QED
    BY <1>1, GoogleFindsKeepsInv, CreateFlushesKeepsInv, LinkFlushesKeepsInv,
        ChangeFlushesKeepsInv, SweepsKeepsInv, DeleteFlushesKeepsInv, InsertFlushesKeepsInv,
        CommitKeepsInv DEF Ends

\* Every request, task and lock keeps it.
THEOREM NextInv == Inv /\ [Next]_vars => Inv'
<1> SUFFICES ASSUME Inv, [Next]_vars PROVE Inv'
    OBVIOUS
<1>1. CASE UNCHANGED vars
    <2>1. UNCHANGED <<users, owns, kept, tasks, welcomed, request, started>>
        BY <1>1 DEF vars, rowVars
    <2>2. Live' = Live /\ Active' = Active /\ HasFlushed' = HasFlushed
        BY <2>1 DEF Live, Active, HasFlushed
    <2>3. Types' /\ OwnEmails' /\ Referential'
        BY <2>1, <2>2 DEF Inv, Types, OwnEmails, Referential
    <2>4. Requesting'
        BY <2>1, <2>2 DEF Inv, Requesting, Fits, Knows, Holds, Compatible, WithGoogle, IsAdmin
    <2> QED
        BY <2>3, <2>4 DEF Inv
<1>2. ASSUME NEW r \in Requests, Begins(r) PROVE Inv'
    BY <1>2, RegisterKeepsInv, GoogleKeepsInv, AdministratorsKeepInv, InsertKeepsInv DEF Begins
<1>3. ASSUME NEW r \in Requests, Ends(r) PROVE Inv'
    BY <1>3, EndsKeepInv
<1>4. ASSUME NEW t \in tasks, Welcome(t) \/ Record(t) PROVE Inv'
    BY <1>4, WelcomeKeepsInv, RecordKeepsInv
<1>5. CASE Removes
    BY <1>5, RemoveKeepsInv
<1> QED
    BY <1>1, <1>2, <1>3, <1>4, <1>5 DEF Next

\* Whatever requests interleave, no account loses what refers to it (Accounts).
THEOREM Invariance == Spec => []Inv
BY InitInv, NextInv, PTL DEF Spec

-----------------------------------------------------------------------------
(* What the invariant gives *)

\* User.email's unique index and the foreign keys to users: no two accounts share
\* an e-mail, and no row is left of an account that is gone but its orders.
THEOREM AccountsAreTyped == Spec => []TypeOK
<1>1. Inv => TypeOK
    <2> SUFFICES ASSUME Inv PROVE TypeOK
        OBVIOUS
    <2>1. ASSUME NEW e \in Emails PROVE Cardinality(WithEmail(e)) <= 1
        <3>1. \A u, v \in WithEmail(e) : u = v
            BY DEF Inv, OwnEmails, WithEmail
        <3>2. WithEmail(e) = {} \/ \E u : WithEmail(e) = {u}
            BY <3>1
        <3>3. Cardinality(WithEmail(e)) \in {0, 1}
            BY <3>2, FS_EmptySet, FS_Singleton, Zenon
        <3> QED
            BY <3>3
    <2> QED
        BY <2>1 DEF TypeOK, Inv, Types, Referential
<1> QED
    BY <1>1, Invariance, PTL

\* The handler of the registration event reads the account in a session of its own:
\* nobody is welcomed whose registration did not commit.
THEOREM WelcomesAreDue == Spec => []WelcomedHaveAccounts
<1>1. Inv => WelcomedHaveAccounts
    BY DEF Inv, Referential, WelcomedHaveAccounts
<1> QED
    BY <1>1, Invariance, PTL

\* Whoever ends a request that had flushed, and changes accounts by it, commits it.
LEMMA OnlyCommits ==
    ASSUME Inv, [Next]_vars, users' # users
    PROVE  \E r \in Requests : Commits(r)
BY DEF Next, Begins, Ends, vars, rowVars, Register, GoogleReadsIdentity, ChangeRole, ChangeEmail,
    DeleteUser, DeleteProfile, Insert, Starts, GoogleFindsEmail, CreateFlushes, LinkFlushes,
    ChangeFlushes, Sweeps, DeleteFlushes, InsertFlushes, RollsBack, Continues, Fails, Flushes,
    Removes, Welcome, Record

LEMMA CommitWrites ==
    ASSUME Inv, NEW r \in Requests, Commits(r)
    PROVE  /\ request[r] \in Asked /\ request[r].phase = "flushed" /\ request[r].on \in Users
           /\ request[r].op \in Creating \cup Changing \cup {"insert"}
           /\ Fits(request[r]) /\ Knows(request[r]) /\ Holds(request[r])
           /\ \A u \in Users \ {request[r].on} : users'[u] = users[u]
           /\ LET q == request[r] IN
              /\ q.op \in Creating => users'[q.on] =
                    [state |-> "live", email |-> q.arg.email, google |-> q.arg.google,
                     role |-> "customer"]
              /\ q.op = "link" => users'[q.on] = [users[q.on] EXCEPT !.google = q.arg.google]
              /\ q.op = "role" => users'[q.on] = [users[q.on] EXCEPT !.role = q.arg.role]
              /\ q.op = "email" => users'[q.on] = [users[q.on] EXCEPT !.email = q.arg.email]
              /\ q.op = "delete" => users'[q.on] = Gone
              /\ q.op = "insert" => users' = users
           /\ \A s \in Requests \ {r} : request[s] # Free => request'[s] # Free
<1> DEFINE q == request[r]
<1>1. /\ q.phase = "flushed" /\ users' = Written(q)
      /\ request' = BesideOthers(r, q.on, IF q.op = "insert" THEN {q.arg.kind} ELSE {})
    BY DEF Commits
<1>2. q \in Asked /\ r \in HasFlushed /\ Fits(q) /\ Knows(q)
    BY <1>1, UnderWay DEF Free, HasFlushed
<1>3. Holds(q)
    BY <1>2 DEF Inv, Requesting
<1>4. q.op \in Creating \cup Changing \cup {"insert"} /\ q.on \in Users
    BY <1>1, <1>2, <1>3 DEF Fits, Holds, Asked
<1>5. \A u \in Users \ {q.on} : users'[u] = users[u]
    BY <1>1, <1>4 DEF Written, Creating, Changing, Inv, Types
<1>6. /\ q.op \in Creating => users'[q.on] =
            [state |-> "live", email |-> q.arg.email, google |-> q.arg.google,
             role |-> "customer"]
      /\ q.op = "link" => users'[q.on] = [users[q.on] EXCEPT !.google = q.arg.google]
      /\ q.op = "role" => users'[q.on] = [users[q.on] EXCEPT !.role = q.arg.role]
      /\ q.op = "email" => users'[q.on] = [users[q.on] EXCEPT !.email = q.arg.email]
      /\ q.op = "delete" => users'[q.on] = Gone
      /\ q.op = "insert" => users' = users
    <2>1. users \in [Users -> Account \cup {Absent, Gone}]
        BY DEF Inv, Types
    <2>2. CASE q.op \in Creating
        BY <1>1, <1>4, <2>1, <2>2 DEF Written, Creating
    <2>3. CASE q.op = "link"
        <3>1. users' = [users EXCEPT ![q.on].google = q.arg.google]
            BY <1>1, <2>3 DEF Written
        <3> QED
            BY <1>4, <2>1, <2>3, <3>1 DEF Creating
    <2>4. CASE q.op = "role"
        <3>1. users' = [users EXCEPT ![q.on].role = q.arg.role]
            BY <1>1, <2>4 DEF Written
        <3> QED
            BY <1>4, <2>1, <2>4, <3>1 DEF Creating
    <2>5. CASE q.op = "email"
        <3>1. users' = [users EXCEPT ![q.on].email = q.arg.email]
            BY <1>1, <2>5 DEF Written
        <3> QED
            BY <1>4, <2>1, <2>5, <3>1 DEF Creating
    <2>6. CASE q.op = "delete"
        BY <1>1, <1>4, <2>1, <2>6 DEF Written, Creating
    <2>7. CASE q.op = "insert"
        BY <1>1, <2>7 DEF Written, Creating
    <2> QED
        BY <1>4, <2>2, <2>3, <2>4, <2>5, <2>6, <2>7 DEF Changing
<1>7. \A s \in Requests \ {r} : request[s] # Free => request'[s] # Free
    BY <1>1, OthersStay
<1> QED
    BY <1>1, <1>2, <1>3, <1>4, <1>5, <1>6, <1>7

\* AdminUserController._update_user_role and _delete_user: without another's
\* commit beside them, they leave whoever asked as an administrator.
THEOREM OneAdminRemains == Spec => AnAdminRemains
<1> DEFINE Allowed(r) == \/ request[r].disturbed
                         \/ request[r].op = "delete" /\ request[r].by = request[r].on
<1>1. ASSUME Inv, [Next]_vars, NEW r \in Requests, Admins # {}, Admins' = {},
             request[r].phase = "flushed", request'[r] = Free
      PROVE  Allowed(r)
    <2> DEFINE q == request[r]
               u == q.on
    <2>1. users' # users
        BY <1>1 DEF Admins, Live
    <2>2. PICK s \in Requests : Commits(s)
        BY <1>1, <2>1, OnlyCommits
    <2>3. s = r
        <3>1. request[r] # Free
            BY <1>1 DEF Free
        <3>2. \A t \in Requests \ {s} : request[t] # Free => request'[t] # Free
            BY <1>1, <2>2, CommitWrites, Zenon
        <3> QED
            BY <1>1, <3>1, <3>2
    <2>4. /\ q \in Asked /\ u \in Users /\ Fits(q) /\ Knows(q) /\ Holds(q)
          /\ q.op \in Creating \cup Changing \cup {"insert"}
          /\ \A v \in Users \ {u} : users'[v] = users[v]
          /\ q.op \in Creating => users'[u] =
                [state |-> "live", email |-> q.arg.email, google |-> q.arg.google,
                 role |-> "customer"]
          /\ q.op = "link" => users'[u] = [users[u] EXCEPT !.google = q.arg.google]
          /\ q.op = "role" => users'[u] = [users[u] EXCEPT !.role = q.arg.role]
          /\ q.op = "email" => users'[u] = [users[u] EXCEPT !.email = q.arg.email]
          /\ q.op = "delete" => users'[u] = Gone
          /\ q.op = "insert" => users' = users
        BY <1>1, <2>2, <2>3, CommitWrites
    <2>5. \A v \in Admins : v = u
        BY <1>1, <2>4 DEF Admins, Live
    <2>6. u \in Admins /\ users[u] \in Account
        BY <1>1, <2>5, StatesDiffer DEF Admins, Live, Inv, Types
    <2>7. q.op \in {"role", "delete"}
        <3>1. q.op \notin Creating
            BY <2>4, <2>6, StatesDiffer DEF Holds
        <3>2. q.op \notin {"link", "email"}
            BY <1>1, <2>4, <2>6 DEF Admins, Live, Account
        <3>3. q.op # "insert"
            BY <2>1, <2>4
        <3> QED
            BY <2>4, <3>1, <3>2, <3>3 DEF Changing
    <2> QED
        BY <2>4, <2>5, <2>7 DEF Knows, Fits, IsAdmin, Admins, Asked
<1>2. Inv /\ [Next]_vars =>
        [\A r \in Requests :
            Admins # {} /\ Admins' = {} /\ request[r].phase = "flushed" /\ request'[r] = Free
                => Allowed(r)]_vars
    BY <1>1
<1> QED
    BY <1>2, Invariance, PTL DEF Spec, AnAdminRemains

\* AuthService.find_or_create_google_user: an identity that has an account gets
\* another only beside another's commit.
THEOREM IdentitiesAreSingle == Spec => OneAccountPerIdentity
<1>1. ASSUME Inv, [Next]_vars, NEW r \in Requests, NEW g \in Identities, WithGoogle(g) # {},
             Cardinality(WithGoogle(g)') > Cardinality(WithGoogle(g)),
             request[r].phase = "flushed", request'[r] = Free
      PROVE  request[r].disturbed
    <2> DEFINE q == request[r]
               u == q.on
    <2>0. /\ WithGoogle(g) \subseteq Users /\ IsFiniteSet(WithGoogle(g))
          /\ WithGoogle(g)' \subseteq Users
        <3>1. IsFiniteSet(Users)
            BY FS_Interval, BoundsAssumption DEF Users
        <3>2. WithGoogle(g) \subseteq Users /\ WithGoogle(g)' \subseteq Users
            BY DEF WithGoogle, Live
        <3> QED
            BY <3>1, <3>2, FS_Subset
    <2>1. users' # users
        <3>1. users' = users => WithGoogle(g)' = WithGoogle(g)
            BY DEF WithGoogle, Live
        <3>2. Cardinality(WithGoogle(g)) \in Nat
            BY <2>0, FS_CardinalityType
        <3> QED
            BY <1>1, <3>1, <3>2
    <2>2. PICK s \in Requests : Commits(s)
        BY <1>1, <2>1, OnlyCommits
    <2>3. s = r
        <3>1. request[r] # Free
            BY <1>1 DEF Free
        <3>2. \A t \in Requests \ {s} : request[t] # Free => request'[t] # Free
            BY <1>1, <2>2, CommitWrites, Zenon
        <3> QED
            BY <1>1, <3>1, <3>2
    <2>4. /\ q \in Asked /\ u \in Users /\ Fits(q) /\ Knows(q) /\ Holds(q)
          /\ q.op \in Creating \cup Changing \cup {"insert"}
          /\ \A v \in Users \ {u} : users'[v] = users[v]
          /\ q.op \in Creating => users'[u] =
                [state |-> "live", email |-> q.arg.email, google |-> q.arg.google,
                 role |-> "customer"]
          /\ q.op = "link" => users'[u] = [users[u] EXCEPT !.google = q.arg.google]
          /\ q.op = "role" => users'[u] = [users[u] EXCEPT !.role = q.arg.role]
          /\ q.op = "email" => users'[u] = [users[u] EXCEPT !.email = q.arg.email]
          /\ q.op = "delete" => users'[u] = Gone
          /\ q.op = "insert" => users' = users
        BY <1>1, <2>2, <2>3, CommitWrites
    <2>5. PICK v \in WithGoogle(g)' : v \notin WithGoogle(g)
        <3>1. ASSUME WithGoogle(g)' \subseteq WithGoogle(g) PROVE FALSE
            <4>1. /\ Cardinality(WithGoogle(g)') <= Cardinality(WithGoogle(g))
                  /\ Cardinality(WithGoogle(g)') \in Nat /\ Cardinality(WithGoogle(g)) \in Nat
                BY <2>0, <3>1, FS_Subset, FS_CardinalityType
            <4> QED
                BY <1>1, <4>1
        <3> QED
            BY <3>1
    <2>6. v = u /\ users'[u].google = g /\ users'[u].state = "live"
        BY <2>0, <2>4, <2>5 DEF WithGoogle, Live
    <2>7. q.op \in {"create", "link"} /\ q.arg.google = g
        <3>1. CASE q.op \in Creating
            <4>1. q.arg.google = g
                BY <2>4, <2>6, <3>1
            <4> QED
                BY <2>4, <3>1, <4>1, OpeningAssumption DEF Creating, Fits
        <3>2. CASE q.op = "link"
            <4>1. u \in Live /\ users[u] \in Account
                <5>1. u \in Live
                    BY <2>4, <3>2 DEF Holds
                <5> QED
                    BY <1>1, <2>4, <5>1, StatesDiffer DEF Live, Inv, Types
            <4> QED
                BY <2>4, <2>6, <3>2, <4>1 DEF Account
        <3>3. CASE q.op \in {"role", "email"}
            <4>1. u \in Live /\ users[u] \in Account
                <5>1. u \in Live
                    BY <2>4, <3>3 DEF Holds
                <5> QED
                    BY <1>1, <2>4, <5>1, StatesDiffer DEF Live, Inv, Types
            <4>2. users'[u].google = users[u].google
                BY <2>4, <3>3, <4>1 DEF Account
            <4> QED
                BY <2>5, <2>6, <4>1, <4>2 DEF WithGoogle
        <3>4. q.op \notin {"delete", "insert"}
            BY <2>1, <2>4, <2>6, StatesDiffer
        <3> QED
            BY <2>4, <3>1, <3>2, <3>3, <3>4 DEF Changing
    <2> QED
        BY <1>1, <2>4, <2>7 DEF Knows
<1>2. Inv /\ [Next]_vars =>
        [\A r \in Requests, g \in Identities :
            WithGoogle(g) # {} /\ Cardinality(WithGoogle(g)') > Cardinality(WithGoogle(g))
            /\ request[r].phase = "flushed" /\ request'[r] = Free
                => request[r].disturbed]_vars
    BY <1>1
<1> QED
    BY <1>2, Invariance, PTL DEF Spec, OneAccountPerIdentity

\* A request is ended before its flush by nobody but itself.
LEMMA EndsItself ==
    ASSUME Inv, [Next]_vars, NEW r \in Requests, request[r].phase \in {"checked", "swept"},
           request'[r] = Free
    PROVE  \/ CreateFlushes(r) \/ LinkFlushes(r) \/ ChangeFlushes(r)
           \/ Sweeps(r) \/ DeleteFlushes(r) \/ InsertFlushes(r)
<1>1. request[r] # Free /\ request[r] \in Asked /\ request'[r] # request[r]
    BY UnderWay DEF Free
<1>2. ASSUME NEW s \in Requests, Begins(s) PROVE FALSE
    <2>1. PICK q : Starts(s, q)
        BY <1>2 DEF Begins, Register, GoogleReadsIdentity, ChangeRole, ChangeEmail, DeleteUser,
            DeleteProfile, Insert
    <2>2. request[s] = Free /\ request' = [request EXCEPT ![s] = q]
        BY <2>1 DEF Starts
    <2> QED
        BY <1>1, <2>2 DEF Inv, Types
<1>3. ASSUME NEW s \in Requests, Commits(s) PROVE FALSE
    <2>1. request[s].phase = "flushed" /\ s # r
        BY <1>3 DEF Commits
    <2>2. request'[r] # Free
        BY <1>1, <1>3, <2>1, CommitWrites, Zenon
    <2> QED
        BY <2>2
<1>4. ASSUME NEW s \in Requests, Ends(s), ~Commits(s) PROVE s = r
    <2>1. PICK q : request' = [request EXCEPT ![s] = q]
        BY <1>4 DEF Ends, GoogleFindsEmail, CreateFlushes, LinkFlushes, ChangeFlushes, Sweeps,
            DeleteFlushes, InsertFlushes, RollsBack, Fails, Continues, Flushes
    <2> QED
        BY <1>1, <2>1 DEF Inv, Types
<1>5. ~RollsBack(r) /\ ~GoogleFindsEmail(r)
    BY DEF RollsBack, GoogleFindsEmail
<1>6. ASSUME NEW t \in tasks, Welcome(t) \/ Record(t) PROVE FALSE
    <2>1. request' = BesideOthers(Nobody, t.of, {"audit"}) \/ request' = request
        BY <1>6 DEF Welcome, Record
    <2>2. r # Nobody
        BY OpeningAssumption
    <2>3. request' = BesideOthers(Nobody, t.of, {"audit"}) => request'[r] # Free
        BY <1>1, <2>2, OthersStay, AskedIsNotFree
    <2> QED
        BY <1>1, <2>1, <2>3
<1>7. ~Removes /\ vars' # vars
    BY <1>1 DEF Removes, vars
<1> QED
    BY <1>2, <1>3, <1>4, <1>5, <1>6, <1>7 DEF Next, Ends

\* AuthService.register, WishlistService.add, UserService.delete_account and the
\* others: what was checked holds at the flush, unless somebody committed beside it.
THEOREM ChecksSuffice == Spec => UndisturbedSucceeds
<1>1. ASSUME Inv, [Next]_vars, NEW r \in Requests, request[r].phase \in {"checked", "swept"},
             request'[r] = Free
      PROVE  request[r].disturbed \/ Taken(request[r])
    <2> DEFINE q == request[r]
    <2>1. q \in Asked /\ Fits(q) /\ Knows(q)
        BY <1>1, UnderWay DEF Free
    <2> SUFFICES ASSUME ~q.disturbed, ~Taken(q) PROVE FALSE
        OBVIOUS
    <2>2. ~\E n \in Asked : Continues(r, n) \/ request' = [request EXCEPT ![r] = n]
        BY <1>1, AskedIsNotFree DEF Continues, Inv, Types
    <2>3. ~CreateFlushes(r)
        <3>1. ASSUME q.phase = "checked", q.op \in Creating PROVE ~EmailTaken(q.arg.email, Nobody)
            BY <2>1, <3>1 DEF Knows, EmailTaken, WithEmail
        <3>2. ASSUME CreateFlushes(r) PROVE FALSE
            <4>1. q.phase = "checked" /\ q.op \in Creating /\ NextId # {}
                BY <3>2 DEF CreateFlushes, Creating
            <4> DEFINE u == CHOOSE v \in NextId : \A w \in NextId : v <= w
                       n == [[q EXCEPT !.on = u] EXCEPT !.phase = "flushed"]
            <4>2. NextId \subseteq Nat /\ NextId \subseteq Users
                BY BoundsAssumption DEF NextId, Users
            <4>3. u \in Users
                BY <4>1, <4>2, Smallest
            <4>4. request' = [request EXCEPT ![r] = n]
                BY <3>1, <3>2, <4>1 DEF CreateFlushes, Flushes
            <4> HIDE DEF u
            <4>5. n \in Asked
                BY <2>1, <4>3 DEF Asked
            <4> QED
                BY <2>2, <4>4, <4>5
        <3> QED
            BY <3>2
    <2>4. [q EXCEPT !.phase = "flushed"] \in Asked
        BY <2>1 DEF Asked
    <2>5. ~\E events : Flushes(r, q, events)
        BY <2>2, <2>4 DEF Flushes
    <2>6. q.op \in Changing \cup {"insert"} => q.on \in Live /\ q.on \in Users
        BY <2>1 DEF Knows, Fits
    <2>7. ~LinkFlushes(r) /\ ~ChangeFlushes(r)
        BY <2>5, <2>6 DEF LinkFlushes, ChangeFlushes, Changing, Taken
    <2>8. ~Sweeps(r)
        <3>1. ASSUME q.op = "delete"
              PROVE  [q EXCEPT !.phase = "swept", !.swept = owns[q.on] \cap SweepsWhat] \in Asked
            <4>1. owns[q.on] \subseteq Kinds
                BY <1>1, <2>6, <3>1 DEF Inv, Types, Changing
            <4> QED
                BY <2>1, <4>1 DEF Asked
        <3> QED
            BY <2>2, <2>6, <3>1 DEF Sweeps, Changing
    <2>9. ~DeleteFlushes(r)
        BY <2>1, <2>5 DEF DeleteFlushes, Knows
    <2>10. ~InsertFlushes(r)
        BY <2>1, <2>5, <2>6 DEF InsertFlushes, Knows
    <2> QED
        BY <1>1, <2>3, <2>7, <2>8, <2>9, <2>10, EndsItself
<1>2. Inv /\ [Next]_vars =>
        [\A r \in Requests :
            request[r].phase \in {"checked", "swept"} /\ request'[r] = Free
                => request[r].disturbed \/ Taken(request[r])]_vars
    BY <1>1
<1> QED
    BY <1>2, Invariance, PTL DEF Spec, UndisturbedSucceeds
=============================================================================
