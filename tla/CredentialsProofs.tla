---------------------------- MODULE CredentialsProofs ----------------------------
(***************************************************************************)
(* What overlapping requests for one account's credentials can and cannot  *)
(* do, and what the e-mails about them and about orders tell, for any      *)
(* number of requests, orders and restarts.                                *)
(*                                                                         *)
(* The argument is about the requests under way: one that nobody committed *)
(* beside still knows the second factor as it is, one with a reset link    *)
(* knows whether the link was used, and the number of a link that is still *)
(* to be committed is known to nobody (Inv).                               *)
(*                                                                         *)
(* An e-mail leaves before its request commits.  It is its request's own,  *)
(* and that request has ended with a shipment that is kept, unless it has  *)
(* yet to commit or never did (Mailing).  A shipment takes an order that a *)
(* settlement confirmed, so there are no more of them (Shipping).          *)
(***************************************************************************)
EXTENDS CredentialsProperties, FiniteSetTheorems, TLAPS

-----------------------------------------------------------------------------
(* Orders hold values of their types *)

OrdersOK == orders \in [Orders -> Order]

LEMMA NextOrdersOK == OrdersOK /\ [Next]_vars => OrdersOK'
<1> SUFFICES ASSUME OrdersOK, [Next]_vars PROVE OrdersOK'
    OBVIOUS
<1>1. ASSUME NEW r \in Requests, OrderCommits(r) PROVE OrdersOK'
    <2> DEFINE o == request[r].of
    <2>1. CASE o \notin Orders
        <3>1. orders' = orders
            BY <1>1, <2>1 DEF OrderCommits, OrdersOK
        <3> QED
            BY <3>1 DEF OrdersOK
    <2>2. CASE o \in Orders
        <3>1. PICK status \in Statuses, paid \in BOOLEAN :
                orders' = [orders EXCEPT ![o] =
                    [status |-> status, paid |-> paid, owner |-> orders[o].owner]]
            <4>1. orders[o] \in Order
                BY <2>2 DEF OrdersOK
            <4>2. CASE request[r].op = "settle"
                <5>1. orders' = [orders EXCEPT ![o] =
                        [status |-> IF request[r].seen.status = "confirmed"
                                    THEN orders[o].status ELSE "confirmed",
                         paid |-> TRUE, owner |-> orders[o].owner]]
                    BY <1>1, <2>2, <4>1, <4>2 DEF OrderCommits, OrdersOK, Order
                <5> QED
                    BY <4>1, <5>1 DEF Order, Statuses
            <4>3. CASE request[r].op # "settle"
                <5>1. orders' = [orders EXCEPT ![o] =
                        [status |-> "shipped", paid |-> orders[o].paid, owner |-> orders[o].owner]]
                    BY <1>1, <2>2, <4>1, <4>3 DEF OrderCommits, OrdersOK, Order
                <5> QED
                    BY <4>1, <5>1 DEF Order, Statuses
            <4> QED
                BY <4>2, <4>3
        <3> QED
            BY <2>2, <3>1 DEF OrdersOK, Order
    <2> QED
        BY <2>1, <2>2
<1>2. ASSUME NEW o \in Orders, PaymentFails(o) \/ Refunded(o) \/ Cancelled(o) PROVE OrdersOK'
    <2>1. PICK new : new \in Order /\ orders' = [orders EXCEPT ![o] = new]
        BY <1>2 DEF PaymentFails, Refunded, Cancelled, Becomes, OrdersOK, Order, Statuses
    <2> QED
        BY <2>1 DEF OrdersOK
<1>3. CASE AccountGoes
    BY <1>3 DEF AccountGoes, DeleteAccount, OrdersOK, Order
<1>4. CASE UNCHANGED orders
    BY <1>4 DEF OrdersOK
<1>5. CASE MailNext
    BY <1>1, <1>2, <1>4, <1>5 DEF MailNext, OrdersNext, ProcessNext, SettleReads, ShipReads,
        Starts, OrderFlushes, Flushes, Fails, RollsBack, Handle, Restart
<1>6. CASE CredentialsNext
    BY <1>4, <1>6 DEF CredentialsNext, Forgot, Reset, Setup, Disable, Enable, Starts,
        ForgotFlushes, AccountFlushes, Flushes, Fails, ForgotCommits, ResetCommits,
        SecondFactorCommits, LinkExpires, AdminLogin, Verify2fa, TicketExpires, mailVars
<1> QED
    BY <1>3, <1>4, <1>5, <1>6 DEF Next, vars, mailVars

-----------------------------------------------------------------------------
(* The invariant *)

Factor == [secret : Numbers \cup {None}, enabled : BOOLEAN]
Asked == [phase : {"read", "flushed"},
          op : {"settle", "ship", "forgot", "reset", "setup", "enable", "disable"},
          of : Orders \cup Numbers \cup {Owner},
          seen : Order \cup {None} \cup Factor,
          no : Numbers, disturbed : BOOLEAN]
OfFactor(q) == q.op \in {"setup", "enable", "disable"}

Types ==
    /\ request \in [Requests -> Asked \cup {Free}]
    /\ started \in 0 .. MaxRequests
    /\ links \in [Numbers -> {"none", "valid", "used", "expired"}]
    /\ resets \in [Numbers -> Nat]
    /\ totp \in Factor

\* Each request is about what its operation is about, and has a number of its own.
Subject(q) ==
    /\ q.no <= started
    /\ q.op \in {"settle", "ship"} => q.of \in Orders /\ q.seen \in Order
    /\ q.op = "reset" => q.of \in Numbers /\ q.of <= started
    /\ OfFactor(q) => q.of = Owner /\ q.seen \in Factor
    /\ q.op = "enable" => q.seen.secret # None
Subjects == \A r \in Active : Subject(request[r])

Numbered ==
    \A r, s \in Active : request[r].no = request[s].no => r = s

\* A link is unknown until its request commits, and numbers are not used again.
Unborn ==
    /\ \A l \in Numbers : l > started => links[l] = "none" /\ resets[l] = 0
    /\ \A r \in Active : request[r].op = "forgot" =>
        /\ links[request[r].no] = "none"
        /\ resets[request[r].no] = 0
        /\ \A s \in Active : request[s].op = "reset" => request[s].of # request[r].no

\* A link that was used once is used by those only who knew it before.
Spent ==
    \A l \in Numbers : resets[l] > 0 =>
        /\ links[l] \in {"used", "none"}
        /\ \A r \in Active : request[r].op = "reset" /\ request[r].of = l => request[r].disturbed

\* Whoever has nobody's commit beside him compares with what is.
Fresh ==
    \A r \in Active : OfFactor(request[r]) /\ ~request[r].disturbed => request[r].seen = totp

\* The secret that was proved is the one in force.
Proven == \A p \in proven : p # None /\ totp.enabled /\ totp.secret = p

Inv == Types /\ Subjects /\ Numbered /\ Unborn /\ Spent /\ Fresh /\ Proven

\* No request, no link and no secret: the invariant holds at the start.
THEOREM InitInv == Init => Inv
<1> SUFFICES ASSUME Init PROVE Inv
    OBVIOUS
<1> USE DEF Init, MailInit
<1>1. Types
    BY MailAssumption DEF Types, Factor, None
<1>2. Active = {}
    BY DEF Active
<1>3. Unborn /\ Spent
    BY <1>2 DEF Unborn, Spent
<1> QED
    BY <1>1, <1>2, <1>3 DEF Inv, Subjects, Numbered, Fresh, Proven

-----------------------------------------------------------------------------
(* Requests that end or go on with what they know *)

\* What a request knows stays as it is; it may be told of a commit beside it.
Keeps(r) ==
    /\ request[r] \in Asked
    /\ request'[r] \in Asked
    /\ request'[r].op = request[r].op
    /\ request'[r].of = request[r].of
    /\ request'[r].seen = request[r].seen
    /\ request'[r].no = request[r].no
    /\ request[r].disturbed => request'[r].disturbed
Fades ==
    /\ request' \in [Requests -> Asked \cup {Free}]
    /\ \A r \in Requests : request'[r] = Free \/ Keeps(r)

LEMMA AskedIsNotFree == \A q \in Asked : q # Free
BY DEF Asked, Free

LEMMA FadesActive ==
    ASSUME Types, Fades
    PROVE  /\ Active' \subseteq Active
           /\ \A r \in Active' : Keeps(r) /\ request[r] \in Asked
BY AskedIsNotFree DEF Types, Fades, Keeps, Active

LEMMA FadingKeepsInv ==
    ASSUME Inv, Fades, UNCHANGED <<started, links, resets, totp, proven>>
    PROVE  Inv'
<1>1. Types'
    BY DEF Inv, Types, Fades
<1>2. /\ Active' \subseteq Active
      /\ \A r \in Active' : Keeps(r) /\ request[r] \in Asked
    BY FadesActive DEF Inv
<1>3. Subjects'
    BY <1>2 DEF Inv, Subjects, Subject, Keeps, OfFactor
<1>4. Numbered'
    BY <1>2 DEF Inv, Numbered, Keeps
<1>5. Unborn'
    BY <1>2 DEF Inv, Unborn, Keeps
<1>6. Spent'
    BY <1>2 DEF Inv, Spent, Keeps
<1>7. Fresh'
    BY <1>2 DEF Inv, Fresh, Keeps, OfFactor
<1>8. Proven'
    BY DEF Inv, Proven
<1> QED
    BY <1>1, <1>3, <1>4, <1>5, <1>6, <1>7, <1>8 DEF Inv

LEMMA EndingFades ==
    ASSUME Types, NEW S \in SUBSET Requests,
           request' = [r \in Requests |-> IF r \in S THEN Free ELSE request[r]]
    PROVE  Fades
BY DEF Types, Fades, Keeps

LEMMA FlushingFades ==
    ASSUME Types, NEW r \in Requests, request[r].phase = "read",
           request' = [request EXCEPT ![r].phase = "flushed"]
    PROVE  Fades
<1>1. request[r] \in Asked
    BY DEF Types, Free
<1>2. [request[r] EXCEPT !.phase = "flushed"] \in Asked
    BY <1>1 DEF Asked
<1> QED
    BY <1>1, <1>2 DEF Types, Fades, Keeps, Asked

LEMMA CommittingFades ==
    ASSUME Types, NEW r \in Requests, request' = Committed(r)
    PROVE  Fades
<1>1. \A s \in Requests : request[s] \in Asked =>
        [request[s] EXCEPT !.disturbed = TRUE] \in Asked
    BY DEF Asked
<1> QED
    BY <1>1 DEF Types, Fades, Keeps, Committed, Active, Asked

-----------------------------------------------------------------------------
(* A request that begins knows what is true, and its number is new *)

Knows(op, of, seen) ==
    /\ op \in {"settle", "ship"} => of \in Orders /\ seen \in Order
    /\ op = "forgot" => of \in Numbers /\ seen = None
    /\ op = "reset" => of \in ValidLinks /\ seen = None
    /\ op \in {"setup", "enable", "disable"} => of = Owner /\ seen = totp
    /\ op = "enable" => totp.secret # None

LEMMA StartingKeepsInv ==
    ASSUME Inv, NEW r \in Requests,
           NEW op \in {"settle", "ship", "forgot", "reset", "setup", "enable", "disable"},
           NEW of, NEW seen, Knows(op, of, seen), Starts(r, op, of, seen),
           UNCHANGED credentialVars
    PROVE  Inv'
<1>q. PICK q : q = [phase |-> "read", op |-> op, of |-> of, seen |-> seen,
                   no |-> started + 1, disturbed |-> FALSE]
    OBVIOUS
<1>1. /\ request[r] = Free
      /\ started \in Nat /\ started < MaxRequests /\ started' = started + 1
      /\ started + 1 \in Numbers
      /\ request' = [request EXCEPT ![r] = q]
    BY <1>q, MailAssumption DEF Starts, Inv, Types, Numbers
<1>2. UNCHANGED <<links, resets, totp, proven>>
    BY DEF credentialVars
<1>3. q \in Asked
    BY <1>q, <1>1 DEF Asked, Knows, ValidLinks, Inv, Types
<1>4. q # Free
    BY <1>3, AskedIsNotFree
<1>5. Types'
    BY <1>1, <1>2, <1>3, MailAssumption DEF Inv, Types
<1>6. /\ Active' = Active \cup {r}
      /\ r \notin Active
      /\ request'[r] = q
      /\ \A s \in Active : request'[s] = request[s]
      /\ \A s \in Active : request[s] \in Asked
    BY <1>1, <1>4 DEF Active, Inv, Types
<1>7. \A s \in Active : request[s].no \in Numbers /\ request[s].no <= started
    BY <1>6 DEF Inv, Subjects, Subject, Asked
<1>8. op = "reset" => of \in Numbers /\ links[of] = "valid" /\ resets[of] = 0 /\ of <= started
    <2> SUFFICES ASSUME op = "reset" PROVE of \in Numbers /\ links[of] = "valid"
                        /\ resets[of] = 0 /\ of <= started
        OBVIOUS
    <2>1. of \in Numbers /\ links[of] = "valid"
        BY DEF Knows, ValidLinks
    <2>2. ~(of > started)
        BY <2>1 DEF Inv, Unborn
    <2>3. ~(resets[of] > 0)
        BY <2>1 DEF Inv, Spent
    <2> QED
        BY <1>1, <2>1, <2>2, <2>3 DEF Inv, Types, Numbers
<1>9. Subjects'
    <2>1. \A s \in Active : Subject(request[s])'
        BY <1>1, <1>6, <1>7 DEF Inv, Subjects, Subject, OfFactor, Numbers
    <2>2. q.no <= started' /\ totp \in Factor
        BY <1>q, <1>1 DEF Inv, Types
    <2>3. Subject(q)'
        BY <1>q, <1>1, <1>8, <2>2 DEF Numbers, Knows, Subject, OfFactor
    <2> QED
        BY <1>6, <2>1, <2>3 DEF Subjects
<1>10. Numbered'
    BY <1>q, <1>1, <1>6, <1>7 DEF Inv, Numbered, Numbers
<1>11. Unborn'
    <2>1. \A l \in Numbers : l > started' => links'[l] = "none" /\ resets'[l] = 0
        BY <1>1, <1>2 DEF Inv, Unborn, Numbers
    <2>2. links[started + 1] = "none" /\ resets[started + 1] = 0
        BY <1>1 DEF Inv, Unborn
    <2>3. \A s \in Active : request[s].op = "reset" => request[s].of # started + 1
        BY <1>1, <1>6 DEF Inv, Subjects, Subject, Numbers
    <2>4. ASSUME NEW f \in Active', request'[f].op = "forgot"
          PROVE  /\ links'[request'[f].no] = "none"
                 /\ resets'[request'[f].no] = 0
                 /\ \A s \in Active' : request'[s].op = "reset" => request'[s].of # request'[f].no
        <3>1. CASE f = r
            BY <1>q, <1>1, <1>2, <1>6, <2>2, <2>3, <2>4, <3>1
        <3>2. CASE f \in Active
            <4>1. /\ links[request[f].no] = "none"
                  /\ \A s \in Active : request[s].op = "reset" => request[s].of # request[f].no
                  /\ resets[request[f].no] = 0
                BY <1>6, <2>4, <3>2 DEF Inv, Unborn
            <4>2. op = "reset" => of # request[f].no
                BY <1>8, <4>1
            <4> QED
                BY <1>q, <1>2, <1>6, <3>2, <4>1, <4>2
        <3> QED
            BY <1>6, <2>4, <3>1, <3>2
    <2> QED
        BY <2>1, <2>4 DEF Unborn
<1>12. Spent'
    <2> SUFFICES ASSUME NEW l \in Numbers, resets[l] > 0
                 PROVE  /\ links[l] \in {"used", "none"}
                        /\ \A s \in Active \cup {r} :
                            request'[s].op = "reset" /\ request'[s].of = l =>
                                request'[s].disturbed
        BY <1>2, <1>6 DEF Spent
    <2>1. op = "reset" => of # l
        BY <1>8
    <2> QED
        BY <1>q, <1>6, <2>1 DEF Inv, Spent
<1>13. Fresh'
    BY <1>q, <1>2, <1>6 DEF Inv, Fresh, OfFactor, Knows
<1>14. Proven'
    BY <1>2 DEF Inv, Proven
<1> QED
    BY <1>5, <1>9, <1>10, <1>11, <1>12, <1>13, <1>14 DEF Inv

-----------------------------------------------------------------------------
(* Requests that commit *)

\* What a commit leaves as it is, whatever else it writes.
LEMMA FadingKeepsRequests ==
    ASSUME Inv, Fades, UNCHANGED started
    PROVE  /\ request' \in [Requests -> Asked \cup {Free}]
           /\ Active' \subseteq Active
           /\ \A s \in Active' : Keeps(s) /\ request[s] \in Asked
           /\ Subjects' /\ Numbered'
<1>1. /\ Active' \subseteq Active
      /\ \A s \in Active' : Keeps(s) /\ request[s] \in Asked
    BY FadesActive DEF Inv
<1>2. Subjects'
    BY <1>1 DEF Inv, Subjects, Subject, Keeps, OfFactor
<1>3. Numbered'
    BY <1>1 DEF Inv, Numbered, Keeps
<1> QED
    BY <1>1, <1>2, <1>3 DEF Fades

\* The new link's number was known to its request alone.
LEMMA ForgotKeepsInv ==
    ASSUME Inv, NEW r \in Requests, ForgotCommits(r)
    PROVE  Inv'
<1>1. /\ r \in Active
      /\ request[r] \in Asked
      /\ request[r].op = "forgot"
      /\ request[r].no \in Numbers
      /\ request[r].no <= started
    BY DEF Inv, Types, Subjects, Subject, ForgotCommits, Under, Active, Free, Asked
<1>2. /\ UNCHANGED <<started, resets, totp, proven>>
      /\ links' = [links EXCEPT ![request[r].no] = "valid"]
      /\ request' = [request EXCEPT ![r] = Free]
    BY DEF ForgotCommits
<1>3. Fades
    BY <1>2 DEF Inv, Types, Fades, Keeps
<1>4. /\ request' \in [Requests -> Asked \cup {Free}]
      /\ Active' \subseteq Active \ {r}
      /\ \A s \in Active' : Keeps(s) /\ request[s] \in Asked
      /\ Subjects' /\ Numbered'
    BY <1>2, <1>3, FadingKeepsRequests DEF Inv, Types, Active
<1>5. Types'
    BY <1>1, <1>2, <1>4 DEF Inv, Types
<1>6. \A l \in Numbers \ {request[r].no} : links'[l] = links[l]
    BY <1>2 DEF Inv, Types
<1>7. Unborn'
    <2>1. \A l \in Numbers : l > started' => links'[l] = "none" /\ resets'[l] = 0
        BY <1>1, <1>2, <1>6, MailAssumption DEF Inv, Unborn, Types, Numbers
    <2>2. \A s \in Active' : request'[s].op = "forgot" =>
            /\ request[s].no \in Numbers \ {request[r].no}
            /\ request'[s].no = request[s].no
        BY <1>1, <1>4 DEF Inv, Numbered, Keeps, Asked
    <2> QED
        BY <1>2, <1>4, <1>6, <2>1, <2>2 DEF Inv, Unborn, Keeps
<1>8. Spent'
    <2>1. resets[request[r].no] = 0
        BY <1>1 DEF Inv, Unborn
    <2> QED
        BY <1>2, <1>4, <1>6, <2>1 DEF Inv, Spent, Keeps
<1>9. Fresh' /\ Proven'
    BY <1>2, <1>4 DEF Inv, Fresh, Proven, Keeps, OfFactor
<1> QED
    BY <1>4, <1>5, <1>7, <1>8, <1>9 DEF Inv

LEMMA ResetKeepsInv ==
    ASSUME Inv, NEW r \in Requests, ResetCommits(r)
    PROVE  Inv'
<1> DEFINE l0 == request[r].of
<1>1. /\ r \in Active
      /\ request[r].op = "reset"
      /\ l0 \in Numbers /\ l0 <= started
    BY DEF Inv, Types, Subjects, Subject, ResetCommits, Under, Active, Free
<1>2. /\ UNCHANGED <<started, totp, proven>>
      /\ links' = [l \in Numbers |-> IF l = l0 THEN "used" ELSE links[l]]
      /\ resets' = [resets EXCEPT ![l0] = @ + 1]
      /\ request' = Committed(r)
    BY DEF ResetCommits, SpentWith
<1>3. Fades
    BY <1>2, CommittingFades DEF Inv
<1>4. /\ request' \in [Requests -> Asked \cup {Free}]
      /\ Active' \subseteq Active
      /\ \A s \in Active' : Keeps(s) /\ request[s] \in Asked
      /\ Subjects' /\ Numbered'
    BY <1>2, <1>3, FadingKeepsRequests
<1>5. Types'
    BY <1>1, <1>2, <1>4 DEF Inv, Types
<1>6. \A l \in Numbers \ {l0} : links'[l] = links[l] /\ resets'[l] = resets[l]
    BY <1>2 DEF Inv, Types
<1>7. Unborn'
    <2>1. \A l \in Numbers : l > started' => links'[l] = "none" /\ resets'[l] = 0
        BY <1>1, <1>2, <1>6, MailAssumption DEF Inv, Unborn, Types, Numbers
    <2>2. \A s \in Active' : request'[s].op = "forgot" => request'[s].no \in Numbers \ {l0}
        BY <1>1, <1>4 DEF Inv, Unborn, Keeps, Asked
    <2> QED
        BY <1>4, <1>6, <2>1, <2>2 DEF Inv, Unborn, Keeps
<1>8. Spent'
    <2>1. links'[l0] = "used"
        BY <1>1, <1>2
    <2>2. \A s \in Active' : request'[s].op = "reset" /\ request'[s].of = l0 =>
            request'[s].disturbed
        <3> SUFFICES ASSUME NEW s \in Active', request'[s].op = "reset", request'[s].of = l0
                     PROVE  request'[s].disturbed
            OBVIOUS
        <3>1. s \in Active /\ request[s].of = l0 /\ s # r /\ s \in Requests
            BY <1>2, <1>4 DEF Keeps, Committed, Active
        <3>2. request'[s] = [request[s] EXCEPT !.disturbed = TRUE]
            BY <1>2, <3>1 DEF Committed, Row
        <3> QED
            BY <1>4, <3>2 DEF Asked
    <2> QED
        BY <1>4, <1>6, <2>1, <2>2 DEF Inv, Spent, Keeps
<1>9. Fresh' /\ Proven'
    BY <1>2, <1>4 DEF Inv, Fresh, Proven, Keeps, OfFactor
<1> QED
    BY <1>4, <1>5, <1>7, <1>8, <1>9 DEF Inv

\* Everybody else who is at work on the second factor is told of the commit.
LEMMA FactorKeepsInv ==
    ASSUME Inv, NEW r \in Requests, SecondFactorCommits(r)
    PROVE  Inv'
<1> DEFINE q == request[r]
<1>1. /\ r \in Active
      /\ q \in Asked
      /\ OfFactor(q) /\ q.of = Owner /\ q.seen \in Factor
      /\ q.op = "enable" => q.seen.secret # None
      /\ ~q.disturbed => q.seen = totp
    BY DEF Inv, Types, Subjects, Subject, Fresh, SecondFactorCommits, OfFactor, Active, Free
<1>2. /\ UNCHANGED <<started, links, resets>>
      /\ totp' = IF q.op = "enable" THEN SwitchedOn(q) ELSE SwitchedOff(q)
      /\ proven' = IF q.op = "enable"
                   THEN IF q.disturbed THEN proven ELSE {q.seen.secret}
                   ELSE {}
      /\ request' = Committed(r)
    BY DEF SecondFactorCommits
<1>3. Fades
    BY <1>2, CommittingFades DEF Inv
<1>4. /\ request' \in [Requests -> Asked \cup {Free}]
      /\ Active' \subseteq Active
      /\ \A s \in Active' : Keeps(s) /\ request[s] \in Asked
      /\ Subjects' /\ Numbered'
    BY <1>2, <1>3, FadingKeepsRequests
<1>5. totp \in Factor /\ totp' \in Factor
    <2>1. totp \in Factor /\ q.no \in Numbers
        BY <1>1 DEF Inv, Types, Asked
    <2> QED
        BY <1>1, <1>2, <2>1 DEF Factor, SwitchedOn, SwitchedOff
<1>6. Types'
    BY <1>2, <1>4, <1>5 DEF Inv, Types
<1>7. Unborn' /\ Spent'
    BY <1>2, <1>4 DEF Inv, Unborn, Spent, Keeps
<1>8. Fresh'
    <2> SUFFICES ASSUME NEW s \in Active', OfFactor(request'[s])
                 PROVE  request'[s].disturbed
        BY DEF Fresh
    <2>1. s \in Active /\ request[s].of = Owner /\ s # r /\ s \in Requests
        BY <1>2, <1>4 DEF Inv, Subjects, Subject, OfFactor, Keeps, Committed, Active
    <2>2. request'[s] = [request[s] EXCEPT !.disturbed = TRUE]
        BY <1>1, <1>2, <2>1 DEF Committed, Row
    <2> QED
        BY <1>4, <2>2 DEF Asked
<1>9. Proven'
    <2>1. CASE q.op = "enable" /\ q.disturbed
        BY <1>2, <1>5, <2>1 DEF Inv, Proven, SwitchedOn, Factor
    <2>2. CASE q.op = "enable" /\ ~q.disturbed
        BY <1>1, <1>2, <1>5, <2>2 DEF Proven, SwitchedOn, Factor
    <2>3. CASE q.op # "enable"
        BY <1>2, <2>3 DEF Proven
    <2> QED
        BY <1>1, <2>1, <2>2, <2>3 DEF Asked
<1> QED
    BY <1>4, <1>6, <1>7, <1>8, <1>9 DEF Inv

LEMMA DeletionKeepsInv == ASSUME Inv, AccountGoes PROVE Inv'
<1>1. /\ UNCHANGED <<started, resets, totp, proven>>
      /\ links' = [l \in Numbers |-> "none"]
      /\ request' = [r \in Requests |->
            IF r \in Active THEN [request[r] EXCEPT !.disturbed = TRUE] ELSE Free]
    BY DEF AccountGoes, DeleteAccount
<1>2. \A s \in Requests : request[s] \in Asked =>
        [request[s] EXCEPT !.disturbed = TRUE] \in Asked
    BY DEF Asked
<1>3. Fades
    BY <1>1, <1>2 DEF Inv, Types, Fades, Keeps, Active, Asked
<1>4. /\ request' \in [Requests -> Asked \cup {Free}]
      /\ Active' \subseteq Active
      /\ \A s \in Active' : Keeps(s) /\ request[s] \in Asked
      /\ Subjects' /\ Numbered'
    BY <1>1, <1>3, FadingKeepsRequests
<1>5. Types'
    BY <1>1, <1>4 DEF Inv, Types
<1>6. \A s \in Active' : request[s] \in Asked /\ request[s].no \in Numbers
                         /\ request'[s].disturbed
    <2>1. \A s \in Active' : s \in Requests /\ request[s] \in Asked /\ s \in Active
        BY <1>4 DEF Active
    <2>2. \A q \in Asked : [q EXCEPT !.disturbed = TRUE].disturbed
        BY DEF Asked
    <2> QED
        BY <1>1, <2>1, <2>2 DEF Asked
<1>7. Unborn'
    <2>1. \A l \in Numbers : l > started' => links'[l] = "none" /\ resets'[l] = 0
        BY <1>1 DEF Inv, Unborn
    <2>2. ASSUME NEW f \in Active', request'[f].op = "forgot"
          PROVE  /\ links'[request'[f].no] = "none"
                 /\ resets'[request'[f].no] = 0
                 /\ \A s \in Active' : request'[s].op = "reset" =>
                        request'[s].of # request'[f].no
        <3>1. /\ f \in Active /\ request[f].op = "forgot"
              /\ request'[f].no = request[f].no /\ request[f].no \in Numbers
            BY <1>4, <1>6, <2>2 DEF Keeps
        <3>2. links'[request'[f].no] = "none"
            BY <1>1, <3>1
        <3>3. \A s \in Active' : s \in Active /\ request'[s].op = request[s].op
                                /\ request'[s].of = request[s].of
            BY <1>4 DEF Keeps
        <3>4. /\ resets[request[f].no] = 0
              /\ \A s \in Active : request[s].op = "reset" => request[s].of # request[f].no
            BY <3>1 DEF Inv, Unborn
        <3>5. resets'[request'[f].no] = 0
            BY <1>1, <3>1, <3>4
        <3> QED
            BY <3>1, <3>2, <3>3, <3>4, <3>5
    <2> QED
        BY <2>1, <2>2 DEF Unborn
<1>8. Spent'
    BY <1>1, <1>6 DEF Spent
<1>9. Fresh' /\ Proven'
    BY <1>1, <1>6 DEF Inv, Fresh, Proven
<1> QED
    BY <1>4, <1>5, <1>7, <1>8, <1>9 DEF Inv

LEMMA ExpiryKeepsInv == ASSUME Inv, LinkExpires PROVE Inv'
<1>1. PICK l \in Numbers :
        /\ links[l] = "valid"
        /\ links' = [links EXCEPT ![l] = "expired"]
    BY DEF LinkExpires, ValidLinks
<1>2. UNCHANGED <<request, started, resets, totp, proven>>
    BY DEF LinkExpires, mailVars
<1>3. Types'
    BY <1>1, <1>2 DEF Inv, Types
<1>4. Unborn' /\ Spent'
    BY <1>1, <1>2, <1>3 DEF Inv, Types, Unborn, Spent, Active
<1>5. Subjects' /\ Numbered' /\ Fresh' /\ Proven'
    BY <1>2 DEF Inv, Subjects, Subject, OfFactor, Numbered, Fresh, Proven, Active
<1> QED
    BY <1>3, <1>4, <1>5 DEF Inv

-----------------------------------------------------------------------------
(* Every step *)

LEMMA BeginningKeepsInv ==
    ASSUME OrdersOK, Inv, NEW r \in Requests,
           \/ UNCHANGED credentialVars
              /\ \E o \in Orders : SettleReads(r, o) \/ ShipReads(r, o)
           \/ Forgot(r) \/ Reset(r) \/ Setup(r) \/ Disable(r) \/ Enable(r)
    PROVE  Inv'
<1>1. ASSUME NEW o \in Orders, SettleReads(r, o), UNCHANGED credentialVars PROVE Inv'
    BY <1>1, StartingKeepsInv DEF SettleReads, Knows, OrdersOK
<1>2. ASSUME NEW o \in Orders, ShipReads(r, o), UNCHANGED credentialVars PROVE Inv'
    BY <1>2, StartingKeepsInv DEF ShipReads, Knows, OrdersOK
<1>3. CASE Forgot(r)
    <2>1. started + 1 \in Numbers
        BY <1>3, MailAssumption DEF Forgot, Starts, Inv, Types, Numbers
    <2> QED
        BY <1>3, <2>1, StartingKeepsInv DEF Forgot, Knows
<1>4. CASE Reset(r)
    <2>1. PICK l \in MailedLinks \cap ValidLinks :
            Starts(r, "reset", l, None) /\ UNCHANGED credentialVars
        BY <1>4 DEF Reset
    <2> QED
        BY <2>1, StartingKeepsInv DEF Knows
<1>5. CASE Setup(r)
    BY <1>5, StartingKeepsInv DEF Setup, Knows
<1>6. CASE Disable(r)
    BY <1>6, StartingKeepsInv DEF Disable, Knows
<1>7. CASE Enable(r)
    BY <1>7, StartingKeepsInv DEF Enable, Knows, CodeFits
<1> QED
    BY <1>1, <1>2, <1>3, <1>4, <1>5, <1>6, <1>7

LEMMA FailingFades == ASSUME Types, NEW r \in Requests, Fails(r) PROVE Fades
BY DEF Types, Fails, Fades, Keeps

LEMMA FlushKeepsInv ==
    ASSUME Inv, NEW r \in Requests, UNCHANGED credentialVars,
           OrderFlushes(r) \/ ForgotFlushes(r) \/ AccountFlushes(r)
    PROVE  Inv'
<1>1. /\ r \in Requests
      /\ request[r].phase = "read"
    BY DEF OrderFlushes, ForgotFlushes, AccountFlushes, Under
<1>2. Fails(r) \/ \E events : Flushes(r, events)
    BY DEF OrderFlushes, ForgotFlushes, AccountFlushes
<1>3. Fades /\ UNCHANGED started
    BY <1>1, <1>2, FailingFades, FlushingFades DEF Inv, Flushes, Fails
<1> QED
    BY <1>3, FadingKeepsInv DEF credentialVars

LEMMA EndKeepsInv ==
    ASSUME Inv, UNCHANGED credentialVars,
           \/ \E r \in Requests : OrderCommits(r) \/ RollsBack(r)
           \/ Restart
    PROVE  Inv'
<1>2. ASSUME NEW r \in Requests, OrderCommits(r) \/ RollsBack(r) PROVE Inv'
    <2>1. request' = [request EXCEPT ![r] = Free] /\ UNCHANGED started
        BY <1>2 DEF RollsBack, OrderCommits
    <2>2. Fades
        BY <2>1 DEF Inv, Types, Fades, Keeps
    <2> QED
        BY <2>1, <2>2, FadingKeepsInv DEF credentialVars
<1>3. CASE Restart
    <2>1. request' = [r \in Requests |-> Free] /\ UNCHANGED started
        BY <1>3 DEF Restart
    <2>2. Fades
        BY <2>1 DEF Fades
    <2> QED
        BY <2>1, <2>2, FadingKeepsInv DEF credentialVars
<1> QED
    BY <1>2, <1>3

LEMMA IdleKeepsInv ==
    ASSUME Inv, UNCHANGED <<request, started, links, resets, totp, proven>>
    PROVE  Inv'
BY DEF Inv, Types, Subjects, Subject, OfFactor, Numbered, Unborn, Spent, Fresh, Proven, Active

\* Every request for credentials, commit, restart and e-mail keeps it.
THEOREM NextInv == OrdersOK /\ Inv /\ [Next]_vars => Inv'
<1> SUFFICES ASSUME OrdersOK, Inv, [Next]_vars PROVE Inv'
    OBVIOUS
<1>1. ASSUME MailNext, UNCHANGED credentialVars PROVE Inv'
    <2>1. ASSUME NEW t \in tasks, Handle(t) PROVE Inv'
        BY <1>1, <2>1, IdleKeepsInv DEF Handle, credentialVars
    <2>2. ASSUME NEW o \in Orders, PaymentFails(o) \/ Refunded(o) \/ Cancelled(o) PROVE Inv'
        BY <1>1, <2>2, IdleKeepsInv
           DEF PaymentFails, Refunded, Cancelled, Becomes, credentialVars
    <2> QED
        BY <1>1, <2>1, <2>2, BeginningKeepsInv, FlushKeepsInv, EndKeepsInv
           DEF MailNext, OrdersNext, ProcessNext
<1>2. ASSUME NEW r \in Requests, Forgot(r) \/ Reset(r) \/ Setup(r) \/ Disable(r) \/ Enable(r)
      PROVE  Inv'
    BY <1>2, BeginningKeepsInv
<1>3. ASSUME NEW r \in Requests, ForgotFlushes(r) \/ AccountFlushes(r) PROVE Inv'
    BY <1>3, FlushKeepsInv DEF ForgotFlushes, AccountFlushes
<1>4. ASSUME NEW r \in Requests, ForgotCommits(r) \/ ResetCommits(r) \/ SecondFactorCommits(r)
      PROVE  Inv'
    BY <1>4, ForgotKeepsInv, ResetKeepsInv, FactorKeepsInv
<1>5. CASE LinkExpires
    BY <1>5, ExpiryKeepsInv
<1>6. CASE AccountGoes
    BY <1>6, DeletionKeepsInv
<1>7. ASSUME \/ \E code \in shown \cup {None} : AdminLogin(code)
             \/ Verify2fa \/ TicketExpires \/ UNCHANGED vars
      PROVE  Inv'
    BY <1>7, IdleKeepsInv DEF AdminLogin, Verify2fa, TicketExpires, vars, mailVars, credentialVars
<1> QED
    BY <1>1, <1>2, <1>3, <1>4, <1>5, <1>6, <1>7 DEF Next, CredentialsNext

\* In every reachable state undisturbed requests know the credentials as they are
\* (ProfileController, PasswordResetService).
THEOREM Invariance == Spec => [](OrdersOK /\ Inv)
<1>1. Init => OrdersOK
    BY DEF Init, MailInit, OrdersOK, Order, Statuses
<1> QED
    BY <1>1, InitInv, NextOrdersOK, NextInv, PTL DEF Spec

-----------------------------------------------------------------------------
(* What the invariant gives *)

\* PasswordResetService.reset_password: a token that was used is used again only
\* by a request that had read it before the first use committed.
THEOREM TokensAreUsedOnce == Spec => OneReset
<1> DEFINE Again(l) == \E r \in Flushed : request[r].of = l /\ request'[r] = Free
                                          /\ request[r].disturbed
<1>1. ASSUME Inv, [Next]_vars, NEW l \in Numbers, resets[l] > 0, resets'[l] > resets[l]
      PROVE  Again(l)
    <2>1. PICK r \in Requests : ResetCommits(r)
        <3>1. resets' # resets
            BY <1>1 DEF Inv, Types
        <3> QED
            BY <1>1, <3>1 DEF Next, MailNext, OrdersNext, ProcessNext, CredentialsNext, Becomes,
                PaymentFails, Refunded, Cancelled, vars, mailVars, credentialVars, Forgot, ForgotFlushes,
                ForgotCommits, Reset, Setup, Disable, Enable, AccountFlushes,
                SecondFactorCommits, LinkExpires, AdminLogin, Verify2fa, TicketExpires, AccountGoes
    <2>2. /\ r \in Flushed /\ r \in Active /\ request[r].op = "reset"
          /\ resets' = [resets EXCEPT ![request[r].of] = @ + 1]
          /\ request'[r] = Free
        BY <2>1 DEF ResetCommits, Under, Flushed, Active, Free, Committed
    <2>3. request[r].of = l
        BY <1>1, <2>2 DEF Inv, Types
    <2>4. request[r].disturbed
        BY <1>1, <2>2, <2>3 DEF Inv, Spent
    <2> QED
        BY <2>2, <2>3, <2>4
<1>2. Inv /\ [Next]_vars =>
        [\A l \in Numbers : resets[l] > 0 /\ resets'[l] > resets[l] => Again(l)]_vars
    BY <1>1
<1> QED
    BY <1>2, Invariance, PTL DEF Spec, OneReset

\* ProfileController.setup_2fa, enable_2fa and disable_2fa: only requests that
\* overlap can leave the second factor enabled with a secret nobody proved to hold.
THEOREM SecretsAreProved == Spec => EnabledIsVerified
<1> DEFINE Overlap == \E r \in Flushed : request[r].disturbed /\ request'[r] = Free
<1>1. ASSUME Inv, [Next]_vars, Verified, ~Verified'
      PROVE  Overlap
    <2>1. PICK r \in Requests : SecondFactorCommits(r)
        <3>1. <<totp, proven>>' # <<totp, proven>>
            BY <1>1 DEF Verified
        <3> QED
            BY <1>1, <3>1 DEF Next, MailNext, OrdersNext, ProcessNext, CredentialsNext, Becomes,
                PaymentFails, Refunded, Cancelled, vars, mailVars, credentialVars, Forgot, ForgotFlushes,
                ForgotCommits, Reset, Setup, Disable, Enable, AccountFlushes,
                ResetCommits, LinkExpires, AdminLogin, Verify2fa, TicketExpires, AccountGoes
    <2> DEFINE q == request[r]
    <2>2. /\ r \in Flushed /\ r \in Active /\ OfFactor(q) /\ request'[r] = Free
        BY <2>1 DEF SecondFactorCommits, Flushed, Active, Free, Committed, OfFactor
    <2>3. q.seen \in Factor /\ totp \in Factor
        BY <1>1, <2>2 DEF Inv, Types, Subjects, Subject
    <2>4. ASSUME ~q.disturbed PROVE FALSE
        <3>1. q.seen = totp
            BY <1>1, <2>2, <2>4 DEF Inv, Fresh
        <3>2. CASE q.op = "enable"
            <4>1. totp' = SwitchedOn(q) /\ proven' = {totp.secret}
                BY <2>1, <2>4, <3>1, <3>2 DEF SecondFactorCommits
            <4>2. totp'.secret = totp.secret
                BY <2>3, <4>1 DEF SwitchedOn, Factor
            <4> QED
                BY <1>1, <4>1, <4>2 DEF Verified
        <3>3. CASE q.op # "enable"
            <4>1. totp' = SwitchedOff(q)
                BY <2>1, <3>3 DEF SecondFactorCommits
            <4>2. ~totp'.enabled
                BY <2>3, <3>1, <4>1 DEF SwitchedOff, Factor
            <4> QED
                BY <1>1, <4>2 DEF Verified
        <3> QED
            BY <3>2, <3>3
    <2> QED
        BY <1>1, <2>2, <2>4 DEF Inv, Types, Asked
<1>2. Inv /\ [Next]_vars => [Verified /\ ~Verified' => Overlap]_vars
    BY <1>1
<1> QED
    BY <1>2, Invariance, PTL DEF Spec, EnabledIsVerified

\* AuthService.verify_2fa: the codes of a secret that was proved, and that nothing
\* replaced since, are accepted.
THEOREM CodesAreAccepted == Spec => HolderGetsIn
<1>1. ASSUME Inv, [Next]_vars, login.step = "ticket", login'.step = "refused",
             account = "live", login.code \in proven
      PROVE  FALSE
    <2>1. Verify2fa
        <3>1. login' # login
            BY <1>1
        <3>2. ~TicketExpires /\ ~\E code \in shown \cup {None} : AdminLogin(code)
            BY <1>1 DEF TicketExpires, AdminLogin, LoggedOut
        <3> QED
            BY <1>1, <3>1, <3>2 DEF Next, MailNext, OrdersNext, ProcessNext, CredentialsNext, Becomes,
                PaymentFails, Refunded, Cancelled, vars, mailVars, credentialVars, Forgot, ForgotFlushes,
                ForgotCommits, Reset, ResetCommits, Setup, Disable, Enable, AccountFlushes,
                SecondFactorCommits, LinkExpires, AccountGoes
    <2>2. Accepts(login.code)
        BY <1>1 DEF Inv, Proven, Accepts
    <2> QED
        BY <1>1, <2>1, <2>2 DEF Verify2fa
<1>2. Inv /\ [Next]_vars =>
        [login.step = "ticket" /\ login'.step = "refused" /\ account = "live"
            => login.code \notin proven]_vars
    BY <1>1
<1> QED
    BY <1>2, Invariance, PTL DEF Spec, HolderGetsIn

-----------------------------------------------------------------------------
(* E-mails: what each is about, and what stands behind it *)

Mailed == tasks \cup outbox \cup undelivered

\* A request that has its e-mail out has flushed, and the e-mail is its own.
Posted ==
    /\ Mailed \subseteq Event
    /\ \A e \in Mailed : e.no <= started /\ (e.kind = "reset" => e.of = e.no)
    /\ \A e \in Mailed : \A r \in Active : request[r].no = e.no =>
        /\ request[r].phase = "flushed"
        /\ e.kind = "reset" => request[r].op = "forgot"
        /\ e.kind = "shipped" => request[r].op = "ship" /\ request[r].of = e.of

Accountable ==
    /\ account \in {"live", "gone"}
    /\ OrdersOK
    /\ settled \in [Orders -> Nat]
    /\ shipments \in [Orders -> SUBSET Numbers]

\* Its request has yet to commit, or never did.
Loose(e) == e.no \in rolledBack \/ \E r \in Flushed : request[r].no = e.no
LinksBacked ==
    /\ account = "live" => \A e \in Mailed : e.kind = "reset" /\ links[e.of] = "none" => Loose(e)
    /\ \A l \in Numbers : links[l] = "used" => resets[l] > 0

\* An e-mail of a shipment whose request has come to an end is of one that is kept.
ToldOf(o) ==
    /\ \A e \in Told(o) : e.no \in shipments[o] \/ Loose(e)
    /\ \A d, e \in Told(o) : d.no = e.no => d = e
ToldOnce == \A o \in Orders : ToldOf(o)

Mailing == Posted /\ Accountable /\ LinksBacked /\ ToldOnce

LEMMA ToldIsMailed ==
    ASSUME NEW o
    PROVE  /\ Told(o) = {e \in Mailed : e.kind = "shipped" /\ e.of = o}
           /\ Told(o)' = {e \in Mailed' : e.kind = "shipped" /\ e.of = o}
BY DEF Told, Mailed

LEMMA FlushedIsActive ==
    /\ Flushed \subseteq Active
    /\ Flushed' \subseteq Active'
BY DEF Flushed, Active, Free

\* Nothing mailed, nothing told: the e-mails' invariant holds at the start.
THEOREM InitMailing == Init => Mailing
<1> SUFFICES ASSUME Init PROVE Mailing
    OBVIOUS
<1> USE DEF Init, MailInit
<1>1. Mailed = {} /\ Active = {}
    BY DEF Mailed, Active
<1>2. Posted
    BY <1>1 DEF Posted
<1>3. Accountable
    BY DEF Accountable, OrdersOK, Order, Statuses
<1>4. LinksBacked
    BY <1>1 DEF LinksBacked
<1>5. ToldOnce
    BY <1>1, ToldIsMailed DEF ToldOnce, ToldOf
<1> QED
    BY <1>2, <1>3, <1>4, <1>5 DEF Mailing

\* A step that sends nothing and makes no link unknown; whose e-mail is on its way
\* either goes on, is rolled back, or has shipped what it tells.
Quietly ==
    /\ Fades /\ started' = started
    /\ Mailed' \subseteq Mailed
    /\ Accountable'
    /\ account' = "live" => account = "live"
    /\ \A l \in Numbers : /\ links'[l] = "none" => links[l] = "none" \/ account' = "gone"
                          /\ links'[l] = "used" => resets'[l] > 0
    /\ rolledBack \subseteq rolledBack'
    /\ \A o \in Orders : shipments[o] \subseteq shipments'[o]
    /\ \A r \in Active' : request'[r].phase = request[r].phase
    /\ \A r \in Flushed \ Flushed' :
        \/ request[r].no \in rolledBack'
        \/ request[r].op \notin {"forgot", "ship"}
        \/ request[r].op = "ship" /\ request[r].no \in shipments'[request[r].of]

LEMMA QuietlyMailing ==
    ASSUME Inv, Mailing, Quietly
    PROVE  Mailing'
<1>1. /\ Active' \subseteq Active
      /\ \A r \in Active' : Keeps(r) /\ request[r] \in Asked
    BY FadesActive DEF Inv, Quietly
<1>2. Mailed \subseteq Event
    BY DEF Mailing, Posted
<1>3. Posted'
    BY <1>1 DEF Mailing, Posted, Quietly, Keeps
<1>4. ASSUME NEW e \in Mailed', e.kind \in {"reset", "shipped"}, Loose(e)
      PROVE  Loose(e)' \/ (e.kind = "shipped" /\ e.no \in shipments'[e.of])
    <2>1. CASE e.no \in rolledBack
        BY <2>1 DEF Quietly, Loose
    <2>2. ASSUME NEW r \in Flushed, request[r].no = e.no
          PROVE  Loose(e)' \/ (e.kind = "shipped" /\ e.no \in shipments'[e.of])
        <3>1. r \in Active /\ e \in Mailed
            BY FlushedIsActive DEF Quietly
        <3>2. \/ e.kind = "reset" /\ request[r].op = "forgot"
              \/ e.kind = "shipped" /\ request[r].op = "ship" /\ request[r].of = e.of
            BY <1>4, <2>2, <3>1 DEF Mailing, Posted
        <3>3. CASE r \in Flushed'
            <4>1. r \in Active'
                BY <3>3, FlushedIsActive
            <4>2. request'[r].no = e.no
                BY <1>1, <2>2, <4>1 DEF Keeps
            <4> QED
                BY <3>3, <4>2 DEF Loose
        <3>4. CASE r \notin Flushed'
            <4>1. \/ request[r].no \in rolledBack'
                  \/ request[r].op = "ship" /\ request[r].no \in shipments'[request[r].of]
                BY <3>2, <3>4 DEF Quietly
            <4> QED
                BY <2>2, <3>2, <4>1 DEF Loose
        <3> QED
            BY <3>3, <3>4
    <2> QED
        BY <1>4, <2>1, <2>2 DEF Loose
<1>5. LinksBacked'
    <2>1. ASSUME account' = "live", NEW e \in Mailed', e.kind = "reset", links'[e.of] = "none"
          PROVE  Loose(e)'
        <3>1. e \in Mailed /\ e.of \in Numbers
            BY <1>2, <2>1 DEF Quietly, Mailing, Posted, Event
        <3>2. links[e.of] = "none"
            BY <2>1, <3>1 DEF Quietly
        <3>3. Loose(e)
            BY <2>1, <3>1, <3>2 DEF Quietly, Mailing, LinksBacked
        <3> QED
            BY <1>4, <2>1, <3>3
    <2> QED
        BY <2>1 DEF LinksBacked, Quietly
<1>7. ToldOnce'
    <2>1. ASSUME NEW o \in Orders PROVE ToldOf(o)'
        <3>1. ToldOf(o) /\ shipments[o] \subseteq shipments'[o]
            BY DEF Quietly, Mailing, ToldOnce
        <3>2. \A e \in Told(o)' : e \in Told(o) /\ e \in Mailed' /\ e.kind = "shipped" /\ e.of = o
            BY ToldIsMailed DEF Quietly
        <3>3. \A e \in Told(o)' : Loose(e) => Loose(e)' \/ e.no \in shipments'[o]
            BY <1>4, <3>2
        <3> QED
            BY <3>1, <3>2, <3>3 DEF ToldOf
    <2> QED
        BY <2>1 DEF ToldOnce
<1> QED
    BY <1>3, <1>5, <1>7 DEF Mailing, Quietly

\* A request that begins has a number no e-mail has.
LEMMA StartingMailing ==
    ASSUME Inv, Inv', Mailing, NEW r \in Requests, NEW op, NEW of, NEW seen,
           Starts(r, op, of, seen), UNCHANGED credentialVars
    PROVE  Mailing'
<1>1. PICK q : q = [phase |-> "read", op |-> op, of |-> of, seen |-> seen,
                   no |-> started + 1, disturbed |-> FALSE]
    OBVIOUS
<1>2. /\ request[r] = Free
      /\ started \in Nat /\ started' = started + 1
      /\ request' = [request EXCEPT ![r] = q]
      /\ UNCHANGED <<account, orders, tasks, outbox, undelivered, rolledBack, settled, shipments>>
      /\ UNCHANGED <<links, resets>>
    BY <1>1, MailAssumption DEF Starts, Inv, Types, credentialVars
<1>3. /\ request'[r] = q
      /\ \A s \in Requests \ {r} : request'[s] = request[s]
    BY <1>2 DEF Inv, Types
<1>4. Mailed' = Mailed /\ Mailed \subseteq Event
    BY <1>2 DEF Mailed, Mailing, Posted
<1>5. Flushed' = Flushed
    BY <1>1, <1>2, <1>3 DEF Flushed, Free
<1>6. \A s \in Active' : s = r \/ (s \in Active /\ request'[s] = request[s])
    BY <1>3 DEF Active
<1>7. \A e \in Mailed : e.no \in Nat /\ e.no <= started
    BY <1>4 DEF Mailing, Posted, Event, Numbers
<1>8. Posted'
    <2>1. \A e \in Mailed : e.no # started + 1 /\ e.no <= started'
        BY <1>2, <1>7
    <2> QED
        BY <1>1, <1>3, <1>4, <1>6, <2>1 DEF Mailing, Posted
<1>9. \A e \in Mailed : Loose(e) => Loose(e)'
    <2>1. \A s \in Flushed : request'[s] = request[s]
        BY <1>2, <1>3 DEF Flushed, Free
    <2> QED
        BY <1>2, <1>5, <2>1 DEF Loose
<1>10. LinksBacked'
    BY <1>2, <1>4, <1>9 DEF Mailing, LinksBacked
<1>12. ToldOnce'
    <2>1. ASSUME NEW o \in Orders PROVE ToldOf(o)'
        <3>1. Told(o)' = Told(o) /\ Told(o) \subseteq Mailed
            BY <1>4, ToldIsMailed
        <3> QED
            BY <1>2, <1>9, <3>1 DEF Mailing, ToldOnce, ToldOf
    <2> QED
        BY <1>2, <2>1 DEF ToldOnce
<1>13. Accountable'
    BY <1>2 DEF Mailing, Accountable, OrdersOK
<1> QED
    BY <1>8, <1>10, <1>12, <1>13 DEF Mailing

\* What a request sends when it flushes is its own.
Sends(r, E) == \A e \in E :
    /\ e \in Event
    /\ e.no = request[r].no
    /\ e.kind = "reset" => e.of = e.no /\ request[r].op = "forgot"
    /\ e.kind = "shipped" => request[r].op = "ship" /\ request[r].of = e.of /\ E = {e}

LEMMA FlushingMailing ==
    ASSUME Inv, Mailing, NEW r \in Requests, request[r].phase = "read",
           NEW E, Flushes(r, E), Sends(r, E), UNCHANGED credentialVars
    PROVE  Mailing'
<1>1. /\ request' = [request EXCEPT ![r].phase = "flushed"]
      /\ tasks' = tasks \cup E
      /\ UNCHANGED <<account, orders, started, outbox, undelivered, rolledBack, settled, shipments>>
      /\ UNCHANGED <<links, resets>>
    BY DEF Flushes, Emits, credentialVars
<1>2. Fades
    BY <1>1, FlushingFades DEF Inv
<1>3. /\ Active' \subseteq Active
      /\ \A s \in Active' : Keeps(s) /\ request[s] \in Asked
    BY <1>2, FadesActive DEF Inv
<1>4. Mailed' = Mailed \cup E
    BY <1>1 DEF Mailed
<1>5. /\ r \in Active /\ request[r] \in Asked
      /\ request'[r] = [request[r] EXCEPT !.phase = "flushed"]
      /\ \A s \in Requests \ {r} : request'[s] = request[s]
    BY <1>1 DEF Inv, Types, Active, Free
<1>6. /\ Flushed' = Flushed \cup {r}
      /\ r \notin Flushed
      /\ \A s \in Flushed' : request'[s].no = request[s].no
      /\ request'[r].phase = "flushed"
    BY <1>5 DEF Flushed, Asked
<1>7. Posted'
    <2>1. Mailed' \subseteq Event
        BY <1>4 DEF Mailing, Posted, Sends
    <2>2. \A e \in Mailed' : e.no <= started' /\ (e.kind = "reset" => e.of = e.no)
        BY <1>1, <1>4, <1>5 DEF Mailing, Posted, Sends, Inv, Subjects, Subject
    <2>3. ASSUME NEW e \in Mailed', NEW s \in Active', request'[s].no = e.no
          PROVE  /\ request'[s].phase = "flushed"
                 /\ e.kind = "reset" => request'[s].op = "forgot"
                 /\ e.kind = "shipped" => request'[s].op = "ship" /\ request'[s].of = e.of
        <3>1. /\ s \in Active /\ request[s].no = e.no
              /\ request'[s].op = request[s].op /\ request'[s].of = request[s].of
            BY <1>3, <2>3 DEF Keeps
        <3>2. CASE e \in Mailed
            <4>1. /\ request[s].phase = "flushed"
                  /\ e.kind = "reset" => request[s].op = "forgot"
                  /\ e.kind = "shipped" => request[s].op = "ship" /\ request[s].of = e.of
                BY <3>1, <3>2 DEF Mailing, Posted
            <4>2. s # r /\ s \in Requests
                BY <3>1, <4>1 DEF Active
            <4> QED
                BY <1>5, <3>1, <4>1, <4>2
        <3>3. CASE e \in E
            <4>1. s = r
                BY <1>5, <3>1, <3>3 DEF Sends, Inv, Numbered
            <4> QED
                BY <1>6, <3>1, <3>3, <4>1 DEF Sends
        <3> QED
            BY <1>4, <3>2, <3>3
    <2> QED
        BY <2>1, <2>2, <2>3 DEF Posted
<1>8. \A e : Loose(e) => Loose(e)'
    BY <1>1, <1>6 DEF Loose
<1>9. \A e \in E : Loose(e)'
    BY <1>5, <1>6 DEF Loose, Sends
<1>10. LinksBacked'
    BY <1>1, <1>4, <1>8, <1>9 DEF Mailing, LinksBacked
<1>12. ASSUME NEW o \in Orders PROVE ToldOf(o)'
    <2>1. ToldOf(o)
        BY DEF Mailing, ToldOnce
    <2>2. /\ Told(o) \subseteq Mailed
          /\ Told(o)' = Told(o) \cup {e \in E : e.kind = "shipped" /\ e.of = o}
        BY <1>4, ToldIsMailed
    <2>3. \A e \in Told(o)' : e.no \in shipments'[o] \/ Loose(e)'
        BY <1>1, <1>8, <1>9, <2>1, <2>2 DEF ToldOf
    <2>4. \A d \in Told(o), e \in E : d.no # e.no
        BY <1>5, <2>2 DEF Mailing, Posted, Sends
    <2>5. \A d, e \in Told(o)' : d.no = e.no => d = e
        BY <2>1, <2>2, <2>4 DEF ToldOf, Sends
    <2> QED
        BY <2>3, <2>5 DEF ToldOf
<1>13. ToldOnce'
    BY <1>1, <1>12 DEF ToldOnce
<1>14. Accountable'
    BY <1>1 DEF Mailing, Accountable, OrdersOK
<1> QED
    BY <1>7, <1>10, <1>13, <1>14 DEF Mailing

\* Whose e-mail is another request's is as loose as before.
LEMMA OthersStayLoose ==
    ASSUME Inv, Fades, NEW r \in Requests, rolledBack' = rolledBack,
           \A s \in Requests \ {r} : request[s] # Free =>
               request'[s] # Free /\ request'[s].phase = request[s].phase,
           NEW e, e.no # request[r].no, Loose(e)
    PROVE  Loose(e)'
<1>1. /\ Active' \subseteq Active
      /\ \A s \in Active' : Keeps(s) /\ request[s] \in Asked
    BY FadesActive DEF Inv
<1>2. CASE e.no \in rolledBack
    BY <1>2 DEF Loose
<1>3. ASSUME NEW s \in Flushed, request[s].no = e.no PROVE Loose(e)'
    <2>1. s \in Requests \ {r} /\ request[s] # Free
        BY <1>3 DEF Flushed, Free
    <2>2. s \in Active' /\ request'[s].phase = "flushed"
        BY <2>1, <1>3 DEF Active, Flushed
    <2>3. s \in Flushed' /\ request'[s].no = e.no
        BY <1>1, <1>3, <2>1, <2>2 DEF Keeps, Flushed
    <2> QED
        BY <2>3 DEF Loose
<1> QED
    BY <1>2, <1>3 DEF Loose

\* The link is there.
LEMMA ForgotMailing ==
    ASSUME Inv, Mailing, NEW r \in Requests, ForgotCommits(r)
    PROVE  Mailing'
<1>1. /\ r \in Active /\ request[r].op = "forgot" /\ request[r].no \in Numbers
    BY DEF Inv, Types, ForgotCommits, Under, Active, Free, Asked
<1>2. /\ UNCHANGED <<account, orders, started, tasks, outbox, undelivered, rolledBack, settled, shipments>>
      /\ UNCHANGED resets
      /\ links' = [links EXCEPT ![request[r].no] = "valid"]
      /\ request' = [request EXCEPT ![r] = Free]
    BY DEF ForgotCommits
<1>3. Fades
    BY <1>2 DEF Inv, Types, Fades, Keeps
<1>4. /\ Mailed' = Mailed /\ Mailed \subseteq Event
      /\ \A o : Told(o)' = Told(o)
    BY <1>2 DEF Mailed, Told, Mailing, Posted
<1>5. /\ \A s \in Requests \ {r} : request'[s] = request[s]
      /\ Active' = Active \ {r}
    BY <1>2 DEF Inv, Types, Active
<1>6. \A e : e.no # request[r].no /\ Loose(e) => Loose(e)'
    BY <1>2, <1>3, <1>5, OthersStayLoose
<1>7. Posted'
    BY <1>2, <1>4, <1>5 DEF Mailing, Posted, Active
<1>8. LinksBacked'
    <2>1. ASSUME account = "live", NEW e \in Mailed, e.kind = "reset", links'[e.of] = "none"
          PROVE  Loose(e)'
        <3>1. e.of \in Numbers /\ e.of = e.no
            BY <1>4, <2>1 DEF Mailing, Posted, Event
        <3>2. e.no # request[r].no /\ links[e.of] = "none"
            BY <1>2, <2>1, <3>1 DEF Inv, Types
        <3>3. Loose(e)
            BY <2>1, <3>2 DEF Mailing, LinksBacked
        <3> QED
            BY <1>6, <3>2, <3>3
    <2>2. \A l \in Numbers : links'[l] = "used" => resets'[l] > 0
        BY <1>2 DEF Inv, Types, Mailing, LinksBacked
    <2> QED
        BY <1>2, <1>4, <2>1, <2>2 DEF LinksBacked
<1>10. ASSUME NEW o \in Orders PROVE ToldOf(o)'
    <2>1. ToldOf(o) /\ Told(o)' = Told(o)
        BY <1>4 DEF Mailing, ToldOnce
    <2>2. \A e \in Told(o) : e.no # request[r].no
        <3>1. \A e \in Told(o) : e \in Mailed /\ e.kind = "shipped"
            BY ToldIsMailed
        <3> QED
            BY <1>1, <3>1 DEF Mailing, Posted
    <2> QED
        BY <1>2, <1>6, <2>1, <2>2 DEF ToldOf
<1>11. ToldOnce'
    BY <1>2, <1>10 DEF ToldOnce
<1>12. Accountable'
    BY <1>2 DEF Mailing, Accountable, OrdersOK
<1> QED
    BY <1>7, <1>8, <1>11, <1>12 DEF Mailing

\* A shipment that commits is what its e-mail says.
LEMMA OrderMailing ==
    ASSUME Inv, OrdersOK', Mailing, NEW r \in Requests, OrderCommits(r), UNCHANGED credentialVars
    PROVE  Mailing'
<1> DEFINE q == request[r]
<1>1. /\ r \in Active /\ q \in Asked /\ q.op \in {"settle", "ship"} /\ q.of \in Orders
      /\ q.no \in Numbers
    BY DEF Inv, Types, OrderCommits, Active, Free, Subjects, Subject, Asked
<1>2. /\ UNCHANGED <<account, started, tasks, outbox, undelivered, rolledBack, links, resets>>
      /\ settled' = IF q.op = "settle" THEN [settled EXCEPT ![q.of] = @ + 1] ELSE settled
      /\ shipments' = IF q.op = "settle" THEN shipments
                      ELSE [shipments EXCEPT ![q.of] = @ \cup {q.no}]
      /\ request' = [request EXCEPT ![r] = Free]
    BY DEF OrderCommits, credentialVars
<1>3. Fades /\ \A s \in Active' : request'[s].phase = request[s].phase
    BY <1>2 DEF Inv, Types, Fades, Keeps, Active
<1>4. /\ Mailed' = Mailed
      /\ \A l \in Numbers : links[l] = "used" => resets[l] > 0
    BY <1>2 DEF Mailed, Mailing, LinksBacked
<1>5. Accountable' /\ \A o \in Orders : shipments[o] \subseteq shipments'[o]
    BY <1>1, <1>2 DEF Mailing, Accountable
<1>6. \A s \in Flushed \ Flushed' : s = r
    BY <1>2 DEF Flushed, Inv, Types
<1>7. q.op = "ship" => q.no \in shipments'[q.of]
    BY <1>1, <1>2 DEF Mailing, Accountable
<1> QED
    BY <1>1, <1>2, <1>3, <1>4, <1>5, <1>6, <1>7, QuietlyMailing DEF Quietly

\* What happens to orders beside these requests tells nobody anything.
LEMMA BecomingMailing ==
    ASSUME Inv, OrdersOK', Mailing, NEW o \in Orders, NEW new, Becomes(o, new),
           UNCHANGED credentialVars
    PROVE  Mailing'
<1>1. UNCHANGED <<account, request, started, tasks, outbox, undelivered, rolledBack, settled,
                  shipments, links, resets>>
    BY DEF Becomes, credentialVars
<1>2. Fades /\ Flushed' = Flushed /\ Mailed' = Mailed
    BY <1>1 DEF Inv, Types, Fades, Keeps, Flushed, Mailed
<1>3. Accountable' /\ \A l \in Numbers : links[l] = "used" => resets[l] > 0
    BY <1>1 DEF Mailing, Accountable, LinksBacked
<1> QED
    BY <1>1, <1>2, <1>3, QuietlyMailing DEF Quietly

\* The other commits, the failures and the ends of requests tell nobody anything.
LEMMA EndingMailing ==
    ASSUME Inv, Inv', Mailing, NEW r \in Requests,
           \/ UNCHANGED credentialVars /\ (RollsBack(r) \/ (request[r].phase = "read" /\ Fails(r)))
           \/ ResetCommits(r) \/ SecondFactorCommits(r)
    PROVE  Mailing'
<1>1. UNCHANGED <<account, orders, started, tasks, outbox, undelivered, settled, shipments>>
    BY DEF RollsBack, Fails, ResetCommits, SecondFactorCommits
<1>2. Fades
    BY FailingFades, CommittingFades, EndingFades
       DEF Inv, Types, RollsBack, Fails, Fades, Keeps, ResetCommits, SecondFactorCommits
<1>3. Mailed' = Mailed /\ Accountable'
    BY <1>1 DEF Mailed, Mailing, Accountable, OrdersOK
<1>4. \A l \in Numbers : /\ links'[l] = "none" => links[l] = "none"
                         /\ links'[l] = "used" => resets'[l] > 0
    <2>1. CASE UNCHANGED <<links, resets>>
        BY <2>1 DEF Mailing, LinksBacked
    <2>2. CASE ResetCommits(r)
        <3>1. /\ links' = [l \in Numbers |-> IF l \in {request[r].of} THEN "used" ELSE links[l]]
              /\ resets' = [resets EXCEPT ![request[r].of] = @ + 1]
            BY <2>2 DEF ResetCommits, SpentWith
        <3> QED
            BY <3>1 DEF Mailing, LinksBacked, Inv, Types
    <2> QED
        BY <2>1, <2>2 DEF credentialVars, SecondFactorCommits
<1>5. \A s \in Active' : request'[s].phase = request[s].phase
    <2>1. \A s \in Active : request[s] \in Asked /\ s \in Requests
        BY DEF Inv, Types, Active
    <2>2. \A q \in Asked : [q EXCEPT !.disturbed = TRUE].phase = q.phase
        BY DEF Asked
    <2>3. CASE request' = [request EXCEPT ![r] = Free]
        BY <2>3 DEF Active, Inv, Types
    <2>4. CASE request' = Committed(r)
        BY <2>1, <2>2, <2>4 DEF Active, Committed
    <2> QED
        BY <2>3, <2>4 DEF RollsBack, Fails, ResetCommits, SecondFactorCommits
<1>6. rolledBack \subseteq rolledBack'
    BY DEF RollsBack, Fails, ResetCommits, SecondFactorCommits
<1>7. ASSUME NEW s \in Flushed \ Flushed'
      PROVE  request[s].no \in rolledBack' \/ request[s].op \notin {"forgot", "ship"}
    <2>1. s \in Requests /\ s \in Active /\ request[s].phase = "flushed" /\ request[s] \in Asked
        BY FlushedIsActive DEF Inv, Types, Flushed, Free
    <2>2. s = r
        <3>1. CASE request' = [request EXCEPT ![r] = Free]
            BY <1>7, <2>1, <3>1 DEF Flushed, Inv, Types
        <3>2. CASE request' = Committed(r)
            <4>1. [request[s] EXCEPT !.disturbed = TRUE].phase = "flushed"
                BY <2>1 DEF Asked
            <4>2. s # r => request'[s].phase = "flushed"
                BY <2>1, <3>2, <4>1 DEF Committed
            <4> QED
                BY <1>7, <2>1, <4>2 DEF Flushed
        <3> QED
            BY <3>1, <3>2 DEF RollsBack, Fails, ResetCommits, SecondFactorCommits
    <2>3. CASE RollsBack(r)
        BY <2>2, <2>3 DEF RollsBack, Emitting
    <2>4. CASE ResetCommits(r) \/ SecondFactorCommits(r)
        BY <2>2, <2>4 DEF ResetCommits, SecondFactorCommits, Under
    <2>5. ~(request[r].phase = "read")
        BY <2>1, <2>2
    <2> QED
        BY <2>3, <2>4, <2>5
<1> QED
    BY <1>1, <1>2, <1>3, <1>4, <1>5, <1>6, <1>7, QuietlyMailing DEF Quietly

\* Handlers, links that expire and logins leave the requests alone.
LEMMA IdleMailing ==
    ASSUME Inv, Mailing, UNCHANGED <<account, orders, request, started, resets, rolledBack, settled, shipments>>,
           Mailed' \subseteq Mailed,
           links' = links \/ \E l \in ValidLinks : links' = [links EXCEPT ![l] = "expired"]
    PROVE  Mailing'
<1>1. Fades
    BY DEF Inv, Types, Fades, Keeps
<1>2. Flushed' = Flushed /\ Accountable'
    BY DEF Flushed, Mailing, Accountable, OrdersOK
<1>3. \A l \in Numbers : /\ links'[l] = "none" => links[l] = "none"
                         /\ links'[l] = "used" => resets'[l] > 0
    BY DEF Inv, Types, Mailing, LinksBacked, ValidLinks
<1> QED
    BY <1>1, <1>2, <1>3, QuietlyMailing DEF Quietly

\* No request has flushed when the account goes; after a restart none is left.
LEMMA StoppingMailing ==
    ASSUME Inv, Mailing, AccountGoes \/ (Restart /\ UNCHANGED credentialVars)
    PROVE  Mailing'
<1>1. CASE AccountGoes
    <2>1. /\ Flushed = {} /\ account' = "gone"
          /\ orders' = [o \in Orders |-> [orders[o] EXCEPT !.owner = Nobody]]
          /\ request' = [r \in Requests |->
                IF r \in Active THEN [request[r] EXCEPT !.disturbed = TRUE] ELSE Free]
          /\ links' = [l \in Numbers |-> "none"]
          /\ UNCHANGED <<started, tasks, outbox, undelivered, rolledBack, settled, shipments>>
        BY <1>1 DEF AccountGoes, DeleteAccount
    <2>2. \A q \in Asked : /\ [q EXCEPT !.disturbed = TRUE] \in Asked
                           /\ [q EXCEPT !.disturbed = TRUE].phase = q.phase
        BY DEF Asked
    <2>3. Fades
        BY <2>1, <2>2 DEF Inv, Types, Fades, Keeps, Active, Asked
    <2>4. \A r \in Active' : request'[r].phase = request[r].phase
        BY <2>1, <2>2 DEF Active, Inv, Types
    <2>5. Accountable'
        BY <2>1 DEF Mailing, Accountable, OrdersOK, Order
    <2>6. Mailed' = Mailed
        BY <2>1 DEF Mailed
    <2> QED
        BY <2>1, <2>3, <2>4, <2>5, <2>6, QuietlyMailing DEF Quietly
<1>2. CASE Restart /\ UNCHANGED credentialVars
    <2>1. /\ rolledBack' = rolledBack \cup
                {request[r].no : r \in {s \in Flushed : request[s].op \in Emitting}}
          /\ request' = [r \in Requests |-> Free]
          /\ tasks' = {}
          /\ UNCHANGED <<account, orders, started, outbox, undelivered, settled, shipments,
                         links, resets>>
        BY <1>2 DEF Restart, credentialVars
    <2>2. Fades /\ Active' = {}
        BY <2>1 DEF Fades, Active
    <2>3. Accountable' /\ Mailed' \subseteq Mailed
        BY <2>1 DEF Mailing, Accountable, OrdersOK, Mailed
    <2>4. \A r \in Flushed :
            request[r].no \in rolledBack' \/ request[r].op \notin {"forgot", "ship"}
        BY <2>1 DEF Emitting
    <2>5. \A l \in Numbers : links[l] = "used" => resets[l] > 0
        BY DEF Mailing, LinksBacked
    <2> QED
        BY <2>1, <2>2, <2>3, <2>4, <2>5, QuietlyMailing DEF Quietly
<1> QED
    BY <1>1, <1>2

LEMMA OrderFlushMailing ==
    ASSUME Inv, Inv', Mailing, NEW r \in Requests, OrderFlushes(r), UNCHANGED credentialVars
    PROVE  Mailing'
<1> DEFINE q == request[r]
<1>1. /\ r \in Active /\ q \in Asked /\ q.op \in {"settle", "ship"} /\ q.of \in Orders
      /\ q.phase = "read" /\ RowFree(r) /\ q.no \in Numbers
    BY DEF Inv, Types, OrderFlushes, Active, Free, Subjects, Subject, Asked
<1>2. q.seen \in Order
    BY <1>1 DEF Inv, Subjects, Subject
<1>3. \A kind \in Kinds : Telling(q, kind) \subseteq Event
    BY <1>1, <1>2 DEF Telling, Event, Order
<1>4. CASE Fails(r)
    BY <1>1, <1>4, EndingMailing
<1>5. CASE q.op = "settle" /\ Flushes(r, Telling(q, "confirmation"))
    <2>1. Sends(r, Telling(q, "confirmation"))
        BY <1>3 DEF Sends, Telling, Kinds
    <2> QED
        BY <1>1, <1>5, <2>1, FlushingMailing
<1>6. CASE q.op = "ship" /\ Flushes(r, Telling(q, "shipped"))
    <2>1. Sends(r, Telling(q, "shipped"))
        BY <1>1, <1>3, <1>6 DEF Sends, Telling, Kinds
    <2> QED
        BY <1>1, <1>6, <2>1, FlushingMailing
<1> QED
    BY <1>1, <1>4, <1>5, <1>6 DEF OrderFlushes

LEMMA BeginningMailing ==
    ASSUME Inv, Inv', Mailing, NEW r \in Requests,
           \/ UNCHANGED credentialVars
              /\ \E o \in Orders : SettleReads(r, o) \/ ShipReads(r, o)
           \/ Forgot(r) \/ Reset(r) \/ Setup(r) \/ Disable(r) \/ Enable(r)
    PROVE  Mailing'
<1>1. ASSUME NEW o \in Orders, SettleReads(r, o), UNCHANGED credentialVars PROVE Mailing'
    BY <1>1, StartingMailing DEF SettleReads
<1>2. ASSUME NEW o \in Orders, ShipReads(r, o), UNCHANGED credentialVars PROVE Mailing'
    BY <1>2, StartingMailing DEF ShipReads
<1>3. ASSUME Forgot(r) \/ Reset(r) \/ Setup(r) \/ Disable(r) \/ Enable(r) PROVE Mailing'
    <2>1. PICK op \in {"forgot", "reset", "setup", "disable", "enable"} :
            \E of, seen : Starts(r, op, of, seen) /\ UNCHANGED credentialVars
        BY <1>3 DEF Forgot, Reset, Setup, Disable, Enable
    <2> QED
        BY <2>1, StartingMailing
<1> QED
    BY <1>1, <1>2, <1>3

LEMMA FlushMailing ==
    ASSUME Inv, Inv', Mailing, NEW r \in Requests, UNCHANGED credentialVars,
           ForgotFlushes(r) \/ AccountFlushes(r)
    PROVE  Mailing'
<1>1. request[r].phase = "read"
    BY DEF ForgotFlushes, AccountFlushes, Under
<1>2. CASE Fails(r)
    BY <1>1, <1>2, EndingMailing
<1>3. ASSUME ForgotFlushes(r), ~Fails(r) PROVE Mailing'
    <2> DEFINE no == request[r].no
               E == {[kind |-> "reset", of |-> no, to |-> Owner, no |-> no]}
    <2>1. Flushes(r, E) /\ request[r].op = "forgot"
        BY <1>3 DEF ForgotFlushes, Under
    <2>2. no \in Numbers
        BY <1>1 DEF Inv, Types, Free, Asked
    <2>3. Sends(r, E)
        BY <2>1, <2>2 DEF Sends, Event, Kinds
    <2> QED
        BY <1>1, <2>1, <2>3, FlushingMailing
<1>4. ASSUME AccountFlushes(r), ~Fails(r) PROVE Mailing'
    <2>1. Flushes(r, {})
        BY <1>4 DEF AccountFlushes
    <2>2. Sends(r, {})
        BY DEF Sends
    <2> QED
        BY <1>1, <2>1, <2>2, FlushingMailing
<1> QED
    BY <1>2, <1>3, <1>4

\* Every request, e-mail task and restart keeps it.
THEOREM NextMailing == Inv /\ Inv' /\ OrdersOK' /\ Mailing /\ [Next]_vars => Mailing'
<1> SUFFICES ASSUME Inv, Inv', OrdersOK', Mailing, [Next]_vars PROVE Mailing'
    OBVIOUS
<1>1. ASSUME MailNext, UNCHANGED credentialVars PROVE Mailing'
    <2>1. ASSUME NEW t \in tasks, Handle(t) PROVE Mailing'
        <3>1. Mailed' \subseteq Mailed
            BY <2>1 DEF Handle, Mailed
        <3> QED
            BY <1>1, <2>1, <3>1, IdleMailing DEF Handle, credentialVars
    <2>2. ASSUME NEW r \in Requests, OrderFlushes(r) \/ OrderCommits(r) \/ RollsBack(r)
          PROVE  Mailing'
        BY <1>1, <2>2, OrderFlushMailing, OrderMailing, EndingMailing
    <2>3. ASSUME NEW o \in Orders, PaymentFails(o) \/ Refunded(o) \/ Cancelled(o) PROVE Mailing'
        BY <1>1, <2>3, BecomingMailing DEF PaymentFails, Refunded, Cancelled
    <2> QED
        BY <1>1, <2>1, <2>2, <2>3, BeginningMailing, StoppingMailing
           DEF MailNext, OrdersNext, ProcessNext
<1>2. ASSUME NEW r \in Requests, Forgot(r) \/ Reset(r) \/ Setup(r) \/ Disable(r) \/ Enable(r)
      PROVE  Mailing'
    BY <1>2, BeginningMailing
<1>3. ASSUME NEW r \in Requests, ForgotFlushes(r) \/ AccountFlushes(r) PROVE Mailing'
    BY <1>3, FlushMailing DEF ForgotFlushes, AccountFlushes
<1>4. ASSUME NEW r \in Requests, ForgotCommits(r) \/ ResetCommits(r) \/ SecondFactorCommits(r)
      PROVE  Mailing'
    BY <1>4, ForgotMailing, EndingMailing
<1>5. CASE LinkExpires
    <2>1. Mailed' = Mailed
        BY <1>5 DEF LinkExpires, mailVars, Mailed
    <2> QED
        BY <1>5, <2>1, IdleMailing DEF LinkExpires, mailVars
<1>6. CASE AccountGoes
    BY <1>6, StoppingMailing
<1>7. ASSUME \/ \E code \in shown \cup {None} : AdminLogin(code)
             \/ Verify2fa \/ TicketExpires \/ UNCHANGED vars
      PROVE  Mailing'
    <2>1. UNCHANGED mailVars /\ UNCHANGED <<links, resets>>
        BY <1>7 DEF AdminLogin, Verify2fa, TicketExpires, vars, credentialVars
    <2>2. Mailed' = Mailed
        BY <2>1 DEF mailVars, Mailed
    <2> QED
        BY <2>1, <2>2, IdleMailing DEF mailVars
<1> QED
    BY <1>1, <1>2, <1>3, <1>4, <1>5, <1>6, <1>7 DEF Next, CredentialsNext

-----------------------------------------------------------------------------
(* Shipments: each uses up a settlement *)

\* An order is in one hand at a time, from the flush on; what is being shipped is
\* still confirmed, and every shipment took an order that a settlement had confirmed.
Locked == \A r, s \in Flushed :
    /\ request[r].op \in {"settle", "ship"} /\ request[s].op \in {"settle", "ship"}
    /\ request[r].of = request[s].of
    => r = s
InHand == \A r \in Active : request[r].op = "ship" =>
    /\ request[r].seen.status = "confirmed"
    /\ r \in Flushed => orders[request[r].of].status = "confirmed"
Waits(o) == IF orders[o].status = "confirmed" THEN 1 ELSE 0
Counted == \A o \in Orders : Cardinality(shipments[o]) + Waits(o) <= settled[o]
Shipping == Locked /\ InHand /\ Counted

LEMMA InitShipping == Init => Shipping
<1> SUFFICES ASSUME Init PROVE Shipping
    OBVIOUS
<1> USE DEF Init, MailInit
<1>1. Active = {} /\ Flushed = {}
    BY DEF Active, Flushed, Free
<1>2. \A o \in Orders : shipments[o] = {} /\ settled[o] = 0 /\ Waits(o) = 0
    BY DEF Waits
<1> QED
    BY <1>1, <1>2, FS_EmptySet DEF Shipping, Locked, InHand, Counted

LEMMA ShipmentsAreFinite ==
    ASSUME Accountable, NEW o \in Orders
    PROVE  /\ IsFiniteSet(shipments[o]) /\ Cardinality(shipments[o]) \in Nat
           /\ settled[o] \in Nat
<1>1. IsFiniteSet(Numbers)
    BY MailAssumption, FS_Interval DEF Numbers
<1>2. shipments[o] \subseteq Numbers /\ settled[o] \in Nat
    BY DEF Accountable
<1> QED
    BY <1>1, <1>2, FS_Subset, FS_CardinalityType

\* Nobody gets an order in hand, and none that is in hand changes its status.
LEMMA SteadyShipping ==
    ASSUME Inv, Accountable, Shipping, UNCHANGED <<settled, shipments>>,
           \A r \in Active' : /\ r \in Active
                              /\ request'[r].op = request[r].op
                              /\ request'[r].of = request[r].of
                              /\ request'[r].seen = request[r].seen,
           Flushed' \subseteq Flushed,
           \A o \in Orders :
              \/ orders'[o].status = orders[o].status
              \/ orders'[o].status # "confirmed" /\ \A r \in Flushed : Row(request[r]) # o
    PROVE  Shipping'
<1>1. Flushed' \subseteq Active'
    BY FlushedIsActive
<1>2. Locked'
    BY <1>1 DEF Shipping, Locked
<1>3. InHand'
    <2> SUFFICES ASSUME NEW r \in Active', request'[r].op = "ship"
                 PROVE  /\ request'[r].seen.status = "confirmed"
                        /\ r \in Flushed' => orders'[request'[r].of].status = "confirmed"
        BY DEF InHand
    <2>1. /\ request[r].seen.status = "confirmed"
          /\ r \in Flushed => orders[request[r].of].status = "confirmed"
        BY DEF Shipping, InHand
    <2>2. request[r].of \in Orders /\ Row(request[r]) = request[r].of
        BY DEF Inv, Subjects, Subject, Row
    <2> QED
        BY <2>1, <2>2
<1>4. ASSUME NEW o \in Orders PROVE (Cardinality(shipments[o]) + Waits(o) <= settled[o])'
    <2>1. Cardinality(shipments[o]) + Waits(o) <= settled[o]
        BY DEF Shipping, Counted
    <2>2. Waits(o)' \in {0, Waits(o)} /\ Waits(o) \in {0, 1}
        BY DEF Waits
    <2> QED
        BY <2>1, <2>2, ShipmentsAreFinite
<1> QED
    BY <1>2, <1>3, <1>4 DEF Shipping, Counted

LEMMA StartingShipping ==
    ASSUME Inv, Accountable, Shipping, NEW r \in Requests, NEW op, NEW of, NEW seen,
           Starts(r, op, of, seen), op = "ship" => seen.status = "confirmed"
    PROVE  Shipping'
<1>1. PICK q : q = [phase |-> "read", op |-> op, of |-> of, seen |-> seen,
                   no |-> started + 1, disturbed |-> FALSE]
    OBVIOUS
<1>2. /\ request[r] = Free
      /\ request' = [request EXCEPT ![r] = q]
      /\ UNCHANGED <<orders, settled, shipments>>
    BY <1>1 DEF Starts
<1>3. /\ request'[r] = q
      /\ \A s \in Requests \ {r} : request'[s] = request[s]
    BY <1>2 DEF Inv, Types
<1>4. /\ Flushed' = Flushed /\ r \notin Flushed
      /\ \A s \in Flushed : request'[s] = request[s]
    BY <1>1, <1>2, <1>3 DEF Flushed, Free
<1>5. \A s \in Active' : s = r \/ (s \in Active /\ request'[s] = request[s])
    BY <1>3 DEF Active
<1>6. Locked'
    BY <1>4 DEF Shipping, Locked
<1>7. InHand'
    BY <1>1, <1>2, <1>3, <1>4, <1>5 DEF Shipping, InHand
<1>8. Counted'
    BY <1>2 DEF Shipping, Counted, Waits
<1> QED
    BY <1>6, <1>7, <1>8 DEF Shipping

LEMMA FlushingShipping ==
    ASSUME Inv, Accountable, Shipping, NEW r \in Requests, request[r].phase = "read",
           NEW E, Flushes(r, E),
           request[r].op \in {"settle", "ship"} => RowFree(r),
           request[r].op = "ship" => orders[request[r].of].status = "confirmed"
    PROVE  Shipping'
<1>1. /\ request' = [request EXCEPT ![r].phase = "flushed"]
      /\ UNCHANGED <<orders, settled, shipments>>
    BY DEF Flushes
<1>2. Fades
    BY <1>1, FlushingFades DEF Inv
<1>3. \A s \in Active' : s \in Active /\ Keeps(s) /\ request[s] \in Asked
    BY <1>2, FadesActive DEF Inv
<1>4. Flushed' \subseteq Flushed \cup {r} /\ Flushed' \subseteq Active'
    BY <1>1, FlushedIsActive DEF Flushed, Inv, Types
<1>5. ASSUME NEW s \in Flushed, s # r, request[r].op \in {"settle", "ship"},
             request[s].op \in {"settle", "ship"}, request[s].of = request[r].of
      PROVE  FALSE
    <2>1. request[s].of \in Orders
        BY <1>5, FlushedIsActive DEF Inv, Subjects, Subject
    <2> QED
        BY <1>5, <2>1 DEF RowFree, Row
<1>6. Locked'
    <2> SUFFICES ASSUME NEW s \in Flushed', NEW t \in Flushed',
                        request'[s].op \in {"settle", "ship"}, request'[t].op \in {"settle", "ship"},
                        request'[s].of = request'[t].of
                 PROVE  s = t
        BY DEF Locked
    <2>1. /\ request[s].op \in {"settle", "ship"} /\ request[t].op \in {"settle", "ship"}
          /\ request[s].of = request[t].of
        BY <1>3, <1>4 DEF Keeps
    <2>2. CASE s \in Flushed /\ t \in Flushed
        BY <2>1, <2>2 DEF Shipping, Locked
    <2> QED
        BY <1>4, <1>5, <2>1, <2>2
<1>7. InHand'
    BY <1>1, <1>3, <1>4 DEF Shipping, InHand, Keeps
<1>8. Counted'
    BY <1>1 DEF Shipping, Counted, Waits
<1> QED
    BY <1>6, <1>7, <1>8 DEF Shipping

\* A settlement puts one order more in wait, and counts; a shipment takes one.
LEMMA CommittingShipping ==
    ASSUME Inv, Accountable, Shipping, NEW r \in Requests, OrderCommits(r)
    PROVE  Shipping'
<1> DEFINE q == request[r]
<1>1. /\ r \in Flushed /\ r \in Active /\ q.op \in {"settle", "ship"} /\ q.of \in Orders
      /\ request' = [request EXCEPT ![r] = Free]
    BY DEF OrderCommits, Flushed, Active, Free, Inv, Subjects, Subject
<1>2. /\ r \notin Active' /\ Active' \subseteq Active
      /\ Flushed' \subseteq Flushed \ {r} /\ Flushed' \subseteq Active'
      /\ \A s \in Active' : request'[s] = request[s]
    BY <1>1, FlushedIsActive DEF Active, Flushed, Inv, Types, Free
<1>3. Locked'
    BY <1>2 DEF Shipping, Locked
<1>4. \A o \in Orders \ {q.of} :
        orders'[o] = orders[o] /\ settled'[o] = settled[o] /\ shipments'[o] = shipments[o]
    BY DEF OrderCommits, Accountable, OrdersOK
<1>5. InHand'
    <2> SUFFICES ASSUME NEW s \in Active', request[s].op = "ship", s \in Flushed'
                 PROVE  orders'[request[s].of].status = "confirmed"
        BY <1>2 DEF InHand, Shipping
    <2>1. request[s].of \in Orders /\ request[s].of # q.of
        BY <1>1, <1>2 DEF Shipping, Locked, Inv, Subjects, Subject
    <2> QED
        BY <1>2, <1>4, <2>1 DEF Shipping, InHand
<1>6. ASSUME NEW o \in Orders PROVE (Cardinality(shipments[o]) + Waits(o) <= settled[o])'
    <2>1. /\ Cardinality(shipments[o]) + Waits(o) <= settled[o]
          /\ Waits(o) \in {0, 1} /\ Waits(o)' \in {0, 1}
        BY DEF Shipping, Counted, Waits
    <2>2. CASE o # q.of
        BY <1>4, <2>1, <2>2 DEF Waits
    <2>3. CASE o = q.of /\ q.op = "settle"
        <3>1. shipments'[o] = shipments[o] /\ settled'[o] = settled[o] + 1
            BY <2>3 DEF OrderCommits, Accountable
        <3> QED
            BY <2>1, <3>1, ShipmentsAreFinite
    <2>4. CASE o = q.of /\ q.op = "ship"
        <3>1. /\ shipments'[o] = shipments[o] \cup {q.no} /\ settled'[o] = settled[o]
              /\ orders'[o].status = "shipped"
            BY <2>4 DEF OrderCommits, Accountable, OrdersOK, Order
        <3>2. Waits(o) = 1 /\ Waits(o)' = 0
            BY <1>1, <2>4, <3>1 DEF Shipping, InHand, Waits
        <3> DEFINE S == shipments[o]
        <3>3. IsFiniteSet(S) /\ Cardinality(S) \in Nat /\ settled[o] \in Nat
            BY ShipmentsAreFinite
        <3>4. Cardinality(S \cup {q.no}) \in {Cardinality(S), Cardinality(S) + 1}
            BY <3>3, FS_AddElement
        <3> QED
            BY <2>1, <3>1, <3>2, <3>3, <3>4
    <2> QED
        BY <1>1, <2>2, <2>3, <2>4
<1> QED
    BY <1>3, <1>5, <1>6 DEF Shipping, Counted

LEMMA FlushesShipping ==
    ASSUME Inv, Accountable, Shipping, NEW r \in Requests,
           OrderFlushes(r) \/ ForgotFlushes(r) \/ AccountFlushes(r), ~Fails(r)
    PROVE  Shipping'
<1>1. CASE OrderFlushes(r)
    <2>1. /\ request[r].phase = "read" /\ RowFree(r)
          /\ request[r].op = "ship" => StillAs(request[r].of, request[r].seen)
          /\ \E E : Flushes(r, E)
        BY <1>1 DEF OrderFlushes
    <2>2. r \in Active
        BY <2>1 DEF Active, Free
    <2>3. request[r].op = "ship" => orders[request[r].of].status = "confirmed"
        BY <2>1, <2>2 DEF StillAs, Shipping, InHand
    <2> QED
        BY <2>1, <2>3, FlushingShipping
<1>2. CASE ForgotFlushes(r) \/ AccountFlushes(r)
    <2>1. /\ request[r].phase = "read"
          /\ request[r].op \notin {"settle", "ship"}
          /\ \E E : Flushes(r, E)
        BY <1>2 DEF ForgotFlushes, AccountFlushes, Under
    <2> QED
        BY <2>1, FlushingShipping
<1> QED
    BY <1>1, <1>2

\* Every request about an order, beside whatever others do, keeps it.
THEOREM NextShipping ==
    Inv /\ Accountable /\ OrdersOK' /\ Shipping /\ [Next]_vars => Shipping'
<1> SUFFICES ASSUME Inv, Accountable, OrdersOK', Shipping, [Next]_vars PROVE Shipping'
    OBVIOUS
<1>1. ASSUME Fades, Flushed' \subseteq Flushed, UNCHANGED <<orders, settled, shipments>>
      PROVE  Shipping'
    BY <1>1, FadesActive, SteadyShipping DEF Inv, Keeps
<1>2. ASSUME UNCHANGED <<orders, request, settled, shipments>> PROVE Shipping'
    <2>1. Active' = Active /\ Flushed' = Flushed
        BY <1>2 DEF Active, Flushed
    <2> QED
        BY <1>2, <2>1, SteadyShipping
<1>3. ASSUME NEW r \in Requests, request' = [request EXCEPT ![r] = Free],
             UNCHANGED <<orders, settled, shipments>>
      PROVE  Shipping'
    <2>1. Fades /\ Flushed' \subseteq Flushed
        BY <1>3 DEF Inv, Types, Fades, Keeps, Flushed, Free
    <2> QED
        BY <1>1, <1>3, <2>1
<1>4. ASSUME NEW r \in Requests, ResetCommits(r) \/ SecondFactorCommits(r) PROVE Shipping'
    <2>1. request' = Committed(r) /\ UNCHANGED <<orders, settled, shipments>>
        BY <1>4 DEF ResetCommits, SecondFactorCommits
    <2>2. \A s \in Requests : request[s] \in Asked =>
            [request[s] EXCEPT !.disturbed = TRUE].phase = request[s].phase
        BY DEF Asked
    <2>3. Flushed' \subseteq Flushed
        BY <2>1, <2>2 DEF Committed, Flushed, Free, Active, Inv, Types
    <2> QED
        BY <1>1, <2>1, <2>3, CommittingFades DEF Inv
<1>5. ASSUME NEW o \in Orders, PaymentFails(o) \/ Refunded(o) \/ Cancelled(o) PROVE Shipping'
    <2>1. orders[o] \in Order
        BY DEF Accountable, OrdersOK
    <2>4. PICK new \in Order : /\ Becomes(o, new)
                               /\ new.status = orders[o].status \/ new.status # "confirmed"
        <3>1. CASE PaymentFails(o)
            <4>1. [orders[o] EXCEPT !.paid = FALSE] \in Order
                BY <2>1 DEF Order
            <4>2. [orders[o] EXCEPT !.paid = FALSE].status = orders[o].status
                BY <2>1 DEF Order
            <4> QED
                BY <3>1, <4>1, <4>2 DEF PaymentFails
        <3>2. CASE Refunded(o)
            <4> DEFINE new == [orders[o] EXCEPT !.paid = FALSE, !.status = "cancelled"]
            <4>1. new \in Order
                BY <2>1 DEF Order, Statuses
            <4>2. new.status = "cancelled"
                BY <2>1 DEF Order
            <4> QED
                BY <3>2, <4>1, <4>2 DEF Refunded
        <3>3. CASE Cancelled(o)
            BY <2>1, <3>3 DEF Cancelled, Order, Statuses
        <3> QED
            BY <1>5, <3>1, <3>2, <3>3
    <2>2. /\ \A p \in Orders \ {o} : orders'[p] = orders[p]
          /\ orders'[o] = new
          /\ \A s \in Flushed : Row(request[s]) # o
          /\ UNCHANGED <<request, settled, shipments>>
        BY <2>4 DEF Becomes, Accountable, OrdersOK
    <2>3. Active' = Active /\ Flushed' = Flushed
        BY <2>2 DEF Active, Flushed
    <2> QED
        BY <2>2, <2>3, <2>4, SteadyShipping
<1>6. CASE AccountGoes
    <2>1. /\ Flushed = {} /\ UNCHANGED <<settled, shipments>>
          /\ orders' = [o \in Orders |-> [orders[o] EXCEPT !.owner = Nobody]]
          /\ request' = [r \in Requests |->
                IF r \in Active THEN [request[r] EXCEPT !.disturbed = TRUE] ELSE Free]
        BY <1>6 DEF AccountGoes, DeleteAccount
    <2>2. \A q \in Asked : /\ [q EXCEPT !.disturbed = TRUE] \in Asked
                           /\ [q EXCEPT !.disturbed = TRUE].phase = q.phase
        BY DEF Asked
    <2>3. Fades
        BY <2>1, <2>2 DEF Inv, Types, Fades, Keeps, Active, Asked
    <2>4. \A o \in Orders : orders'[o].status = orders[o].status
        BY <2>1 DEF Accountable, OrdersOK, Order
    <2>5. Flushed' = {}
        BY <2>1, <2>2 DEF Flushed, Active, Free, Inv, Types
    <2> QED
        BY <2>1, <2>3, <2>4, <2>5, FadesActive, SteadyShipping DEF Inv, Keeps
<1>7. CASE Restart
    <2>1. /\ request' = [r \in Requests |-> Free]
          /\ UNCHANGED <<orders, settled, shipments>>
        BY <1>7 DEF Restart
    <2>2. Fades /\ Flushed' = {}
        BY <2>1 DEF Fades, Flushed, Free
    <2> QED
        BY <1>1, <2>1, <2>2
<1>8. ASSUME NEW r \in Requests, OrderFlushes(r) \/ ForgotFlushes(r) \/ AccountFlushes(r)
      PROVE  Shipping'
    BY <1>3, <1>8, FlushesShipping DEF Fails
<1>9. CASE MailNext
    <2>1. ASSUME NEW r \in Requests, NEW o \in Orders, SettleReads(r, o) \/ ShipReads(r, o)
          PROVE  Shipping'
        BY <2>1, StartingShipping DEF SettleReads, ShipReads
    <2>2. ASSUME NEW r \in Requests, RollsBack(r) PROVE Shipping'
        BY <1>3, <2>2 DEF RollsBack
    <2>3. ASSUME NEW t \in tasks, Handle(t) PROVE Shipping'
        BY <1>2, <2>3 DEF Handle
    <2> QED
        BY <1>5, <1>7, <1>8, <1>9, <2>1, <2>2, <2>3, CommittingShipping
           DEF MailNext, OrdersNext, ProcessNext
<1>10. CASE CredentialsNext
    <2>1. ASSUME NEW r \in Requests, Forgot(r) \/ Reset(r) \/ Setup(r) \/ Disable(r) \/ Enable(r)
          PROVE  Shipping'
        <3>1. PICK op \in {"forgot", "reset", "setup", "disable", "enable"} :
                \E of, seen : Starts(r, op, of, seen)
            BY <2>1 DEF Forgot, Reset, Setup, Disable, Enable
        <3> QED
            BY <3>1, StartingShipping
    <2>2. ASSUME NEW r \in Requests, ForgotCommits(r) PROVE Shipping'
        BY <1>3, <2>2 DEF ForgotCommits
    <2>3. ASSUME \/ \E code \in shown \cup {None} : AdminLogin(code)
                 \/ LinkExpires \/ Verify2fa \/ TicketExpires
          PROVE  Shipping'
        BY <1>2, <2>3 DEF AdminLogin, LinkExpires, Verify2fa, TicketExpires, mailVars
    <2> QED
        BY <1>4, <1>8, <1>10, <2>1, <2>2, <2>3 DEF CredentialsNext
<1> QED
    BY <1>2, <1>6, <1>9, <1>10 DEF Next, vars, mailVars

\* The invariants hold throughout: of the credentials, the e-mails and the shipments.
THEOREM MailInvariance == Spec => [](Inv /\ Mailing /\ Shipping)
<1>1. Init => OrdersOK /\ Inv /\ Mailing /\ Shipping
    BY InitInv, InitMailing, InitShipping DEF Mailing, Accountable
<1>2. OrdersOK /\ Inv /\ Mailing /\ Shipping /\ [Next]_vars
        => (OrdersOK /\ Inv /\ Mailing /\ Shipping)'
    BY NextOrdersOK, NextInv, NextMailing, NextShipping DEF Mailing
<1> QED
    BY <1>1, <1>2, PTL DEF Spec

\* PasswordResetService.request_reset and reset_password: a link in a mailbox has its
\* token while the account lives, unless its request has yet to commit or never did;
\* a token is spent only by a reset.
THEOREM MailedLinksHaveTokens == Spec => []TypeOK
<1>1. ASSUME Inv, Mailing PROVE TypeOK
    <2>1. /\ account \in {"live", "gone"}
          /\ orders \in [Orders -> Order]
          /\ tasks \cup outbox \cup undelivered \subseteq Event
        BY <1>1 DEF Mailing, Accountable, OrdersOK, Posted, Mailed
    <2>2. /\ links \in [Numbers -> {"none", "valid", "used", "expired"}]
          /\ totp.secret \in Numbers \cup {None} /\ totp.enabled \in BOOLEAN
        BY <1>1 DEF Inv, Types, Factor
    <2>3. ASSUME account = "live", NEW l \in MailedLinks, links[l] = "none"
          PROVE  l \in rolledBack \/ \E r \in Flushed : request[r].no = l
        <3>1. PICK e \in outbox : e.kind = "reset" /\ e.of = l
            BY <2>3 DEF MailedLinks
        <3>2. e \in Mailed /\ e.no = l
            BY <1>1, <3>1 DEF Mailed, Mailing, Posted
        <3> QED
            BY <1>1, <2>3, <3>1, <3>2 DEF Mailing, LinksBacked, Loose
    <2> QED
        BY <1>1, <2>1, <2>2, <2>3 DEF TypeOK, Mailing, LinksBacked
<1> QED
    BY <1>1, MailInvariance, PTL

\* The order_shipped handler: a customer is told of no more shipments than payments of
\* his order were settled, and of none while the settled order waits to be shipped.
THEOREM ShipmentsAreTold == Spec => []ShippedIsTold
<1>1. ASSUME Inv, Mailing, Shipping, NEW o \in Orders
      PROVE  Cardinality({m \in Told(o) : m.no \notin Untold}) + Waits(o) <= settled[o]
    <2> DEFINE M == {m \in Told(o) : m.no \notin Untold}
               number == [m \in M |-> m.no]
    <2>1. ToldOf(o) /\ Accountable
        BY <1>1 DEF Mailing, ToldOnce
    <2>2. \A m \in M : m.no \in shipments[o]
        BY <2>1 DEF ToldOf, Loose, Untold
    <2>3. \A d, e \in M : d.no = e.no => d = e
        BY <2>1 DEF ToldOf
    <2> HIDE DEF M
    <2>4. number \in Injection(M, shipments[o])
        BY <2>2, <2>3 DEF Injection, IsInjective
    <2>5. IsFiniteSet(M) /\ Cardinality(M) <= Cardinality(shipments[o])
        BY <2>1, <2>4, FS_Injection, ShipmentsAreFinite
    <2>6. Cardinality(shipments[o]) + Waits(o) <= settled[o] /\ Waits(o) \in {0, 1}
        BY <1>1 DEF Shipping, Counted, Waits
    <2>7. Cardinality(M) \in Nat
        BY <2>5, FS_CardinalityType
    <2>8. Cardinality(M) + Waits(o) <= settled[o]
        BY <2>1, <2>5, <2>6, <2>7, ShipmentsAreFinite
    <2> QED
        BY <2>8 DEF M
<1>2. ASSUME Inv, Mailing, Shipping PROVE ShippedIsTold
    BY <1>1, <1>2 DEF ShippedIsTold, Waits
<1> QED
    BY <1>2, MailInvariance, PTL
=============================================================================
