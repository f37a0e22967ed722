-------------------------- MODULE CredentialsProperties --------------------------
(***************************************************************************)
(* What e-mails may tell, and what credentials keep while requests overlap.*)
(***************************************************************************)
EXTENDS Credentials

\* Everything is of its kind; a link in somebody's mailbox has its token unless
\* its request has yet to commit or never did, and a token is spent only by the
\* reset it was used for.
TypeOK ==
    /\ account \in {"live", "gone"}
    /\ orders \in [Orders -> Order]
    /\ tasks \cup outbox \cup undelivered \subseteq Event
    /\ links \in [Numbers -> {"none", "valid", "used", "expired"}]
    /\ totp.secret \in Numbers \cup {None} /\ totp.enabled \in BOOLEAN
    /\ account = "live" => \A l \in MailedLinks :
        links[l] = "none" => \/ l \in rolledBack
                             \/ \E r \in Flushed : request[r].no = l
    /\ \A l \in Numbers : links[l] = "used" => resets[l] > 0

\* Mark token used (one-time use): a token resets the password a second time only
\* when both resets had read it before either committed.
OneReset ==
    [][\A l \in Numbers : resets[l] > 0 /\ resets'[l] > resets[l]
        => \E r \in Flushed : request[r].of = l /\ request'[r] = Free
                              /\ request[r].disturbed]_vars

\* "NOT enabled until the user verifies a code": a second factor is enabled
\* with a secret nobody has proved to hold (or with none, which locks its owner
\* out) only after two requests for it overlapped.
Verified == totp.enabled => totp.secret \in proven
EnabledIsVerified ==
    [][Verified /\ ~Verified'
        => \E r \in Flushed : request[r].disturbed /\ request'[r] = Free]_vars

\* Whoever enabled the second factor, with nobody beside him, gets in with its
\* codes until a setup or a disable commits.
HolderGetsIn ==
    [][login.step = "ticket" /\ login'.step = "refused" /\ account = "live"
        => login.code \notin proven]_vars

\* No customer is told of a shipment more often than payments of his order were
\* settled, and once less while it waits to be shipped; a shipment whose request
\* failed after its event had left, or has yet to commit, counts aside.  So an order
\* that was settled once is told once, and never before it is shipped; one that was
\* paid, shipped, declined and paid again may be told twice.
Told(o) == {m \in tasks \cup outbox \cup undelivered : m.kind = "shipped" /\ m.of = o}
Untold == rolledBack \cup {request[r].no : r \in Flushed}
ShippedIsTold == \A o \in Orders :
    Cardinality({m \in Told(o) : m.no \notin Untold})
        + (IF orders[o].status = "confirmed" THEN 1 ELSE 0) <= settled[o]
=============================================================================
