-------------------------- MODULE AccountsProperties ---------------------------
(***************************************************************************)
(* What accounts keep while requests and tasks run beside each other.      *)
(***************************************************************************)
EXTENDS Accounts

\* Accounts are of their kind; a row refers to an account that is there, no two
\* accounts share an e-mail, and an order is kept only of an account that is gone.
TypeOK ==
    /\ users \in [Users -> Account \cup {Absent, Gone}]
    /\ owns \in [Users -> SUBSET Kinds]
    /\ \A u \in Users \ Live : owns[u] = {}
    /\ \A e \in Emails : Cardinality(WithEmail(e)) <= 1
    /\ \A u \in kept : users[u] = Gone
    /\ \A t \in tasks : t.kind \in {"welcome", "audit"} /\ t.of \in Users
    /\ started \in 0 .. MaxRequests

\* A request that commits beside nothing does what it was let in for: its flush
\* is not refused, whatever rows there are.  A deletion sweeps every table that
\* refers to the account, and "add to wishlist" is idempotent.  Only an e-mail that
\* somebody has is let in by the administrators' endpoint and refused later.
Taken(q) == q.op = "email" /\ EmailTaken(q.arg.email, q.on)
UndisturbedSucceeds ==
    [][\A r \in Requests :
        request[r].phase \in {"checked", "swept"} /\ request'[r] = Free
            => request[r].disturbed \/ Taken(request[r])]_vars

\* "Blocks self-demotion for safety" and blocks self-deletion: the last
\* administrator goes only by deleting his own profile, or by a request that ran
\* beside another's commit.
Admins == {u \in Live : users[u].role = "admin"}
AnAdminRemains ==
    [][\A r \in Requests :
        Admins # {} /\ Admins' = {} /\ request[r].phase = "flushed" /\ request'[r] = Free
            => \/ request[r].disturbed
               \/ request[r].op = "delete" /\ request[r].by = request[r].on]_vars

\* A Google identity gets a second account only when the request that gives it
\* one ran beside another's commit.
OneAccountPerIdentity ==
    [][\A r \in Requests, g \in Identities :
        WithGoogle(g) # {} /\ Cardinality(WithGoogle(g)') > Cardinality(WithGoogle(g))
        /\ request[r].phase = "flushed" /\ request'[r] = Free
            => request[r].disturbed]_vars

\* The welcome e-mail, whose event leaves before the commit, goes only to somebody
\* whose registration did commit.
WelcomedHaveAccounts == \A u \in welcomed : users[u] # Absent
=============================================================================
