------------------------------- MODULE MCAccounts -------------------------------
(***************************************************************************)
(* Small instances of Accounts for TLC.                                    *)
(***************************************************************************)
EXTENDS AccountsProperties, TLC

CONSTANTS e1, e2

\* An administrator and somebody of either role.
MCOpening == {[u \in Users |->
    IF u = 1 THEN [state |-> "live", email |-> e1, google |-> Nobody, role |-> "admin"]
    ELSE IF u = 2 THEN [state |-> "live", email |-> e2, google |-> Nobody, role |-> n]
    ELSE Absent] : n \in Roles}
=============================================================================
