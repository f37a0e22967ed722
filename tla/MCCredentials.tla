------------------------------ MODULE MCCredentials ------------------------------
(***************************************************************************)
(* Small instances of Credentials, with the e-mails of Mail, for TLC.      *)
(*                                                                         *)
(* Orders and credentials share the account, the tasks and the process: a  *)
(* behaviour of MCSpec is one of Spec that has either requests for orders  *)
(* or requests for credentials, beside e-mails, restarts and the deletion  *)
(* of the account.                                                         *)
(***************************************************************************)
EXTENDS CredentialsProperties, TLC

VARIABLE part

MCInit == Init /\ part \in {"orders", "credentials"}

MCNext ==
    \/ part = "orders" /\ OrdersNext /\ UNCHANGED <<credentialVars, part>>
    \/ part = "credentials" /\ CredentialsNext /\ UNCHANGED part
    \/ ProcessNext /\ UNCHANGED <<credentialVars, part>>
    \/ AccountGoes /\ UNCHANGED part

MCSpec == MCInit /\ [][MCNext]_<<vars, part>>

Symmetry == Permutations(Requests)
=============================================================================
