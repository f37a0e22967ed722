------------------------------ MODULE MCSessions ------------------------------
(***************************************************************************)
(* Small instances of Sessions for TLC.                                    *)
(***************************************************************************)
EXTENDS SessionsProperties, TLC

\* Tabs, waiting calls and requests are interchangeable.
Symmetry == Permutations(Tabs) \cup Permutations(Calls) \cup Permutations(Requests)
=============================================================================
