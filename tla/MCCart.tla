-------------------------------- MODULE MCCart --------------------------------
(***************************************************************************)
(* Small instances of Cart for TLC, with the bugs its properties catch.    *)
(***************************************************************************)
EXTENDS CartProperties, TLC

Symmetry == Permutations(Requests)
=============================================================================
