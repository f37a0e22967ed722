------------------------------ MODULE MCCatalogue ------------------------------
(***************************************************************************)
(* Small instances of Catalogue for TLC.                                   *)
(***************************************************************************)
EXTENDS CatalogueProperties, TLC

\* One product for sale, without stock and in a category, and a slug to spare.
MCOpening == {[s \in Slugs |->
    IF s = 1 THEN [state |-> "live", price |-> 1, stock |-> 0,
                   category |-> CHOOSE c \in Categories : TRUE]
    ELSE NoProduct]}

MCDrafts == {[state |-> "live", price |-> 1, stock |-> 0, category |-> c] : c \in Categories}

\* Entries of different keys do not meet: a behaviour follows one.
MCFollowed ==
    {{[kind |-> "list", at |-> 2]}, {[kind |-> "detail", at |-> 1]}, PromotionKeys, CategoryKeys}
=============================================================================
