-------------------------- MODULE CatalogueProperties --------------------------
(***************************************************************************)
(* What the public answers keep of the catalogue behind them.              *)
(***************************************************************************)
EXTENDS Catalogue

\* Products, cache, requests and changes hold values of their kinds; Redis keeps
\* one entry per key, and nothing that could not have been answered.
TypeOK ==
    /\ products \in [Slugs -> Product \cup {NoProduct}]
    /\ promotions \in [Promotions -> Slugs \cup {Nothing, Everything}]
    /\ categories \subseteq Categories
    /\ DOMAIN cache \in Followed
    /\ \A k \in DOMAIN cache : Cardinality(cache[k]) <= 1
    /\ \A k \in DetailKeys \cap DOMAIN cache : \A e \in cache[k] : e.value \in Product /\ e.value.state = "live"
    /\ \A k \in ListKeys \cap DOMAIN cache : \A e \in cache[k] :
        e.value.total \in 0 .. MaxProducts /\ Len(e.value.rows) <= PerPage
    /\ \A r \in Readers : reader[r].phase \in
        {"free", "missed", "counted", "read", "priced", "failed"}
    /\ \A a \in Admins : admin[a].phase \in {"free", "named", "counted", "flushed"}
    /\ changes \in 0 .. MaxChanges /\ silent \in 0 .. MaxSilent /\ outages \in 0 .. MaxOutages

Pending(k) == \E a \in Admins : \E i \in DOMAIN admin[a].todo : k \in admin[a].todo[i]

\* "The response is byte-for-byte equivalent to the uncached baseline": an entry
\* that was filled while no change was under way is what the database answers, or
\* a handler is about to delete it, as long as Redis carried out every command
\* and nothing changed that emits no event.
QuietEntryIsExact ==
    \A k \in DOMAIN cache : \A e \in cache[k] : e.quiet => e.value \in Answer(k) \/ Pending(k)

\* Whatever races, outages and silent changes there were, stale answers go: once
\* the changes have ended, every entry is what the database answers, for ever.
StaleAnswersGo ==
    <>[](\A k \in DOMAIN cache : \A e \in cache[k] : e.value \in Answer(k))

\* Creating a product in a category that is there, or in none, fails only when
\* another change commits between the choice of its slug and the insert.
UndisturbedCreateSucceeds ==
    [][\A a \in Admins :
        /\ admin[a].phase = "named" /\ ~admin[a].disturbed
        /\ admin[a].change.to.category \in categories \cup {Nothing}
        => admin'[a].phase # "free"]_vars
=============================================================================
