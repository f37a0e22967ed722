--------------------------------- MODULE Cart ---------------------------------
(***************************************************************************)
(* Shopping carts: the rows of cart_items, of signed-in users and of guest *)
(* sessions, and the requests that read and write them.                    *)
(*                                                                         *)
(* A request runs in one transaction at READ COMMITTED.  What it loads are *)
(* ORM copies, so what it writes is computed from what it read, whatever   *)
(* others have committed since: an UPDATE of a row that is gone fails the  *)
(* request, a DELETE of one does not, and an INSERT that another row of the*)
(* same line has overtaken hits a unique index.  A flush holds its rows    *)
(* until the commit, so the two are one step.  One product stands for all: *)
(* its variants, and the line without a variant, are the lines of a cart.  *)
(***************************************************************************)
EXTENDS Integers, FiniteSets, FiniteSetsExt

CONSTANTS
    Users, Sessions,  \* the owners of carts: accounts, and X-Session-Id values
    NumVariants,      \* variants of the product, in the order of their creation
    Quantities,       \* what a request may ask for; 0 removes
    Stocks,           \* what an administrator may set a stock to
    Requests,         \* requests in flight at the same time
    MaxRequests,      \* bound on requests ever begun
    MaxEdits          \* bound on changes to the product and its variants

ASSUME OwnersAssumption == Users \cap Sessions = {} /\ "none" \notin Users \cup Sessions
ASSUME NumbersAssumption ==
    /\ NumVariants \in Nat
    /\ Quantities \subseteq Nat
    /\ Stocks \subseteq Nat
    /\ MaxRequests \in Nat
    /\ MaxEdits \in Nat

Owners == Users \cup Sessions
Variants == 1 .. NumVariants
NoVariant == 0
Lines == Variants \cup {NoVariant}
RowIds == 1 .. MaxRequests
NoId == 0

Row == [owner : Owners, line : Lines, quantity : Nat \ {0}]
NoRow == [owner |-> "none"]

VARIABLES
    rows,      \* cart_items by primary key
    stock,     \* product_variants.stock
    deleted,   \* product_variants.deleted_at
    withdrawn, \* products.deleted_at
    request,   \* the requests in flight
    inserted,  \* primary keys handed out
    begun,     \* requests begun
    edits,     \* changes to the product and its variants
    asked,     \* history: quantity asked for, per line, by adds and updates
    twins      \* history: two merges of one guest cart overlapped

catalogue == <<stock, deleted, withdrawn>>
vars == <<rows, catalogue, request, inserted, begun, edits, asked, twins>>

\* What a transaction may find has committed while it ran.
Happenings == {"merge", "change"}
Idle == [op |-> "idle"]
Loaded == UNION {[S -> Row] : S \in SUBSET RowIds}
Request ==
    {Idle}
    \cup [op : {"add"}, owner : Owners, line : Lines, quantity : Nat, stock : Nat \cup {-1},
          found : BOOLEAN, row : RowIds \cup {NoId}, held : Nat, during : SUBSET Happenings]
    \cup [op : {"update"}, owner : Owners, line : Lines, quantity : Nat, row : RowIds,
          held : Nat, during : SUBSET Happenings]
    \cup [op : {"merge"}, owner : Users, session : Sessions, guest : Loaded, user : Loaded,
          found : BOOLEAN, during : SUBSET Happenings]
    \cup [op : {"checkout"}, owner : Owners, lines : Loaded, during : SUBSET Happenings]
    \cup [op : {"delete"}, variant : Variants, during : SUBSET Happenings]

Init ==
    /\ rows = [i \in RowIds |-> NoRow]
    /\ stock \in [Variants -> Stocks]
    /\ deleted = [v \in Variants |-> FALSE]
    /\ withdrawn = FALSE
    /\ request = [r \in Requests |-> Idle]
    /\ inserted = 0
    /\ begun = 0
    /\ edits = 0
    /\ asked = [l \in Lines |-> 0]
    /\ twins = FALSE

-----------------------------------------------------------------------------
\* The rows of a scope, and the row of a line in it.

InScope(o) == {i \in RowIds : rows[i].owner = o}
FindExisting(o, l) == {i \in InScope(o) : rows[i].line = l}
Load(S) == [i \in S |-> rows[i]]

\* Mutant: a plain unique index, in which rows without a variant never collide.
PlainUnclaimed(o, l) == l = NoVariant \/ FindExisting(o, l) = {}

\* A row may take an owner and a line that no other row has: four partial
\* unique indexes, two of them for the rows without a variant.
Unclaimed(o, l) == FindExisting(o, l) = {}

\* Whose stock an add is checked against: the variant asked for, or the first
\* one the product has.
Undeleted == {v \in Variants : ~deleted[v]}
Checked(l) ==
    IF l # NoVariant \/ Undeleted = {} THEN l ELSE Min(Undeleted)

-----------------------------------------------------------------------------
\* A request begins, ends without effect, or commits and is noticed by none of
\* the others, which go on with what they have read.

Begin(r, q) ==
    /\ request[r] = Idle
    /\ begun < MaxRequests
    /\ begun' = begun + 1
    /\ request' = [request EXCEPT ![r] = q]

Proceed(r, q) == request' = [request EXCEPT ![r] = q]
Abandon(r) == request' = [request EXCEPT ![r] = Idle]

Commit(r, happening) ==
    request' = [q \in Requests |->
        IF q = r \/ request[q] = Idle THEN Idle
        ELSE [request[q] EXCEPT !.during = @ \cup {happening}]]

-----------------------------------------------------------------------------
\* POST /cart

AddBegins(r) ==
    \E o \in Owners, l \in Lines, n \in Quantities \ {0} :
        /\ l # NoVariant => ~deleted[l]
        /\ Checked(l) # NoVariant => stock[Checked(l)] >= 1
        /\ Begin(r, [op |-> "add", owner |-> o, line |-> l, quantity |-> n,
                     stock |-> IF Checked(l) = NoVariant THEN -1 ELSE stock[Checked(l)],
                     found |-> FALSE, row |-> NoId, held |-> 0, during |-> {}])
        /\ UNCHANGED <<rows, catalogue, inserted, edits, asked, twins>>

\* Mutant: the stock need only cover what is added.
CoveredAlone(q, held) == q.stock = -1 \/ q.stock >= q.quantity

\* The stock the request has read must cover what the row holds and what is
\* added; a line that is new takes any quantity, if the product is still there.
Covered(q, held) == q.stock = -1 \/ q.stock >= held + q.quantity

AddFinds(r) ==
    LET q == request[r] IN
    /\ q.op = "add"
    /\ ~q.found
    /\ \/ \E i \in FindExisting(q.owner, q.line) :
            IF Covered(q, rows[i].quantity)
            THEN Proceed(r, [q EXCEPT !.found = TRUE, !.row = i, !.held = rows[i].quantity])
            ELSE Abandon(r)
       \/ /\ FindExisting(q.owner, q.line) = {}
          /\ IF withdrawn THEN Abandon(r) ELSE Proceed(r, [q EXCEPT !.found = TRUE])
    /\ UNCHANGED <<rows, catalogue, inserted, begun, edits, asked, twins>>

AddInserts(r) ==
    LET q == request[r] IN
    /\ q.op = "add"
    /\ q.found
    /\ q.row = NoId
    /\ Unclaimed(q.owner, q.line)
    /\ inserted' = inserted + 1
    /\ rows' = [rows EXCEPT ![inserted + 1] =
                    [owner |-> q.owner, line |-> q.line, quantity |-> q.quantity]]
    /\ asked' = [asked EXCEPT ![q.line] = @ + q.quantity]
    /\ Commit(r, "change")
    /\ UNCHANGED <<catalogue, begun, edits, twins>>

AddIncrements(r) ==
    LET q == request[r] IN
    /\ q.op = "add"
    /\ q.row # NoId
    /\ rows[q.row] # NoRow
    /\ rows' = [rows EXCEPT ![q.row].quantity = q.held + q.quantity]
    /\ asked' = [asked EXCEPT ![q.line] = @ + q.quantity]
    /\ Commit(r, "change")
    /\ UNCHANGED <<catalogue, inserted, begun, edits, twins>>

\* A unique index refuses the new row, or the row to update is gone.
AddFails(r) ==
    LET q == request[r] IN
    /\ q.op = "add"
    /\ q.found
    /\ IF q.row = NoId THEN ~Unclaimed(q.owner, q.line) ELSE rows[q.row] = NoRow
    /\ Abandon(r)
    /\ UNCHANGED <<rows, catalogue, inserted, begun, edits, asked, twins>>

-----------------------------------------------------------------------------
\* PUT /cart/{item} and DELETE /cart/{item}; a quantity of 0 removes.

UpdateBegins(r) ==
    \E o \in Owners, n \in Quantities :
        \E i \in InScope(o) :
            LET l == rows[i].line IN
            /\ n > 0 /\ l # NoVariant => ~deleted[l] /\ stock[l] >= n
            /\ Begin(r, [op |-> "update", owner |-> o, line |-> l, quantity |-> n, row |-> i,
                         held |-> rows[i].quantity, during |-> {}])
            /\ UNCHANGED <<rows, catalogue, inserted, edits, asked, twins>>

\* Mutant: a quantity of 0 is stored.
UpdateStoresZero(r) ==
    LET q == request[r] IN
    /\ q.op = "update"
    /\ rows[q.row] # NoRow
    /\ rows' = [rows EXCEPT ![q.row].quantity = q.quantity]
    /\ asked' = [asked EXCEPT ![q.line] = @ + q.quantity]
    /\ Commit(r, "change")
    /\ UNCHANGED <<catalogue, inserted, begun, edits, twins>>

\* An unchanged attribute emits no UPDATE; a DELETE need not find its row.
UpdateCommits(r) ==
    LET q == request[r] IN
    /\ q.op = "update"
    /\ \/ /\ q.quantity = 0
          /\ rows' = [rows EXCEPT ![q.row] = NoRow]
       \/ /\ q.quantity = q.held
          /\ UNCHANGED rows
       \/ /\ q.quantity \notin {0, q.held}
          /\ rows[q.row] # NoRow
          /\ rows' = [rows EXCEPT ![q.row].quantity = q.quantity]
    /\ asked' = [asked EXCEPT ![q.line] = @ + q.quantity]
    /\ Commit(r, "change")
    /\ UNCHANGED <<catalogue, inserted, begun, edits, twins>>

UpdateFails(r) ==
    LET q == request[r] IN
    /\ q.op = "update"
    /\ q.quantity \notin {0, q.held}
    /\ rows[q.row] = NoRow
    /\ Abandon(r)
    /\ UNCHANGED <<rows, catalogue, inserted, begun, edits, asked, twins>>

-----------------------------------------------------------------------------
\* DELETE /cart: one statement.

ClearCart(r) ==
    \E o \in Owners :
        /\ InScope(o) # {}
        /\ request[r] = Idle
        /\ begun < MaxRequests
        /\ begun' = begun + 1
        /\ rows' = [i \in RowIds |-> IF i \in InScope(o) THEN NoRow ELSE rows[i]]
        /\ Commit(r, "change")
        /\ UNCHANGED <<catalogue, inserted, edits, asked, twins>>

-----------------------------------------------------------------------------
\* A login or registration that carries X-Session-Id merges the guest's cart.

MergeLoadsGuest(r) ==
    \E u \in Users, s \in Sessions :
        /\ InScope(s) # {}
        /\ Begin(r, [op |-> "merge", owner |-> u, session |-> s, guest |-> Load(InScope(s)),
                     user |-> Load({}), found |-> FALSE, during |-> {}])
        /\ UNCHANGED <<rows, catalogue, inserted, edits, asked, twins>>

\* A row the session has loaded already keeps the attributes it was loaded with.
MergeLoadsUser(r) ==
    LET q == request[r]
        mine == InScope(q.owner)
    IN
    /\ q.op = "merge"
    /\ ~q.found
    /\ Proceed(r, [q EXCEPT
            !.found = TRUE,
            !.user = [i \in mine |-> IF i \in DOMAIN q.guest THEN q.guest[i] ELSE rows[i]]])
    /\ UNCHANGED <<rows, catalogue, inserted, begun, edits, asked, twins>>

\* Mutant: rows are matched by product alone.
PartnersByProduct(q, g) == DOMAIN q.user

\* The row of the user's cart a guest's row is added to.
Partners(q, g) == {i \in DOMAIN q.user : q.user[i].line = q.guest[g].line}
Transferred(q) == {g \in DOMAIN q.guest : Partners(q, g) = {}}
Absorbed(q) == DOMAIN q.guest \ Transferred(q)
Grown(q) == (UNION {Partners(q, g) : g \in Absorbed(q)}) \ Absorbed(q)
Increment(q, i) == q.user[i].quantity
    + (LET g == CHOOSE g \in Absorbed(q) : i \in Partners(q, g) IN q.guest[g].quantity)

\* Mutant: an absorbed guest row is not deleted.
MergedTwice(q) == [i \in RowIds |->
    IF i \in Grown(q) THEN [rows[i] EXCEPT !.quantity = Increment(q, i)]
    ELSE IF i \in Transferred(q) THEN [rows[i] EXCEPT !.owner = q.owner]
    ELSE rows[i]]
Merged(q) == [i \in RowIds |->
    IF i \in Absorbed(q) THEN NoRow
    ELSE IF i \in Grown(q) THEN [rows[i] EXCEPT !.quantity = Increment(q, i)]
    ELSE IF i \in Transferred(q) THEN [rows[i] EXCEPT !.owner = q.owner]
    ELSE rows[i]]

\* The UPDATEs find their rows, and the user has no other row of a line that is
\* handed over.
Mergeable(q) ==
    /\ \A i \in Grown(q) \cup Transferred(q) : rows[i] # NoRow
    /\ \A g \in Transferred(q) : FindExisting(q.owner, rows[g].line) \subseteq {g}

MergeCommits(r) ==
    LET q == request[r] IN
    /\ q.op = "merge"
    /\ q.found
    /\ Mergeable(q)
    /\ rows' = Merged(q)
    /\ twins' = (twins \/ "merge" \in q.during)
    /\ Commit(r, "merge")
    /\ UNCHANGED <<catalogue, inserted, begun, edits, asked>>

MergeFails(r) ==
    LET q == request[r] IN
    /\ q.op = "merge"
    /\ q.found
    /\ ~Mergeable(q)
    /\ Abandon(r)
    /\ UNCHANGED <<rows, catalogue, inserted, begun, edits, asked, twins>>

-----------------------------------------------------------------------------
\* POST /orders as far as carts are concerned: the lines it orders are those it
\* loads, and at the end it clears the scope.

CheckoutLoads(r) ==
    \E o \in Owners :
        /\ InScope(o) # {}
        /\ Begin(r, [op |-> "checkout", owner |-> o, lines |-> Load(InScope(o)), during |-> {}])
        /\ UNCHANGED <<rows, catalogue, inserted, edits, asked, twins>>

CheckoutClears(r) ==
    LET q == request[r] IN
    /\ q.op = "checkout"
    /\ rows' = [i \in RowIds |-> IF i \in InScope(q.owner) THEN NoRow ELSE rows[i]]
    /\ Commit(r, "change")
    /\ UNCHANGED <<catalogue, inserted, begun, edits, asked, twins>>

CheckoutFails(r) ==
    /\ request[r].op = "checkout"
    /\ Abandon(r)
    /\ UNCHANGED <<rows, catalogue, inserted, begun, edits, asked, twins>>

-----------------------------------------------------------------------------
\* The administrator: a variant no cart refers to may be deleted, a stock set,
\* the product withdrawn.

VariantIsUnused(v) == {i \in RowIds : rows[i] # NoRow /\ rows[i].line = v} = {}

DeleteVariantBegins(r) ==
    \E v \in Undeleted :
        /\ VariantIsUnused(v)
        /\ Begin(r, [op |-> "delete", variant |-> v, during |-> {}])
        /\ UNCHANGED <<rows, catalogue, inserted, edits, asked, twins>>

DeleteVariantCommits(r) ==
    LET q == request[r] IN
    /\ q.op = "delete"
    /\ deleted' = [deleted EXCEPT ![q.variant] = TRUE]
    /\ Commit(r, "change")
    /\ UNCHANGED <<rows, stock, withdrawn, inserted, begun, edits, asked, twins>>

EditCatalogue ==
    /\ edits < MaxEdits
    /\ edits' = edits + 1
    /\ \/ \E v \in Undeleted, n \in Stocks :
            stock' = [stock EXCEPT ![v] = n] /\ UNCHANGED <<deleted, withdrawn>>
       \/ withdrawn' = TRUE /\ UNCHANGED <<stock, deleted>>
    /\ request' = [q \in Requests |->
            IF request[q] = Idle THEN Idle
            ELSE [request[q] EXCEPT !.during = @ \cup {"change"}]]
    /\ UNCHANGED <<rows, inserted, begun, asked, twins>>

-----------------------------------------------------------------------------
Next ==
    \/ \E r \in Requests :
        \/ AddBegins(r) \/ AddFinds(r) \/ AddInserts(r) \/ AddIncrements(r) \/ AddFails(r)
        \/ UpdateBegins(r) \/ UpdateCommits(r) \/ UpdateFails(r)
        \/ ClearCart(r)
        \/ MergeLoadsGuest(r) \/ MergeLoadsUser(r) \/ MergeCommits(r) \/ MergeFails(r)
        \/ CheckoutLoads(r) \/ CheckoutClears(r) \/ CheckoutFails(r)
        \/ DeleteVariantBegins(r) \/ DeleteVariantCommits(r)
    \/ EditCatalogue

Spec == Init /\ [][Next]_vars
=============================================================================
