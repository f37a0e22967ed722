---------------------------- MODULE CartProperties ----------------------------
(***************************************************************************)
(* What carts keep under concurrent requests, and what a login that runs   *)
(* twice does to them.                                                     *)
(***************************************************************************)
EXTENDS Cart, Functions

\* Rows, requests and histories hold values of their types; no row ever holds a
\* quantity below one, whatever was read before it was written.
TypeOK ==
    /\ rows \in [RowIds -> Row \cup {NoRow}]
    /\ stock \in [Variants -> Stocks]
    /\ deleted \in [Variants -> BOOLEAN]
    /\ withdrawn \in BOOLEAN
    /\ DOMAIN request = Requests
    /\ \A r \in Requests :
        /\ request[r].op \in {"idle", "add", "update", "merge", "checkout", "delete"}
        /\ request[r].op \in {"add", "update", "merge", "checkout"} =>
            request[r].owner \in Owners
        /\ request[r].op = "merge" =>
            \A g \in DOMAIN request[r].guest : request[r].guest[g] \in Row
    /\ inserted \in 0 .. begun
    /\ begun \in 0 .. MaxRequests
    /\ edits \in 0 .. MaxEdits
    /\ asked \in [Lines -> Nat]
    /\ twins \in BOOLEAN

\* A cart never holds two rows of one line, however adds, merges and transfers
\* interleave: find_existing would raise on the second and the line could not be
\* added to any more.
OneRowPerLine ==
    \A o \in Owners, l \in Lines : Cardinality(FindExisting(o, l)) <= 1

\* What the carts hold of a line, row by row.
Stored(l) ==
    [i \in RowIds |-> IF rows[i] # NoRow /\ rows[i].line = l THEN rows[i].quantity ELSE 0]

\* Concurrent requests may lose a quantity but never invent one: a line holds no
\* more, over the carts of guests and users together, than was ever asked for.
\* Only two merges of the same guest cart, one inside the other, count it twice.
NothingInvented == ~twins => \A l \in Lines : SumFunction(Stored(l)) <= asked[l]

Ends(r) == request[r] # Idle /\ request'[r] = Idle
Has(rws, o, l) == \E i \in RowIds : rws[i] # NoRow /\ rws[i].owner = o /\ rws[i].line = l

\* A login that merges keeps every line of both carts, in one of them, as long as
\* no other login merged the same cart meanwhile.
LoginKeepsLines ==
    [][\A r \in Requests :
        request[r].op = "merge" /\ Ends(r) /\ "merge" \notin request[r].during =>
            \A l \in Lines :
                Has(rows, request[r].owner, l) \/ Has(rows, request[r].session, l) =>
                    Has(rows', request[r].owner, l) \/ Has(rows', request[r].session, l)]_vars

-----------------------------------------------------------------------------
\* The carts as their owners see them, and what each request promises to do to
\* them.

Held(rws, o, l) == [i \in RowIds |->
    IF rws[i] # NoRow /\ rws[i].owner = o /\ rws[i].line = l THEN rws[i].quantity ELSE 0]
Carts(rws) == [o \in Owners |-> [l \in Lines |-> SumFunction(Held(rws, o, l))]]

Empty == [l \in Lines |-> 0]

AddPromises(c, q) ==
    LET held == c[q.owner][q.line] IN
    IF \/ held = 0 /\ withdrawn
       \/ held > 0 /\ Checked(q.line) # NoVariant /\ stock[Checked(q.line)] < held + q.quantity
    THEN c
    ELSE [c EXCEPT ![q.owner][q.line] = held + q.quantity]

Promised(c, q) ==
    CASE q.op = "add" -> AddPromises(c, q)
      [] q.op = "update" -> [c EXCEPT ![q.owner][q.line] = q.quantity]
      [] q.op = "merge" -> [c EXCEPT
            ![q.owner] = [l \in Lines |-> c[q.owner][l] + c[q.session][l]],
            ![q.session] = Empty]
      [] q.op = "checkout" -> [c EXCEPT ![q.owner] = Empty]
      [] q.op = "delete" -> c

\* A request during which nothing else has committed does to the carts exactly
\* what it promises, or nothing: an add adds once and within the stock, a merge
\* moves every line and adds up what both carts held, a checkout clears
\* what it has ordered and nothing else.  Only a checkout, which may fail elsewhere, may do nothing instead.
UndisturbedIsExact ==
    [][\A r \in Requests :
        Ends(r) /\ request[r].during = {} =>
            \/ /\ Carts(rows') = Promised(Carts(rows), request[r])
               /\ request[r].op = "checkout" =>
                    request[r].lines = Load(InScope(request[r].owner))
            \/ request[r].op = "checkout" /\ rows' = rows]_vars
=============================================================================
