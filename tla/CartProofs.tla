------------------------------- MODULE CartProofs -------------------------------
(***************************************************************************)
(* What requests that overlap can and cannot do to carts, for any number   *)
(* of owners, variants, requests and changes to the catalogue.             *)
(*                                                                         *)
(* A cart never holds a line twice.  Inserts are refused by an index, so   *)
(* the argument is about the merge, which hands rows over in bulk by what  *)
(* it has loaded: the lines of a guest's rows were different when they     *)
(* were loaded, a row never changes its line, and no primary key is used   *)
(* again (Inv).                                                            *)
(*                                                                         *)
(* Nothing is invented and no login loses a line.  What a request          *)
(* remembers of a row is of the line it was of and, unless two merges      *)
(* overlap, of the owner (Memory).  A write from a stale copy takes a row  *)
(* back to a quantity it has held before, so the most that every row has   *)
(* held, and may go back to, stays within what was asked for (Peaks).      *)
(*                                                                         *)
(* A request nobody has disturbed knows the carts as they are (Exact), so  *)
(* what it commits is what it is for.                                      *)
(***************************************************************************)
EXTENDS CartProperties, Sums

-----------------------------------------------------------------------------
(* The invariant *)

Types ==
    /\ rows \in [RowIds -> Row \cup {NoRow}]
    /\ stock \in [Variants -> Stocks]
    /\ inserted \in Nat
    /\ request \in [Requests -> Request]

\* Primary keys above the last one handed out have no row.
Fresh == \A i \in RowIds : i > inserted => rows[i] = NoRow

\* A guest's rows, as a merge has loaded them, are of different lines, and still
\* of those lines where they are still there.
Loads(q) == q.op = "merge" =>
    /\ \A i \in DOMAIN q.guest :
        i <= inserted /\ (rows[i] # NoRow => rows[i].line = q.guest[i].line)
    /\ \A i, j \in DOMAIN q.guest : q.guest[i].line = q.guest[j].line => i = j
Asks(q) == q.op = "add" => q.quantity > 0

Single == \A i, j \in RowIds :
    /\ rows[i] # NoRow /\ rows[j] # NoRow
    /\ rows[i].owner = rows[j].owner /\ rows[i].line = rows[j].line
    => i = j

Inv ==
    /\ Types /\ Fresh /\ Single
    /\ \A r \in Requests : Loads(request[r]) /\ Asks(request[r])

LEMMA RowIsNotNoRow == \A x \in Row : x # NoRow
BY DEF Row, NoRow

LEMMA NobodyOwnsNoRow == \A o \in Owners : o # NoRow.owner
BY OwnersAssumption DEF Owners, NoRow

LEMMA Scopes ==
    ASSUME Types, NEW o \in Owners
    PROVE  /\ InScope(o) \subseteq RowIds
           /\ \A i \in InScope(o) : rows[i] \in Row /\ rows[i] # NoRow /\ rows[i].owner = o
           /\ Load(InScope(o)) \in Loaded
           /\ DOMAIN Load(InScope(o)) = InScope(o)
<1>1. /\ InScope(o) \subseteq RowIds
      /\ \A i \in InScope(o) : rows[i] \in Row /\ rows[i] # NoRow /\ rows[i].owner = o
    BY NobodyOwnsNoRow, RowIsNotNoRow DEF Types, InScope
<1>2. Load(InScope(o)) \in [InScope(o) -> Row]
    BY <1>1 DEF Load
<1> QED
    BY <1>1, <1>2 DEF Loaded, Load

LEMMA CheckedIsALine == ASSUME NEW l \in Lines PROVE Checked(l) \in Lines
<1>1. CASE l # NoVariant \/ Undeleted = {}
    BY <1>1 DEF Checked
<1>2. CASE ~(l # NoVariant \/ Undeleted = {})
    <2>1. Undeleted \subseteq Nat /\ Undeleted \subseteq Variants
        BY NumbersAssumption DEF Undeleted, Variants
    <2>2. Min(Undeleted) \in Undeleted
        BY <1>2, <2>1, Smallest DEF Min
    <2> QED
        BY <1>2, <2>1, <2>2 DEF Checked, Lines
<1> QED
    BY <1>1, <1>2

\* Empty carts and requests yet to begin satisfy the invariant.
THEOREM InitInv == Init => Inv
<1> SUFFICES ASSUME Init PROVE Inv
    OBVIOUS
<1>1. Types
    BY DEF Init, Types, Request
<1>2. Fresh /\ Single
    BY DEF Init, Fresh, Single
<1>3. \A r \in Requests : Loads(request[r]) /\ Asks(request[r])
    BY DEF Init, Loads, Asks, Idle
<1> QED
    BY <1>1, <1>2, <1>3 DEF Inv

-----------------------------------------------------------------------------
(* What a step has to show *)

\* What a request asks for, and what a merge has loaded of the guest, stays.
Remembers(r) ==
    /\ request'[r].op = "add" =>
        request[r].op = "add" /\ request'[r].quantity = request[r].quantity
    /\ request'[r].op = "merge" =>
        request[r].op = "merge" /\ request'[r].guest = request[r].guest

\* A row keeps its line, and a key whose row is gone is not used again.
KeepsLines == \A i \in RowIds : i <= inserted /\ rows'[i] # NoRow =>
    rows[i] # NoRow /\ rows'[i].line = rows[i].line

LEMMA StepKeepsInv ==
    ASSUME Inv, Types', Fresh', Single', KeepsLines, inserted <= inserted',
           \A r \in Requests : Remembers(r)
    PROVE  Inv'
<1> SUFFICES ASSUME NEW r \in Requests PROVE Loads(request[r])' /\ Asks(request[r])'
    BY DEF Inv
<1>1. Asks(request[r])'
    BY DEF Inv, Asks, Remembers
<1>2. ASSUME request'[r].op = "merge" PROVE Loads(request[r])'
    <2>1. /\ request[r].op = "merge"
          /\ request'[r].guest = request[r].guest
          /\ Loads(request[r])
        BY <1>2 DEF Inv, Remembers
    <2>2. DOMAIN request[r].guest \subseteq RowIds
        BY <2>1 DEF Inv, Types, Request, Loaded, Idle
    <2>3. inserted \in Nat /\ inserted' \in Nat /\ RowIds \subseteq Nat
        BY NumbersAssumption DEF Inv, Types, RowIds
    <2>4. ASSUME NEW i \in DOMAIN request[r].guest
          PROVE  i <= inserted' /\ (rows'[i] # NoRow => rows'[i].line = request[r].guest[i].line)
        <3>1. i \in RowIds /\ i <= inserted
            BY <2>1, <2>2 DEF Loads
        <3>2. i <= inserted'
            BY <2>3, <3>1
        <3>3. rows[i] # NoRow => rows[i].line = request[r].guest[i].line
            BY <2>1 DEF Loads
        <3> QED
            BY <3>1, <3>2, <3>3 DEF KeepsLines
    <2> QED
        BY <2>1, <2>4 DEF Loads
<1> QED
    BY <1>1, <1>2 DEF Loads

\* The rows are as they were.
LEMMA QuietKeepsInv ==
    ASSUME Inv, UNCHANGED <<rows, inserted>>, Types', \A r \in Requests : Remembers(r)
    PROVE  Inv'
<1>1. Fresh' /\ Single' /\ KeepsLines
    BY DEF Inv, Fresh, Single, KeepsLines
<1>2. inserted <= inserted'
    BY DEF Inv, Types
<1> QED
    BY <1>1, <1>2, StepKeepsInv

LEMMA Commits ==
    ASSUME Types, NEW r \in Requests, NEW h \in Happenings,
           \/ Commit(r, h)
           \/ Abandon(r)
    PROVE  /\ request' \in [Requests -> Request]
           /\ \A s \in Requests : Remembers(s)
<1>1. Idle \in Request /\ Idle.op = "idle"
    BY DEF Request, Idle
<1>2. CASE Abandon(r)
    BY <1>1, <1>2 DEF Abandon, Types, Remembers
<1>3. ASSUME NEW q \in Request, q # Idle
      PROVE  LET n == [q EXCEPT !.during = @ \cup {h}] IN
             /\ n \in Request
             /\ n.op = q.op
             /\ q.op = "add" => n.quantity = q.quantity
             /\ q.op = "merge" => n.guest = q.guest
    BY <1>3 DEF Request, Happenings
<1>4. CASE Commit(r, h)
    <2>1. \A s \in Requests :
            request'[s] = IF s = r \/ request[s] = Idle THEN Idle
                          ELSE [request[s] EXCEPT !.during = @ \cup {h}]
        BY <1>4 DEF Commit
    <2>2. request' \in [Requests -> Request]
        BY <1>1, <1>3, <1>4 DEF Types, Commit
    <2>3. ASSUME NEW s \in Requests PROVE Remembers(s)
        <3>1. CASE s = r \/ request[s] = Idle
            BY <1>1, <2>1, <3>1 DEF Remembers
        <3>2. CASE ~(s = r \/ request[s] = Idle)
            <4>1. PICK q : q = request[s]
                OBVIOUS
            <4>2. PICK n : n = [q EXCEPT !.during = @ \cup {h}]
                OBVIOUS
            <4>3. q \in Request /\ q # Idle
                BY <3>2, <4>1 DEF Types
            <4>4. /\ n.op = q.op
                  /\ q.op = "add" => n.quantity = q.quantity
                  /\ q.op = "merge" => n.guest = q.guest
                BY <1>3, <4>2, <4>3
            <4>5. request'[s] = n
                BY <2>1, <3>2, <4>1, <4>2
            <4> QED
                BY <4>1, <4>4, <4>5 DEF Remembers
        <3> QED
            BY <3>1, <3>2
    <2> QED
        BY <2>2, <2>3
<1> QED
    BY <1>2, <1>4

-----------------------------------------------------------------------------
(* Requests that begin, read and fail *)

LEMMA BeginKeepsInv ==
    ASSUME Inv, NEW r \in Requests, NEW q \in Request, Begin(r, q), Loads(q), Asks(q),
           UNCHANGED <<rows, catalogue, inserted>>
    PROVE  Inv'
<1>1. request' = [request EXCEPT ![r] = q]
    BY DEF Begin
<1>2. Types' /\ Fresh' /\ Single'
    BY <1>1 DEF Inv, Types, Fresh, Single, catalogue
<1>3. \A s \in Requests : Loads(request'[s]) /\ Asks(request'[s])
    BY <1>1 DEF Inv, Types
<1>4. \A s \in Requests : Loads(request[s])' /\ Asks(request[s])'
    BY <1>3 DEF Loads, Asks
<1> QED
    BY <1>2, <1>4 DEF Inv

LEMMA AddBeginsKeepsInv == ASSUME Inv, NEW r \in Requests, AddBegins(r) PROVE Inv'
<1>1. PICK o \in Owners, l \in Lines, n \in Quantities \ {0} :
        LET q == [op |-> "add", owner |-> o, line |-> l, quantity |-> n,
                  stock |-> IF Checked(l) = NoVariant THEN -1 ELSE stock[Checked(l)],
                  found |-> FALSE, row |-> NoId, held |-> 0, during |-> {}]
        IN  Begin(r, q) /\ UNCHANGED <<rows, catalogue, inserted>>
    BY DEF AddBegins
<1> DEFINE k == IF Checked(l) = NoVariant THEN -1 ELSE stock[Checked(l)]
           q == [op |-> "add", owner |-> o, line |-> l, quantity |-> n, stock |-> k,
                 found |-> FALSE, row |-> NoId, held |-> 0, during |-> {}]
<1>2. k \in Nat \cup {-1}
    BY CheckedIsALine, NumbersAssumption DEF Inv, Types, Lines
<1>3. n \in Nat /\ n > 0
    BY NumbersAssumption
<1> HIDE DEF k
<1>4. q \in Request
    BY <1>2, <1>3 DEF Request
<1>5. Loads(q) /\ Asks(q)
    BY <1>3 DEF Loads, Asks
<1>6. Begin(r, q) /\ UNCHANGED <<rows, catalogue, inserted>>
    BY <1>1 DEF k
<1> QED
    BY <1>4, <1>5, <1>6, BeginKeepsInv

LEMMA UpdateBeginsKeepsInv == ASSUME Inv, NEW r \in Requests, UpdateBegins(r) PROVE Inv'
<1>1. PICK o \in Owners, n \in Quantities : \E i \in InScope(o) :
        LET q == [op |-> "update", owner |-> o, line |-> rows[i].line, quantity |-> n, row |-> i,
                  held |-> rows[i].quantity, during |-> {}]
        IN  Begin(r, q) /\ UNCHANGED <<rows, catalogue, inserted>>
    BY DEF UpdateBegins
<1>2. PICK i \in InScope(o) :
        LET q == [op |-> "update", owner |-> o, line |-> rows[i].line, quantity |-> n, row |-> i,
                  held |-> rows[i].quantity, during |-> {}]
        IN  Begin(r, q) /\ UNCHANGED <<rows, catalogue, inserted>>
    BY <1>1
<1> DEFINE q == [op |-> "update", owner |-> o, line |-> rows[i].line, quantity |-> n, row |-> i,
                 held |-> rows[i].quantity, during |-> {}]
<1>3. i \in RowIds /\ rows[i].line \in Lines /\ rows[i].quantity \in Nat
    BY Scopes DEF Inv, Row
<1>4. q \in Request
    BY <1>3, NumbersAssumption DEF Request
<1>5. Loads(q) /\ Asks(q)
    BY DEF Loads, Asks
<1> QED
    BY <1>2, <1>4, <1>5, BeginKeepsInv

\* No two rows of one scope are of one line.
LEMMA MergeLoadsGuestKeepsInv == ASSUME Inv, NEW r \in Requests, MergeLoadsGuest(r) PROVE Inv'
<1>1. PICK u \in Users, s \in Sessions :
        /\ Begin(r, [op |-> "merge", owner |-> u, session |-> s, guest |-> Load(InScope(s)),
                     user |-> Load({}), found |-> FALSE, during |-> {}])
        /\ UNCHANGED <<rows, catalogue, inserted>>
    BY DEF MergeLoadsGuest
<1> DEFINE q == [op |-> "merge", owner |-> u, session |-> s, guest |-> Load(InScope(s)),
                 user |-> Load({}), found |-> FALSE, during |-> {}]
<1>2. /\ InScope(s) \subseteq RowIds
      /\ \A i \in InScope(s) : rows[i] \in Row /\ rows[i] # NoRow /\ rows[i].owner = s
      /\ Load(InScope(s)) \in Loaded
      /\ DOMAIN Load(InScope(s)) = InScope(s)
    BY Scopes DEF Inv, Owners
<1>3. Load({}) \in Loaded
    BY DEF Load, Loaded
<1>4. q \in Request
    BY <1>2, <1>3 DEF Request
<1>5. Asks(q)
    BY DEF Asks
<1>6. \A i \in InScope(s) : i <= inserted
    BY <1>2, NumbersAssumption DEF Inv, Types, Fresh, RowIds
<1>7. Loads(q)
    BY <1>2, <1>6 DEF Inv, Single, Loads, Load
<1> QED
    BY <1>1, <1>4, <1>5, <1>7, BeginKeepsInv

LEMMA OtherBeginsKeepInv ==
    ASSUME Inv, NEW r \in Requests, CheckoutLoads(r) \/ DeleteVariantBegins(r)
    PROVE  Inv'
<1>1. CASE CheckoutLoads(r)
    <2>1. PICK o \in Owners :
            /\ Begin(r, [op |-> "checkout", owner |-> o, lines |-> Load(InScope(o)),
                         during |-> {}])
            /\ UNCHANGED <<rows, catalogue, inserted>>
        BY <1>1 DEF CheckoutLoads
    <2> DEFINE q == [op |-> "checkout", owner |-> o, lines |-> Load(InScope(o)), during |-> {}]
    <2>2. q \in Request
        BY Scopes DEF Inv, Request
    <2>3. Loads(q) /\ Asks(q)
        BY DEF Loads, Asks
    <2> QED
        BY <2>1, <2>2, <2>3, BeginKeepsInv
<1>2. CASE DeleteVariantBegins(r)
    <2>1. PICK v \in Variants :
            /\ Begin(r, [op |-> "delete", variant |-> v, during |-> {}])
            /\ UNCHANGED <<rows, catalogue, inserted>>
        BY <1>2 DEF DeleteVariantBegins, Undeleted
    <2> DEFINE q == [op |-> "delete", variant |-> v, during |-> {}]
    <2>2. q \in Request
        BY DEF Request
    <2>3. Loads(q) /\ Asks(q)
        BY DEF Loads, Asks
    <2> QED
        BY <2>1, <2>2, <2>3, BeginKeepsInv
<1> QED
    BY <1>1, <1>2

LEMMA ReadsKeepInv ==
    ASSUME Inv, NEW r \in Requests, AddFinds(r) \/ MergeLoadsUser(r)
    PROVE  Inv'
<1> DEFINE q == request[r]
<1>1. q \in Request /\ UNCHANGED <<rows, stock, inserted>>
    BY DEF Inv, Types, AddFinds, MergeLoadsUser, catalogue
<1>2. ASSUME NEW n \in Request, Proceed(r, n), n.op = q.op,
             q.op = "add" => n.quantity = q.quantity,
             q.op = "merge" => n.guest = q.guest
      PROVE  Inv'
    <2>1. request' = [request EXCEPT ![r] = n]
        BY <1>2 DEF Proceed
    <2>2. Types' /\ \A s \in Requests : Remembers(s)
        BY <1>1, <1>2, <2>1 DEF Inv, Types, Remembers
    <2> QED
        BY <1>1, <2>2, QuietKeepsInv
<1>3. ASSUME AddFinds(r), Abandon(r) PROVE Inv'
    <2>1. Types' /\ \A s \in Requests : Remembers(s)
        BY <1>1, <1>3, Commits DEF Inv, Types, Happenings
    <2> QED
        BY <1>1, <2>1, QuietKeepsInv
<1>4. ASSUME AddFinds(r), ~Abandon(r) PROVE Inv'
    <2>1. q.op = "add" /\ q # Idle
        <3>1. q.op = "add"
            BY <1>4 DEF AddFinds
        <3> QED
            BY <3>1 DEF Idle
    <2>2. CASE \E i \in FindExisting(q.owner, q.line) :
                Proceed(r, [q EXCEPT !.found = TRUE, !.row = i, !.held = rows[i].quantity])
        <3>1. PICK i \in FindExisting(q.owner, q.line) :
                Proceed(r, [q EXCEPT !.found = TRUE, !.row = i, !.held = rows[i].quantity])
            BY <2>2
        <3>2. q.owner \in Owners
            BY <1>1, <2>1 DEF Request, Idle
        <3>3. i \in RowIds /\ rows[i].quantity \in Nat
            BY <3>2, Scopes DEF Inv, FindExisting, Row
        <3> DEFINE n == [q EXCEPT !.found = TRUE, !.row = i, !.held = rows[i].quantity]
        <3>4. n \in Request /\ n.op = q.op /\ n.quantity = q.quantity
            BY <1>1, <2>1, <3>3 DEF Request
        <3> QED
            BY <1>2, <2>1, <3>1, <3>4
    <2>3. CASE Proceed(r, [q EXCEPT !.found = TRUE])
        <3> DEFINE n == [q EXCEPT !.found = TRUE]
        <3>1. n \in Request /\ n.op = q.op /\ n.quantity = q.quantity
            BY <1>1, <2>1 DEF Request
        <3> QED
            BY <1>2, <2>1, <2>3, <3>1
    <2> QED
        BY <1>4, <2>2, <2>3 DEF AddFinds
<1>5. CASE MergeLoadsUser(r)
    <2> DEFINE mine == InScope(q.owner)
               loaded == [i \in mine |-> IF i \in DOMAIN q.guest THEN q.guest[i] ELSE rows[i]]
               n == [q EXCEPT !.found = TRUE, !.user = loaded]
    <2>1. q.op = "merge" /\ q # Idle /\ Proceed(r, n)
        BY <1>5 DEF MergeLoadsUser, Idle
    <2>2. q.owner \in Owners /\ q.guest \in Loaded
        BY <1>1, <2>1 DEF Request, Idle, Owners
    <2>3. mine \subseteq RowIds /\ \A i \in mine : rows[i] \in Row
        BY <2>2, Scopes DEF Inv
    <2>4. loaded \in [mine -> Row]
        BY <2>2, <2>3 DEF Loaded
    <2>5. loaded \in Loaded
        BY <2>3, <2>4 DEF Loaded
    <2> HIDE DEF loaded
    <2>6. n \in Request /\ n.op = q.op /\ n.guest = q.guest
        BY <1>1, <2>1, <2>5 DEF Request
    <2> QED
        BY <1>2, <2>1, <2>6
<1> QED
    BY <1>3, <1>4, <1>5

LEMMA FailuresKeepInv ==
    ASSUME Inv, NEW r \in Requests,
           AddFails(r) \/ UpdateFails(r) \/ MergeFails(r) \/ CheckoutFails(r)
    PROVE  Inv'
<1>1. Abandon(r) /\ UNCHANGED <<rows, stock, inserted>>
    BY DEF AddFails, UpdateFails, MergeFails, CheckoutFails, catalogue
<1>2. Types' /\ \A s \in Requests : Remembers(s)
    BY <1>1, Commits DEF Inv, Types, Happenings
<1> QED
    BY <1>1, <1>2, QuietKeepsInv

-----------------------------------------------------------------------------
(* Requests that write *)

\* Rows go, or change their quantity.
LEMMA ThinningKeepsInv ==
    ASSUME Inv, NEW r \in Requests, NEW h \in Happenings, Commit(r, h),
           rows' \in [RowIds -> Row \cup {NoRow}],
           stock' \in [Variants -> Stocks], UNCHANGED inserted,
           \A i \in RowIds : rows'[i] # NoRow =>
               /\ rows[i] # NoRow
               /\ rows'[i].owner = rows[i].owner /\ rows'[i].line = rows[i].line
    PROVE  Inv'
<1>1. Types' /\ \A s \in Requests : Remembers(s)
    BY Commits DEF Inv, Types
<1>2. Fresh' /\ Single' /\ KeepsLines
    BY DEF Inv, Fresh, Single, KeepsLines
<1>3. inserted <= inserted'
    BY DEF Inv, Types
<1> QED
    BY <1>1, <1>2, <1>3, StepKeepsInv

LEMMA InsertKeepsInv == ASSUME Inv, NEW r \in Requests, AddInserts(r) PROVE Inv'
<1> DEFINE q == request[r]
           new == [owner |-> q.owner, line |-> q.line, quantity |-> q.quantity]
<1>1. /\ q.op = "add" /\ q \in Request
      /\ Unclaimed(q.owner, q.line)
      /\ inserted' = inserted + 1 /\ UNCHANGED stock
      /\ rows' = [rows EXCEPT ![inserted + 1] = new]
      /\ Commit(r, "change")
    BY DEF AddInserts, Inv, Types, catalogue
<1>2. new \in Row /\ q.owner \in Owners
    BY <1>1 DEF Inv, Asks, Request, Idle, Row
<1>3. new # NoRow /\ new.owner = q.owner /\ new.line = q.line
    BY <1>2, RowIsNotNoRow
<1> HIDE DEF new
<1>4. Types' /\ \A s \in Requests : Remembers(s)
    <2>1. request' \in [Requests -> Request] /\ \A s \in Requests : Remembers(s)
        BY <1>1, Commits DEF Inv, Happenings
    <2>2. rows' \in [RowIds -> Row \cup {NoRow}]
        BY <1>1, <1>2 DEF Inv, Types
    <2>3. stock' \in [Variants -> Stocks] /\ inserted' \in Nat
        BY <1>1 DEF Inv, Types
    <2> QED
        BY <2>1, <2>2, <2>3 DEF Types
<1>5. inserted \in Nat /\ RowIds \subseteq Nat
    BY NumbersAssumption DEF Inv, Types, RowIds
<1>6. Fresh'
    BY <1>1, <1>5 DEF Inv, Types, Fresh
<1>7. KeepsLines
    BY <1>1, <1>5 DEF Inv, Types, KeepsLines
<1>8. Single'
    <2>1. \A i \in RowIds :
            rows[i] # NoRow => ~(rows[i].owner = q.owner /\ rows[i].line = q.line)
        BY <1>1 DEF Unclaimed, FindExisting, InScope
    <2>2. \A i \in RowIds : rows'[i] = IF i = inserted + 1 THEN new ELSE rows[i]
        BY <1>1 DEF Inv, Types
    <2> QED
        BY <1>3, <2>1, <2>2 DEF Inv, Single
<1> QED
    BY <1>1, <1>4, <1>5, <1>6, <1>7, <1>8, StepKeepsInv

LEMMA RequantifiedRows ==
    ASSUME Inv, NEW k \in RowIds, rows[k] # NoRow, NEW n \in Nat \ {0},
           rows' = [rows EXCEPT ![k].quantity = n]
    PROVE  /\ rows' \in [RowIds -> Row \cup {NoRow}]
           /\ \A i \in RowIds : rows'[i] # NoRow =>
               /\ rows[i] # NoRow
               /\ rows'[i].owner = rows[i].owner /\ rows'[i].line = rows[i].line
               /\ rows'[i].quantity = IF i = k THEN n ELSE rows[i].quantity
<1>1. rows[k] \in Row
    BY DEF Inv, Types
<1>2. /\ [rows[k] EXCEPT !.quantity = n] \in Row
      /\ [rows[k] EXCEPT !.quantity = n].owner = rows[k].owner
      /\ [rows[k] EXCEPT !.quantity = n].line = rows[k].line
      /\ [rows[k] EXCEPT !.quantity = n].quantity = n
    BY <1>1 DEF Row
<1> QED
    BY <1>2 DEF Inv, Types

\* Only an add and an update change the quantity of a row they leave.
LEMMA WritesThin ==
    ASSUME Inv, NEW r \in Requests,
           \/ AddIncrements(r) \/ UpdateCommits(r) \/ ClearCart(r) \/ CheckoutClears(r)
           \/ DeleteVariantCommits(r)
    PROVE  /\ rows' \in [RowIds -> Row \cup {NoRow}]
           /\ \A i \in RowIds : rows'[i] # NoRow =>
               /\ rows[i] # NoRow
               /\ rows'[i].owner = rows[i].owner /\ rows'[i].line = rows[i].line
               /\ \/ rows'[i].quantity = rows[i].quantity
                  \/ /\ AddIncrements(r) /\ i = request[r].row
                     /\ rows'[i].quantity = request[r].held + request[r].quantity
                  \/ /\ UpdateCommits(r) /\ i = request[r].row
                     /\ rows'[i].quantity = request[r].quantity
<1> DEFINE q == request[r]
<1>1. q \in Request /\ rows \in [RowIds -> Row \cup {NoRow}]
    BY DEF Inv, Types
<1>2. CASE AddIncrements(r)
    <2>1. q.op = "add" /\ q.row # NoId /\ rows[q.row] # NoRow
          /\ rows' = [rows EXCEPT ![q.row].quantity = q.held + q.quantity]
        BY <1>2 DEF AddIncrements
    <2>2. q.row \in RowIds /\ q.held \in Nat /\ q.quantity \in Nat /\ q.quantity > 0
        BY <1>1, <2>1 DEF Request, Idle, Inv, Asks
    <2>3. q.held + q.quantity \in Nat \ {0}
        BY <2>2
    <2>4. /\ rows' \in [RowIds -> Row \cup {NoRow}]
          /\ \A i \in RowIds : rows'[i] # NoRow =>
              /\ rows[i] # NoRow
              /\ rows'[i].owner = rows[i].owner /\ rows'[i].line = rows[i].line
              /\ rows'[i].quantity = IF i = q.row THEN q.held + q.quantity ELSE rows[i].quantity
        BY <2>1, <2>2, <2>3, RequantifiedRows
    <2> QED
        BY <1>2, <2>4
<1>3. CASE UpdateCommits(r)
    <2>1. q.op = "update"
        BY <1>3 DEF UpdateCommits
    <2>2. q.row \in RowIds /\ q.quantity \in Nat
        BY <1>1, <2>1 DEF Request, Idle
    <2>3. \/ rows' = [rows EXCEPT ![q.row] = NoRow]
          \/ UNCHANGED rows
          \/ /\ rows[q.row] # NoRow /\ q.quantity # 0
             /\ rows' = [rows EXCEPT ![q.row].quantity = q.quantity]
        BY <1>3 DEF UpdateCommits
    <2>4. CASE rows' = [rows EXCEPT ![q.row] = NoRow] \/ UNCHANGED rows
        BY <1>1, <2>4
    <2>5. CASE /\ rows[q.row] # NoRow /\ q.quantity # 0
               /\ rows' = [rows EXCEPT ![q.row].quantity = q.quantity]
        <3>1. q.quantity \in Nat \ {0}
            BY <2>2, <2>5
        <3>2. /\ rows' \in [RowIds -> Row \cup {NoRow}]
              /\ \A i \in RowIds : rows'[i] # NoRow =>
                  /\ rows[i] # NoRow
                  /\ rows'[i].owner = rows[i].owner /\ rows'[i].line = rows[i].line
                  /\ rows'[i].quantity = IF i = q.row THEN q.quantity ELSE rows[i].quantity
            BY <2>2, <2>5, <3>1, RequantifiedRows
        <3> QED
            BY <1>3, <3>2
    <2> QED
        BY <2>3, <2>4, <2>5
<1>4. CASE ClearCart(r) \/ CheckoutClears(r) \/ DeleteVariantCommits(r)
    <2>1. \/ UNCHANGED rows
          \/ \E o : rows' = [i \in RowIds |-> IF i \in InScope(o) THEN NoRow ELSE rows[i]]
        BY <1>4 DEF ClearCart, CheckoutClears, DeleteVariantCommits
    <2> QED
        BY <1>1, <2>1
<1> QED
    BY <1>2, <1>3, <1>4

LEMMA WritesKeepInv ==
    ASSUME Inv, NEW r \in Requests,
           \/ AddIncrements(r) \/ UpdateCommits(r) \/ ClearCart(r) \/ CheckoutClears(r)
           \/ DeleteVariantCommits(r)
    PROVE  Inv'
<1>1. Commit(r, "change") /\ "change" \in Happenings /\ UNCHANGED <<stock, inserted>>
    BY DEF AddIncrements, UpdateCommits, ClearCart, CheckoutClears, DeleteVariantCommits,
        Happenings, catalogue
<1>2. stock' \in [Variants -> Stocks]
    BY <1>1 DEF Inv, Types
<1> QED
    BY <1>1, <1>2, WritesThin, ThinningKeepsInv

\* A row keeps its line in a merge; it changes hands, or grows, if the merge says so.
LEMMA MergedRows ==
    ASSUME Inv, NEW r \in Requests, MergeCommits(r)
    PROVE  LET q == request[r] IN
           /\ rows' \in [RowIds -> Row \cup {NoRow}]
           /\ \A g \in Transferred(q) : rows[g] \in Row /\ g \in DOMAIN q.guest /\ g \in RowIds
           /\ \A i \in RowIds : rows'[i] # NoRow =>
               /\ i \notin Absorbed(q)
               /\ rows[i] # NoRow /\ rows'[i].line = rows[i].line
               /\ \/ rows'[i].owner = rows[i].owner
                  \/ i \in Transferred(q) /\ rows'[i].owner = q.owner
               /\ \/ rows'[i].quantity = rows[i].quantity
                  \/ i \in Grown(q) /\ rows'[i].quantity = Increment(q, i)
<1> DEFINE q == request[r]
<1>1. /\ q.op = "merge" /\ q \in Request
      /\ Mergeable(q) /\ rows' = Merged(q)
    BY DEF MergeCommits, Inv, Types
<1>2. q.owner \in Owners /\ q.guest \in Loaded /\ q.user \in Loaded
    BY <1>1 DEF Request, Idle, Owners
<1>3. /\ DOMAIN q.guest \subseteq RowIds /\ \A g \in DOMAIN q.guest : q.guest[g] \in Row
      /\ DOMAIN q.user \subseteq RowIds /\ \A i \in DOMAIN q.user : q.user[i] \in Row
    BY <1>2 DEF Loaded
<1>4. ASSUME NEW i \in Grown(q) PROVE rows[i] \in Row /\ Increment(q, i) \in Nat \ {0}
    <2>1. PICK g \in Absorbed(q) : i \in Partners(q, g)
        BY DEF Grown
    <2>2. (CHOOSE k \in Absorbed(q) : i \in Partners(q, k)) \in Absorbed(q)
        BY <2>1
    <2>3. i \in DOMAIN q.user /\ i \in RowIds /\ Absorbed(q) \subseteq DOMAIN q.guest
        BY <1>3, <2>1 DEF Partners, Absorbed
    <2>4. rows[i] \in Row
        BY <1>1, <2>3 DEF Mergeable, Inv, Types
    <2> DEFINE k == CHOOSE k \in Absorbed(q) : i \in Partners(q, k)
    <2>5. q.user[i].quantity \in Nat \ {0} /\ q.guest[k].quantity \in Nat \ {0}
        BY <1>3, <2>2, <2>3 DEF Row
    <2> QED
        BY <2>4, <2>5 DEF Increment
<1>5. ASSUME NEW g \in Transferred(q)
      PROVE  rows[g] \in Row /\ g \in DOMAIN q.guest /\ g \in RowIds
    BY <1>1, <1>3 DEF Transferred, Mergeable, Inv, Types
<1>6. ASSUME NEW x \in Row
      PROVE  [x EXCEPT !.owner = q.owner] \in Row
    BY <1>2 DEF Row
<1>7. \A i \in RowIds : rows'[i] =
        IF i \in Absorbed(q) THEN NoRow
        ELSE IF i \in Grown(q) THEN [rows[i] EXCEPT !.quantity = Increment(q, i)]
        ELSE IF i \in Transferred(q) THEN [rows[i] EXCEPT !.owner = q.owner]
        ELSE rows[i]
    BY <1>1 DEF Merged
<1>8. rows' \in [RowIds -> Row \cup {NoRow}]
    <2>1. ASSUME NEW i \in RowIds PROVE rows'[i] \in Row \cup {NoRow}
        <3>1. CASE i \in Absorbed(q)
            BY <1>7, <3>1
        <3>2. CASE i \notin Absorbed(q) /\ i \in Grown(q)
            <4>1. rows[i] \in Row /\ Increment(q, i) \in Nat \ {0}
                BY <1>4, <3>2
            <4>2. rows'[i] = [rows[i] EXCEPT !.quantity = Increment(q, i)]
                BY <1>7, <3>2
            <4> QED
                BY <4>1, <4>2 DEF Row
        <3>3. CASE i \notin Absorbed(q) /\ i \notin Grown(q) /\ i \in Transferred(q)
            BY <1>5, <1>6, <1>7, <3>3
        <3>4. CASE i \notin Absorbed(q) /\ i \notin Grown(q) /\ i \notin Transferred(q)
            BY <1>7, <3>4 DEF Inv, Types
        <3> QED
            BY <3>1, <3>2, <3>3, <3>4
    <2> QED
        BY <1>1, <2>1 DEF Merged
<1>9. ASSUME NEW i \in RowIds, rows'[i] # NoRow
      PROVE  /\ i \notin Absorbed(q)
             /\ rows[i] # NoRow /\ rows'[i].line = rows[i].line
             /\ \/ rows'[i].owner = rows[i].owner
                \/ i \in Transferred(q) /\ rows'[i].owner = q.owner
             /\ \/ rows'[i].quantity = rows[i].quantity
                \/ i \in Grown(q) /\ rows'[i].quantity = Increment(q, i)
    <2>1. i \notin Absorbed(q)
        BY <1>7, <1>9
    <2>2. CASE i \in Grown(q)
        <3>1. rows[i] \in Row
            BY <1>4, <2>2
        <3>2. rows'[i] = [rows[i] EXCEPT !.quantity = Increment(q, i)]
            BY <1>7, <2>1, <2>2
        <3>3. rows[i] # NoRow
            BY <3>1, RowIsNotNoRow
        <3> QED
            BY <2>1, <2>2, <3>1, <3>2, <3>3 DEF Row
    <2>3. CASE i \notin Grown(q) /\ i \in Transferred(q)
        <3>1. rows[i] \in Row
            BY <1>5, <2>3
        <3>2. rows'[i] = [rows[i] EXCEPT !.owner = q.owner]
            BY <1>7, <2>1, <2>3
        <3>3. rows[i] # NoRow
            BY <3>1, RowIsNotNoRow
        <3> QED
            BY <2>1, <2>3, <3>1, <3>2, <3>3 DEF Row
    <2>4. CASE i \notin Grown(q) /\ i \notin Transferred(q)
        BY <1>7, <1>9, <2>1, <2>4
    <2> QED
        BY <2>2, <2>3, <2>4
<1> QED
    BY <1>5, <1>8, <1>9

\* What a merge hands over are different lines, and nobody's of the user's cart.
LEMMA MergeKeepsInv == ASSUME Inv, NEW r \in Requests, MergeCommits(r) PROVE Inv'
<1> DEFINE q == request[r]
<1>1. /\ q.op = "merge" /\ Mergeable(q)
      /\ Commit(r, "merge") /\ "merge" \in Happenings
      /\ UNCHANGED <<stock, inserted>>
    BY DEF MergeCommits, Happenings, catalogue
<1>2. /\ rows' \in [RowIds -> Row \cup {NoRow}]
      /\ \A g \in Transferred(q) : rows[g] \in Row /\ g \in DOMAIN q.guest /\ g \in RowIds
      /\ \A i \in RowIds : rows'[i] # NoRow =>
          /\ rows[i] # NoRow /\ rows'[i].line = rows[i].line
          /\ \/ rows'[i].owner = rows[i].owner
             \/ i \in Transferred(q) /\ rows'[i].owner = q.owner
    BY MergedRows
<1>3. Types' /\ \A s \in Requests : Remembers(s)
    BY <1>1, <1>2, Commits DEF Inv, Types
<1>4. Fresh' /\ KeepsLines /\ inserted <= inserted'
    BY <1>1, <1>2 DEF Inv, Types, Fresh, KeepsLines
<1>5. \A g \in Transferred(q) : \A i \in RowIds :
            rows[i] # NoRow /\ rows[i].owner = q.owner /\ rows[i].line = rows[g].line => i = g
    BY <1>1 DEF Mergeable, FindExisting, InScope
<1>6. \A g, k \in Transferred(q) : rows[g].line = rows[k].line => g = k
    BY <1>1, <1>2, RowIsNotNoRow DEF Inv, Loads
<1>7. Single'
    BY <1>2, <1>5, <1>6 DEF Inv, Single
<1> QED
    BY <1>3, <1>4, <1>7, StepKeepsInv

LEMMA EditKeepsInv == ASSUME Inv, EditCatalogue PROVE Inv'
<1>1. ASSUME NEW q \in Request, q # Idle
      PROVE  LET n == [q EXCEPT !.during = @ \cup {"change"}] IN
             /\ n \in Request
             /\ n.op = q.op
             /\ q.op = "add" => n.quantity = q.quantity
             /\ q.op = "merge" => n.guest = q.guest
    BY <1>1 DEF Request, Happenings
<1>2. Idle \in Request /\ Idle.op = "idle"
    BY DEF Request, Idle
<1>3. /\ UNCHANGED <<rows, inserted>>
      /\ request' = [q \in Requests |->
            IF request[q] = Idle THEN Idle
            ELSE [request[q] EXCEPT !.during = @ \cup {"change"}]]
    BY DEF EditCatalogue
<1>4. stock' \in [Variants -> Stocks]
    BY DEF EditCatalogue, Inv, Types, Undeleted
<1>5. Types'
    BY <1>1, <1>2, <1>3, <1>4 DEF Inv, Types
<1>6. ASSUME NEW s \in Requests PROVE Remembers(s)
    <2>1. CASE request[s] = Idle
        BY <1>2, <1>3, <2>1 DEF Remembers
    <2>2. CASE request[s] # Idle
        BY <1>1, <1>3, <2>2 DEF Inv, Types, Remembers
    <2> QED
        BY <2>1, <2>2
<1> QED
    BY <1>3, <1>5, <1>6, QuietKeepsInv

-----------------------------------------------------------------------------
(* Every step *)

\* Every step of a cart request keeps it, the bulk hand-over of a merge included.
THEOREM NextInv == Inv /\ [Next]_vars => Inv'
<1> SUFFICES ASSUME Inv, [Next]_vars PROVE Inv'
    OBVIOUS
<1>1. CASE UNCHANGED vars
    BY <1>1 DEF vars, catalogue, Inv, Types, Fresh, Single, Loads, Asks
<1>2. ASSUME NEW r \in Requests,
             \/ AddBegins(r) \/ UpdateBegins(r) \/ MergeLoadsGuest(r)
             \/ CheckoutLoads(r) \/ DeleteVariantBegins(r)
      PROVE  Inv'
    BY <1>2, AddBeginsKeepsInv, UpdateBeginsKeepsInv, MergeLoadsGuestKeepsInv, OtherBeginsKeepInv
<1>3. ASSUME NEW r \in Requests,
             \/ AddFinds(r) \/ MergeLoadsUser(r)
             \/ AddFails(r) \/ UpdateFails(r) \/ MergeFails(r) \/ CheckoutFails(r)
      PROVE  Inv'
    BY <1>3, ReadsKeepInv, FailuresKeepInv
<1>4. ASSUME NEW r \in Requests,
             \/ AddInserts(r) \/ AddIncrements(r) \/ UpdateCommits(r) \/ ClearCart(r)
             \/ MergeCommits(r) \/ CheckoutClears(r) \/ DeleteVariantCommits(r)
      PROVE  Inv'
    BY <1>4, InsertKeepsInv, WritesKeepInv, MergeKeepsInv
<1>5. CASE EditCatalogue
    BY <1>5, EditKeepsInv
<1> QED
    BY <1>1, <1>2, <1>3, <1>4, <1>5 DEF Next

\* In every reachable state a scope has one row of a line and what merges have
\* loaded refers to it (CartRepository).
THEOREM Invariance == Spec => []Inv
BY InitInv, NextInv, PTL DEF Spec

\* CartItem.__table_args__ and CartRepository.find_existing: whatever adds, merges
\* and transfers interleave, a scope has at most one row of a line.
THEOREM CartsHaveNoDoubles == Spec => []OneRowPerLine
<1>1. Inv => OneRowPerLine
    <2> SUFFICES ASSUME Inv, NEW o \in Owners, NEW l \in Lines
                 PROVE  Cardinality(FindExisting(o, l)) <= 1
        BY DEF OneRowPerLine
    <2>1. \A i, j \in FindExisting(o, l) : i = j
        BY Scopes DEF FindExisting, Inv, Single
    <2>2. FindExisting(o, l) = {} \/ \E i : FindExisting(o, l) = {i}
        BY <2>1
    <2>3. Cardinality(FindExisting(o, l)) \in {0, 1}
        BY <2>2, FS_EmptySet, FS_Singleton, Zenon
    <2> QED
        BY <2>3
<1> QED
    BY <1>1, Invariance, PTL

-----------------------------------------------------------------------------
(* Types of the whole state *)

Active == {r \in Requests : request[r] # Idle}

\* A request in flight inserts at most one row, so that keys do not run out.
Counters ==
    /\ deleted \in [Variants -> BOOLEAN] /\ withdrawn \in BOOLEAN
    /\ asked \in [Lines -> Nat] /\ twins \in BOOLEAN
    /\ edits \in 0 .. MaxEdits /\ begun \in 0 .. MaxRequests
    /\ IsFiniteSet(Active) /\ Cardinality(Active) + inserted <= begun

LEMMA InitCounters == Init => Counters
<1> SUFFICES ASSUME Init PROVE Counters
    OBVIOUS
<1>1. Active = {}
    BY DEF Init, Active
<1>2. IsFiniteSet(Active) /\ Cardinality(Active) = 0
    BY <1>1, FS_EmptySet
<1>3. deleted \in [Variants -> BOOLEAN] /\ withdrawn \in BOOLEAN /\ twins \in BOOLEAN
    BY DEF Init
<1>4. asked \in [Lines -> Nat] /\ edits \in 0 .. MaxEdits /\ begun \in 0 .. MaxRequests
    BY NumbersAssumption DEF Init
<1>5. Cardinality(Active) + inserted <= begun
    BY <1>2 DEF Init
<1> QED
    BY <1>2, <1>3, <1>4, <1>5 DEF Counters

LEMMA SmallerActive ==
    ASSUME Inv, Counters, Active' \subseteq Active, UNCHANGED inserted,
           begun' \in {begun, begun + 1}
    PROVE  IsFiniteSet(Active') /\ Cardinality(Active') + inserted' <= begun'
<1>1. /\ IsFiniteSet(Active) /\ Cardinality(Active) \in Nat
      /\ Cardinality(Active) + inserted <= begun
    BY FS_CardinalityType DEF Counters
<1>2. IsFiniteSet(Active') /\ Cardinality(Active') <= Cardinality(Active)
    BY <1>1, FS_Subset
<1>3. Cardinality(Active') \in Nat /\ begun \in Nat /\ inserted \in Nat
    BY <1>2, FS_CardinalityType, NumbersAssumption DEF Counters, Inv, Types
<1> QED
    BY <1>1, <1>2, <1>3

LEMMA EndsAreInactive ==
    ASSUME Types, NEW r \in Requests, Abandon(r) \/ \E h \in Happenings : Commit(r, h)
    PROVE  Active' \subseteq Active /\ r \notin Active'
<1>1. CASE Abandon(r)
    <2>1. request' = [request EXCEPT ![r] = Idle]
        BY <1>1 DEF Abandon
    <2> QED
        BY <2>1 DEF Types, Active
<1>2. ASSUME NEW h \in Happenings, Commit(r, h) PROVE Active' \subseteq Active /\ r \notin Active'
    BY <1>2 DEF Commit, Active
<1> QED
    BY <1>1, <1>2

LEMMA ProceedsStayActive ==
    ASSUME Types, NEW r \in Requests, NEW q, Proceed(r, q), request[r] # Idle
    PROVE  Active' \subseteq Active
BY DEF Proceed, Types, Active

LEMMA BeginsCount ==
    ASSUME Inv, Counters, NEW r \in Requests, NEW q, Begin(r, q), UNCHANGED inserted
    PROVE  IsFiniteSet(Active') /\ Cardinality(Active') + inserted' <= begun'
<1>1. r \notin Active /\ Active' \subseteq Active \cup {r} /\ begun' = begun + 1
    BY DEF Begin, Inv, Types, Active
<1>2. /\ IsFiniteSet(Active) /\ Cardinality(Active) \in Nat
      /\ Cardinality(Active) + inserted <= begun
    BY FS_CardinalityType DEF Counters
<1>3. IsFiniteSet(Active \cup {r}) /\ Cardinality(Active \cup {r}) = Cardinality(Active) + 1
    BY <1>1, <1>2, FS_AddElement
<1>4. IsFiniteSet(Active') /\ Cardinality(Active') <= Cardinality(Active \cup {r})
    BY <1>1, <1>3, FS_Subset
<1>5. Cardinality(Active') \in Nat /\ begun \in Nat /\ inserted \in Nat
    BY <1>4, FS_CardinalityType, NumbersAssumption DEF Counters, Inv, Types
<1> QED
    BY <1>1, <1>2, <1>3, <1>4, <1>5

LEMMA InsertsCount ==
    ASSUME Inv, Counters, NEW r \in Requests, AddInserts(r)
    PROVE  IsFiniteSet(Active') /\ Cardinality(Active') + inserted' <= begun'
<1>1. /\ request[r].op = "add" /\ Commit(r, "change")
      /\ inserted' = inserted + 1 /\ begun' = begun
    BY DEF AddInserts
<1>2. r \in Active
    BY <1>1 DEF Active, Idle
<1>3. Active' \subseteq Active \ {r}
    BY <1>1, EndsAreInactive DEF Inv, Happenings
<1>4. /\ IsFiniteSet(Active) /\ Cardinality(Active) \in Nat
      /\ Cardinality(Active) + inserted <= begun
    BY FS_CardinalityType DEF Counters
<1>5. IsFiniteSet(Active \ {r}) /\ Cardinality(Active \ {r}) = Cardinality(Active) - 1
    BY <1>2, <1>4, FS_RemoveElement
<1>6. IsFiniteSet(Active') /\ Cardinality(Active') <= Cardinality(Active \ {r})
    BY <1>3, <1>5, FS_Subset
<1>7. Cardinality(Active') \in Nat /\ begun \in Nat /\ inserted \in Nat
    BY <1>6, FS_CardinalityType, NumbersAssumption DEF Counters, Inv, Types
<1> QED
    BY <1>1, <1>4, <1>5, <1>6, <1>7

\* An add or an update asks for a quantity of a line.
LEMMA AskedGrows ==
    ASSUME Inv, Counters, NEW r \in Requests, request[r].op \in {"add", "update"},
           asked' = [asked EXCEPT ![request[r].line] = @ + request[r].quantity]
    PROVE  asked' \in [Lines -> Nat]
<1>1. request[r].line \in Lines /\ request[r].quantity \in Nat
    BY DEF Inv, Types, Request, Idle
<1> QED
    BY <1>1 DEF Counters

LEMMA BeginsKeepCounters ==
    ASSUME Inv, Counters, NEW r \in Requests,
           \/ AddBegins(r) \/ UpdateBegins(r) \/ MergeLoadsGuest(r)
           \/ CheckoutLoads(r) \/ DeleteVariantBegins(r)
    PROVE  Counters'
<1>1. UNCHANGED <<catalogue, inserted, edits, asked, twins>> /\ \E q : Begin(r, q)
    BY DEF AddBegins, UpdateBegins, MergeLoadsGuest, CheckoutLoads, DeleteVariantBegins
<1>2. PICK q : Begin(r, q)
    BY <1>1
<1>3. IsFiniteSet(Active') /\ Cardinality(Active') + inserted' <= begun'
    BY <1>1, <1>2, BeginsCount
<1>4. begun' \in 0 .. MaxRequests
    BY <1>2, NumbersAssumption DEF Begin, Counters
<1> QED
    BY <1>1, <1>3, <1>4 DEF Counters, catalogue

LEMMA ReadsAndFailuresKeepCounters ==
    ASSUME Inv, Counters, NEW r \in Requests,
           \/ AddFinds(r) \/ MergeLoadsUser(r)
           \/ AddFails(r) \/ UpdateFails(r) \/ MergeFails(r) \/ CheckoutFails(r)
    PROVE  Counters'
<1>1. UNCHANGED <<catalogue, inserted, begun, edits, asked, twins>>
    BY DEF AddFinds, MergeLoadsUser, AddFails, UpdateFails, MergeFails, CheckoutFails
<1>2. Abandon(r) \/ (request[r].op # "idle" /\ \E q : Proceed(r, q))
    BY DEF AddFinds, MergeLoadsUser, AddFails, UpdateFails, MergeFails, CheckoutFails
<1>3. Active' \subseteq Active
    BY <1>2, EndsAreInactive, ProceedsStayActive DEF Inv, Idle
<1>4. IsFiniteSet(Active') /\ Cardinality(Active') + inserted' <= begun'
    BY <1>1, <1>3, SmallerActive
<1> QED
    BY <1>1, <1>4 DEF Counters, catalogue

LEMMA WritesKeepCounters ==
    ASSUME Inv, Counters, NEW r \in Requests,
           \/ AddIncrements(r) \/ UpdateCommits(r) \/ ClearCart(r)
           \/ MergeCommits(r) \/ CheckoutClears(r) \/ DeleteVariantCommits(r)
    PROVE  Counters'
<1>1. UNCHANGED <<inserted, edits, withdrawn>> /\ \E h \in Happenings : Commit(r, h)
    BY DEF AddIncrements, UpdateCommits, ClearCart, MergeCommits, CheckoutClears,
        DeleteVariantCommits, Happenings, catalogue
<1>2. begun' = begun \/ (begun < MaxRequests /\ begun' = begun + 1)
    BY DEF AddIncrements, UpdateCommits, ClearCart, MergeCommits, CheckoutClears,
        DeleteVariantCommits
<1>3. begun' \in 0 .. MaxRequests
    BY <1>2, NumbersAssumption DEF Counters
<1>4. Active' \subseteq Active
    BY <1>1, EndsAreInactive DEF Inv
<1>5. IsFiniteSet(Active') /\ Cardinality(Active') + inserted' <= begun'
    BY <1>1, <1>2, <1>4, SmallerActive
<1>6. asked' \in [Lines -> Nat]
    <2>1. CASE AddIncrements(r) \/ UpdateCommits(r)
        BY <2>1, AskedGrows DEF AddIncrements, UpdateCommits
    <2>2. CASE ClearCart(r) \/ MergeCommits(r) \/ CheckoutClears(r) \/ DeleteVariantCommits(r)
        BY <2>2 DEF ClearCart, MergeCommits, CheckoutClears, DeleteVariantCommits, Counters
    <2> QED
        BY <2>1, <2>2
<1>7. deleted' \in [Variants -> BOOLEAN]
    BY DEF AddIncrements, UpdateCommits, ClearCart, MergeCommits, CheckoutClears,
        DeleteVariantCommits, Counters, catalogue
<1>8. twins' \in BOOLEAN
    BY DEF AddIncrements, UpdateCommits, ClearCart, MergeCommits, CheckoutClears,
        DeleteVariantCommits, Counters
<1> QED
    BY <1>1, <1>3, <1>5, <1>6, <1>7, <1>8 DEF Counters

LEMMA OthersKeepCounters ==
    ASSUME Inv, Counters, EditCatalogue \/ \E r \in Requests : AddInserts(r)
    PROVE  Counters'
<1>1. ASSUME NEW r \in Requests, AddInserts(r) PROVE Counters'
    <2>1. IsFiniteSet(Active') /\ Cardinality(Active') + inserted' <= begun'
        BY <1>1, InsertsCount
    <2>2. asked' \in [Lines -> Nat]
        BY <1>1, AskedGrows DEF AddInserts
    <2> QED
        BY <1>1, <2>1, <2>2 DEF AddInserts, Counters, catalogue
<1>2. CASE EditCatalogue
    <2>1. Active' \subseteq Active
        BY <1>2 DEF EditCatalogue, Active
    <2>2. IsFiniteSet(Active') /\ Cardinality(Active') + inserted' <= begun'
        BY <1>2, <2>1, SmallerActive DEF EditCatalogue
    <2>3. edits' \in 0 .. MaxEdits
        BY <1>2, NumbersAssumption DEF EditCatalogue, Counters
    <2>4. deleted' \in [Variants -> BOOLEAN] /\ withdrawn' \in BOOLEAN
        BY <1>2 DEF EditCatalogue, Counters
    <2> QED
        BY <1>2, <2>2, <2>3, <2>4 DEF EditCatalogue, Counters
<1> QED
    BY <1>1, <1>2

LEMMA NextCounters == Inv /\ Counters /\ [Next]_vars => Counters'
<1> SUFFICES ASSUME Inv, Counters, [Next]_vars PROVE Counters'
    OBVIOUS
<1>1. CASE UNCHANGED vars
    BY <1>1 DEF vars, catalogue, Counters, Active
<1>2. CASE Next
    BY <1>2, BeginsKeepCounters, ReadsAndFailuresKeepCounters, WritesKeepCounters,
        OthersKeepCounters DEF Next
<1> QED
    BY <1>1, <1>2

\* Whatever a request has read, what it writes is a row: with an owner, a line and
\* a quantity of at least one, under a key that was handed out once.
THEOREM CartTypes == Spec => []TypeOK
<1>1. Inv /\ Counters => TypeOK
    <2> SUFFICES ASSUME Inv, Counters PROVE TypeOK
        OBVIOUS
    <2>1. inserted \in 0 .. begun
        <3>1. Cardinality(Active) \in Nat /\ begun \in Nat /\ inserted \in Nat
            BY FS_CardinalityType, NumbersAssumption DEF Counters, Inv, Types
        <3> QED
            BY <3>1 DEF Counters
    <2>2. ASSUME NEW r \in Requests
          PROVE  /\ request[r].op \in {"idle", "add", "update", "merge", "checkout", "delete"}
                 /\ request[r].op \in {"add", "update", "merge", "checkout"} =>
                     request[r].owner \in Owners
                 /\ request[r].op = "merge" =>
                     \A g \in DOMAIN request[r].guest : request[r].guest[g] \in Row
        <3>1. request[r] \in Request
            BY DEF Inv, Types
        <3>2. /\ request[r].op \in {"idle", "add", "update", "merge", "checkout", "delete"}
              /\ request[r].op \in {"add", "update", "merge", "checkout"} =>
                  request[r].owner \in Owners
            BY <3>1 DEF Request, Idle, Owners
        <3>3. ASSUME request[r].op = "merge"
              PROVE  \A g \in DOMAIN request[r].guest : request[r].guest[g] \in Row
            <4>1. request[r].guest \in Loaded
                BY <3>1, <3>3 DEF Request, Idle
            <4> QED
                BY <4>1 DEF Loaded
        <3> QED
            BY <3>2, <3>3
    <2> QED
        BY <2>1, <2>2 DEF TypeOK, Inv, Types, Counters
<1> QED
    BY <1>1, InitInv, NextInv, InitCounters, NextCounters, PTL DEF Spec

-----------------------------------------------------------------------------
(* What requests remember of rows others may have changed *)

\* Unless another merge has committed, what a merge has loaded of the two carts is
\* theirs, or gone.
Owned(q) ==
    /\ \A i \in DOMAIN q.guest : rows[i] # NoRow => rows[i].owner = q.session
    /\ \A i \in DOMAIN q.user : rows[i] # NoRow => rows[i].owner = q.owner
    /\ DOMAIN q.guest \cap DOMAIN q.user = {}

\* The row an add has found, or an update, and the user's rows a merge has loaded, are of the
\* lines they were of, where they are still there.
Recalls(q) ==
    /\ q.op \in {"add", "update"} /\ q.row # NoId =>
        q.row <= inserted /\ (rows[q.row] # NoRow => rows[q.row].line = q.line)
    /\ q.op = "merge" =>
        /\ \A i \in DOMAIN q.user :
            i <= inserted /\ (rows[i] # NoRow => rows[i].line = q.user[i].line)
        /\ \A i, j \in DOMAIN q.user : q.user[i].line = q.user[j].line => i = j
    /\ q.op = "merge" /\ "merge" \notin q.during => Owned(q)

Memory == \A r \in Requests : Recalls(request[r])

\* A request goes on with what it has read, or is gone.
Follows(n, q) ==
    \/ n.op = "idle"
    \/ /\ n.op = q.op
       /\ n.op \in {"add", "update"} =>
            n.row = q.row /\ n.line = q.line /\ n.held = q.held /\ n.quantity = q.quantity
       /\ n.op = "merge" =>
            /\ n.guest = q.guest /\ n.user = q.user
            /\ n.owner = q.owner /\ n.session = q.session
            /\ q.during \subseteq n.during

KeepsOwners == \A i \in RowIds : i <= inserted /\ rows'[i] # NoRow =>
    rows'[i].owner = rows[i].owner
Disturbs == \A r \in Requests :
    request'[r].op = "merge" => "merge" \in request'[r].during

LEMMA RefersToRows ==
    ASSUME Types, NEW r \in Requests
    PROVE  LET q == request[r] IN
           /\ q \in Request
           /\ q.op \in {"add", "update"} /\ q.row # NoId => q.row \in RowIds
           /\ q.op = "merge" =>
                /\ DOMAIN q.guest \subseteq RowIds /\ DOMAIN q.user \subseteq RowIds
                /\ \A i \in DOMAIN q.guest : q.guest[i] \in Row
                /\ \A i \in DOMAIN q.user : q.user[i] \in Row
                /\ q.owner \in Users /\ q.session \in Sessions
<1> DEFINE q == request[r]
<1>1. q \in Request
    BY DEF Types
<1>2. q.op \in {"add", "update"} /\ q.row # NoId => q.row \in RowIds
    BY <1>1 DEF Request, Idle
<1>3. ASSUME q.op = "merge"
      PROVE  /\ q.guest \in Loaded /\ q.user \in Loaded
             /\ q.owner \in Users /\ q.session \in Sessions
    BY <1>1, <1>3 DEF Request, Idle
<1> QED
    BY <1>1, <1>2, <1>3 DEF Loaded

LEMMA FollowersRecall ==
    ASSUME Inv, NEW s \in Requests, Recalls(request[s]), Follows(request'[s], request[s]),
           KeepsLines, inserted \in Nat, inserted' \in Nat, inserted <= inserted',
           KeepsOwners \/ Disturbs
    PROVE  Recalls(request[s])'
<1> DEFINE q == request[s]
           n == request'[s]
<1>1. \A i \in RowIds : i <= inserted => i <= inserted'
    BY NumbersAssumption DEF RowIds
<1>2. /\ q.op \in {"add", "update"} /\ q.row # NoId => q.row \in RowIds
      /\ q.op = "merge" =>
            DOMAIN q.guest \subseteq RowIds /\ DOMAIN q.user \subseteq RowIds
    BY RefersToRows DEF Inv
<1>3. ASSUME n.op \in {"add", "update"}, n.row # NoId
      PROVE  n.row <= inserted' /\ (rows'[n.row] # NoRow => rows'[n.row].line = n.line)
    <2>1. q.op \in {"add", "update"} /\ n.row = q.row /\ n.line = q.line /\ n.row \in RowIds
        BY <1>2, <1>3 DEF Follows
    <2>2. q.row <= inserted /\ (rows[q.row] # NoRow => rows[q.row].line = q.line)
        BY <1>3, <2>1 DEF Recalls
    <2>3. rows'[n.row] # NoRow => rows'[n.row].line = n.line
        BY <2>1, <2>2 DEF KeepsLines
    <2> QED
        BY <1>1, <2>1, <2>2, <2>3
<1>4. ASSUME n.op = "merge"
      PROVE  /\ \A i \in DOMAIN n.user :
                i <= inserted' /\ (rows'[i] # NoRow => rows'[i].line = n.user[i].line)
             /\ \A i, j \in DOMAIN n.user : n.user[i].line = n.user[j].line => i = j
             /\ "merge" \notin n.during =>
                /\ \A i \in DOMAIN n.guest : rows'[i] # NoRow => rows'[i].owner = n.session
                /\ \A i \in DOMAIN n.user : rows'[i] # NoRow => rows'[i].owner = n.owner
                /\ DOMAIN n.guest \cap DOMAIN n.user = {}
    <2>1. /\ q.op = "merge" /\ n.guest = q.guest /\ n.user = q.user
          /\ n.owner = q.owner /\ n.session = q.session /\ q.during \subseteq n.during
        BY <1>4 DEF Follows
    <2>2. /\ \A i \in DOMAIN q.user :
              i <= inserted /\ (rows[i] # NoRow => rows[i].line = q.user[i].line)
          /\ \A i, j \in DOMAIN q.user : q.user[i].line = q.user[j].line => i = j
        BY <2>1 DEF Recalls
    <2>3. ASSUME NEW i \in DOMAIN q.user
          PROVE  i <= inserted' /\ (rows'[i] # NoRow => rows'[i].line = n.user[i].line)
        <3>1. i \in RowIds /\ i <= inserted
            BY <1>2, <2>1, <2>2
        <3>2. rows'[i] # NoRow => rows'[i].line = n.user[i].line
            BY <2>1, <2>2, <3>1 DEF KeepsLines
        <3> QED
            BY <1>1, <3>1, <3>2
    <2>4. ASSUME "merge" \notin n.during
          PROVE  /\ \A i \in DOMAIN n.guest : rows'[i] # NoRow => rows'[i].owner = n.session
                 /\ \A i \in DOMAIN n.user : rows'[i] # NoRow => rows'[i].owner = n.owner
                 /\ DOMAIN n.guest \cap DOMAIN n.user = {}
        <3>1. KeepsOwners
            BY <1>4, <2>4 DEF Disturbs
        <3>2. Owned(q)
            BY <2>1, <2>4 DEF Recalls
        <3>3. \A i \in DOMAIN q.guest : i <= inserted
            BY <2>1 DEF Inv, Loads
        <3>4. \A i \in DOMAIN q.guest : rows'[i] # NoRow => rows[i] # NoRow
            BY <1>2, <2>1, <3>3 DEF KeepsLines
        <3>5. \A i \in DOMAIN q.user : rows'[i] # NoRow => rows[i] # NoRow
            BY <1>2, <2>1, <2>2 DEF KeepsLines
        <3> QED
            BY <1>2, <2>1, <2>2, <3>1, <3>2, <3>3, <3>4, <3>5 DEF KeepsOwners, Owned
    <2> QED
        BY <2>1, <2>2, <2>3, <2>4
<1> QED
    BY <1>3, <1>4 DEF Recalls, Owned

LEMMA CommitsFollow ==
    ASSUME Types, NEW r \in Requests, NEW h \in Happenings, Abandon(r) \/ Commit(r, h)
    PROVE  /\ \A s \in Requests : Follows(request'[s], request[s])
           /\ Commit(r, "merge") => Disturbs
<1>1. Idle.op = "idle"
    BY DEF Idle
<1>2. ASSUME Abandon(r) PROVE \A s \in Requests : Follows(request'[s], request[s])
    <2>1. \A s \in Requests : request'[s] = IF s = r THEN Idle ELSE request[s]
        BY <1>2 DEF Abandon, Types
    <2> QED
        BY <1>1, <2>1 DEF Follows
<1>3. ASSUME NEW q \in Request, q # Idle, NEW k \in Happenings
      PROVE  LET n == [q EXCEPT !.during = @ \cup {k}] IN
             Follows(n, q) /\ (n.op = "merge" => k \in n.during)
    BY <1>3 DEF Request, Happenings, Follows
<1>4. ASSUME NEW k \in Happenings, Commit(r, k), NEW s \in Requests
      PROVE  /\ Follows(request'[s], request[s])
             /\ request'[s].op = "merge" => k \in request'[s].during
    <2>1. request'[s] = IF s = r \/ request[s] = Idle THEN Idle
                        ELSE [request[s] EXCEPT !.during = @ \cup {k}]
        BY <1>4 DEF Commit
    <2>2. CASE s = r \/ request[s] = Idle
        BY <1>1, <2>1, <2>2 DEF Follows
    <2>3. CASE ~(s = r \/ request[s] = Idle)
        BY <1>3, <2>1, <2>3 DEF Types
    <2> QED
        BY <2>2, <2>3
<1>5. Commit(r, "merge") => Disturbs
    BY <1>4 DEF Disturbs, Happenings
<1> QED
    BY <1>2, <1>4, <1>5

LEMMA EditsFollow ==
    ASSUME Types, EditCatalogue
    PROVE  \A s \in Requests : Follows(request'[s], request[s])
<1> SUFFICES ASSUME NEW s \in Requests PROVE Follows(request'[s], request[s])
    OBVIOUS
<1>1. request'[s] = IF request[s] = Idle THEN Idle
                    ELSE [request[s] EXCEPT !.during = @ \cup {"change"}]
    BY DEF EditCatalogue
<1>2. CASE request[s] = Idle
    BY <1>1, <1>2 DEF Idle, Follows
<1>3. CASE request[s] # Idle
    <2>1. request[s] \in Request
        BY DEF Types
    <2> QED
        BY <1>1, <1>3, <2>1 DEF Request, Happenings, Follows
<1> QED
    BY <1>2, <1>3

\* A row that stays keeps its line, and only a merge changes its owner.
LEMMA RowsKeep ==
    ASSUME Inv, [Next]_vars
    PROVE  /\ KeepsLines
           /\ inserted \in Nat /\ inserted' \in Nat /\ inserted <= inserted'
           /\ KeepsOwners \/ \E r \in Requests : MergeCommits(r)
<1>1. inserted \in Nat /\ RowIds \subseteq Nat
    BY NumbersAssumption DEF Inv, Types, RowIds
<1>2. CASE UNCHANGED <<rows, inserted>>
    BY <1>1, <1>2 DEF KeepsLines, KeepsOwners
<1>3. ASSUME NEW r \in Requests, AddInserts(r)
      PROVE  KeepsLines /\ KeepsOwners /\ inserted' = inserted + 1
    <2>1. /\ inserted' = inserted + 1
          /\ rows' = [rows EXCEPT ![inserted + 1] =
                [owner |-> request[r].owner, line |-> request[r].line,
                 quantity |-> request[r].quantity]]
        BY <1>3 DEF AddInserts
    <2>2. \A i \in RowIds : i <= inserted => rows'[i] = rows[i]
        BY <1>1, <2>1 DEF Inv, Types
    <2> QED
        BY <2>1, <2>2 DEF KeepsLines, KeepsOwners
<1>4. ASSUME NEW r \in Requests,
             \/ AddIncrements(r) \/ UpdateCommits(r) \/ ClearCart(r) \/ CheckoutClears(r)
             \/ DeleteVariantCommits(r)
      PROVE  KeepsLines /\ KeepsOwners /\ inserted' = inserted
    <2>1. inserted' = inserted
        BY <1>4 DEF AddIncrements, UpdateCommits, ClearCart, CheckoutClears,
            DeleteVariantCommits
    <2>2. \A i \in RowIds : rows'[i] # NoRow =>
            /\ rows[i] # NoRow
            /\ rows'[i].owner = rows[i].owner /\ rows'[i].line = rows[i].line
        BY <1>4, WritesThin
    <2> QED
        BY <2>1, <2>2 DEF KeepsLines, KeepsOwners
<1>5. ASSUME NEW r \in Requests, MergeCommits(r)
      PROVE  KeepsLines /\ inserted' = inserted
    BY <1>5, MergedRows DEF MergeCommits, KeepsLines
<1>6. \/ UNCHANGED <<rows, inserted>>
      \/ \E r \in Requests :
            \/ AddInserts(r)
            \/ AddIncrements(r) \/ UpdateCommits(r) \/ ClearCart(r) \/ CheckoutClears(r)
            \/ DeleteVariantCommits(r)
            \/ MergeCommits(r)
    BY DEF Next, vars, AddBegins, AddFinds, AddFails, UpdateBegins, UpdateFails,
        MergeLoadsGuest, MergeLoadsUser, MergeFails, CheckoutLoads, CheckoutFails,
        DeleteVariantBegins, EditCatalogue
<1> QED
    BY <1>1, <1>2, <1>3, <1>4, <1>5, <1>6

LEMMA InitMemory == Init => Memory
BY DEF Init, Memory, Recalls, Idle

\* One request may have changed what it remembers, the others go on with theirs.
LEMMA StepKeepsMemory ==
    ASSUME Inv, Memory, [Next]_vars, NEW r \in Requests, Recalls(request[r])',
           \A s \in Requests \ {r} : Follows(request'[s], request[s]),
           KeepsOwners \/ Disturbs
    PROVE  Memory'
<1>1. \A s \in Requests \ {r} : Recalls(request[s])'
    BY RowsKeep, FollowersRecall DEF Memory
<1> QED
    BY <1>1 DEF Memory

LEMMA FollowedMemory ==
    ASSUME Inv, Memory, [Next]_vars, \A s \in Requests : Follows(request'[s], request[s]),
           KeepsOwners \/ Disturbs
    PROVE  Memory'
<1>1. \A s \in Requests : Recalls(request[s])'
    BY RowsKeep, FollowersRecall DEF Memory
<1> QED
    BY <1>1 DEF Memory

LEMMA BeginsRecall ==
    ASSUME Inv, NEW r \in Requests,
           \/ AddBegins(r) \/ UpdateBegins(r) \/ MergeLoadsGuest(r)
           \/ CheckoutLoads(r) \/ DeleteVariantBegins(r)
    PROVE  /\ Recalls(request[r])'
           /\ \A s \in Requests \ {r} : Follows(request'[s], request[s])
           /\ KeepsOwners
<1>1. UNCHANGED <<rows, inserted>> /\ \E q : Begin(r, q)
    BY DEF AddBegins, UpdateBegins, MergeLoadsGuest, CheckoutLoads, DeleteVariantBegins
<1>2. KeepsOwners
    BY <1>1 DEF KeepsOwners
<1>3. \A s \in Requests \ {r} : Follows(request'[s], request[s])
    BY <1>1 DEF Begin, Inv, Types, Follows
<1>4. ASSUME AddBegins(r) PROVE Recalls(request[r])'
    <2>1. request'[r].op = "add" /\ request'[r].row = NoId
        BY <1>4 DEF AddBegins, Begin, Inv, Types
    <2> QED
        BY <2>1 DEF Recalls
<1>5. ASSUME CheckoutLoads(r) \/ DeleteVariantBegins(r) PROVE Recalls(request[r])'
    <2>1. request'[r].op \in {"checkout", "delete"}
        BY <1>5 DEF CheckoutLoads, DeleteVariantBegins, Begin, Inv, Types
    <2> QED
        BY <2>1 DEF Recalls
<1>6. ASSUME MergeLoadsGuest(r) PROVE Recalls(request[r])'
    <2>1. PICK s \in Sessions :
            /\ request'[r].op = "merge" /\ request'[r].session = s
            /\ request'[r].guest = Load(InScope(s)) /\ request'[r].user = Load({})
        BY <1>6 DEF MergeLoadsGuest, Begin, Inv, Types
    <2>2. DOMAIN request'[r].guest = InScope(s) /\ DOMAIN request'[r].user = {}
        BY <2>1 DEF Load
    <2>3. \A i \in InScope(s) : rows'[i].owner = s
        BY <1>1 DEF InScope
    <2> QED
        BY <2>1, <2>2, <2>3 DEF Recalls, Owned
<1>7. ASSUME UpdateBegins(r) PROVE Recalls(request[r])'
    <2>1. PICK o \in Owners : \E i \in InScope(o) :
            /\ request'[r].op = "update" /\ request'[r].row = i
            /\ request'[r].line = rows[i].line
        BY <1>7 DEF UpdateBegins, Begin, Inv, Types
    <2>2. PICK i \in InScope(o) :
            /\ request'[r].op = "update" /\ request'[r].row = i
            /\ request'[r].line = rows[i].line
        BY <2>1
    <2>3. i \in RowIds /\ rows[i] # NoRow
        BY Scopes DEF Inv
    <2>4. i <= inserted
        BY <2>3, NumbersAssumption DEF Inv, Types, Fresh, RowIds
    <2> QED
        BY <1>1, <2>2, <2>4 DEF Recalls
<1> QED
    BY <1>2, <1>3, <1>4, <1>5, <1>6, <1>7

\* An add finds a row of its line.
LEMMA AddFindsRecalls ==
    ASSUME Inv, Memory, NEW r \in Requests, AddFinds(r)
    PROVE  Recalls(request[r])'
<1> DEFINE q == request[r]
<1>1. q.op = "add" /\ q \in Request /\ UNCHANGED <<rows, inserted>>
    BY DEF AddFinds, Inv, Types
<1>2. q.owner \in Owners /\ q.row \in RowIds \cup {NoId}
    BY <1>1 DEF Request, Idle
<1>3. ASSUME NEW i \in FindExisting(q.owner, q.line),
             Proceed(r, [q EXCEPT !.found = TRUE, !.row = i, !.held = rows[i].quantity])
      PROVE  Recalls(request[r])'
    <2>1. i \in RowIds /\ rows[i] # NoRow /\ rows[i].line = q.line
        BY <1>2, Scopes DEF FindExisting, Inv
    <2>2. i <= inserted
        BY <2>1, NumbersAssumption DEF Inv, Types, Fresh, RowIds
    <2>3. request'[r].op = "add" /\ request'[r].row = i /\ request'[r].line = q.line
        BY <1>1, <1>3 DEF Proceed, Inv, Types, Request, Idle
    <2> QED
        BY <1>1, <2>1, <2>2, <2>3 DEF Recalls
<1>4. ASSUME Proceed(r, [q EXCEPT !.found = TRUE]) PROVE Recalls(request[r])'
    <2>1. /\ request'[r].op = "add" /\ request'[r].row = q.row /\ request'[r].line = q.line
        BY <1>1, <1>4 DEF Proceed, Inv, Types, Request, Idle
    <2> QED
        BY <1>1, <2>1 DEF Memory, Recalls
<1>5. ASSUME Abandon(r) PROVE Recalls(request[r])'
    BY <1>5 DEF Abandon, Inv, Types, Idle, Recalls
<1> QED
    BY <1>3, <1>4, <1>5 DEF AddFinds


\* What a merge loads of the user's cart is the user's, and of different lines.
LEMMA MergeLoadsRecalls ==
    ASSUME Inv, Memory, NEW r \in Requests, MergeLoadsUser(r)
    PROVE  Recalls(request[r])'
<1> DEFINE q == request[r]
           n == request'[r]
           mine == InScope(q.owner)
           loaded == [i \in mine |-> IF i \in DOMAIN q.guest THEN q.guest[i] ELSE rows[i]]
<1>1. /\ q.op = "merge" /\ q \in Request
      /\ Proceed(r, [q EXCEPT !.found = TRUE, !.user = loaded])
      /\ UNCHANGED <<rows, inserted>>
    BY DEF MergeLoadsUser, Inv, Types
<1>2. /\ n.op = "merge" /\ n.guest = q.guest /\ n.user = loaded
      /\ n.owner = q.owner /\ n.session = q.session /\ n.during = q.during
    BY <1>1 DEF Proceed, Inv, Types, Request, Idle
<1>3. q.owner \in Users /\ q.session \in Sessions
    BY <1>1, RefersToRows DEF Inv
<1>4. \A i \in mine : i \in RowIds /\ rows[i] # NoRow /\ rows[i].owner = q.owner
    BY <1>3, Scopes DEF Inv, Owners
<1>5. \A i \in mine : i <= inserted
    BY <1>4, NumbersAssumption DEF Inv, Types, Fresh, RowIds
<1>6. DOMAIN loaded = mine /\ \A i \in mine : loaded[i].line = rows[i].line
    BY <1>1, <1>4 DEF Inv, Loads
<1>7. \A i, j \in mine : rows[i].line = rows[j].line => i = j
    BY <1>4 DEF Inv, Single
<1>8. ASSUME "merge" \notin q.during
      PROVE  /\ \A i \in DOMAIN q.guest : rows[i] # NoRow => rows[i].owner = q.session
             /\ DOMAIN q.guest \cap mine = {}
    <2>1. \A i \in DOMAIN q.guest : rows[i] # NoRow => rows[i].owner = q.session
        BY <1>1, <1>8 DEF Memory, Recalls, Owned
    <2>2. q.owner # q.session
        BY <1>3, OwnersAssumption
    <2> QED
        BY <1>4, <2>1, <2>2
<1> HIDE DEF loaded
<1> QED
    BY <1>1, <1>2, <1>4, <1>5, <1>6, <1>7, <1>8 DEF Recalls, Owned

LEMMA NextMemory == Inv /\ Memory /\ [Next]_vars => Memory'
<1> SUFFICES ASSUME Inv, Memory, [Next]_vars PROVE Memory'
    OBVIOUS
<1>1. CASE UNCHANGED vars
    BY <1>1 DEF vars, Memory, Recalls, Owned
<1>2. ASSUME NEW r \in Requests,
             \/ AddBegins(r) \/ UpdateBegins(r) \/ MergeLoadsGuest(r)
             \/ CheckoutLoads(r) \/ DeleteVariantBegins(r)
      PROVE  Memory'
    BY <1>2, BeginsRecall, StepKeepsMemory
<1>3. ASSUME NEW r \in Requests, AddFinds(r) \/ MergeLoadsUser(r) PROVE Memory'
    <2>1. Recalls(request[r])'
        BY <1>3, AddFindsRecalls, MergeLoadsRecalls
    <2>2. /\ rows' = rows
          /\ Abandon(r) \/ \E q : Proceed(r, q)
        BY <1>3 DEF AddFinds, MergeLoadsUser
    <2>3. \A s \in Requests \ {r} : request'[s] = request[s]
        BY <2>2 DEF Abandon, Proceed, Inv, Types
    <2>4. \A s \in Requests \ {r} : Follows(request'[s], request[s])
        BY <2>3 DEF Follows
    <2>5. KeepsOwners
        BY <2>2 DEF KeepsOwners
    <2> QED
        BY <2>1, <2>4, <2>5, StepKeepsMemory
<1>4. ASSUME NEW r \in Requests, NEW h \in Happenings, Abandon(r) \/ Commit(r, h),
             KeepsOwners \/ Commit(r, "merge")
      PROVE  Memory'
    BY <1>4, CommitsFollow, FollowedMemory DEF Inv
<1>5. ASSUME NEW r \in Requests,
             \/ AddFails(r) \/ UpdateFails(r) \/ MergeFails(r) \/ CheckoutFails(r)
      PROVE  Memory'
    <2>1. Abandon(r) /\ rows' = rows
        BY <1>5 DEF AddFails, UpdateFails, MergeFails, CheckoutFails
    <2>2. KeepsOwners
        BY <2>1 DEF KeepsOwners
    <2> QED
        BY <1>4, <2>1, <2>2 DEF Happenings
<1>6. ASSUME NEW r \in Requests,
             \/ AddIncrements(r) \/ UpdateCommits(r) \/ ClearCart(r) \/ CheckoutClears(r)
             \/ DeleteVariantCommits(r)
      PROVE  Memory'
    <2>1. Commit(r, "change")
        BY <1>6 DEF AddIncrements, UpdateCommits, ClearCart, CheckoutClears,
            DeleteVariantCommits
    <2>2. KeepsOwners
        BY <1>6, WritesThin DEF KeepsOwners
    <2> QED
        BY <1>4, <2>1, <2>2 DEF Happenings
<1>7. ASSUME NEW r \in Requests, AddInserts(r) PROVE Memory'
    <2>1. Commit(r, "change")
        BY <1>7 DEF AddInserts
    <2>2. KeepsOwners
        <3>1. \A i \in RowIds : i <= inserted => i # inserted + 1
            BY NumbersAssumption DEF Inv, Types, RowIds
        <3> QED
            BY <1>7, <3>1 DEF AddInserts, KeepsOwners, Inv, Types
    <2> QED
        BY <1>4, <2>1, <2>2 DEF Happenings
<1>8. ASSUME NEW r \in Requests, MergeCommits(r) PROVE Memory'
    BY <1>4, <1>8 DEF MergeCommits, Happenings
<1>9. CASE EditCatalogue
    <2>1. KeepsOwners
        BY <1>9 DEF EditCatalogue, KeepsOwners
    <2> QED
        BY <1>9, <2>1, EditsFollow, FollowedMemory DEF Inv
<1> QED
    BY <1>1, <1>2, <1>3, <1>5, <1>6, <1>7, <1>8, <1>9 DEF Next

-----------------------------------------------------------------------------
(* No quantity is invented *)

\* What a request may still write of a line it has read, row by row.  A merge that
\* another one has overtaken is not counted: if it commits, the two were twins.
Recollects(q, l, w) ==
    /\ q.op = "add" /\ q.row # NoId /\ q.line = l =>
        (rows[q.row] # NoRow => q.held <= w[q.row])
    /\ q.op = "merge" /\ "merge" \notin q.during =>
        /\ \A i \in DOMAIN q.guest : q.guest[i].line = l => q.guest[i].quantity <= w[i]
        /\ \A i \in DOMAIN q.user : q.user[i].line = l => q.user[i].quantity <= w[i]

\* w bounds, for every row of the line, what it holds and what anyone remembers it
\* to have held.
Carries(l, w) ==
    /\ w \in [RowIds -> Nat]
    /\ \A i \in RowIds :
        rows[i] # NoRow /\ rows[i].line = l => rows[i].quantity <= w[i]
    /\ \A r \in Requests : Recollects(request[r], l, w)

\* Not only what the carts hold, but the most they may go back to, was asked for.
Peaks == ~twins => \A l \in Lines : \E w : Carries(l, w) /\ SumFunction(w) <= asked[l]

LEMMA FollowersRecollect ==
    ASSUME Inv, Memory, KeepsLines, NEW s \in Requests, NEW l, NEW w \in [RowIds -> Nat],
           NEW v \in [RowIds -> Nat], Recollects(request[s], l, w),
           Follows(request'[s], request[s]),
           \A i \in RowIds : rows'[i] # NoRow => w[i] <= v[i],
           (\A i \in RowIds : w[i] <= v[i]) \/ Disturbs
    PROVE  Recollects(request[s], l, v)'
<1> DEFINE q == request[s]
           n == request'[s]
<1>1. /\ q.op = "add" /\ q.row # NoId => q.row \in RowIds /\ q.held \in Nat
      /\ q.op = "merge" =>
            /\ DOMAIN q.guest \subseteq RowIds /\ DOMAIN q.user \subseteq RowIds
            /\ \A i \in DOMAIN q.guest : q.guest[i] \in Row
            /\ \A i \in DOMAIN q.user : q.user[i] \in Row
    BY RefersToRows DEF Inv, Request, Idle
<1>2. ASSUME n.op = "add", n.row # NoId, n.line = l, rows'[n.row] # NoRow
      PROVE  n.held <= v[n.row]
    <2>1. /\ q.op = "add" /\ n.row = q.row /\ n.line = q.line /\ n.held = q.held
          /\ q.row \in RowIds /\ q.held \in Nat
        BY <1>1, <1>2 DEF Follows
    <2>2. rows[q.row] # NoRow
        BY <1>2, <2>1 DEF Memory, Recalls, KeepsLines
    <2>3. q.held <= w[q.row] /\ w[q.row] <= v[q.row]
        BY <1>2, <2>1, <2>2 DEF Recollects
    <2>4. w[q.row] \in Nat /\ v[q.row] \in Nat
        BY <2>1
    <2> QED
        BY <2>1, <2>3, <2>4
<1>3. ASSUME n.op = "merge", "merge" \notin n.during
      PROVE  /\ \A i \in DOMAIN n.guest : n.guest[i].line = l => n.guest[i].quantity <= v[i]
             /\ \A i \in DOMAIN n.user : n.user[i].line = l => n.user[i].quantity <= v[i]
    <2>1. /\ q.op = "merge" /\ n.guest = q.guest /\ n.user = q.user
          /\ "merge" \notin q.during
        BY <1>3 DEF Follows
    <2>2. \A i \in RowIds : w[i] <= v[i] /\ w[i] \in Nat /\ v[i] \in Nat
        BY <1>3 DEF Disturbs
    <2>3. /\ \A i \in DOMAIN q.guest : q.guest[i].line = l => q.guest[i].quantity <= w[i]
          /\ \A i \in DOMAIN q.user : q.user[i].line = l => q.user[i].quantity <= w[i]
        BY <2>1 DEF Recollects
    <2>4. /\ \A i \in DOMAIN q.guest : i \in RowIds /\ q.guest[i].quantity \in Nat
          /\ \A i \in DOMAIN q.user : i \in RowIds /\ q.user[i].quantity \in Nat
        BY <1>1, <2>1 DEF Row
    <2>5. ASSUME NEW i \in DOMAIN q.guest, q.guest[i].line = l PROVE q.guest[i].quantity <= v[i]
        BY <2>2, <2>3, <2>4, <2>5
    <2>6. ASSUME NEW i \in DOMAIN q.user, q.user[i].line = l PROVE q.user[i].quantity <= v[i]
        BY <2>2, <2>3, <2>4, <2>6
    <2> QED
        BY <2>1, <2>5, <2>6
<1> QED
    BY <1>2, <1>3 DEF Recollects

\* A step of r carries the bounds over, when they cover what it writes and reads.
LEMMA StepCarries ==
    ASSUME Inv, Memory, [Next]_vars, NEW r \in Requests, NEW l \in Lines, NEW w, Carries(l, w),
           NEW v \in [RowIds -> Nat],
           \A i \in RowIds : rows'[i] # NoRow => w[i] <= v[i],
           (\A i \in RowIds : w[i] <= v[i]) \/ Disturbs,
           \A i \in RowIds : rows'[i] # NoRow /\ rows'[i].line = l => rows'[i].quantity <= v[i],
           \A s \in Requests \ {r} : Follows(request'[s], request[s]),
           Follows(request'[r], request[r]) \/ Recollects(request[r], l, v)'
    PROVE  Carries(l, v)'
<1>1. KeepsLines
    BY RowsKeep
<1>2. w \in [RowIds -> Nat] /\ \A s \in Requests : Recollects(request[s], l, w)
    BY DEF Carries
<1>3. ASSUME NEW s \in Requests, Follows(request'[s], request[s])
      PROVE  Recollects(request[s], l, v)'
    BY <1>1, <1>2, <1>3, FollowersRecollect
<1>4. \A s \in Requests : Recollects(request[s], l, v)'
    BY <1>3
<1> QED
    BY <1>4 DEF Carries

\* Nothing was asked for, and nothing written.
LEMMA UnchangedPeaks ==
    ASSUME Inv, Memory, Peaks, [Next]_vars, NEW r \in Requests,
           twins => twins', UNCHANGED asked,
           \A i \in RowIds : rows'[i] # NoRow =>
               /\ rows[i] # NoRow /\ rows'[i].line = rows[i].line
               /\ rows'[i].quantity = rows[i].quantity,
           \A s \in Requests \ {r} : Follows(request'[s], request[s]),
           \/ Follows(request'[r], request[r])
           \/ \A l \in Lines : \A w : Carries(l, w) => Recollects(request[r], l, w)'
    PROVE  Peaks'
<1> SUFFICES ASSUME ~twins', NEW l \in Lines
             PROVE  \E w : Carries(l, w)' /\ SumFunction(w) <= asked'[l]
    BY DEF Peaks
<1>1. PICK w : Carries(l, w) /\ SumFunction(w) <= asked[l]
    BY DEF Peaks
<1>2. w \in [RowIds -> Nat]
    BY <1>1 DEF Carries
<1>3. \A i \in RowIds : w[i] <= w[i]
    BY <1>2
<1>4. \A i \in RowIds : rows'[i] # NoRow /\ rows'[i].line = l => rows'[i].quantity <= w[i]
    BY <1>1 DEF Carries
<1>5. Carries(l, w)'
    BY <1>1, <1>2, <1>3, <1>4, StepCarries
<1> QED
    BY <1>1, <1>5

LEMMA RowIdsFinite == IsFiniteSet(RowIds)
BY NumbersAssumption, FS_Interval DEF RowIds

\* A step raises what row k may hold of line m by n, at most, and no other row's
\* of that line; rows of other lines stay or go.
Raises(k, n, m) ==
    /\ \A w : Carries(m, w) => \A i \in RowIds :
        rows'[i] # NoRow /\ rows'[i].line = m =>
            rows'[i].quantity <= IF i = k THEN w[i] + n ELSE w[i]
    /\ \A i \in RowIds : rows'[i] # NoRow /\ rows'[i].line # m =>
        /\ rows[i] # NoRow /\ rows'[i].line = rows[i].line
        /\ rows'[i].quantity = rows[i].quantity

\* What is asked for raises the bound of the one row it may be written to.
LEMMA AskedPeaks ==
    ASSUME Inv, Counters, Memory, Peaks, [Next]_vars, NEW r \in Requests,
           NEW k \in RowIds, NEW n \in Nat, NEW m \in Lines,
           UNCHANGED twins, asked' = [asked EXCEPT ![m] = @ + n],
           Raises(k, n, m),
           \A s \in Requests : Follows(request'[s], request[s])
    PROVE  Peaks'
<1> SUFFICES ASSUME ~twins', NEW l \in Lines
             PROVE  \E w : Carries(l, w)' /\ SumFunction(w) <= asked'[l]
    BY DEF Peaks
<1>1. PICK w : Carries(l, w) /\ SumFunction(w) <= asked[l]
    BY DEF Peaks
<1>2. w \in [RowIds -> Nat]
    BY <1>1 DEF Carries
<1>3. asked \in [Lines -> Nat]
    BY DEF Counters
<1>4. CASE l # m
    <2>1. \A i \in RowIds : w[i] <= w[i]
        BY <1>2
    <2>2. \A i \in RowIds : rows'[i] # NoRow /\ rows'[i].line = l => rows'[i].quantity <= w[i]
        BY <1>1, <1>4 DEF Carries, Raises
    <2>3. Carries(l, w)'
        BY <1>1, <1>2, <2>1, <2>2, StepCarries
    <2>4. asked'[l] = asked[l]
        BY <1>3, <1>4
    <2> QED
        BY <1>1, <2>3, <2>4
<1>5. CASE l = m
    <2> DEFINE v == [i \in RowIds |-> IF i = k THEN w[i] + n ELSE w[i]]
    <2>1. /\ v \in [RowIds -> Nat] /\ DOMAIN v = RowIds
          /\ \A i \in RowIds : v[i] = IF i = k THEN w[i] + n ELSE w[i]
        BY <1>2
    <2> HIDE DEF v
    <2>2. \A i \in RowIds : w[i] <= v[i]
        BY <1>2, <2>1
    <2>3. \A i \in RowIds : rows'[i] # NoRow /\ rows'[i].line = l => rows'[i].quantity <= v[i]
        BY <1>1, <1>5, <2>1 DEF Raises
    <2>4. Carries(l, v)'
        BY <1>1, <2>1, <2>2, <2>3, StepCarries
    <2>5. /\ \A i \in RowIds : w[i] \in Int /\ v[i] \in Int
          /\ \A i \in RowIds : i # k => w[i] = v[i]
          /\ v[k] = w[k] + n /\ w[k] \in Nat
        BY <1>2, <2>1
    <2>6. /\ SumFunctionOnSet(v, RowIds) = SumFunctionOnSet(w, RowIds) + v[k] - w[k]
          /\ SumFunctionOnSet(w, RowIds) \in Int
        BY <2>5, RowIdsFinite, SumUpdate, SumIsInt
    <2>7. SumFunction(v) = SumFunctionOnSet(v, RowIds) /\ SumFunction(w) = SumFunctionOnSet(w, RowIds)
        BY <1>2, <2>1 DEF SumFunction
    <2>8. asked'[l] = asked[l] + n /\ asked[l] \in Nat
        BY <1>3, <1>5
    <2>9. SumFunction(v) <= asked'[l]
        BY <1>1, <2>5, <2>6, <2>7, <2>8
    <2> QED
        BY <2>4, <2>9
<1> QED
    BY <1>4, <1>5

LEMMA KeysLast ==
    ASSUME Inv, Counters, NEW r \in Requests, request[r] # Idle
    PROVE  inserted + 1 \in RowIds
<1>1. Active # {} /\ IsFiniteSet(Active) /\ Cardinality(Active) \in Nat
    BY FS_CardinalityType DEF Counters, Active
<1>2. Cardinality(Active) # 0
    BY <1>1, FS_EmptySet
<1>3. begun \in Nat /\ begun <= MaxRequests /\ inserted \in Nat /\ MaxRequests \in Nat
    BY NumbersAssumption DEF Counters, Inv, Types
<1> QED
    BY <1>1, <1>2, <1>3 DEF Counters, RowIds

LEMMA AddsKeepPeaks ==
    ASSUME Inv, Counters, Memory, Peaks, [Next]_vars, NEW r \in Requests,
           AddInserts(r) \/ AddIncrements(r)
    PROVE  Peaks'
<1> DEFINE q == request[r]
<1>1. /\ q.op = "add" /\ Commit(r, "change") /\ UNCHANGED twins
      /\ asked' = [asked EXCEPT ![q.line] = @ + q.quantity]
    BY DEF AddInserts, AddIncrements
<1>2. q \in Request /\ q.line \in Lines /\ q.quantity \in Nat /\ q.held \in Nat
    BY <1>1, RefersToRows DEF Inv, Request, Idle
<1>3. \A s \in Requests : Follows(request'[s], request[s])
    BY <1>1, CommitsFollow DEF Inv, Happenings
<1>4. ASSUME NEW w, Carries(q.line, w)
      PROVE  /\ \A i \in RowIds : w[i] \in Nat
             /\ \A i \in RowIds : rows[i] # NoRow /\ rows[i].line = q.line =>
                    rows[i].quantity <= w[i]
             /\ q.row # NoId /\ rows[q.row] # NoRow => q.held <= w[q.row]
    BY <1>1, <1>4 DEF Carries, Recollects
<1>5. CASE AddInserts(r)
    <2> DEFINE new == [owner |-> q.owner, line |-> q.line, quantity |-> q.quantity]
    <2>1. inserted + 1 \in RowIds
        BY <1>1, KeysLast DEF Idle
    <2>2. \A i \in RowIds : rows'[i] = IF i = inserted + 1 THEN new ELSE rows[i]
        BY <1>5 DEF AddInserts, Inv, Types
    <2>3. new.line = q.line /\ new.quantity = q.quantity
        OBVIOUS
    <2> HIDE DEF new
    <2>4. ASSUME NEW w, Carries(q.line, w), NEW i \in RowIds,
                 rows'[i] # NoRow, rows'[i].line = q.line
          PROVE  rows'[i].quantity <= IF i = inserted + 1 THEN w[i] + q.quantity ELSE w[i]
        BY <1>2, <1>4, <2>2, <2>3, <2>4
    <2>5. ASSUME NEW i \in RowIds, rows'[i] # NoRow, rows'[i].line # q.line
          PROVE  /\ rows[i] # NoRow /\ rows'[i].line = rows[i].line
                 /\ rows'[i].quantity = rows[i].quantity
        BY <2>2, <2>3, <2>5
    <2>6. Raises(inserted + 1, q.quantity, q.line)
        BY <2>4, <2>5 DEF Raises
    <2> QED
        BY <1>1, <1>2, <1>3, <2>1, <2>6, AskedPeaks
<1>6. CASE AddIncrements(r)
    <2>1. q.row \in RowIds /\ rows[q.row] # NoRow /\ q.row # NoId
        BY <1>6, RefersToRows DEF AddIncrements, Inv
    <2>2. \A i \in RowIds : rows'[i] # NoRow =>
            /\ rows[i] # NoRow /\ rows'[i].line = rows[i].line
            /\ \/ rows'[i].quantity = rows[i].quantity
               \/ i = q.row /\ rows'[i].quantity = q.held + q.quantity
        BY <1>1, <1>6, WritesThin DEF UpdateCommits
    <2>3. rows[q.row].line = q.line
        BY <1>1, <2>1 DEF Memory, Recalls
    <2>4. ASSUME NEW w, Carries(q.line, w), NEW i \in RowIds,
                 rows'[i] # NoRow, rows'[i].line = q.line
          PROVE  rows'[i].quantity <= IF i = q.row THEN w[i] + q.quantity ELSE w[i]
        <3>1. rows[i].quantity \in Nat
            BY <2>2, <2>4 DEF Inv, Types, Row
        <3> QED
            BY <1>2, <1>4, <2>1, <2>2, <2>4, <3>1
    <2>5. ASSUME NEW i \in RowIds, rows'[i] # NoRow, rows'[i].line # q.line
          PROVE  /\ rows[i] # NoRow /\ rows'[i].line = rows[i].line
                 /\ rows'[i].quantity = rows[i].quantity
        BY <2>2, <2>3, <2>5
    <2>6. Raises(q.row, q.quantity, q.line)
        BY <2>4, <2>5 DEF Raises
    <2> QED
        BY <1>1, <1>2, <1>3, <2>1, <2>6, AskedPeaks
<1> QED
    BY <1>5, <1>6

LEMMA UpdatesKeepPeaks ==
    ASSUME Inv, Counters, Memory, Peaks, [Next]_vars, NEW r \in Requests, UpdateCommits(r)
    PROVE  Peaks'
<1> DEFINE q == request[r]
<1>1. /\ q.op = "update" /\ Commit(r, "change") /\ UNCHANGED twins
      /\ asked' = [asked EXCEPT ![q.line] = @ + q.quantity]
    BY DEF UpdateCommits
<1>2. q.line \in Lines /\ q.quantity \in Nat /\ q.row \in RowIds /\ q.row # NoId
    BY <1>1, RefersToRows, NumbersAssumption DEF Inv, Request, Idle, RowIds, NoId
<1>3. \A s \in Requests : Follows(request'[s], request[s])
    BY <1>1, CommitsFollow DEF Inv, Happenings
<1>4. \A i \in RowIds : rows'[i] # NoRow =>
        /\ rows[i] # NoRow /\ rows'[i].line = rows[i].line
        /\ \/ rows'[i].quantity = rows[i].quantity
           \/ i = q.row /\ rows'[i].quantity = q.quantity
    BY <1>1, WritesThin DEF AddIncrements
<1>5. rows[q.row] # NoRow => rows[q.row].line = q.line
    BY <1>1, <1>2 DEF Memory, Recalls
<1>6. ASSUME NEW w, Carries(q.line, w), NEW i \in RowIds,
             rows'[i] # NoRow, rows'[i].line = q.line
      PROVE  rows'[i].quantity <= IF i = q.row THEN w[i] + q.quantity ELSE w[i]
    <2>1. w[i] \in Nat /\ rows[i].quantity <= w[i]
        BY <1>4, <1>6 DEF Carries
    <2>2. rows[i].quantity \in Nat
        BY <1>4, <1>6 DEF Inv, Types, Row
    <2> QED
        BY <1>2, <1>4, <1>6, <2>1, <2>2
<1>7. Raises(q.row, q.quantity, q.line)
    BY <1>4, <1>5, <1>6 DEF Raises
<1> QED
    BY <1>1, <1>2, <1>3, <1>7, AskedPeaks

\* What an add, or a merge, reads of a row was within the bound already.
LEMMA AddFindsRecollects ==
    ASSUME Inv, NEW r \in Requests, AddFinds(r), NEW l, NEW w, Carries(l, w)
    PROVE  Recollects(request[r], l, w)'
<1> DEFINE q == request[r]
<1>1. q.op = "add" /\ q \in Request /\ rows' = rows
    BY DEF AddFinds, Inv, Types
<1>2. q.owner \in Owners
    BY <1>1 DEF Request, Idle
<1>3. /\ \A i \in RowIds : rows[i] # NoRow /\ rows[i].line = l => rows[i].quantity <= w[i]
      /\ Recollects(q, l, w)
    BY DEF Carries
<1>4. ASSUME NEW i \in FindExisting(q.owner, q.line),
             Proceed(r, [q EXCEPT !.found = TRUE, !.row = i, !.held = rows[i].quantity])
      PROVE  Recollects(request[r], l, w)'
    <2>1. i \in RowIds /\ rows[i] # NoRow /\ rows[i].line = q.line
        BY <1>2, Scopes DEF FindExisting, Inv
    <2>2. /\ request'[r].op = "add" /\ request'[r].row = i
          /\ request'[r].line = q.line /\ request'[r].held = rows[i].quantity
        BY <1>1, <1>4 DEF Proceed, Inv, Types, Request, Idle
    <2> QED
        BY <1>1, <1>3, <2>1, <2>2 DEF Recollects
<1>5. ASSUME Proceed(r, [q EXCEPT !.found = TRUE]) PROVE Recollects(request[r], l, w)'
    <2>1. /\ request'[r].op = "add" /\ request'[r].row = q.row
          /\ request'[r].line = q.line /\ request'[r].held = q.held
        BY <1>1, <1>5 DEF Proceed, Inv, Types, Request, Idle
    <2> QED
        BY <1>1, <1>3, <2>1 DEF Recollects
<1>6. ASSUME Abandon(r) PROVE Recollects(request[r], l, w)'
    BY <1>6 DEF Abandon, Inv, Types, Idle, Recollects
<1> QED
    BY <1>4, <1>5, <1>6 DEF AddFinds

LEMMA MergeLoadsRecollects ==
    ASSUME Inv, NEW r \in Requests, NEW l, NEW w, Carries(l, w),
           MergeLoadsGuest(r) \/ MergeLoadsUser(r)
    PROVE  Recollects(request[r], l, w)'
<1>1. rows' = rows
    BY DEF MergeLoadsGuest, MergeLoadsUser
<1>2. \A i \in RowIds : rows[i] # NoRow /\ rows[i].line = l => rows[i].quantity <= w[i]
    BY DEF Carries
<1>3. ASSUME MergeLoadsGuest(r) PROVE Recollects(request[r], l, w)'
    <2>1. PICK s \in Sessions :
            /\ request'[r].op = "merge"
            /\ request'[r].guest = Load(InScope(s)) /\ request'[r].user = Load({})
        BY <1>3 DEF MergeLoadsGuest, Begin, Inv, Types
    <2>2. /\ DOMAIN request'[r].guest = InScope(s) /\ DOMAIN request'[r].user = {}
          /\ \A i \in InScope(s) : request'[r].guest[i] = rows[i]
        BY <2>1 DEF Load
    <2>3. \A i \in InScope(s) : i \in RowIds /\ rows[i] # NoRow
        BY Scopes DEF Inv, Owners
    <2> QED
        BY <1>2, <2>1, <2>2, <2>3 DEF Recollects
<1>4. ASSUME MergeLoadsUser(r) PROVE Recollects(request[r], l, w)'
    <2> DEFINE q == request[r]
               n == request'[r]
               mine == InScope(q.owner)
               loaded == [i \in mine |-> IF i \in DOMAIN q.guest THEN q.guest[i] ELSE rows[i]]
    <2>1. /\ q.op = "merge" /\ q \in Request
          /\ Proceed(r, [q EXCEPT !.found = TRUE, !.user = loaded])
        BY <1>4 DEF MergeLoadsUser, Inv, Types
    <2>2. n.op = "merge" /\ n.guest = q.guest /\ n.user = loaded /\ n.during = q.during
        BY <2>1 DEF Proceed, Inv, Types, Request, Idle
    <2>3. q.owner \in Owners
        BY <2>1, RefersToRows DEF Inv, Owners
    <2>4. \A i \in mine : i \in RowIds /\ rows[i] # NoRow
        BY <2>3, Scopes DEF Inv
    <2>5. DOMAIN loaded = mine
          /\ \A i \in mine : loaded[i] = IF i \in DOMAIN q.guest THEN q.guest[i] ELSE rows[i]
        OBVIOUS
    <2>6. Recollects(q, l, w)
        BY DEF Carries
    <2> HIDE DEF loaded
    <2> QED
        BY <1>2, <2>1, <2>2, <2>4, <2>5, <2>6 DEF Recollects
<1> QED
    BY <1>3, <1>4

LEMMA OtherBeginsRecollect ==
    ASSUME Inv, NEW r \in Requests, NEW l, NEW w,
           AddBegins(r) \/ UpdateBegins(r) \/ CheckoutLoads(r) \/ DeleteVariantBegins(r)
    PROVE  Recollects(request[r], l, w)'
<1>1. \/ request'[r].op = "add" /\ request'[r].row = NoId
      \/ request'[r].op \in {"update", "checkout", "delete"}
    BY DEF AddBegins, UpdateBegins, CheckoutLoads, DeleteVariantBegins, Begin, Inv, Types
<1> QED
    BY <1>1 DEF Recollects

LEMMA SumMoves ==
    ASSUME NEW w \in [RowIds -> Nat], NEW v \in [RowIds -> Nat],
           NEW k \in RowIds, NEW g \in RowIds, g # k,
           \A i \in RowIds : v[i] = IF i = k THEN w[k] + w[g] ELSE IF i = g THEN 0 ELSE w[i]
    PROVE  SumFunction(v) = SumFunction(w)
<1> DEFINE u == [i \in RowIds |-> IF i = k THEN w[k] + w[g] ELSE w[i]]
<1>1. \A i \in RowIds : u[i] = IF i = k THEN w[k] + w[g] ELSE w[i]
    OBVIOUS
<1> HIDE DEF u
<1>2. \A i \in RowIds : w[i] \in Nat /\ v[i] \in Nat
    OBVIOUS
<1>3. \A i \in RowIds : w[i] \in Int /\ u[i] \in Int /\ v[i] \in Int
    BY <1>1, <1>2
<1>4. SumFunctionOnSet(u, RowIds) = SumFunctionOnSet(w, RowIds) + u[k] - w[k]
    BY <1>1, <1>3, RowIdsFinite, SumUpdate
<1>5. SumFunctionOnSet(v, RowIds) = SumFunctionOnSet(u, RowIds) + v[g] - u[g]
    BY <1>1, <1>3, RowIdsFinite, SumUpdate
<1>6. u[k] = w[k] + w[g] /\ u[g] = w[g] /\ v[g] = 0
    BY <1>1
<1>7. SumFunctionOnSet(w, RowIds) \in Int
    BY <1>3, RowIdsFinite, SumIsInt
<1>8. SumFunctionOnSet(v, RowIds) = SumFunctionOnSet(w, RowIds)
    BY <1>2, <1>4, <1>5, <1>6, <1>7
<1> QED
    BY <1>8 DEF SumFunction

\* A row that grows is the only one of its line to do so, by what one guest row of
\* that line, which goes, was loaded with.
LEMMA GrownAlone ==
    ASSUME Inv, Memory, NEW r \in Requests, MergeCommits(r), NEW k \in Grown(request[r])
    PROVE  LET q == request[r] IN
           /\ k \in RowIds /\ k \in DOMAIN q.user /\ rows[k].line = q.user[k].line
           /\ \A i \in Grown(q) : rows[i].line = rows[k].line => i = k
           /\ \E g \in Absorbed(q) :
                /\ g \in RowIds /\ g # k /\ rows'[g] = NoRow
                /\ g \in DOMAIN q.guest /\ q.guest[g].line = q.user[k].line
                /\ Increment(q, k) = q.user[k].quantity + q.guest[g].quantity
<1> DEFINE q == request[r]
           g == CHOOSE g \in Absorbed(q) : k \in Partners(q, g)
<1>1. q.op = "merge" /\ Mergeable(q) /\ rows' = Merged(q)
    BY DEF MergeCommits
<1>2. DOMAIN q.guest \subseteq RowIds /\ DOMAIN q.user \subseteq RowIds
    BY <1>1, RefersToRows DEF Inv
<1>3. \A i \in Grown(q) : i \in DOMAIN q.user /\ rows[i] # NoRow
    BY <1>1 DEF Grown, Partners, Mergeable
<1>4. \A i \in Grown(q) : rows[i].line = q.user[i].line
    BY <1>1, <1>3 DEF Memory, Recalls
<1>5. \A i \in Grown(q) : rows[i].line = rows[k].line => i = k
    BY <1>1, <1>3, <1>4 DEF Memory, Recalls
<1>6. \E h \in Absorbed(q) : k \in Partners(q, h)
    BY DEF Grown
<1>7. g \in Absorbed(q) /\ k \in Partners(q, g)
    BY <1>6
<1>8. g \in DOMAIN q.guest /\ g \in RowIds /\ q.guest[g].line = q.user[k].line
    BY <1>2, <1>7 DEF Absorbed, Partners
<1>9. g # k /\ rows'[g] = NoRow
    BY <1>1, <1>7, <1>8 DEF Grown, Merged
<1>10. Increment(q, k) = q.user[k].quantity + q.guest[g].quantity
    BY DEF Increment
<1> HIDE DEF g
<1> QED
    BY <1>2, <1>3, <1>4, <1>5, <1>7, <1>8, <1>9, <1>10

LEMMA MergeKeepsPeaks ==
    ASSUME Inv, Memory, Peaks, [Next]_vars, NEW r \in Requests, MergeCommits(r)
    PROVE  Peaks'
<1> DEFINE q == request[r]
<1>1. /\ q.op = "merge" /\ Commit(r, "merge") /\ UNCHANGED asked
      /\ twins' = (twins \/ "merge" \in q.during)
    BY DEF MergeCommits
<1> SUFFICES ASSUME ~twins', NEW l \in Lines
             PROVE  \E w : Carries(l, w)' /\ SumFunction(w) <= asked'[l]
    BY DEF Peaks
<1>2. ~twins /\ "merge" \notin q.during
    BY <1>1
<1>3. PICK w : Carries(l, w) /\ SumFunction(w) <= asked[l]
    BY <1>2 DEF Peaks
<1>4. /\ w \in [RowIds -> Nat]
      /\ \A i \in RowIds : rows[i] # NoRow /\ rows[i].line = l => rows[i].quantity <= w[i]
      /\ \A i \in DOMAIN q.guest : q.guest[i].line = l => q.guest[i].quantity <= w[i]
      /\ \A i \in DOMAIN q.user : q.user[i].line = l => q.user[i].quantity <= w[i]
    BY <1>1, <1>2, <1>3 DEF Carries, Recollects
<1>5. Disturbs /\ \A s \in Requests : Follows(request'[s], request[s])
    BY <1>1, CommitsFollow DEF Inv, Happenings
<1>6. \A i \in RowIds : rows'[i] # NoRow =>
        /\ rows[i] # NoRow /\ rows'[i].line = rows[i].line
        /\ \/ rows'[i].quantity = rows[i].quantity
           \/ i \in Grown(q) /\ rows'[i].quantity = Increment(q, i)
    BY MergedRows
<1>7. CASE \A k \in Grown(q) : rows[k].line # l
    <2>1. \A i \in RowIds : rows'[i] # NoRow /\ rows'[i].line = l => rows'[i].quantity <= w[i]
        BY <1>4, <1>6, <1>7
    <2>2. \A i \in RowIds : w[i] <= w[i]
        BY <1>4
    <2>3. Carries(l, w)'
        BY <1>3, <1>4, <1>5, <2>1, <2>2, StepCarries
    <2> QED
        BY <1>1, <1>3, <2>3
<1>8. ASSUME NEW k \in Grown(q), rows[k].line = l
      PROVE  \E v : Carries(l, v)' /\ SumFunction(v) <= asked'[l]
    <2>1. /\ k \in RowIds /\ k \in DOMAIN q.user /\ q.user[k].line = l
          /\ \A i \in Grown(q) : rows[i].line = l => i = k
        BY <1>8, GrownAlone
    <2>2. PICK g \in RowIds :
            /\ g # k /\ rows'[g] = NoRow
            /\ g \in DOMAIN q.guest /\ q.guest[g].line = l
            /\ Increment(q, k) = q.user[k].quantity + q.guest[g].quantity
        BY <1>8, <2>1, GrownAlone
    <2> DEFINE v == [i \in RowIds |->
                        IF i = k THEN w[k] + w[g] ELSE IF i = g THEN 0 ELSE w[i]]
    <2>3. /\ v \in [RowIds -> Nat]
          /\ \A i \in RowIds : v[i] = IF i = k THEN w[k] + w[g] ELSE IF i = g THEN 0 ELSE w[i]
        BY <1>4, <2>1
    <2> HIDE DEF v
    <2>4. \A i \in RowIds : w[i] \in Nat /\ v[i] \in Nat
        BY <1>4, <2>3
    <2>5. \A i \in RowIds : rows'[i] # NoRow => w[i] <= v[i]
        BY <2>2, <2>3, <2>4
    <2>6. Increment(q, k) <= v[k]
        <3>1. q.user[k].quantity \in Nat /\ q.guest[g].quantity \in Nat
            BY <1>1, <2>1, <2>2, RefersToRows DEF Inv, Row
        <3>2. q.user[k].quantity <= w[k] /\ q.guest[g].quantity <= w[g]
            BY <1>4, <2>1, <2>2
        <3>3. w[k] \in Nat /\ w[g] \in Nat /\ v[k] = w[k] + w[g]
            BY <2>1, <2>3, <2>4
        <3> QED
            BY <2>2, <3>1, <3>2, <3>3
    <2>7. ASSUME NEW i \in RowIds, rows'[i] # NoRow, rows'[i].line = l
          PROVE  rows'[i].quantity <= v[i]
        <3>1. CASE rows'[i].quantity = rows[i].quantity
            <4>1. rows[i].quantity <= w[i] /\ w[i] <= v[i]
                BY <1>4, <1>6, <2>5, <2>7
            <4>2. rows[i].quantity \in Nat
                BY <1>6, <2>7 DEF Inv, Types, Row
            <4> QED
                BY <2>4, <3>1, <4>1, <4>2
        <3>2. CASE i \in Grown(q) /\ rows'[i].quantity = Increment(q, i)
            BY <1>6, <2>1, <2>6, <2>7, <3>2
        <3> QED
            BY <1>6, <2>7, <3>1, <3>2
    <2>8. Carries(l, v)'
        BY <1>3, <1>5, <2>3, <2>5, <2>7, StepCarries
    <2>9. SumFunction(v) = SumFunction(w)
        BY <1>4, <2>1, <2>2, <2>3, SumMoves
    <2> QED
        BY <1>1, <1>3, <2>8, <2>9
<1> QED
    BY <1>7, <1>8

LEMMA InitPeaks == Init => Peaks
<1> SUFFICES ASSUME Init, NEW l \in Lines
             PROVE  \E w : Carries(l, w) /\ SumFunction(w) <= asked[l]
    BY DEF Peaks
<1> DEFINE w == [i \in RowIds |-> 0]
<1>1. Carries(l, w)
    BY DEF Init, Carries, Recollects, Idle
<1>2. SumFunctionOnSet(w, RowIds) = 0
    BY RowIdsFinite, SumOfZeros
<1>3. SumFunction(w) = 0
    BY <1>2 DEF SumFunction
<1>4. asked[l] = 0
    BY DEF Init
<1> HIDE DEF w
<1> QED
    BY <1>1, <1>3, <1>4

LEMMA NextPeaks == Inv /\ Counters /\ Memory /\ Peaks /\ [Next]_vars => Peaks'
<1> SUFFICES ASSUME Inv, Counters, Memory, Peaks, [Next]_vars PROVE Peaks'
    OBVIOUS
<1>1. CASE UNCHANGED vars
    BY <1>1 DEF vars, Peaks, Carries, Recollects
<1>2. ASSUME NEW r \in Requests,
             \/ AddBegins(r) \/ UpdateBegins(r) \/ MergeLoadsGuest(r)
             \/ CheckoutLoads(r) \/ DeleteVariantBegins(r)
      PROVE  Peaks'
    <2>1. UNCHANGED <<rows, asked, twins>>
        BY <1>2 DEF AddBegins, UpdateBegins, MergeLoadsGuest, CheckoutLoads,
            DeleteVariantBegins
    <2>2. \A l \in Lines : \A w : Carries(l, w) => Recollects(request[r], l, w)'
        BY <1>2, MergeLoadsRecollects, OtherBeginsRecollect
    <2> QED
        BY <1>2, <2>1, <2>2, BeginsRecall, UnchangedPeaks
<1>3. ASSUME NEW r \in Requests, AddFinds(r) \/ MergeLoadsUser(r) PROVE Peaks'
    <2>1. /\ UNCHANGED <<rows, asked, twins>>
          /\ Abandon(r) \/ \E q : Proceed(r, q)
        BY <1>3 DEF AddFinds, MergeLoadsUser
    <2>2. \A s \in Requests \ {r} : request'[s] = request[s]
        BY <2>1 DEF Abandon, Proceed, Inv, Types
    <2>3. \A s \in Requests \ {r} : Follows(request'[s], request[s])
        BY <2>2 DEF Follows
    <2>4. \A l \in Lines : \A w : Carries(l, w) => Recollects(request[r], l, w)'
        BY <1>3, AddFindsRecollects, MergeLoadsRecollects
    <2> QED
        BY <2>1, <2>3, <2>4, UnchangedPeaks
<1>4. ASSUME NEW r \in Requests,
             \/ AddFails(r) \/ UpdateFails(r) \/ MergeFails(r) \/ CheckoutFails(r)
      PROVE  Peaks'
    <2>1. Abandon(r) /\ UNCHANGED <<rows, asked, twins>>
        BY <1>4 DEF AddFails, UpdateFails, MergeFails, CheckoutFails
    <2>2. \A s \in Requests : Follows(request'[s], request[s])
        BY <2>1, CommitsFollow DEF Inv, Happenings
    <2> QED
        BY <2>1, <2>2, UnchangedPeaks
<1>5. ASSUME NEW r \in Requests, ClearCart(r) \/ CheckoutClears(r) \/ DeleteVariantCommits(r)
      PROVE  Peaks'
    <2>1. Commit(r, "change") /\ UNCHANGED <<asked, twins>>
        BY <1>5 DEF ClearCart, CheckoutClears, DeleteVariantCommits
    <2>2. \A s \in Requests : Follows(request'[s], request[s])
        BY <2>1, CommitsFollow DEF Inv, Happenings
    <2>3. \/ UNCHANGED rows
          \/ \E o : rows' = [i \in RowIds |-> IF i \in InScope(o) THEN NoRow ELSE rows[i]]
        BY <1>5 DEF ClearCart, CheckoutClears, DeleteVariantCommits
    <2>4. \A i \in RowIds : rows'[i] # NoRow =>
            /\ rows[i] # NoRow /\ rows'[i].line = rows[i].line
            /\ rows'[i].quantity = rows[i].quantity
        BY <2>3
    <2> QED
        BY <2>1, <2>2, <2>4, UnchangedPeaks
<1>6. CASE EditCatalogue
    <2>1. UNCHANGED <<rows, asked, twins>>
        BY <1>6 DEF EditCatalogue
    <2>2. \A s \in Requests : Follows(request'[s], request[s])
        BY <1>6, EditsFollow DEF Inv
    <2>3. \A l \in Lines : \A w : Carries(l, w) => Carries(l, w)'
        <3>1. KeepsLines
            BY <2>1 DEF KeepsLines
        <3> SUFFICES ASSUME NEW l \in Lines, NEW w, Carries(l, w) PROVE Carries(l, w)'
            OBVIOUS
        <3>2. w \in [RowIds -> Nat] /\ \A i \in RowIds : w[i] <= w[i]
            BY DEF Carries
        <3>3. \A s \in Requests : Recollects(request[s], l, w)'
            BY <2>2, <3>1, <3>2, FollowersRecollect DEF Carries
        <3> QED
            BY <2>1, <3>2, <3>3 DEF Carries
    <2> QED
        BY <2>1, <2>3 DEF Peaks
<1>7. ASSUME NEW r \in Requests, AddInserts(r) \/ AddIncrements(r) \/ UpdateCommits(r)
      PROVE  Peaks'
    BY <1>7, AddsKeepPeaks, UpdatesKeepPeaks
<1>8. ASSUME NEW r \in Requests, MergeCommits(r) PROVE Peaks'
    BY <1>8, MergeKeepsPeaks
<1> QED
    BY <1>1, <1>2, <1>3, <1>4, <1>5, <1>6, <1>7, <1>8 DEF Next

LEMMA CartInvariants == Spec => [](Inv /\ Counters /\ Memory /\ Peaks)
BY InitInv, NextInv, InitCounters, NextCounters, InitMemory, NextMemory, InitPeaks, NextPeaks,
    PTL DEF Spec

\* CartService.add_item and CartRepository.merge_guest_cart write quantities they
\* have computed from stale copies: what a line holds, over all the carts, was
\* asked for nevertheless, unless two merges of one guest cart have overlapped.
THEOREM CartsInventNothing == Spec => []NothingInvented
<1>1. Inv /\ Counters /\ Peaks => NothingInvented
    <2> SUFFICES ASSUME Inv, Counters, Peaks, ~twins, NEW l \in Lines
                 PROVE  SumFunction(Stored(l)) <= asked[l]
        BY DEF NothingInvented
    <2>1. PICK w : Carries(l, w) /\ SumFunction(w) <= asked[l]
        BY DEF Peaks
    <2> DEFINE f == Stored(l)
    <2>2. /\ DOMAIN f = RowIds
          /\ \A i \in RowIds : f[i] = IF rows[i] # NoRow /\ rows[i].line = l
                                      THEN rows[i].quantity ELSE 0
        BY DEF Stored
    <2>3. w \in [RowIds -> Nat]
        BY <2>1 DEF Carries
    <2> HIDE DEF f
    <2>4. \A i \in RowIds : rows[i] # NoRow => rows[i].quantity \in Nat
        BY DEF Inv, Types, Row
    <2>5. \A i \in RowIds : f[i] \in Int /\ w[i] \in Int /\ f[i] <= w[i]
        BY <2>1, <2>2, <2>3, <2>4 DEF Carries
    <2>6. /\ SumFunctionOnSet(f, RowIds) <= SumFunctionOnSet(w, RowIds)
          /\ SumFunctionOnSet(f, RowIds) \in Int /\ SumFunctionOnSet(w, RowIds) \in Int
        BY <2>5, RowIdsFinite, SumMonotone, SumIsInt
    <2>7. SumFunction(f) <= SumFunction(w) /\ SumFunction(f) \in Int /\ SumFunction(w) \in Int
        BY <2>2, <2>3, <2>6 DEF SumFunction
    <2>8. asked[l] \in Int
        BY DEF Counters
    <2> QED
        BY <2>1, <2>7, <2>8 DEF f
<1> QED
    BY <1>1, CartInvariants, PTL

-----------------------------------------------------------------------------
(* How requests end *)

\* A request that others notice is not gone.
LEMMA NoticedStays ==
    ASSUME NEW q \in Request, q # Idle, NEW h \in Happenings
    PROVE  [q EXCEPT !.during = @ \cup {h}] # Idle
<1>1. [q EXCEPT !.during = @ \cup {h}].op = q.op /\ q.op # "idle"
    BY DEF Request, Idle
<1> QED
    BY <1>1 DEF Idle

LEMMA OthersDoNotEnd ==
    ASSUME Types, NEW r \in Requests, NEW s \in Requests, Ends(r),
           \/ Abandon(s) \/ \E q : Proceed(s, q) \/ Begin(s, q)
           \/ \E h \in Happenings : Commit(s, h)
    PROVE  s = r
<1> SUFFICES ASSUME s # r PROVE FALSE
    OBVIOUS
<1>1. request[r] # Idle /\ request'[r] = Idle
    BY DEF Ends
<1>2. ASSUME NEW h \in Happenings, Commit(s, h) PROVE FALSE
    <2>1. request'[r] = [request[r] EXCEPT !.during = @ \cup {h}]
        BY <1>1, <1>2 DEF Commit
    <2> QED
        BY <1>1, <2>1, NoticedStays DEF Types
<1>3. ASSUME \/ Abandon(s) \/ \E q : Proceed(s, q) \/ Begin(s, q) PROVE FALSE
    BY <1>1, <1>3 DEF Abandon, Proceed, Begin, Types
<1> QED
    BY <1>2, <1>3

LEMMA EndsByItself ==
    ASSUME Inv, [Next]_vars, NEW r \in Requests, Ends(r)
    PROVE  \/ AddFinds(r) /\ Abandon(r)
           \/ AddInserts(r) \/ AddIncrements(r) \/ AddFails(r)
           \/ UpdateCommits(r) \/ UpdateFails(r)
           \/ MergeCommits(r) \/ MergeFails(r)
           \/ CheckoutClears(r) \/ CheckoutFails(r)
           \/ DeleteVariantCommits(r)
<1>1. request[r] # Idle /\ request'[r] = Idle /\ Types
    BY DEF Ends, Inv
<1>2. ~UNCHANGED vars
    BY <1>1 DEF vars
<1>3. ~EditCatalogue
    <2> SUFFICES ASSUME EditCatalogue PROVE FALSE
        OBVIOUS
    <2>1. request'[r] = [request[r] EXCEPT !.during = @ \cup {"change"}]
        BY <1>1 DEF EditCatalogue
    <2> QED
        BY <1>1, <2>1, NoticedStays DEF Types, Happenings
<1>4. ASSUME NEW s \in Requests,
             \/ AddBegins(s) \/ UpdateBegins(s) \/ MergeLoadsGuest(s)
             \/ CheckoutLoads(s) \/ DeleteVariantBegins(s)
      PROVE  FALSE
    <2>1. PICK q : Begin(s, q)
        BY <1>4 DEF AddBegins, UpdateBegins, MergeLoadsGuest, CheckoutLoads,
            DeleteVariantBegins
    <2>2. s = r
        BY <1>1, <2>1, OthersDoNotEnd
    <2> QED
        BY <1>1, <2>1, <2>2 DEF Begin
<1>5. ASSUME NEW s \in Requests, MergeLoadsUser(s) PROVE FALSE
    <2>1. PICK u : Proceed(s, [request[s] EXCEPT !.found = TRUE, !.user = u])
        BY <1>5 DEF MergeLoadsUser
    <2>2. s = r /\ request[r].op = "merge"
        BY <1>1, <1>5, <2>1, OthersDoNotEnd DEF MergeLoadsUser
    <2>3. request'[r].op = "merge"
        BY <1>1, <2>1, <2>2 DEF Proceed, Types, Request, Idle
    <2> QED
        BY <1>1, <2>3 DEF Idle
<1>6. ASSUME NEW s \in Requests, AddFinds(s) PROVE s = r /\ Abandon(r)
    <2>1. Abandon(s) \/ \E q : q.op = "add" /\ Proceed(s, q)
        <3>1. request[s].op = "add" /\ request[s] \in Request
            BY <1>1, <1>6 DEF AddFinds, Types
        <3>2. /\ [request[s] EXCEPT !.found = TRUE].op = "add"
              /\ \A i, n : [request[s] EXCEPT !.found = TRUE, !.row = i, !.held = n].op = "add"
            BY <3>1 DEF Request, Idle
        <3> QED
            BY <1>6, <3>2 DEF AddFinds
    <2>2. s = r
        BY <1>1, <2>1, OthersDoNotEnd
    <2>3. ASSUME NEW q, q.op = "add", Proceed(r, q) PROVE FALSE
        BY <1>1, <2>3 DEF Proceed, Types, Idle
    <2> QED
        BY <2>1, <2>2, <2>3
<1>7. ASSUME NEW s \in Requests, ClearCart(s) PROVE FALSE
    <2>1. request[s] = Idle /\ Commit(s, "change")
        BY <1>7 DEF ClearCart
    <2> QED
        BY <1>1, <2>1, OthersDoNotEnd DEF Happenings
<1>8. ASSUME NEW s \in Requests,
             \/ AddInserts(s) \/ AddIncrements(s) \/ AddFails(s)
             \/ UpdateCommits(s) \/ UpdateFails(s)
             \/ MergeCommits(s) \/ MergeFails(s)
             \/ CheckoutClears(s) \/ CheckoutFails(s)
             \/ DeleteVariantCommits(s)
      PROVE  s = r
    <2>1. Abandon(s) \/ \E h \in Happenings : Commit(s, h)
        BY <1>8 DEF AddInserts, AddIncrements, AddFails, UpdateCommits, UpdateFails, MergeCommits,
            MergeFails, CheckoutClears, CheckoutFails, DeleteVariantCommits, Happenings
    <2> QED
        BY <1>1, <2>1, OthersDoNotEnd
<1> QED
    BY <1>2, <1>3, <1>4, <1>5, <1>6, <1>7, <1>8 DEF Next

\* Where the lines of the two carts are after a merge no other has overtaken.
LEMMA MergeKeepsLines ==
    ASSUME Inv, Memory, NEW r \in Requests, MergeCommits(r), "merge" \notin request[r].during,
           NEW l \in Lines, NEW i \in RowIds, rows[i] # NoRow, rows[i].line = l,
           rows[i].owner \in {request[r].owner, request[r].session}
    PROVE  Has(rows', request[r].owner, l) \/ Has(rows', request[r].session, l)
<1> DEFINE q == request[r]
<1>1. q.op = "merge" /\ Mergeable(q) /\ rows' = Merged(q) /\ Owned(q)
    BY DEF MergeCommits, Memory, Recalls
<1>2. /\ DOMAIN q.guest \subseteq RowIds /\ DOMAIN q.user \subseteq RowIds
      /\ q.owner \in Users /\ q.session \in Sessions
    BY <1>1, RefersToRows DEF Inv
<1>3. q.owner # q.session
    BY <1>2, OwnersAssumption
<1>4. \A j \in RowIds : rows'[j] =
        IF j \in Absorbed(q) THEN NoRow
        ELSE IF j \in Grown(q) THEN [rows[j] EXCEPT !.quantity = Increment(q, j)]
        ELSE IF j \in Transferred(q) THEN [rows[j] EXCEPT !.owner = q.owner]
        ELSE rows[j]
    BY <1>1 DEF Merged
<1>5. ASSUME NEW x \in Row, NEW n
      PROVE  /\ [x EXCEPT !.quantity = n].owner = x.owner
             /\ [x EXCEPT !.quantity = n].line = x.line
             /\ [x EXCEPT !.owner = n].owner = n
             /\ [x EXCEPT !.owner = n].line = x.line
    BY DEF Row
<1>6. ASSUME NEW j \in RowIds, rows[j] # NoRow, j \notin Absorbed(q), rows[j].line = l,
             rows[j].owner \in {q.owner, q.session}
      PROVE  Has(rows', q.owner, l) \/ Has(rows', q.session, l)
    <2>1. rows[j] \in Row
        BY <1>6 DEF Inv, Types
    <2>2. rows'[j].line = l /\ rows'[j].owner \in {q.owner, q.session}
        <3>1. \/ rows'[j] = rows[j]
              \/ rows'[j] = [rows[j] EXCEPT !.quantity = Increment(q, j)]
              \/ rows'[j] = [rows[j] EXCEPT !.owner = q.owner]
            BY <1>4, <1>6
        <3>2. /\ [rows[j] EXCEPT !.quantity = Increment(q, j)].owner = rows[j].owner
              /\ [rows[j] EXCEPT !.quantity = Increment(q, j)].line = rows[j].line
              /\ [rows[j] EXCEPT !.owner = q.owner].owner = q.owner
              /\ [rows[j] EXCEPT !.owner = q.owner].line = rows[j].line
            BY <1>5, <2>1
        <3> QED
            BY <1>6, <3>1, <3>2
    <2>3. rows'[j] # NoRow
        BY <1>2, <2>2, NobodyOwnsNoRow DEF Owners
    <2> QED
        BY <2>2, <2>3 DEF Has
<1>7. CASE i \notin Absorbed(q)
    BY <1>6, <1>7
<1>8. CASE i \in Absorbed(q)
    <2>1. i \in DOMAIN q.guest /\ Partners(q, i) # {}
        BY <1>8 DEF Absorbed, Transferred
    <2>2. rows[i].line = q.guest[i].line
        BY <1>1, <2>1 DEF Inv, Loads
    <2>3. PICK u \in DOMAIN q.user : u \in Partners(q, i) /\ q.user[u].line = l
        BY <2>1, <2>2 DEF Partners
    <2>4. u \notin Absorbed(q)
        BY <1>1 DEF Owned, Absorbed
    <2>5. u \in Grown(q)
        BY <1>8, <2>3, <2>4 DEF Grown
    <2>6. rows[u] # NoRow /\ rows[u].line = l /\ rows[u].owner = q.owner /\ u \in RowIds
        BY <1>1, <1>2, <2>3, <2>5 DEF Mergeable, Memory, Recalls, Owned
    <2> QED
        BY <1>6, <2>4, <2>6
<1> QED
    BY <1>7, <1>8

\* AuthController._maybe_merge_cart: a login loses no line of the user's cart nor
\* of the guest's, whatever else is done to the two carts meanwhile, unless another
\* login merges the guest's.
THEOREM LoginsKeepLines == Spec => LoginKeepsLines
<1> DEFINE Kept == \A r \in Requests :
        request[r].op = "merge" /\ Ends(r) /\ "merge" \notin request[r].during =>
            \A l \in Lines :
                Has(rows, request[r].owner, l) \/ Has(rows, request[r].session, l) =>
                    Has(rows', request[r].owner, l) \/ Has(rows', request[r].session, l)
<1>1. Inv /\ Memory /\ [Next]_vars => Kept
    <2> SUFFICES ASSUME Inv, Memory, [Next]_vars, NEW r \in Requests, request[r].op = "merge",
                        Ends(r), "merge" \notin request[r].during, NEW l \in Lines,
                        Has(rows, request[r].owner, l) \/ Has(rows, request[r].session, l)
                 PROVE  Has(rows', request[r].owner, l) \/ Has(rows', request[r].session, l)
        OBVIOUS
    <2>1. MergeCommits(r) \/ MergeFails(r)
        BY EndsByItself DEF AddFinds, AddInserts, AddIncrements, AddFails, UpdateCommits,
            UpdateFails, CheckoutClears, CheckoutFails, DeleteVariantCommits
    <2>2. CASE MergeFails(r)
        BY <2>2 DEF MergeFails
    <2>3. CASE MergeCommits(r)
        <3>1. PICK i \in RowIds : /\ rows[i] # NoRow /\ rows[i].line = l
                                  /\ rows[i].owner \in {request[r].owner, request[r].session}
            BY DEF Has
        <3> QED
            BY <2>3, <3>1, MergeKeepsLines
    <2> QED
        BY <2>1, <2>2, <2>3
<1>2. Inv /\ Memory /\ [Next]_vars => [Kept]_vars
    BY <1>1
<1> QED
    BY <1>2, CartInvariants, PTL DEF Spec, LoginKeepsLines

-----------------------------------------------------------------------------
(* What a cart holds of a line is what its one row of the line does *)

RowsOf == [RowIds -> Row \cup {NoRow}]
At(rws, i, o, l) == rws[i] # NoRow /\ rws[i].owner = o /\ rws[i].line = l
SingleIn(rws) == \A i, j \in RowIds :
    /\ rws[i] # NoRow /\ rws[j] # NoRow
    /\ rws[i].owner = rws[j].owner /\ rws[i].line = rws[j].line
    => i = j

LEMMA Quantity ==
    ASSUME NEW rws \in RowsOf, SingleIn(rws), NEW o, NEW l
    PROVE  /\ \A k \in RowIds : At(rws, k, o, l) =>
                SumFunction(Held(rws, o, l)) = rws[k].quantity
           /\ (\A k \in RowIds : ~At(rws, k, o, l)) => SumFunction(Held(rws, o, l)) = 0
<1> DEFINE f == Held(rws, o, l)
           z == [i \in RowIds |-> 0]
<1>1. /\ DOMAIN f = RowIds
      /\ \A i \in RowIds : f[i] = IF At(rws, i, o, l) THEN rws[i].quantity ELSE 0
    BY DEF Held, At
<1>2. DOMAIN z = RowIds /\ \A i \in RowIds : z[i] = 0
    OBVIOUS
<1>3. SumFunctionOnSet(z, RowIds) = 0
    BY RowIdsFinite, SumOfZeros
<1>4. \A i \in RowIds : At(rws, i, o, l) => rws[i].quantity \in Nat
    BY DEF At, RowsOf, Row
<1> HIDE DEF f, z
<1>5. \A i \in RowIds : f[i] \in Int /\ z[i] \in Int
    BY <1>1, <1>2, <1>4
<1>6. ASSUME NEW k \in RowIds, At(rws, k, o, l) PROVE SumFunction(f) = rws[k].quantity
    <2>1. \A i \in RowIds : i # k => z[i] = f[i]
        BY <1>1, <1>2, <1>6 DEF SingleIn, At
    <2>2. SumFunctionOnSet(f, RowIds) = SumFunctionOnSet(z, RowIds) + f[k] - z[k]
        BY <1>5, <2>1, RowIdsFinite, SumUpdate
    <2>3. f[k] = rws[k].quantity /\ z[k] = 0 /\ rws[k].quantity \in Nat
        BY <1>1, <1>2, <1>4, <1>6
    <2> QED
        BY <1>1, <1>3, <2>2, <2>3 DEF SumFunction
<1>7. ASSUME \A k \in RowIds : ~At(rws, k, o, l) PROVE SumFunction(f) = 0
    <2>1. \A i \in RowIds : z[i] \in Int /\ z[i] = f[i]
        BY <1>1, <1>2, <1>5, <1>7
    <2>2. SumFunctionOnSet(z, RowIds) = SumFunctionOnSet(f, RowIds)
        BY <2>1, RowIdsFinite, SumEqual
    <2> QED
        BY <1>1, <1>3, <2>2 DEF SumFunction
<1> QED
    BY <1>6, <1>7 DEF f

LEMMA CartsHold ==
    ASSUME NEW rws \in RowsOf, SingleIn(rws)
    PROVE  /\ Carts(rws) \in [Owners -> [Lines -> Nat]]
           /\ \A o \in Owners, l \in Lines :
                /\ \A k \in RowIds : At(rws, k, o, l) => Carts(rws)[o][l] = rws[k].quantity
                /\ (\A k \in RowIds : ~At(rws, k, o, l)) => Carts(rws)[o][l] = 0
<1>1. \A o \in Owners, l \in Lines : Carts(rws)[o][l] = SumFunction(Held(rws, o, l))
    BY DEF Carts
<1>2. \A k \in RowIds : rws[k] # NoRow => rws[k].quantity \in Nat
    BY DEF RowsOf, Row
<1>3. ASSUME NEW o \in Owners, NEW l \in Lines PROVE SumFunction(Held(rws, o, l)) \in Nat
    <2>1. CASE \E k \in RowIds : At(rws, k, o, l)
        BY <1>2, <2>1, Quantity DEF At
    <2>2. CASE \A k \in RowIds : ~At(rws, k, o, l)
        BY <2>2, Quantity
    <2> QED
        BY <2>1, <2>2
<1>4. Carts(rws) \in [Owners -> [Lines -> Nat]]
    BY <1>3 DEF Carts
<1> QED
    BY <1>1, <1>4, Quantity

LEMMA SameCarts ==
    ASSUME NEW c \in [Owners -> [Lines -> Nat]], NEW d \in [Owners -> [Lines -> Nat]],
           \A o \in Owners, l \in Lines : c[o][l] = d[o][l]
    PROVE  c = d
<1>1. \A o \in Owners : c[o] = d[o]
    OBVIOUS
<1> QED
    BY <1>1

\* A line that is where it was holds what it did.
LEMMA SameLine ==
    ASSUME NEW a \in RowsOf, SingleIn(a), NEW b \in RowsOf, SingleIn(b),
           NEW o \in Owners, NEW l \in Lines,
           \A i \in RowIds : /\ At(a, i, o, l) <=> At(b, i, o, l)
                             /\ At(a, i, o, l) => a[i].quantity = b[i].quantity
    PROVE  Carts(b)[o][l] = Carts(a)[o][l]
<1>1. CASE \E k \in RowIds : At(a, k, o, l)
    <2>1. PICK k \in RowIds : At(a, k, o, l)
        BY <1>1
    <2> QED
        BY <2>1, CartsHold
<1>2. CASE \A k \in RowIds : ~At(a, k, o, l)
    BY <1>2, CartsHold
<1> QED
    BY <1>1, <1>2

-----------------------------------------------------------------------------
(* What a request nobody has disturbed has read is so still *)

Current(q) == q.op # "idle" /\ q.during = {} =>
    /\ q.op = "add" =>
        /\ q.stock = IF Checked(q.line) = NoVariant THEN -1 ELSE stock[Checked(q.line)]
        /\ ~q.found => q.row = NoId
        /\ q.found /\ q.row = NoId => FindExisting(q.owner, q.line) = {} /\ ~withdrawn
        /\ q.row # NoId =>
            /\ q.row \in FindExisting(q.owner, q.line)
            /\ q.held = rows[q.row].quantity /\ Covered(q, q.held)
    /\ q.op = "update" =>
        q.row \in FindExisting(q.owner, q.line) /\ q.held = rows[q.row].quantity
    /\ q.op = "merge" =>
        /\ q.guest = Load(InScope(q.session))
        /\ q.found => q.user = Load(InScope(q.owner))
    /\ q.op = "checkout" => q.lines = Load(InScope(q.owner))

Exact == \A r \in Requests : Current(request[r])

LEMMA InitExact == Init => Exact
BY DEF Init, Exact, Current, Idle

\* Who commits disturbs everybody else.
LEMMA CommitsDisturb ==
    ASSUME Inv,
           EditCatalogue \/ \E r \in Requests, h \in Happenings : Commit(r, h)
    PROVE  Exact'
<1>1. ASSUME NEW q \in Request, q # Idle, NEW h \in Happenings
      PROVE  [q EXCEPT !.during = @ \cup {h}].during # {}
    BY <1>1 DEF Request
<1> SUFFICES ASSUME NEW s \in Requests PROVE Current(request[s])'
    BY DEF Exact
<1>2. \/ request'[s] = Idle
      \/ request[s] # Idle
            /\ \E h \in Happenings : request'[s] = [request[s] EXCEPT !.during = @ \cup {h}]
    BY DEF Commit, EditCatalogue, Happenings
<1>3. ASSUME request[s] # Idle, NEW h \in Happenings,
             request'[s] = [request[s] EXCEPT !.during = @ \cup {h}]
      PROVE  request'[s].during # {}
    BY <1>1, <1>3 DEF Inv, Types
<1>4. CASE request'[s] = Idle
    BY <1>4 DEF Idle, Current
<1>5. CASE request'[s] # Idle
    <2>1. request[s] # Idle
        BY <1>2, <1>5
    <2>2. PICK h \in Happenings : request'[s] = [request[s] EXCEPT !.during = @ \cup {h}]
        BY <1>2, <1>5
    <2>3. request'[s].during # {}
        BY <1>3, <2>1, <2>2
    <2> QED
        BY <2>3 DEF Current
<1> QED
    BY <1>4, <1>5

LEMMA QuietKeepsExact ==
    ASSUME Inv, Exact, UNCHANGED <<rows, catalogue>>, NEW r \in Requests,
           Current(request[r])',
           \A s \in Requests \ {r} : request'[s] = request[s]
    PROVE  Exact'
<1>1. ASSUME NEW s \in Requests \ {r} PROVE Current(request[s])'
    <2>1. Current(request[s]) /\ request'[s] = request[s]
        BY DEF Exact
    <2> QED
        BY <2>1 DEF Current, catalogue, Checked, Undeleted, FindExisting, InScope, Covered, Load
<1> QED
    BY <1>1 DEF Exact

LEMMA BeginsAreCurrent ==
    ASSUME Inv, NEW r \in Requests, UNCHANGED <<rows, catalogue>>,
           \/ AddBegins(r) \/ UpdateBegins(r) \/ MergeLoadsGuest(r)
           \/ CheckoutLoads(r) \/ DeleteVariantBegins(r)
    PROVE  Current(request[r])'
<1>1. \A q : Begin(r, q) => request'[r] = q
    BY DEF Begin, Inv, Types
<1>2. CASE AddBegins(r)
    <2>1. PICK o \in Owners, l \in Lines, n \in Quantities \ {0} :
            request'[r] =
                [op |-> "add", owner |-> o, line |-> l, quantity |-> n,
                 stock |-> IF Checked(l) = NoVariant THEN -1 ELSE stock[Checked(l)],
                 found |-> FALSE, row |-> NoId, held |-> 0, during |-> {}]
        BY <1>1, <1>2 DEF AddBegins
    <2>2. Checked(l)' = Checked(l) /\ stock' = stock
        BY DEF Checked, Undeleted, catalogue
    <2> QED
        BY <2>1, <2>2 DEF Current
<1>3. CASE UpdateBegins(r)
    <2>1. PICK o \in Owners, n \in Quantities : \E i \in InScope(o) :
            request'[r] =
                [op |-> "update", owner |-> o, line |-> rows[i].line, quantity |-> n,
                 row |-> i, held |-> rows[i].quantity, during |-> {}]
        BY <1>1, <1>3 DEF UpdateBegins
    <2>2. PICK i \in InScope(o) :
            request'[r] =
                [op |-> "update", owner |-> o, line |-> rows[i].line, quantity |-> n,
                 row |-> i, held |-> rows[i].quantity, during |-> {}]
        BY <2>1
    <2> QED
        BY <2>2 DEF Current, FindExisting, InScope
<1>4. CASE MergeLoadsGuest(r)
    <2>1. PICK s \in Sessions :
            /\ request'[r].op = "merge" /\ request'[r].session = s /\ ~request'[r].found
            /\ request'[r].guest = Load(InScope(s))
        BY <1>1, <1>4 DEF MergeLoadsGuest
    <2> QED
        BY <2>1 DEF Current, Load, InScope
<1>5. CASE CheckoutLoads(r)
    <2>1. PICK o \in Owners :
            request'[r] = [op |-> "checkout", owner |-> o, lines |-> Load(InScope(o)),
                           during |-> {}]
        BY <1>1, <1>5 DEF CheckoutLoads
    <2> QED
        BY <2>1 DEF Current, Load, InScope
<1>6. CASE DeleteVariantBegins(r)
    <2>1. request'[r].op = "delete"
        BY <1>1, <1>6 DEF DeleteVariantBegins
    <2> QED
        BY <2>1 DEF Current
<1> QED
    BY <1>2, <1>3, <1>4, <1>5, <1>6

LEMMA AddFindsIsCurrent ==
    ASSUME Inv, Exact, NEW r \in Requests, AddFinds(r)
    PROVE  Current(request[r])'
<1> DEFINE q == request[r]
           n == request'[r]
<1>1. /\ q.op = "add" /\ ~q.found /\ q \in Request /\ UNCHANGED <<rows, catalogue>>
      /\ Current(q)
    BY DEF AddFinds, Inv, Types, Exact
<1>2. CASE Abandon(r)
    BY <1>2 DEF Abandon, Inv, Types, Idle, Current
<1>3. ASSUME NEW i \in FindExisting(q.owner, q.line), Covered(q, rows[i].quantity),
             Proceed(r, [q EXCEPT !.found = TRUE, !.row = i, !.held = rows[i].quantity])
      PROVE  Current(request[r])'
    <2>1. /\ n.op = "add" /\ n.owner = q.owner /\ n.line = q.line /\ n.quantity = q.quantity
          /\ n.stock = q.stock /\ n.found /\ n.row = i /\ n.held = rows[i].quantity
          /\ n.during = q.during
        BY <1>1, <1>3 DEF Proceed, Inv, Types, Request, Idle
    <2>2. i # NoId
        BY NumbersAssumption DEF FindExisting, InScope, RowIds, NoId
    <2> QED
        BY <1>1, <1>3, <2>1, <2>2 DEF Current, Covered, Checked, Undeleted, FindExisting, InScope,
            catalogue
<1>4. ASSUME FindExisting(q.owner, q.line) = {}, ~withdrawn,
             Proceed(r, [q EXCEPT !.found = TRUE])
      PROVE  Current(request[r])'
    <2>1. /\ n.op = "add" /\ n.owner = q.owner /\ n.line = q.line
          /\ n.stock = q.stock /\ n.found /\ n.row = q.row
          /\ n.during = q.during
        BY <1>1, <1>4 DEF Proceed, Inv, Types, Request, Idle
    <2> QED
        BY <1>1, <1>4, <2>1 DEF Current, Checked, Undeleted, FindExisting, InScope, catalogue
<1> QED
    BY <1>2, <1>3, <1>4 DEF AddFinds

LEMMA MergeLoadsIsCurrent ==
    ASSUME Inv, Exact, NEW r \in Requests, MergeLoadsUser(r)
    PROVE  Current(request[r])'
<1> DEFINE q == request[r]
           n == request'[r]
           mine == InScope(q.owner)
           loaded == [i \in mine |-> IF i \in DOMAIN q.guest THEN q.guest[i] ELSE rows[i]]
<1>1. /\ q.op = "merge" /\ q \in Request /\ UNCHANGED rows /\ Current(q)
      /\ Proceed(r, [q EXCEPT !.found = TRUE, !.user = loaded])
    BY DEF MergeLoadsUser, Inv, Types, Exact
<1>2. /\ n.op = "merge" /\ n.guest = q.guest /\ n.user = loaded
      /\ n.owner = q.owner /\ n.session = q.session /\ n.during = q.during
    BY <1>1 DEF Proceed, Inv, Types, Request, Idle
<1>3. ASSUME q.during = {} PROVE q.guest = Load(InScope(q.session)) /\ loaded = Load(mine)
    <2>1. q.guest = Load(InScope(q.session))
        BY <1>1, <1>3 DEF Current
    <2>2. \A i \in DOMAIN q.guest : q.guest[i] = rows[i]
        BY <2>1 DEF Load
    <2> QED
        BY <2>1, <2>2 DEF Load
<1> HIDE DEF loaded
<1> QED
    BY <1>1, <1>2, <1>3 DEF Current, Load, InScope

LEMMA NextExact == Inv /\ Exact /\ [Next]_vars => Exact'
<1> SUFFICES ASSUME Inv, Exact, [Next]_vars PROVE Exact'
    OBVIOUS
<1>1. CASE UNCHANGED vars
    <2> SUFFICES ASSUME NEW s \in Requests PROVE Current(request[s])'
        BY DEF Exact
    <2>1. Current(request[s])
        BY DEF Exact
    <2>2. request'[s] = request[s] /\ UNCHANGED <<rows, catalogue>>
        BY <1>1 DEF vars
    <2> QED
        BY <2>1, <2>2 DEF Current, catalogue, Checked, Undeleted, FindExisting, InScope, Covered, Load
<1>2. ASSUME NEW r \in Requests,
             \/ AddBegins(r) \/ UpdateBegins(r) \/ MergeLoadsGuest(r)
             \/ CheckoutLoads(r) \/ DeleteVariantBegins(r)
      PROVE  Exact'
    <2>1. UNCHANGED <<rows, catalogue>> /\ \E q : Begin(r, q)
        BY <1>2 DEF AddBegins, UpdateBegins, MergeLoadsGuest, CheckoutLoads,
            DeleteVariantBegins
    <2>2. \A s \in Requests \ {r} : request'[s] = request[s]
        BY <2>1 DEF Begin, Inv, Types
    <2>3. Current(request[r])'
        BY <1>2, <2>1, BeginsAreCurrent
    <2> QED
        BY <2>1, <2>2, <2>3, QuietKeepsExact
<1>3. ASSUME NEW r \in Requests, AddFinds(r) \/ MergeLoadsUser(r) PROVE Exact'
    <2>1. UNCHANGED <<rows, catalogue>> /\ (Abandon(r) \/ \E q : Proceed(r, q))
        BY <1>3 DEF AddFinds, MergeLoadsUser
    <2>2. \A s \in Requests \ {r} : request'[s] = request[s]
        BY <2>1 DEF Abandon, Proceed, Inv, Types
    <2>3. Current(request[r])'
        BY <1>3, AddFindsIsCurrent, MergeLoadsIsCurrent
    <2> QED
        BY <2>1, <2>2, <2>3, QuietKeepsExact
<1>4. ASSUME NEW r \in Requests,
             \/ AddFails(r) \/ UpdateFails(r) \/ MergeFails(r) \/ CheckoutFails(r)
      PROVE  Exact'
    <2>1. UNCHANGED <<rows, catalogue>> /\ Abandon(r)
        BY <1>4 DEF AddFails, UpdateFails, MergeFails, CheckoutFails
    <2>2. /\ \A s \in Requests \ {r} : request'[s] = request[s]
          /\ request'[r].op = "idle"
        BY <2>1 DEF Abandon, Inv, Types, Idle
    <2>3. Current(request[r])'
        BY <2>2 DEF Current
    <2> QED
        BY <2>1, <2>2, <2>3, QuietKeepsExact
<1>5. ASSUME NEW r \in Requests,
             \/ AddInserts(r) \/ AddIncrements(r) \/ UpdateCommits(r) \/ ClearCart(r)
             \/ MergeCommits(r) \/ CheckoutClears(r) \/ DeleteVariantCommits(r)
      PROVE  Exact'
    <2>1. \E h \in Happenings : Commit(r, h)
        BY <1>5 DEF AddInserts, AddIncrements, UpdateCommits, ClearCart, MergeCommits,
            CheckoutClears, DeleteVariantCommits, Happenings
    <2> QED
        BY <2>1, CommitsDisturb
<1>6. CASE EditCatalogue
    BY <1>6, CommitsDisturb
<1> QED
    BY <1>1, <1>2, <1>3, <1>4, <1>5, <1>6 DEF Next

-----------------------------------------------------------------------------
(* A request nobody has disturbed does what it promises *)

LEMMA RowsAreSingle == Inv => rows \in RowsOf /\ SingleIn(rows)
BY DEF Inv, Types, Single, RowsOf, SingleIn

LEMMA RowsStaySingle == Inv' => rows' \in RowsOf /\ SingleIn(rows')
BY DEF Inv, Types, Single, RowsOf, SingleIn

\* One line of one cart is set to a quantity.
LEMMA OneLineSet ==
    ASSUME NEW a \in RowsOf, SingleIn(a), NEW b \in RowsOf, SingleIn(b),
           NEW o \in Owners, NEW l \in Lines, NEW n \in Nat,
           Carts(b)[o][l] = n,
           \A p \in Owners, m \in Lines : ~(p = o /\ m = l) => \A i \in RowIds :
                /\ At(a, i, p, m) <=> At(b, i, p, m)
                /\ At(a, i, p, m) => a[i].quantity = b[i].quantity
    PROVE  Carts(b) = [Carts(a) EXCEPT ![o][l] = n]
<1> DEFINE d == [Carts(a) EXCEPT ![o][l] = n]
<1>1. /\ Carts(a) \in [Owners -> [Lines -> Nat]]
      /\ Carts(b) \in [Owners -> [Lines -> Nat]]
    BY CartsHold
<1>2. /\ d \in [Owners -> [Lines -> Nat]]
      /\ \A p \in Owners, m \in Lines :
            d[p][m] = IF p = o /\ m = l THEN n ELSE Carts(a)[p][m]
    BY <1>1
<1>3. ASSUME NEW p \in Owners, NEW m \in Lines PROVE Carts(b)[p][m] = d[p][m]
    <2>1. CASE p = o /\ m = l
        BY <1>2, <2>1
    <2>2. CASE ~(p = o /\ m = l)
        BY <1>2, <2>2, SameLine
    <2> QED
        BY <2>1, <2>2
<1> HIDE DEF d
<1>4. Carts(b) = d
    BY <1>1, <1>2, <1>3, SameCarts
<1> QED
    BY <1>4 DEF d

\* What an add that has found its row, or found none, knows of its line.
LEMMA AddKnows ==
    ASSUME Inv, Exact, NEW r \in Requests, request[r].op = "add", request[r].during = {}
    PROVE  LET q == request[r]
               held == Carts(rows)[q.owner][q.line]
           IN
           /\ q.owner \in Owners /\ q.line \in Lines /\ q.quantity \in Nat /\ q.quantity > 0
           /\ FindExisting(q.owner, q.line) = {} => held = 0
           /\ \A i \in FindExisting(q.owner, q.line) :
                i \in RowIds /\ At(rows, i, q.owner, q.line)
                /\ held = rows[i].quantity /\ held \in Nat /\ held > 0
           /\ \A n \in Nat : Covered(q, n) <=>
                \/ Checked(q.line) = NoVariant
                \/ stock[Checked(q.line)] >= n + q.quantity
<1> DEFINE q == request[r]
<1>1. q \in Request /\ Current(q)
    BY DEF Inv, Types, Exact
<1>2. q.owner \in Owners /\ q.line \in Lines /\ q.quantity \in Nat /\ q.quantity > 0
    BY <1>1 DEF Request, Idle, Inv, Asks
<1>3. ASSUME NEW i \in FindExisting(q.owner, q.line)
      PROVE  i \in RowIds /\ At(rows, i, q.owner, q.line) /\ rows[i].quantity \in Nat
             /\ rows[i].quantity > 0
    BY <1>2, Scopes DEF FindExisting, At, Inv, Row
<1>4. \A i \in RowIds : At(rows, i, q.owner, q.line) => i \in FindExisting(q.owner, q.line)
    BY DEF At, FindExisting, InScope
<1>5. q.stock = IF Checked(q.line) = NoVariant THEN -1 ELSE stock[Checked(q.line)]
    BY <1>1 DEF Current
<1>6. Checked(q.line) # NoVariant => stock[Checked(q.line)] \in Nat
    BY <1>2, CheckedIsALine, NumbersAssumption DEF Inv, Types, Lines
<1>7. ASSUME NEW n \in Nat
      PROVE  Covered(q, n) <=>
                \/ Checked(q.line) = NoVariant
                \/ stock[Checked(q.line)] >= n + q.quantity
    BY <1>5, <1>6 DEF Covered
<1> QED
    BY <1>2, <1>3, <1>4, <1>7, RowsAreSingle, CartsHold

LEMMA NoChangePromised ==
    ASSUME Inv, Exact, NEW r \in Requests, Ends(r), request[r].during = {},
           AddFinds(r), Abandon(r)
    PROVE  Carts(rows') = Promised(Carts(rows), request[r])
<1> DEFINE q == request[r]
           held == Carts(rows)[q.owner][q.line]
<1>1. q.op = "add" /\ rows' = rows /\ q \in Request
    BY DEF AddFinds, Inv, Types
<1>2. ~\E n : n.op = "add" /\ Proceed(r, n)
    BY DEF Ends, Proceed, Idle, Inv, Types
<1>3. /\ \A i, k : [q EXCEPT !.found = TRUE, !.row = i, !.held = k].op = "add"
      /\ [q EXCEPT !.found = TRUE].op = "add"
    BY <1>1 DEF Request, Idle
<1>4. \/ \E i \in FindExisting(q.owner, q.line) : ~Covered(q, rows[i].quantity)
      \/ FindExisting(q.owner, q.line) = {} /\ withdrawn
    BY <1>2, <1>3 DEF AddFinds
<1>5. \/ held = 0 /\ withdrawn
      \/ /\ held > 0 /\ Checked(q.line) # NoVariant
         /\ ~(stock[Checked(q.line)] >= held + q.quantity)
    BY <1>1, <1>4, AddKnows
<1>6. Checked(q.line) # NoVariant => stock[Checked(q.line)] \in Nat
    BY <1>1, AddKnows, CheckedIsALine, NumbersAssumption DEF Inv, Types, Lines
<1>7. q.quantity \in Nat /\ held \in Nat
    BY <1>1, AddKnows, RowsAreSingle, CartsHold
<1>8. \/ held = 0 /\ withdrawn
      \/ /\ held > 0 /\ Checked(q.line) # NoVariant
         /\ stock[Checked(q.line)] < held + q.quantity
    BY <1>5, <1>6, <1>7
<1> HIDE DEF held
<1>9. AddPromises(Carts(rows), q) = Carts(rows)
    BY <1>8 DEF AddPromises, held
<1> QED
    BY <1>1, <1>9 DEF Promised

LEMMA AddPromised ==
    ASSUME Inv, Inv', Counters, Exact, NEW r \in Requests, request[r].during = {},
           AddInserts(r) \/ AddIncrements(r)
    PROVE  Carts(rows') = Promised(Carts(rows), request[r])
<1> DEFINE q == request[r]
           held == Carts(rows)[q.owner][q.line]
<1>1. q.op = "add" /\ q \in Request /\ Current(q)
    BY DEF AddInserts, AddIncrements, Inv, Types, Exact
<1>2. /\ q.owner \in Owners /\ q.line \in Lines /\ q.quantity \in Nat /\ q.quantity > 0
      /\ held \in Nat
    BY <1>1, AddKnows, RowsAreSingle, CartsHold
<1>3. ASSUME Carts(rows') = [Carts(rows) EXCEPT ![q.owner][q.line] = held + q.quantity],
             \/ held = 0 /\ ~withdrawn
             \/ /\ held > 0
                /\ \/ Checked(q.line) = NoVariant
                   \/ stock[Checked(q.line)] >= held + q.quantity
      PROVE  Carts(rows') = Promised(Carts(rows), q)
    <2>1. Checked(q.line) # NoVariant => stock[Checked(q.line)] \in Nat
        BY <1>2, CheckedIsALine, NumbersAssumption DEF Inv, Types, Lines
    <2>2. ~ \/ held = 0 /\ withdrawn
            \/ /\ held > 0 /\ Checked(q.line) # NoVariant
               /\ stock[Checked(q.line)] < held + q.quantity
        BY <1>2, <1>3, <2>1
    <2>3. AddPromises(Carts(rows), q) =
            [Carts(rows) EXCEPT ![q.owner][q.line] = held + q.quantity]
        BY <2>2 DEF AddPromises
    <2> QED
        BY <1>1, <1>3, <2>3 DEF Promised
<1>4. CASE AddInserts(r)
    <2> DEFINE new == [owner |-> q.owner, line |-> q.line, quantity |-> q.quantity]
               k == inserted + 1
    <2>1. q.found /\ q.row = NoId /\ rows' = [rows EXCEPT ![k] = new]
        BY <1>4 DEF AddInserts
    <2>2. FindExisting(q.owner, q.line) = {} /\ ~withdrawn
        BY <1>1, <2>1 DEF Current
    <2>3. held = 0
        BY <1>1, <2>2, AddKnows
    <2>4. k \in RowIds
        BY <1>1, KeysLast DEF Idle
    <2>5. rows[k] = NoRow
        BY <2>4, NumbersAssumption DEF Inv, Types, Fresh, RowIds
    <2>6. \A i \in RowIds : rows'[i] = IF i = k THEN new ELSE rows[i]
        BY <2>1 DEF Inv, Types
    <2>7. new.owner = q.owner /\ new.line = q.line /\ new.quantity = q.quantity /\ new # NoRow
        <3>1. new \in Row
            BY <1>2 DEF Row
        <3> QED
            BY <3>1, RowIsNotNoRow
    <2> HIDE DEF new, k
    <2>8. At(rows', k, q.owner, q.line) /\ rows'[k].quantity = q.quantity
        BY <2>4, <2>6, <2>7 DEF At
    <2>9. Carts(rows')[q.owner][q.line] = q.quantity
        BY <1>2, <2>4, <2>8, RowsStaySingle, CartsHold
    <2>10. \A p \in Owners, m \in Lines : ~(p = q.owner /\ m = q.line) => \A i \in RowIds :
                /\ At(rows, i, p, m) <=> At(rows', i, p, m)
                /\ At(rows, i, p, m) => rows[i].quantity = rows'[i].quantity
        BY <2>5, <2>6, <2>7 DEF At
    <2>11. Carts(rows') = [Carts(rows) EXCEPT ![q.owner][q.line] = q.quantity]
        BY <1>2, <2>9, <2>10, RowsAreSingle, RowsStaySingle, OneLineSet
    <2>12. held + q.quantity = q.quantity
        BY <1>2, <2>3
    <2> QED
        BY <1>3, <2>2, <2>3, <2>11, <2>12
<1>5. CASE AddIncrements(r)
    <2> DEFINE k == q.row
    <2>1. k # NoId /\ rows' = [rows EXCEPT ![k].quantity = q.held + q.quantity]
        BY <1>5 DEF AddIncrements
    <2>2. k \in FindExisting(q.owner, q.line) /\ q.held = rows[k].quantity /\ Covered(q, q.held)
        BY <1>1, <2>1 DEF Current
    <2>3. /\ k \in RowIds /\ At(rows, k, q.owner, q.line)
          /\ held = q.held /\ held > 0
          /\ Checked(q.line) = NoVariant \/ stock[Checked(q.line)] >= held + q.quantity
        BY <1>1, <2>2, AddKnows
    <2>4. held + q.quantity \in Nat \ {0}
        BY <1>2
    <2>5. rows[k] \in Row
        BY <2>3 DEF At, Inv, Types
    <2>6. /\ [rows[k] EXCEPT !.quantity = held + q.quantity].owner = q.owner
          /\ [rows[k] EXCEPT !.quantity = held + q.quantity].line = q.line
          /\ [rows[k] EXCEPT !.quantity = held + q.quantity].quantity = held + q.quantity
          /\ [rows[k] EXCEPT !.quantity = held + q.quantity] \in Row
        BY <2>3, <2>4, <2>5 DEF Row, At
    <2>7. \A i \in RowIds : rows'[i] =
            IF i = k THEN [rows[k] EXCEPT !.quantity = held + q.quantity] ELSE rows[i]
        BY <2>1, <2>3 DEF Inv, Types
    <2> HIDE DEF k, held
    <2>8. At(rows', k, q.owner, q.line) /\ rows'[k].quantity = held + q.quantity
        BY <2>3, <2>6, <2>7, RowIsNotNoRow DEF At
    <2>9. Carts(rows')[q.owner][q.line] = held + q.quantity
        BY <1>2, <2>3, <2>8, RowsStaySingle, CartsHold
    <2>10. \A p \in Owners, m \in Lines : ~(p = q.owner /\ m = q.line) => \A i \in RowIds :
                /\ At(rows, i, p, m) <=> At(rows', i, p, m)
                /\ At(rows, i, p, m) => rows[i].quantity = rows'[i].quantity
        BY <2>3, <2>6, <2>7 DEF At
    <2>11. Carts(rows') = [Carts(rows) EXCEPT ![q.owner][q.line] = held + q.quantity]
        BY <1>2, <2>4, <2>9, <2>10, RowsAreSingle, RowsStaySingle, OneLineSet
    <2> QED
        BY <1>3, <2>3, <2>11
<1> QED
    BY <1>4, <1>5

LEMMA UpdatePromised ==
    ASSUME Inv, Inv', Exact, NEW r \in Requests, request[r].during = {}, UpdateCommits(r)
    PROVE  Carts(rows') = Promised(Carts(rows), request[r])
<1> DEFINE q == request[r]
           k == q.row
<1>1. q.op = "update" /\ q \in Request /\ Current(q)
    BY DEF UpdateCommits, Inv, Types, Exact
<1>2. q.owner \in Owners /\ q.line \in Lines /\ q.quantity \in Nat /\ k \in RowIds
    BY <1>1 DEF Request, Idle
<1>3. k \in FindExisting(q.owner, q.line) /\ q.held = rows[k].quantity
    BY <1>1 DEF Current
<1>4. At(rows, k, q.owner, q.line) /\ rows[k] \in Row
    BY <1>2, <1>3, Scopes DEF FindExisting, At, Inv
<1>5. /\ [rows[k] EXCEPT !.quantity = q.quantity].owner = q.owner
      /\ [rows[k] EXCEPT !.quantity = q.quantity].line = q.line
      /\ [rows[k] EXCEPT !.quantity = q.quantity].quantity = q.quantity
    BY <1>4 DEF Row, At
<1>6. \/ q.quantity = 0 /\ rows' = [rows EXCEPT ![k] = NoRow]
      \/ q.quantity = q.held /\ rows' = rows
      \/ q.quantity # 0 /\ rows' = [rows EXCEPT ![k].quantity = q.quantity]
    BY DEF UpdateCommits
<1>7. \A i \in RowIds : i # k => rows'[i] = rows[i]
    BY <1>6 DEF Inv, Types
<1>8. \/ q.quantity = 0 /\ rows'[k] = NoRow
      \/ rows'[k] # NoRow /\ rows'[k].owner = q.owner /\ rows'[k].line = q.line
         /\ rows'[k].quantity = q.quantity
    <2>1. CASE q.quantity = 0 /\ rows' = [rows EXCEPT ![k] = NoRow]
        BY <1>2, <2>1 DEF Inv, Types
    <2>2. CASE q.quantity = q.held /\ rows' = rows
        BY <1>3, <1>4, <2>2 DEF At
    <2>3. CASE q.quantity # 0 /\ rows' = [rows EXCEPT ![k].quantity = q.quantity]
        <3>1. rows'[k] = [rows[k] EXCEPT !.quantity = q.quantity]
            BY <1>2, <2>3 DEF Inv, Types
        <3>2. [rows[k] EXCEPT !.quantity = q.quantity] \in Row
            BY <1>2, <1>4, <2>3 DEF Row
        <3> QED
            BY <1>5, <3>1, <3>2, RowIsNotNoRow
    <2> QED
        BY <1>6, <2>1, <2>2, <2>3
<1>9. Carts(rows')[q.owner][q.line] = q.quantity
    <2>1. CASE q.quantity = 0 /\ rows'[k] = NoRow
        <3>1. \A i \in RowIds : ~At(rows', i, q.owner, q.line)
            BY <1>2, <1>4, <1>7, <2>1 DEF At, Inv, Single
        <3> QED
            BY <1>2, <2>1, <3>1, RowsStaySingle, CartsHold
    <2>2. CASE At(rows', k, q.owner, q.line) /\ rows'[k].quantity = q.quantity
        BY <1>2, <2>2, RowsStaySingle, CartsHold
    <2> QED
        BY <1>8, <2>1, <2>2 DEF At
<1>10. \A p \in Owners, m \in Lines : ~(p = q.owner /\ m = q.line) => \A i \in RowIds :
            /\ At(rows, i, p, m) <=> At(rows', i, p, m)
            /\ At(rows, i, p, m) => rows[i].quantity = rows'[i].quantity
    BY <1>4, <1>7, <1>8 DEF At
<1>11. Carts(rows') = [Carts(rows) EXCEPT ![q.owner][q.line] = q.quantity]
    BY <1>2, <1>9, <1>10, RowsAreSingle, RowsStaySingle, OneLineSet
<1> QED
    BY <1>1, <1>11 DEF Promised

LEMMA CheckoutPromised ==
    ASSUME Inv, Inv', Exact, NEW r \in Requests, request[r].during = {}, CheckoutClears(r)
    PROVE  /\ Carts(rows') = Promised(Carts(rows), request[r])
           /\ request[r].lines = Load(InScope(request[r].owner))
<1> DEFINE q == request[r]
           d == [Carts(rows) EXCEPT ![q.owner] = Empty]
<1>1. /\ q.op = "checkout" /\ q \in Request /\ Current(q)
      /\ rows' = [i \in RowIds |-> IF i \in InScope(q.owner) THEN NoRow ELSE rows[i]]
    BY DEF CheckoutClears, Inv, Types, Exact
<1>2. q.owner \in Owners /\ q.lines = Load(InScope(q.owner))
    BY <1>1 DEF Request, Idle, Current
<1>3. /\ Carts(rows) \in [Owners -> [Lines -> Nat]]
      /\ Carts(rows') \in [Owners -> [Lines -> Nat]]
    BY RowsAreSingle, RowsStaySingle, CartsHold
<1>4. /\ d \in [Owners -> [Lines -> Nat]]
      /\ \A p \in Owners, m \in Lines : d[p][m] = IF p = q.owner THEN 0 ELSE Carts(rows)[p][m]
    BY <1>3 DEF Empty
<1>5. \A i \in RowIds : rows'[i] = IF rows[i].owner = q.owner THEN NoRow ELSE rows[i]
    BY <1>1 DEF InScope
<1>6. ASSUME NEW p \in Owners, NEW m \in Lines PROVE Carts(rows')[p][m] = d[p][m]
    <2>1. CASE p = q.owner
        <3>1. \A i \in RowIds : ~At(rows', i, p, m)
            BY <1>5, <2>1 DEF At
        <3>2. Carts(rows')[p][m] = 0
            BY <3>1, RowsStaySingle, CartsHold
        <3> QED
            BY <1>4, <2>1, <3>2
    <2>2. CASE p # q.owner
        <3>1. \A i \in RowIds : /\ At(rows, i, p, m) <=> At(rows', i, p, m)
                                /\ At(rows, i, p, m) => rows[i].quantity = rows'[i].quantity
            BY <1>5, <2>2 DEF At
        <3>2. Carts(rows')[p][m] = Carts(rows)[p][m]
            BY <3>1, RowsAreSingle, RowsStaySingle, SameLine
        <3> QED
            BY <1>4, <2>2, <3>2
    <2> QED
        BY <2>1, <2>2
<1> HIDE DEF d
<1>7. Carts(rows') = d
    BY <1>3, <1>4, <1>6, SameCarts
<1> QED
    BY <1>1, <1>2, <1>7 DEF Promised, d

\* What a merge nobody has disturbed has loaded, and how it hands rows over.
LEMMA MergeKnows ==
    ASSUME Inv, Exact, NEW r \in Requests, request[r].during = {},
           request[r].op = "merge", request[r].found
    PROVE  LET q == request[r] IN
           /\ q.owner \in Users /\ q.session \in Sessions /\ q.owner # q.session
           /\ q.owner \in Owners /\ q.session \in Owners
           /\ DOMAIN q.guest = InScope(q.session) /\ DOMAIN q.user = InScope(q.owner)
           /\ \A i \in InScope(q.session) : q.guest[i] = rows[i]
           /\ \A i \in InScope(q.owner) : q.user[i] = rows[i]
           /\ \A g \in InScope(q.session) :
                Partners(q, g) = FindExisting(q.owner, rows[g].line)
           /\ Grown(q) \subseteq InScope(q.owner)
           /\ Transferred(q) \subseteq InScope(q.session)
           /\ Absorbed(q) \subseteq InScope(q.session)
<1> DEFINE q == request[r]
<1>1. Current(q) /\ q.owner \in Users /\ q.session \in Sessions
    BY RefersToRows DEF Exact, Inv
<1>2. q.guest = Load(InScope(q.session)) /\ q.user = Load(InScope(q.owner))
    BY <1>1 DEF Current
<1>3. /\ DOMAIN q.guest = InScope(q.session) /\ DOMAIN q.user = InScope(q.owner)
      /\ \A i \in InScope(q.session) : q.guest[i] = rows[i]
      /\ \A i \in InScope(q.owner) : q.user[i] = rows[i]
    BY <1>2 DEF Load
<1>4. q.owner # q.session /\ q.owner \in Owners /\ q.session \in Owners
    BY <1>1, OwnersAssumption DEF Owners
<1>5. \A g \in InScope(q.session) : Partners(q, g) = FindExisting(q.owner, rows[g].line)
    BY <1>3 DEF Partners, FindExisting
<1>6. /\ Grown(q) \subseteq InScope(q.owner)
      /\ Transferred(q) \subseteq InScope(q.session)
      /\ Absorbed(q) \subseteq InScope(q.session)
    BY <1>3 DEF Grown, Partners, Transferred, Absorbed
<1> QED
    BY <1>1, <1>3, <1>4, <1>5, <1>6

\* It finds every row it is to update, and no index in its way.
LEMMA MergeSucceeds ==
    ASSUME Inv, Exact, NEW r \in Requests, request[r].during = {},
           request[r].op = "merge", request[r].found
    PROVE  Mergeable(request[r])
<1> DEFINE q == request[r]
<1>1. ASSUME NEW i \in Grown(q) \cup Transferred(q) PROVE rows[i] # NoRow
    BY <1>1, MergeKnows, Scopes DEF Inv
<1>2. ASSUME NEW g \in Transferred(q) PROVE FindExisting(q.owner, rows[g].line) \subseteq {g}
    <2>1. g \in InScope(q.session) /\ Partners(q, g) = {}
        BY MergeKnows DEF Transferred
    <2> QED
        BY <2>1, MergeKnows
<1> QED
    BY <1>1, <1>2 DEF Mergeable

\* One row that both carts have of a line takes over what the guest's holds.
LEMMA MergeAddsUp ==
    ASSUME Inv, Exact, NEW r \in Requests, request[r].during = {},
           request[r].op = "merge", request[r].found,
           NEW u \in InScope(request[r].owner), NEW g \in InScope(request[r].session),
           rows[u].line = rows[g].line
    PROVE  LET q == request[r] IN
           /\ u \in Grown(q) /\ u \notin Absorbed(q)
           /\ Increment(q, u) = rows[u].quantity + rows[g].quantity
<1> DEFINE q == request[r]
           h == CHOOSE h \in Absorbed(q) : u \in Partners(q, h)
<1>1. u \in Partners(q, g)
    BY MergeKnows DEF FindExisting
<1>2. g \in Absorbed(q)
    BY <1>1, MergeKnows DEF Absorbed, Transferred
<1>3. u \notin Absorbed(q)
    BY MergeKnows DEF InScope
<1>4. u \in Grown(q)
    BY <1>1, <1>2, <1>3 DEF Grown
<1>5. h \in Absorbed(q) /\ u \in Partners(q, h)
    BY <1>1, <1>2
<1>6. h \in InScope(q.session) /\ rows[h].line = rows[u].line
    BY <1>5, MergeKnows DEF FindExisting
<1>7. h = g
    BY <1>6, MergeKnows, Scopes DEF Inv, Single
<1>8. Increment(q, u) = q.user[u].quantity + q.guest[h].quantity
    BY DEF Increment
<1> HIDE DEF h
<1> QED
    BY <1>3, <1>4, <1>6, <1>7, <1>8, MergeKnows

LEMMA MergePromised ==
    ASSUME Inv, Inv', Exact, NEW r \in Requests, request[r].during = {}, MergeCommits(r)
    PROVE  Carts(rows') = Promised(Carts(rows), request[r])
<1> DEFINE q == request[r]
           a == q.owner
           b == q.session
           c == Carts(rows)
           d == [c EXCEPT ![a] = [l \in Lines |-> c[a][l] + c[b][l]], ![b] = Empty]
<1>1. q.op = "merge" /\ q.found /\ rows' = Merged(q)
    BY DEF MergeCommits
<1>2. /\ a # b /\ a \in Owners /\ b \in Owners
      /\ DOMAIN q.guest = InScope(b)
      /\ Grown(q) \subseteq InScope(a)
      /\ Transferred(q) \subseteq InScope(b) /\ Absorbed(q) \subseteq InScope(b)
    BY <1>1, MergeKnows
<1>3. /\ c \in [Owners -> [Lines -> Nat]]
      /\ Carts(rows') \in [Owners -> [Lines -> Nat]]
    BY RowsAreSingle, RowsStaySingle, CartsHold
<1>4. /\ d \in [Owners -> [Lines -> Nat]]
      /\ \A p \in Owners, m \in Lines : d[p][m] =
            IF p = b THEN 0 ELSE IF p = a THEN c[a][m] + c[b][m] ELSE c[p][m]
    BY <1>2, <1>3 DEF Empty
<1>5. ASSUME NEW i \in RowIds
      PROVE  /\ i \in Absorbed(q) => rows'[i] = NoRow
             /\ i \in Grown(q) =>
                /\ rows'[i] = [rows[i] EXCEPT !.quantity = Increment(q, i)]
                /\ rows'[i] # NoRow /\ rows'[i].owner = a /\ rows'[i].line = rows[i].line
                /\ rows'[i].quantity = Increment(q, i)
             /\ i \in Transferred(q) =>
                /\ rows'[i] # NoRow /\ rows'[i].owner = a /\ rows'[i].line = rows[i].line
                /\ rows'[i].quantity = rows[i].quantity
             /\ i \notin Absorbed(q) \cup Grown(q) \cup Transferred(q) => rows'[i] = rows[i]
    <2>1. rows'[i] =
            IF i \in Absorbed(q) THEN NoRow
            ELSE IF i \in Grown(q) THEN [rows[i] EXCEPT !.quantity = Increment(q, i)]
            ELSE IF i \in Transferred(q) THEN [rows[i] EXCEPT !.owner = a]
            ELSE rows[i]
        BY <1>1 DEF Merged
    <2>2. /\ i \in Absorbed(q) => rows[i].owner = b
          /\ i \in Transferred(q) => rows[i].owner = b
          /\ i \in Grown(q) => rows[i].owner = a
        BY <1>2 DEF InScope
    <2>3. i \in Grown(q) \cup Transferred(q) => rows[i] \in Row
        BY <1>2, Scopes DEF Inv
    <2>4. i \in Transferred(q) => i \notin Absorbed(q)
        BY DEF Absorbed
    <2>5. CASE i \in Grown(q)
        <3>1. rows'[i] = [rows[i] EXCEPT !.quantity = Increment(q, i)]
            BY <1>2, <2>1, <2>2, <2>5
        <3>2. /\ rows'[i].owner = a /\ rows'[i].line = rows[i].line
              /\ rows'[i].quantity = Increment(q, i)
            BY <2>2, <2>3, <2>5, <3>1 DEF Row
        <3>3. rows'[i] # NoRow
            BY <1>2, <3>2, NobodyOwnsNoRow
        <3> QED
            BY <1>2, <2>2, <2>5, <3>1, <3>2, <3>3
    <2>6. CASE i \in Transferred(q)
        <3>1. rows'[i] = [rows[i] EXCEPT !.owner = a]
            BY <1>2, <2>1, <2>2, <2>4, <2>6
        <3>2. /\ rows'[i].owner = a /\ rows'[i].line = rows[i].line
              /\ rows'[i].quantity = rows[i].quantity
            BY <2>3, <2>6, <3>1 DEF Row
        <3>3. rows'[i] # NoRow
            BY <1>2, <3>2, NobodyOwnsNoRow
        <3> QED
            BY <1>2, <2>2, <2>4, <2>6, <3>2, <3>3
    <2>7. CASE i \notin Grown(q) \cup Transferred(q)
        BY <2>1, <2>7
    <2> QED
        BY <2>5, <2>6, <2>7
<1>6. ASSUME NEW p \in Owners, p # a, p # b, NEW m \in Lines
      PROVE  Carts(rows')[p][m] = c[p][m]
    <2>1. ASSUME NEW i \in RowIds
          PROVE  /\ At(rows, i, p, m) <=> At(rows', i, p, m)
                 /\ At(rows, i, p, m) => rows[i].quantity = rows'[i].quantity
        <3>1. CASE i \in Absorbed(q)
            BY <1>2, <1>5, <1>6, <3>1 DEF At, InScope
        <3>2. CASE i \in Grown(q) \cup Transferred(q)
            BY <1>2, <1>5, <1>6, <3>2 DEF At, InScope
        <3>3. CASE i \notin Absorbed(q) \cup Grown(q) \cup Transferred(q)
            BY <1>5, <3>3 DEF At
        <3> QED
            BY <3>1, <3>2, <3>3
    <2> QED
        BY <2>1, RowsAreSingle, RowsStaySingle, SameLine
<1>7. ASSUME NEW m \in Lines PROVE Carts(rows')[b][m] = 0
    <2>1. ASSUME NEW i \in RowIds PROVE ~At(rows', i, b, m)
        <3>1. CASE i \in Absorbed(q) \cup Grown(q) \cup Transferred(q)
            BY <1>2, <1>5, <3>1 DEF At
        <3>2. CASE i \notin Absorbed(q) \cup Grown(q) \cup Transferred(q)
            <4>1. i \notin InScope(b)
                BY <1>2, <3>2 DEF Absorbed
            <4> QED
                BY <1>5, <3>2, <4>1 DEF At, InScope
        <3> QED
            BY <3>1, <3>2
    <2> QED
        BY <1>2, <2>1, RowsStaySingle, CartsHold
<1>8. ASSUME NEW m \in Lines PROVE Carts(rows')[a][m] = c[a][m] + c[b][m]
    <2>1. /\ \A i \in InScope(a) : i \in RowIds /\ rows[i] \in Row /\ rows[i] # NoRow
          /\ \A i \in InScope(b) : i \in RowIds /\ rows[i] \in Row /\ rows[i] # NoRow
        BY <1>2, Scopes DEF Inv
    <2>2. /\ \A i \in InScope(a) : rows[i].line = m => c[a][m] = rows[i].quantity
          /\ \A i \in InScope(b) : rows[i].line = m => c[b][m] = rows[i].quantity
          /\ (\A i \in InScope(a) : rows[i].line # m) => c[a][m] = 0
          /\ (\A i \in InScope(b) : rows[i].line # m) => c[b][m] = 0
        BY <1>2, <2>1, RowsAreSingle, CartsHold DEF At, InScope
    <2>3. c[a][m] \in Nat /\ c[b][m] \in Nat
        BY <1>2, <1>3
    <2>4. \A i \in RowIds : At(rows', i, a, m) => Carts(rows')[a][m] = rows'[i].quantity
        BY <1>2, RowsStaySingle, CartsHold
    <2>5. ASSUME NEW u \in InScope(a), rows[u].line = m, NEW g \in InScope(b), rows[g].line = m
          PROVE  Carts(rows')[a][m] = c[a][m] + c[b][m]
        <3>1. u \in Grown(q) /\ Increment(q, u) = rows[u].quantity + rows[g].quantity
            BY <1>1, <2>5, MergeAddsUp
        <3>2. At(rows', u, a, m) /\ rows'[u].quantity = rows[u].quantity + rows[g].quantity
            BY <1>5, <2>1, <2>5, <3>1 DEF At
        <3> QED
            BY <2>1, <2>2, <2>4, <2>5, <3>2
    <2>6. ASSUME NEW u \in InScope(a), rows[u].line = m, \A g \in InScope(b) : rows[g].line # m
          PROVE  Carts(rows')[a][m] = c[a][m] + c[b][m]
        <3>1. u \notin Grown(q)
            <4> SUFFICES ASSUME u \in Grown(q) PROVE FALSE
                OBVIOUS
            <4>1. PICK h \in Absorbed(q) : u \in Partners(q, h)
                BY DEF Grown
            <4>2. h \in InScope(b) /\ rows[h].line = m
                BY <1>1, <1>2, <2>6, <4>1, MergeKnows DEF FindExisting
            <4> QED
                BY <2>6, <4>2
        <3>2. u \notin Absorbed(q) /\ u \notin Transferred(q)
            BY <1>2 DEF InScope
        <3>3. rows'[u] = rows[u] /\ At(rows', u, a, m)
            BY <1>5, <2>1, <2>6, <3>1, <3>2 DEF At, InScope
        <3>4. c[a][m] = rows[u].quantity /\ c[b][m] = 0
            BY <2>2, <2>6
        <3> QED
            BY <2>1, <2>3, <2>4, <3>3, <3>4
    <2>7. ASSUME \A u \in InScope(a) : rows[u].line # m, NEW g \in InScope(b), rows[g].line = m
          PROVE  Carts(rows')[a][m] = c[a][m] + c[b][m]
        <3>1. Partners(q, g) = {}
            BY <1>1, <2>7, MergeKnows DEF FindExisting
        <3>2. g \in Transferred(q)
            BY <1>2, <3>1 DEF Transferred
        <3>3. At(rows', g, a, m) /\ rows'[g].quantity = rows[g].quantity
            BY <1>5, <2>1, <2>7, <3>2 DEF At
        <3>4. c[a][m] = 0 /\ c[b][m] = rows[g].quantity
            BY <2>2, <2>7
        <3> QED
            BY <2>1, <2>3, <2>4, <3>3, <3>4
    <2>8. ASSUME \A u \in InScope(a) : rows[u].line # m, \A g \in InScope(b) : rows[g].line # m
          PROVE  Carts(rows')[a][m] = c[a][m] + c[b][m]
        <3>1. ASSUME NEW i \in RowIds PROVE ~At(rows', i, a, m)
            <4>1. CASE i \in Absorbed(q)
                BY <1>5, <4>1 DEF At
            <4>2. CASE i \in Grown(q) \cup Transferred(q)
                BY <1>2, <1>5, <2>8, <4>2 DEF At
            <4>3. CASE i \notin Absorbed(q) \cup Grown(q) \cup Transferred(q)
                BY <1>5, <2>8, <4>3 DEF At, InScope
            <4> QED
                BY <4>1, <4>2, <4>3
        <3>2. Carts(rows')[a][m] = 0
            BY <1>2, <3>1, RowsStaySingle, CartsHold
        <3>3. c[a][m] = 0 /\ c[b][m] = 0
            BY <2>2, <2>8
        <3> QED
            BY <3>2, <3>3
    <2> QED
        BY <2>5, <2>6, <2>7, <2>8
<1>9. \A p \in Owners, m \in Lines : Carts(rows')[p][m] = d[p][m]
    BY <1>2, <1>4, <1>6, <1>7, <1>8
<1>10. Promised(c, q) = d
    BY <1>1 DEF Promised
<1> HIDE DEF c, d
<1>11. Carts(rows') = d
    BY <1>3, <1>4, <1>9, SameCarts
<1> QED
    BY <1>10, <1>11 DEF c

\* CartService and CartRepository, request by request: with nobody else at the carts
\* or the catalogue, an add, an update, a merge and a checkout do to the carts
\* exactly what they are for, or find what they promise to refuse.
THEOREM UndisturbedRequestsAreExact == Spec => UndisturbedIsExact
<1> DEFINE Done == \A r \in Requests :
        Ends(r) /\ request[r].during = {} =>
            \/ /\ Carts(rows') = Promised(Carts(rows), request[r])
               /\ request[r].op = "checkout" =>
                    request[r].lines = Load(InScope(request[r].owner))
            \/ request[r].op = "checkout" /\ rows' = rows
<1>1. ASSUME Inv, Inv', Counters, Exact, [Next]_vars, NEW r \in Requests, Ends(r),
             request[r].during = {}
      PROVE  \/ /\ Carts(rows') = Promised(Carts(rows), request[r])
                /\ request[r].op = "checkout" =>
                    request[r].lines = Load(InScope(request[r].owner))
             \/ request[r].op = "checkout" /\ rows' = rows
    <2> DEFINE q == request[r]
    <2>1. CASE AddFinds(r) /\ Abandon(r)
        BY <1>1, <2>1, NoChangePromised DEF AddFinds
    <2>2. CASE AddInserts(r) \/ AddIncrements(r)
        BY <1>1, <2>2, AddPromised DEF AddInserts, AddIncrements
    <2>3. CASE AddFails(r)
        <3>1. q.op = "add" /\ q.found /\ Current(q)
            BY <1>1, <2>3 DEF AddFails, Exact
        <3>2. q.row = NoId => Unclaimed(q.owner, q.line)
            BY <1>1, <3>1 DEF Current, Unclaimed
        <3>3. q.row # NoId => rows[q.row] # NoRow
            <4>1. ASSUME q.row # NoId PROVE q.row \in FindExisting(q.owner, q.line)
                BY <1>1, <3>1, <4>1 DEF Current
            <4> QED
                BY <1>1, <3>1, <4>1, AddKnows DEF At
        <3> QED
            BY <2>3, <3>2, <3>3 DEF AddFails
    <2>4. CASE UpdateCommits(r)
        BY <1>1, <2>4, UpdatePromised DEF UpdateCommits
    <2>5. CASE UpdateFails(r)
        <3>1. q.op = "update" /\ rows[q.row] = NoRow /\ Current(q) /\ q \in Request
            BY <1>1, <2>5 DEF UpdateFails, Exact, Inv, Types
        <3>2. q.row \in FindExisting(q.owner, q.line) /\ q.owner \in Owners
            BY <1>1, <3>1 DEF Current, Request, Idle
        <3> QED
            BY <1>1, <3>1, <3>2, Scopes DEF FindExisting, Inv
    <2>6. CASE MergeCommits(r)
        BY <1>1, <2>6, MergePromised DEF MergeCommits
    <2>7. CASE MergeFails(r)
        BY <1>1, <2>7, MergeSucceeds DEF MergeFails
    <2>8. CASE CheckoutClears(r)
        BY <1>1, <2>8, CheckoutPromised
    <2>9. CASE CheckoutFails(r)
        BY <2>9 DEF CheckoutFails
    <2>10. CASE DeleteVariantCommits(r)
        BY <2>10 DEF DeleteVariantCommits, Promised
    <2> QED
        BY <1>1, <2>1, <2>2, <2>3, <2>4, <2>5, <2>6, <2>7, <2>8, <2>9, <2>10, EndsByItself
<1>2. Inv /\ Inv' /\ Counters /\ Exact /\ [Next]_vars => [Done]_vars
    BY <1>1
<1> QED
    BY <1>2, CartInvariants, InitExact, NextExact, PTL DEF Spec, UndisturbedIsExact
=============================================================================
