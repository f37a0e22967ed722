# La Tiendita: TLA+ models of the store

La Tiendita is a clothing store: a Litestar/SQLAlchemy backend on PostgreSQL and Redis
(`src/backend/app`), an Angular frontend (`src/frontend`), Stripe and Swish as payment
providers. This directory holds TLA+ modules of the parts where requests, webhooks,
administration and failures interleave, TLC configurations that check them on small
instances, and TLAPS proofs for every instance.

Run, inside this directory:

    tlc -workers 2 -config Orders_concurrent.cfg MCTwoOrders.tla
    tlc -workers 2 -config Cart_concurrent.cfg MCCart.tla
    tlapm OrdersProofs.tla

A module `X` has its properties in `XProperties`, the values TLC gives its constants in `MCX` and
`X_<run>.cfg`, and its proofs in `XProofs`; `Sums` holds what several proofs need. `PROJECT.json`
lists the runs, the source lines of every definition, the hazards with the properties about them
(and, where a property lets the race itself pass, a note that says so), and for
every property a mutated definition (in the modules, marked `Mutant:`, beside the one it mutates)
that breaks it.

## 1. Inventory

| Part | State | Operations | What is hard | Module |
|---|---|---|---|---|
| Orders (`services/order_service.py`, `controllers/orders.py`) | `orders`, `order_items`; writes `product_variants` | checkout, `finalize_payment`, owner's cancel | READ COMMITTED without row locks; ORM copies written back; a savepoint inside a transaction; Stripe called before the commit | `Orders` |
| Payments (`payments/`, `controllers/payments.py`) | `orders.payment_status`, Stripe sessions | session creation; completed, expired, refunded, declined, paid | notifications arrive twice, late, out of order and concurrently; automatic refund that may fail | `Orders` |
| Admin order machine (`services/admin_order_service.py`) | `orders.status` | status transitions | two admins, admin against webhook; guest orders without a user | `Orders` |
| Variants (`services/variant_service.py`, `repositories/variant_repository.py`) | `stock`, `reserved_stock`, `deleted_at` | create, update, soft delete, conditional deduction | absolute writes against relative ones; deletion while orders or carts refer | `Orders`, `Cart`, `Catalogue` |
| Promotions (`services/promotion_service.py`) | `current_uses`, `max_uses`, dates, activity | create, update, delete, count a use, best promotion | the cap under concurrent settlements; answers with and without a promotion | `Orders`, `Catalogue` |
| Cart (`services/cart_service.py`, `repositories/cart_repository.py`) | `cart_items` per user or guest session | add, update, remove, clear, merge at login, clear at checkout | check-then-write on rows and stock; bulk hand-over from copies; unique indexes | `Cart` |
| Cache (`core/cache.py`, `core/handlers/cache_invalidation.py`) | Redis entries with a time to live | cache-aside read, invalidation by event | a refill with old rows after the invalidation; invalidation before the commit; Redis errors swallowed | `Catalogue` |
| Products and categories (`services/product_service.py`, `slug_service.py`, `controllers/categories.py`) | `products`, `categories`, slugs | create, edit, soft delete, listing | the slug is chosen before it is inserted; a foreign key set to null behind the cache's back | `Catalogue` |
| Accounts (`services/admin_user_service.py`, `auth_service.py`, `controllers/profile.py`) | `users` and every table that refers to them | register, Google login, role, e-mail, deletion | deletion while the user's requests run; two administrators against each other; unique indexes and foreign keys decide late | `Accounts` |
| Reviews and wishlist | one row per user and product | create, add, remove | look before insert, against a unique constraint and a deletion | `Accounts` |
| Login and refresh tokens (`services/token_service.py`) | `refresh_tokens`, access tokens | login, refresh, logout | concurrent refresh; reuse detection whose revocation is rolled back | `Sessions` |
| Frontend session handling (`core/interceptors`, `core/services/auth.service.ts`) | tokens in storage, signals | login, refresh on 401, expiry timer, logout | several 401 answers, one refresh, logout meanwhile | `Sessions` |
| Password reset, second factor (`services/password_reset_service.py`, `controllers/profile.py`) | `password_reset_tokens`, `totp_secret`, `totp_enabled` | request, reset; setup, enable, disable, two-step login | one-time token used twice concurrently; columns written only where they differ from a stale copy | `Credentials` |
| Event bus, e-mail, audit (`core/event_bus.py`, `core/email_handler.py`) | asyncio tasks, `audit_logs` | emit, handlers in their own sessions | events leave before the commit; handler failures are swallowed; tasks die with the process | `Mail`, `Accounts`, `Catalogue` |
| Rate limiting (`middleware/rate_limit.py`) | Redis counters, buckets in memory | count, expire, fall back | a failure between INCR and EXPIRE; two counters of one limit | `RateLimit` |
| Image upload and worker (`controllers/upload.py`, `utils/image.py`, `worker/`) | files, jobs in Redis, the connection | save, queue, remove after an error; resize, thumbnail | an error after the job was queued; the worker dies while it overwrites the only copy | `Uploads` |
| Newsletter, dashboard, i18n, serializers, templates | rows, files | single-row writes, queries | little: no shared steps | none (section 10) |
| Frontend cart and pages | signals of one tab | optimistic updates | section 10 | none |

How they interact: controllers run one database session per request and commit when the
handler returns (`provide_session`); webhooks open their own. Services call each other
directly (the providers call `OrderService.finalize_payment`), share rows through the
database, and leave e-mail, audit and cache invalidation to the event bus, whose handlers
run as tasks with their own sessions, also when the emitting transaction rolls back.

What makes each part correct: stock never negative and accounted for unit by unit; an order moves
on only when it was reported paid and deducted; promotion uses are those of what was settled;
every captured payment comes to an end; a cart has one row per line and nothing in it that nobody
asked for; a refresh token is exchanged once and the one a browser holds works; a reset link is
used once and a second factor is enabled by who holds its secret; an answer from the cache is what
the database would answer, and where it is not, not for long; a request that runs beside nobody
does what its checks let it in for; what an e-mail tells is so; a limit limits and does not last;
an upload that failed leaves no file and one that succeeded gets its thumbnail.

## 2. Plan

1. `Orders` with `Fulfilment`, the abstract promise of the core (an order is placed, its payment
   reported, settled out of the stock and shipped, each in one atomic step), which `Orders`
   implements. Done; proofs in `OrdersProofs`.
2. `Sessions`: the tabs of a browser and the refresh tokens of the backend. Done, with proofs.
3. `Cart`: carts of users and guests, merge at login, the clearing by checkout. Done, with proofs.
4. `Catalogue`: products, promotions and categories behind the cache, reads, refills,
   invalidations by tasks, outages. Done, with proofs.
5. `Accounts`: registration, Google login, administration, deletion and the rows that refer to
   an account. Done, with proofs.
6. `Mail` and, on top of it, `Credentials`: e-mail tasks, reset links, second factor. Done, with
   proofs.
7. `Redis`, and `RateLimit` and `Uploads` on it, composed in `Helpers`. Done, with proofs.

8. `Sums`: induction and sums, for the invariants that count: `NoOversell`, `StockLedger`,
   `UsesLedger`, `NothingInvented`, `UndisturbedIsExact`, `WindowBound`. Done.

Left: the choice among several promotions as an operator compared between its two
implementations; the frontend's cart.

## 3. The order core

### Modules

* `Orders.tla` is the model. `OrdersProperties.tla` states what it keeps, and, for a run of its
  own, what a docstring says and the code does not keep. `MCOrders.tla` gives TLC carts, symmetry
  and a view; `MCTwoOrders.tla` is the instance with two orders.
* `Fulfilment.tla` is what a customer may rely on, with one atomic step for what `Orders`
  does in several: `Place`, `Report`, `Settle` (only a reported order, out of the present
  stock, in one piece), `Ship`, `Deliver`, `Cancel` (at any time: a refund notification cancels
  whatever the order has become) and `Restock`. `OrdersProperties!Abstract` maps its
  `reported` to the orders with a paid notification and its `settled` to `deducts`.
* `OrdersProofs.tla` proves the safety theorems and that `Orders` implements `Fulfilment`.

### State

`stock`, `reserved`, `deleted` are columns of `product_variants`; `status`, `pay`, `items`,
`codes`, `owned` are columns of an order and of its items (`codes` counts the items whose snapshot
holds a promotion code; the provider's column is never read back); `promo` is the one promotion
behind those codes; `gateway` is the Stripe Checkout session of an order; `events` are the
notifications ever sent, any of which may be delivered at any time and again, `acked` those
answered with 200; `emitted` is what went to the event bus; `tx` is the database session of each
request in flight. `deducts` and `received` are history: how often an order was settled and how
many units were ever put into a variant's stock.

### Actions

A request is a load, which copies committed rows into the session, and a finish, which
writes and commits. The code justifies the two instants: PostgreSQL runs at READ COMMITTED,
no handler locks what it reads, and a written row stays locked until the commit, so nobody
sees or overtakes the writes in between. Columns computed in Python (`reserved_stock +=`,
the cancel's `stock +=`) are written from the copy; conditional updates (`deduct_stock`,
`increment_usage`, `transition_status`) read the row. A column equal to the session's copy is
not written at all, which matters in `ConfirmStatus` and `RefundedFinish`.

| Code | Actions |
|---|---|
| `OrderService.checkout` | `CheckoutLoad`, `CheckoutFinish`, `CheckoutRefused`, `CheckoutLost` |
| Stripe, Swish and their customers (outside `src/`) | `CustomerPays`, `SessionExpires`, `MerchantRefunds`, `SwishAnswers` |
| `_handle_payment_succeeded`, Swish `paid`, `finalize_payment` | `PaidAlready`, `PaidLoad`, `PaidCheck` (PAID is flushed, which locks the order, and the stock is pre-validated), then `PaidConfirms`, `PaidShort` or `PaidLost` |
| `_handle_session_expired`, Swish `declined` | `FailedAlready`, `FailedLoad`, `FailedFinish` |
| `_handle_charge_refunded` | `RefundedSkipped`, `RefundedLoad`, `RefundedFinish` |
| `update_order_status` | `AdminLoad`, `AdminFinish`, `AdminLost`, `AdminRaises`, `AdminStale` |
| `cancel_order` | `CancelLoad`, `CancelRaises`, `CancelRead`, `CancelFinish` |
| variant, promotion and account administration | `UpdateVariant`, `DeleteVariant`, `UpdatePromotion`, `DeletePromotion`, `UnassignUser` |
| a request that fails before it wrote anything | `Crash` |

What a request does outside the database is not undone by its rollback: `CheckoutLost` leaves
a Stripe session behind, `PaidLost` a confirmation event or a requested refund, `AdminLost`
and `AdminRaises` an audit event.

`SwishAnswers` takes any order. The mock endpoint (`controllers/payments.py:79-123`, the default
mode) and `SwishProvider.handle_callback` load an order by its id and do not ask who its provider
is, so their `paid` confirms an order whose Stripe session nobody completed, and their `declined`
fails it. `Answers` says which of the two an instance has.

`ItemsEager` says whether `order.items` can be read in `cancel_order`. In the code it cannot
(the relationship is lazy and `session.get` does not load it), so every run but one has it
FALSE and `cancel_order` ends in `CancelRaises`. The run `orders_settles` sets it TRUE, so that
the statements behind the failing one, which are in the model but out of the code's reach, end as
well. `NoOversell` and `StockLedger` are not among its properties: a cancel that reached its
writes would restore stock from a stale copy.

Left out: order items without a variant (nothing is reserved or deducted for them), a cart's
own life (its content is chosen), amounts and addresses, several promotions in one order,
and promotion activation dates (`codes` may be 0 for any cart).

### Runs

Every run has one variant with one unit in carts of one unit unless it says otherwise. Two
handlers are enough for every race between two requests; two orders are needed only where they
compete for stock. `MaxDeducts` = 2 stops redelivery of an order settled twice, which is one more
than anything should; in `orders_settles`, whose properties look at the first settlement, it is 1.
`MaxChanges` and `MaxCrashes` bound administration and failures. Only `orders_concurrent` has
answers of Swish, and only `paid`: a decline takes the steps of an expired session, which the same
run has. The other runs are about the settlement, whoever reports it. Deadlock checking is off: a
shop whose order ids are used up may stand still.

`orders_concurrent` is 1.2 million states because a behaviour of its `MCSpec` has only some of what
may happen at the providers: Swish answers beside completed Stripe sessions, Swish answers beside
expired ones, or anything Stripe reports (with merchant refunds and no answers of Swish). So no
behaviour of that run has a payment, an expiry and a Swish answer, nor a merchant's refund beside
a Swish answer; the requests, the redelivery, the automatic refunds and
the two orders are those of `Spec`, less crashes and administration, whose bounds there are 0.

| Run | Instance | Shows |
|---|---|---|
| `orders_concurrent` | `MCSpec`, 2 orders, 2 handlers, Stripe and Swish, `paid` for either | `TypeOK`, `NoOversell`, `FulfilledWasDeducted`, `FulfilledWasPaid`, `PaidIsNotPending`, `ShippedFromConfirmed` |
| `orders_quantities` | 2 variants, stocks and caps of 1 and 2, carts of up to 2 units in all, 1 change, 1 crash | `StockLedger`, `UsesLedger`, `ImplementsFulfilment` |
| `orders_settles` | fair, 1 order, 2 handlers, `ItemsEager`, 1 crash | `RequestEnds`, `PaymentSettles` |
| `orders_doubled` | 1 order, stock of 2, 2 handlers | `SettledOnce` is violated |

Symmetry (handlers, orders) and the view (without `emitted` and `acked`, which no action and
no property of those runs reads) are used only in safety runs.

### Fairness

`Finish(h)` is strongly fair: once loaded, a request runs to its end in the server process,
and where it needs a row that another request has locked it queues in the database, so it
cannot be passed over for ever. `Redeliver(e)` is strongly fair: Stripe delivers a
notification again until it gets a 200. Nothing else is fair: customers need not pay, admins
need not act.

### What the code does not keep

`orders_doubled` ends with a counterexample: two deliveries of one completed event pass the
idempotency guard together, because the lookup whose docstring speaks of `FOR UPDATE` locks
nothing; stock and promotion uses are deducted twice. The same happens with one worker only:
completed, refunded, completed again settles the order twice, because the guard recognises
nothing but PAID.

Other behaviours of the model that contradict a document of the repository, and have no run of
their own:

* An admin cancels a pending order, the customer pays, and the settlement confirms it again
  (`order_service.py:293` writes the status it finds).
* Two checkouts write `reserved_stock` from the same copy, so one reservation is lost; no property
  is about `reserved`.
* A `paid` for a Stripe order on the Swish endpoint confirms it without a completed session; hence
  `FulfilledWasPaid` says "reported by Stripe, which was paid, or by a caller of that endpoint".
* A session expires or a payment fails and the reservation stays: no handler takes it back.
* `cancel_order` never cancels: the lazy load of `order.items` raises (`ItemsEager` FALSE).
* A guest's order cannot be shipped: `order.user` is None where the shipping event is built, so
  the transition fails after its audit event has left.
* A refund notification that overtakes the completed one takes `payment_status` from pending to
  refunded (`openspec/specs/payment-gateway/spec.md:76`).
* A variant with an unpaid order is deleted (`variant_service.py:163`).
* A checkout that dies between the creation of its Stripe session and its commit leaves a
  session a customer may pay for an order that is not there (`CheckoutLost`); its notifications
  find no order and are answered.

### Proofs

`OrdersProofs.tla` proves, for any finite sets of variants and orders, any handlers, carts and
bounds, and for both values of `ItemsEager` where nothing else is said:

* `TypeCorrect`: `Spec => []TypeOK`. The content is `stock \in [Variants -> Nat]`: the
  settlement's guard `InStock` is what keeps it.
* `DeductedBeforeFulfilled`, `PaidBeforeFulfilled`, `PaidLeavesPending`: the invariants
  `FulfilledWasDeducted`, `FulfilledWasPaid`, `PaidIsNotPending`.
* `ShippingOrder`: the step property `ShippedFromConfirmed`.
* `UsesAreCounted`: the promotion's ledger `UsesLedger`.
* `StockIsAccountedFor`, `NothingIsOversold`: `StockLedger` and `NoOversell`, if `~ItemsEager`,
  that is, with `cancel_order` as the code has it. With `ItemsEager` they would be false: a
  cancel that reached its writes would put back a level computed from a stale copy.
* `Implementation`: `ImplementsFulfilment`, if `~ItemsEager`.

`FulfilledWasDeducted`, `FulfilledWasPaid` and `PaidIsNotPending` are not inductive: an admin's
request carries the result of a gate judged earlier, a settlement carries a copy of the status,
and an unfinished checkout relies on an order id nobody else uses. `Inv` adds what sessions must
know (`SessionsInv`: checkouts own their ids, loaded orders exist and stay, payment sessions stem
from reports, admin sessions from settled orders) and that Stripe reports what it captured
(`PaidEventsAreTrue`). `SessionStep`, `EndingKeeps` and `SessionsKept` reduce each action to the
rows it writes; then there is one lemma per group of actions.

The ledgers are inductive beside `Inv` and `AbsentIsUnsettled` (an order that is not there was not
settled, so the checkout that writes its items and codes does not rewrite what was taken).
`LedgerWriters` says which steps write a column of a ledger: a settlement, which raises one
order's `deducts` by one and takes as much from every variant as `SumOneMore` says the sum grows;
a checkout, whose order counts for nothing yet; an administrator's new level, which `received`
follows. `NoOversell` then follows without an induction of its own: each fulfilled order was
settled at least once (`FulfilledWasDeducted`), and stock is not negative.

Under `Inv` every action is one abstract step of `Fulfilment` or leaves `seen` and the reported
orders alone; most are stutters, since a load changes no row. What has to be argued is that the
copies a finish writes from still justify its step: a payment session stems from a report, an
admin's session from an order that was settled, and a pending order's only transition by an admin
is its cancellation (two more parts of `Inv`). With `ItemsEager` the theorem would be false: the
cancel's restored stock is neither a level an admin sets nor taken by a settlement.

The assumptions used are those named in `Orders.tla`: finitely many variants and order ids,
carts of natural quantities, natural stock levels and caps, the known methods, natural bounds.
Ids are finitely many in any database; the ledgers need it for their sums to be sums.

Only model-checked: the liveness properties of `orders_settles`.

## 4. The session

### Modules

* `Sessions.tla` is the model: the tabs of one customer's browser, which share `localStorage`,
  and the rows of `refresh_tokens`. `SessionsProperties.tla` states what is kept,
  `MCSessions.tla` gives TLC the symmetry, `SessionsProofs.tla` has the proofs.

### State and actions

A pair of access and refresh token is one number, counted in the order of issue. `live` are
the rows of `refresh_tokens`, `storage` is the pair in `localStorage`, `user` is
`AuthStateService` of each tab, `refreshing` its `refreshing$`, `call` what is subscribed to
it, `request` a POST to `/auth/refresh` from sending to its answer, `login` the pair an
answered login carries, `leaving` a POST to `/auth/logout`. `parent`, `stored` and `contested`
are history.

| Code | Actions |
|---|---|
| `errorInterceptor` on a 401, the expiry dialog's "stay" | `CallRefused` with `RefreshToken`, which shares a refresh in flight |
| `share()` and `finalize` of `refreshToken` | `CallCancelled`, `RefreshAborted`, `Release` |
| answers in the browser | `RefreshSucceeds`, `RefreshFails`, `RefreshBreaks` |
| `TokenService.refresh` in its transaction | `RefreshLocks` (SELECT FOR UPDATE), `RefreshCommits`, `RefreshRefused`, `RefreshRollsBack`, `RequestForgotten` |
| login | `LoginServed`, `LoginAnswered`, `LoginLost` |
| logout | `Logout` (clears, then posts), `LogoutServed`, `LogoutFails` (the menu clears again) |
| start of the app, expired session | `Starts`, `SessionExpired` |

An access token's expiry is not a state: a 401 may come at any time, also to a call that left
without a token. `RefreshRefused` leaves the rows alone although `refresh` deletes them all:
it then raises `ValueError`, which becomes a 401, and `provide_session` rolls back.

Left out: two-factor login, OAuth and registration (they end in the same `setTokens`; the
backend's side of them is in `Accounts` and `Credentials`), what a
retried call comes back with, redirects, the 30 days after which a refresh token expires.

### Runs

| Run | Instance | Shows |
|---|---|---|
| `sessions_tabs` | 2 tabs, 2 waiting calls, 2 requests, 3 pairs, 1 loss | `TypeOK`, `ExchangedOnce`, `StoredIsLive`, `WaitersAreServed`, `OwnRefreshIsAccepted` |
| `sessions_replay` | the same without a loss | `ReplayRevokes` is violated |

Two tabs and two calls are what it takes to share a refresh and to race for a token; three
pairs allow a login and two exchanges; `MaxLosses` = 1 loses one answer or one transaction
anywhere. The customer waits for the answer to a login or a logout before sending another one
from another tab. Deadlock checking is off: when all pairs are issued the browser may rest.
No liveness is stated: a tab closes when it likes.

`sessions_replay` is what the documents say of a replayed refresh: every token of the user is
revoked (`token_service.py:140-142` and `:165-166`, `openspec/specs/auth/spec.md:105-109`, and a
test whose mocked session does not roll back). In the counterexample two tabs present one token;
the second is refused, and the pair of the first stays alive.

Other behaviours of the model that contradict a document: the customer logs out while a refresh is
under way; `AuthService.logout` does not touch it, its answer stores a pair the logout does not
revoke, and the tab is signed in again. The second of two tabs to present a token is refused and
clears the tokens that the first has just stored. A refresh that fails late clears the tokens of a
login made meanwhile.

### Proofs

`SessionsProofs.tla` proves all five invariants of `sessions_tabs` for any tabs, calls,
requests and bounds, from `NoRequest \notin Requests` and natural bounds. They rest on each
other through `Inv`. `IssueInv`: a pair that can still be exchanged has no successor.
`LockInv`: one refresh at a time is between its lookup and its commit, and its row stays.
`CarriedInv`: a pair on its way to the browser is live, was never stored, and is carried by
one answer only, while everything presented to the server has been stored; so nobody can spend
a pair before it arrives. `LeavingInv`: a logout revokes a pair that left the storage for good.
`SharingInv`: a tab's `refreshing$` is a request of that tab in flight. `ContestInv` says when
a presented token may be dead. A first group of lemmas (`ServerSteps`, `StorageSteps`,
`RequestSteps`, `WantedSteps` and others) reduces every action to what it may change; then
each part of `Inv` is kept by one lemma.

## 5. The cart

### Modules, state and actions

`Cart.tla` is `services/cart_service.py` and `repositories/cart_repository.py` with whatever else
writes `cart_items`: the merge at login or registration, the clearing at the end of a checkout,
and the administrator, who looks into carts before he deletes a variant. `rows` are the rows by
primary key (`inserted` counts the keys handed out, none is used again), `stock`, `deleted` and
`withdrawn` are the columns of variants and product a cart reads, `request` is what the requests
under way have loaded. `asked` and `twins` are history. One product stands for all of them; its
variants, and the line without a variant, are the lines of a cart.

| Code | Actions |
|---|---|
| `add_item` | `AddBegins` (variant and stock), `AddFinds` (`find_existing`, the stock against what the row holds), then `AddInserts`, `AddIncrements` or `AddFails` |
| `update_quantity`, `remove_item` | `UpdateBegins`, `UpdateCommits`, `UpdateFails` |
| `clear_cart` | `ClearCart` |
| `merge_guest_cart` | `MergeLoadsGuest`, `MergeLoadsUser`, `MergeCommits` or `MergeFails` |
| checkout, variant deletion, product edits | `CheckoutLoads`, `CheckoutClears`, `CheckoutFails`; `DeleteVariantBegins`, `DeleteVariantCommits`; `EditCatalogue` |

A request works on ORM copies: an increment writes an absolute quantity computed from its copy, an
UPDATE of a row that is gone fails (`StaleDataError`), a DELETE of one does not, an unchanged
attribute writes nothing, and a row the session has loaded before keeps its attributes when a
later SELECT finds it again (the merge, which loads two carts). `Unclaimed` is the four partial
unique indexes.

### The run

`cart_concurrent`: one user, one guest session, one variant and the line without one, quantities 0
to 2, stocks 0 and 2, two requests in flight, four in all, one change to the catalogue. Two
requests make every race there is between copies; four are needed for two adds, a merge and what
races with it. Deadlock checking is off: requests are bounded.

* `OneRowPerLine`: no interleaving leaves two rows of one line.
* `NothingInvented`: a line holds no more, over all carts, than was ever asked for, unless two
  merges of one guest cart overlapped (`twins`), which count it twice.
* `LoginKeepsLines`: a merge loses no line unless another merge committed beside it.
* `UndisturbedIsExact`: a request beside which nothing committed does exactly what it promises.
  Beside others it need not: quantities are overwritten, and a line added during a checkout is
  cleared without having been ordered.

### Proofs

`CartProofs.tla` proves all four properties and `TypeOK` for any owners, variants,
requests and bounds. Each rests on the one before it.

* `CartsHaveNoDoubles`. Inserts are refused by the index, so the argument is about the merge,
  which hands rows over in bulk by what it has loaded: keys are not used again (`Fresh`), the
  guest's rows had different lines when they were loaded and a row never changes its line
  (`Loads`).
* `CartTypes`. Keys do not run out: every request begun inserts one row at most, and has yet to
  insert it or is over (`Counters`, an inequality between a cardinality and two counters).
* `LoginsKeepLines`. What a request remembers of a row is of the line it was of and, as long as no
  other merge has committed beside it, of the owner (`Memory`).
* `CartsInventNothing`. The quantities in the rows are no inductive bound, since a write from a
  stale copy may raise a row again after somebody lowered it. `Peaks` is: there is a weight `w` of
  the rows of a line that no row exceeds and nobody remembers it to have exceeded, and the sum of
  `w` is within what was asked for. An add raises `w` of its row by its quantity, an insert gives
  the new key its weight, a merge moves the weight of the guest's row to the user's.
* `UndisturbedRequestsAreExact`. A request nobody has disturbed has read what it would read now
  (`Exact`); with one row per line (`Single`), a cart holds of a line what that row does
  (`Quantity`).

## 6. The catalogue behind its cache

### Modules, state and actions

`Catalogue.tla` is `core/cache.py`, the cached public reads, `core/handlers/cache_invalidation.py`
and the administrators' changes of products, promotions and categories. `products`, `promotions`
and `categories` are rows, `cache` is Redis, `reader` are public requests that missed, `admin` are
changes under way with the deletions their handlers have yet to carry out (`todo`).

| Code | Actions |
|---|---|
| a cached read | `ReaderMisses`, `ReaderCounts`, `ReaderReads`, `ReaderPrices`, `ReaderStores`, `ReaderLeaves` |
| the entries' time to live | `Expire` |
| product, promotion and category administration | `CreateBegins` (the slug is chosen), `CreateFlushes`, `EditProduct`, `DeleteProduct`, `EditPromotion`, `WriteCategoryFails`, `DeleteCategoryBegins` (its products are counted), `DeleteCategoryFlushes`, then `Commits` or `RollsBack` |
| the handlers | `Deletes`, one key pattern at a time; `DeleteFails`, an error of Redis that is swallowed |
| stock movements, uses and dates of promotions | `SilentChange`, which emits no event |

Events are emitted after the flush and before the commit, so a handler may delete an entry before
anybody can read the change. `Answer` is what a request gets that finds the cache empty. A page
that shows a product with a promotion gets none: its sale price multiplies a `Decimal` by a
`float`, which raises. `quiet` (of a request and of the entry it stores) is history: no change was
under way while it read, nothing changed silently and no deletion of its entry failed since.

### The run

`catalogue_cache`: two slugs, two prices, one product per page, one promotion, one category, one
reader, two administrators, two changes, one silent change, one outage. Entries of different keys
do not meet, so a behaviour follows one (`Followed`): the second page (which is clamped when there
is one), the first product's page, the promotions, the categories. Two administrators are what it
takes to choose one slug twice, to insert into a category that is being deleted, and to commit
beside each other's handlers.

* `QuietEntryIsExact`: an entry filled at rest is what the database answers, or a handler is about
  to delete it.
* `StaleAnswersGo`: whatever raced, in the end every entry is what the database answers, for ever.
* `UndisturbedCreateSucceeds`: a creation fails only for a change that commits beside it.

Fairness (in `Spec`): public requests and handlers run to their end, as tasks of the event loop
do; every entry has a time to live (`SET ... EX`); a change that has begun ends. No
administrator needs to begin one. "In the end" is sound because changes are bounded: it says what
holds when administrators rest.

### Proofs

`CatalogueProofs.tla` proves `QuietEntryIsExact` and `UndisturbedCreateSucceeds` for any
catalogue, keys, readers, administrators and bounds. A quiet request has read what it would read
now, and while there is one no change is flushed (`Exact`); every quiet entry a flushed change
will make wrong is on the list of some handler (`Covered`); a chosen slug is free until another
change commits (`AdminOk`).

It also proves `TypeOK`, which says of every answer, quiet or stale, that it is one that could have
been given. That needs an invariant of its own, `Kept`: a page is cut out of the products of the
moment it is read, by a count of an earlier moment, and is nevertheless no longer than a page
(`CacheFits`, `ReadersFit`); a promotion that is flushed becomes one (`PromotionsFit`). The order
of a listing is defined by rank (`InOrder`: a product's place is the number of products before it)
rather than with the community modules' sort, whose definition ends in one the provers cannot
expand.

### What the code does not keep

Categories cannot be created or edited: both endpoints load the category with
`options=[Category.translations]`, an attribute where a loader option belongs, and raise
(`WriteCategoryFails`). The retry of a creation after a taken slug runs in a transaction that is
rolled back, and fails with it. Deleting a category sets `category_id` of soft-deleted products
and of ones created meanwhile to null without an event for them. The promoted product's page is a
500.

## 7. Accounts

### Modules, state and actions

`Accounts.tla` is registration and Google's callback (`auth_service.py`), the administrators'
endpoints (`admin_user_service.py`), the owner's deletion (`controllers/profile.py`), the inserts
that run beside a deletion (token, order, cart line, wish, review), and the tasks for the welcome
e-mail and the audit log. `users` are accounts by id, `owns` says which kinds of rows refer to
each, `kept` which accounts' orders outlived them, `tasks` which handlers have yet to run. Ids are
UUIDs: one given to an insert that is rolled back is `spoilt` and not given again.

A request is let in by what it reads (`Register`, `GoogleReadsIdentity`, `GoogleFindsEmail`,
`ChangeRole`, `ChangeEmail`, `DeleteUser`, `DeleteProfile`, `Insert`), flushes (`CreateFlushes`,
`LinkFlushes`, `ChangeFlushes`, `Sweeps` and `DeleteFlushes`, `InsertFlushes`), which waits for
the locks of others and is where unique indexes and foreign keys decide, and then `Commits` or
`RollsBack`. `Removes` takes a wish or a cart line back; `Welcome` and `Record` are the tasks.
`disturbed` is history: somebody committed while the request was under way.

The sweep before a deletion is one step, because what matters is what is inserted after it: a row
that commits after the sweep is not among the `swept`, and refuses the deletion unless it goes by
cascade. That a cart line, a wish, a review and an order exist is one bit per account and kind.

### The run

`accounts_concurrent`: five ids, three e-mails, one Google identity, an administrator and somebody
of either role, two requests at a time and three in all. Two administrators are what it takes to
demote each other; a third request makes somebody an administrator or a customer first. Deadlock
checking is off: requests are bounded. The races themselves (two demotions, two callbacks, an
insert behind a sweep) are in the model, and are what `disturbed` lets pass: the properties say
that nothing else has their effect. A welcome that is lost because its task runs before the commit
violates no property.

* `UndisturbedSucceeds`: what a request was let in for is not refused at its flush, unless another
  commit came between; a deletion sweeps every table that refers to the account.
* `AnAdminRemains`: the last administrator goes only by deleting his own profile or by a request
  with a commit beside it.
* `OneAccountPerIdentity`: a Google identity gets a second account only in such a race.
* `WelcomedHaveAccounts`: the welcome e-mail goes only to somebody whose registration committed.

### Proofs

`AccountsProofs.tla` proves all of these and `TypeOK` (with its referential part: no row refers to
an account that is gone, no two accounts share an e-mail) for any accounts, e-mails, identities
and requests. `Knows` is what a request with nobody beside it may rely on, `Holds` what the locks
of a flushed one keep, `Compatible` that two flushed requests wait for none of each other's locks,
`Fits` that a request is about what its operation is about.

### What the code does not keep

The guard against losing the last administrator is on the role and delete endpoints only; an owner
may delete his own profile. `update_user` does not look whether the e-mail is taken and leaves it
to the index (`Taken`). Adding to a wishlist is called idempotent and is not when two adds run
beside each other. `POST` of a review lies under a path that the JWT middleware excludes, so the
handler finds no user; `Insert` models the service.

## 8. E-mail and credentials

### Modules, state and actions

`Mail.tla` is the event bus as far as e-mails are concerned, with orders as far as their e-mails
need them: `SettleReads`, `ShipReads`, `OrderFlushes`, `OrderCommits`, `RollsBack`, `Handle`,
`DeleteAccount`, `Restart`. Events leave at the flush; a task runs once, later, in a session of its
own; a restart forgets it. An order is its status, whether it is paid, and its owner. As in the
code, a payment settles an order that is not paid, whatever its status is, and confirms it;
`PaymentFails`, `Refunded` and `Cancelled` are what happens to it otherwise, so it may be paid,
shipped, declined, paid and shipped once more. `rolledBack`, `settled` and `shipments` are history.

`Credentials.tla` extends it with one administrator's password, reset links and second factor:
`Forgot`, `ForgotFlushes`, `ForgotCommits`, `Reset`, `ResetCommits`, `LinkExpires`; `Setup`,
`Enable`, `Disable`, `AccountFlushes`, `SecondFactorCommits`; `AdminLogin`, `Verify2fa`,
`TicketExpires`; `AccountGoes`. A commit writes only the columns that differ from what was loaded
(`SwitchedOn`, `SwitchedOff`): a disable beside an enable takes the secret away and leaves the
switch on. Secrets are the numbers of the setups that made them.

### The run

`credentials_mail`: one order, two requests at a time and four in all, one restart. Four requests
are two settlements and two shipments of the order, or a setup, an enable and what overlaps them.
Orders and credentials share the account, the tasks and the process and nothing else, so
`MCCredentials` lets a behaviour have requests for orders or for credentials, not both (`part`). A
deletion of the account leaves the order without an owner, as a guest's is. Deadlock checking is
off: requests are bounded.

* `ShippedIsTold`: a customer is told of shipments of an order no more often than its payments were
  settled, and once less while it waits to be shipped; what a request sent that failed afterwards,
  or has yet to commit, counts aside. So an order that was settled once is told once.
* `OneReset`: a link resets twice only if both resets had read it before either committed.
* `EnabledIsVerified`: the second factor is enabled with a secret nobody proved only after two
  requests overlapped.
* `HolderGetsIn`: who enabled it undisturbed gets in with its codes until a setup or disable
  commits.

### Proofs

`CredentialsProofs.tla` proves all four and `TypeOK` for any orders, requests and restarts. A link
is unknown until its request commits (`Unborn`); whoever still uses a spent one was disturbed
(`Spent`); a request that was not compares with the second factor as it is (`Fresh`); the secret
that was proved is the one in force (`Proven`).

What e-mails tell has an invariant of its own, `Mailing`, which uses that one: an e-mail is its
request's own, and that request has flushed (`Posted`); the token of a link in a mailbox is there,
unless its request has yet to commit or never did (`LinksBacked`); an e-mail of a shipment whose
request has ended well is of one that is kept (`ToldOnce`). `Shipping` counts: an order is in one
request's hand from the flush to the commit (`Locked`), one that is being shipped is confirmed
until then (`InHand`), and every shipment took an order some settlement had confirmed (`Counted`).

### What the code does not keep

The confirmation e-mail is never sent: its handler reads `order.user` and `order.items`
(`core/email_handler.py:83` and `:107`), which were not loaded with the order and cannot be
loaded there, and for a guest takes the e-mail for a user id (`:110`); the error is logged
(`ConfirmationIsWritten`). Hence no property speaks of confirmations.

## 9. Rate limits and uploads

### Modules, state and actions

`Redis.tla` is the server, reachable or not; `RateLimit.tla` and `Uploads.tla` use it, and
`Helpers.tla` composes them in one process that may restart.

`RateLimit` follows one address. `Counts` is INCR, `Expires` the EXPIRE of the request that made
the key, `IncrIsLost`, `ExpiryFails` and `ForgetsBuckets` what goes wrong between the two,
`Unreachable` the fallback in memory, which counts all paths together, `Tick` the passing of time.
`undying` (keys left without a life), `admitted`, `fallback` (what the memory let through, also
before a restart emptied it) and `restarted` are history. Redis is assumed to keep its keys
over an outage, as it does when it persists or when only the network failed.

`Uploads` follows each file from `Saves` over `Connects` (the connection to the queue is opened
under a lock by the first who needs it), `GivesUp`, `Enqueues`, `EnqueueFails` and `Removes`, and
its job over `Takes`, `Opens`, `BeginsSave`, `EndsSave` and `MakesThumbnail`; `WorkerDies` queues
the jobs under way again, as arq does. arq's limit of five tries is more than the deaths of an
instance.

### The runs

`redis_helpers`: two paths, a limit of two requests in a window of two ticks, or two files; two
outages (one beside uploads), one restart, one death of the worker. Limits and uploads share Redis
and the process and nothing else, so `MCHelpers` lets a behaviour have requests for paths or uploads, not both
(`part`). Deadlock checking is off: an upload that ended rests.

* `WindowBound`: the counter starts afresh and does not slide, the memory that stands in for it
  counts on its own, and a restart empties that memory: within any window a path and the memory
  serve up to `3 * Limit - 1` requests, and `Limit` more for each restart in the window.
* `Unblocked`: a path that is refused is counted from zero again, unless its key was left without
  a life, which is for ever.
* `NoLeftovers`: an upload that failed leaves no file, unless its job was queued after all.
* `Thumbnailed`: an upload that was answered gets a whole image and its thumbnail, unless it is no
  image or the worker died while it saved.

`redis_sliding`: one path, no failure. `SlidingWindow` is what the middleware's docstring
(`rate_limit.py:3`, "sliding-window counters") and the auth specification
(`openspec/specs/auth/spec.md:240-254`: the sixth attempt in 60 seconds gets 429) say, and is
violated: requests late in one life of the key and early in the next are all served.

Fairness (in `Spec`): time passes, calls to Redis come back with a result or an error, the steps of
requests and jobs are taken, and Redis and the worker are started again after they stopped. The
last is left to whoever operates the shop: no compose file states a restart policy.

### Proofs

`HelpersProofs.tla` proves `NoLeftovers` for any files, outages, restarts and deaths: a request
fails in the step that removes its file, and only a job writes a file again.

It proves `WindowBound` for any paths, limit and window. `admitted` is a count by age, so that the
bound is on a sum over ages. `Bounded` relates a path's key to it: the requests granted under the
present key are `Granted` of its counter; under a key with a life the first of them is as old as
the life is, so that what is younger is one less; and what an earlier key granted is within
`Limit - 1`, because its first request left the window in the tick that ended it. A key without a
life is the case that makes this delicate: it never ends, and grants no more than `Limit` in all.
A tick moves every count one age on (`AgedShifts`, `TickedBounded`). The memory that stands in adds
`Limit` at most, and as much again for each restart (`MemoryBounded`, which says so of every final
part of the window, since a tick drops the oldest).

### What the code does not keep

The limiter's window does not slide (`redis_sliding`), INCR and EXPIRE are two calls, and its
counters are by path where the specification counts login and register together. An upload whose
connection cannot be opened leaves its file, since `get_arq_redis` is called before the `try`
(`controllers/upload.py:91`): `NoLeftovers` is about the error the code does handle, and such
uploads end "unconnected".

## 10. What is proved, what is checked, what is left out

Proofs rest on the assumptions named in the modules (`...Assumption`), which TLC evaluates in every
run, and on nothing else. Each `Inv` is inductive: `InitInv` or its like shows it at the start,
`NextInv` that a step keeps it, and the properties follow from it.

Every safety invariant and every step property of the passing runs is a theorem, three of the
order core's (section 3) for the owner's cancel as the code has it (`~ItemsEager`). Only
model-checked, on the instances above, is what the provers cannot reach: liveness (`RequestEnds`,
`PaymentSettles`, `StaleAnswersGo`, `Unblocked`, `Thumbnailed`).

### Sums

Several invariants add up: units over orders, quantities over carts, requests over a window. The
sum of the community modules is a recursive function, the library's theorem that recursive
functions exist takes the body of the recursion as an operator, and so do its induction theorems;
the provers here cannot instantiate those. `Sums.tla` does without: the induction hypothesis is a
set, of the numbers or of the subsets for which a claim holds (`Smallest`, from the library's
well-foundedness of the naturals; `NumberInduction`; `SetInduction`), and the function behind a sum
is built set by set (`RecursExists`) and shown to be the only one (`RecursAgree`). From there:
`SumEmpty`, `SumSplit` (any element may be taken out first), `SumAdd`, `SumMonotone`, `SumEqual`,
`SumOfPart`, `SumUpdate` (one summand changes), `SumOneMore` (one more of a kind).

Not modelled:

* Newsletter: one row per e-mail, whose columns each request writes at once; nothing else reads
  them.
* Dashboard, order lists, invoices, search, filters and facets: reads, each with a snapshot of its
  own; nothing depends on two of them together. The listing's filters are one case in `Catalogue`
  (a filtered answer is not stored).
* Which of several promotions is the best, and sale prices: amounts are data in every module, and
  the public answer that would show a sale price fails.
* OAuth's state parameter and one-time codes, signatures of webhooks, password hashing: external.
* i18n, guards, serializers, schemas, templates: stateless; what a guard reads is in the actions'
  guards.
* Migrations, seed scripts, deployment, the readiness probe of `main.py`.
* The frontend's pages, and its cart, whose optimistic copy the next load replaces.
