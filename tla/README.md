# TLA+ models of the ordering backend

The repository is the Go backend of a food-ordering service: customers read a
menu, book a delivery slot, place orders and review them; staff move orders
through their lifecycle and maintain menu, slots, settings and users. It is one
process that serves every HTTP request in a goroutine of its own, keeps almost
everything in PostgreSQL (through a pool of 10 connections) and a little in
memory (the menu cache, the rate limiters).

This directory models the parts whose correctness depends on how requests,
failures and time interleave, checks them on small instances with TLC, and
proves the most important results for every instance with TLAPS.

    tlc -workers 2 -config MCOrders_serial.cfg MCOrders.tla     # one run
    tlapm OrderServiceProofs.tla                                # one proof module

`PROJECT.json` lists the runs, the lines of the source each definition models,
for each property a small change of the code's model that breaks it, the hazards
of the code, and the theorems. A definition whose comment starts with "Defect:"
(`TakeSeat_Unlocked`, `End_Leaks`, ...) is such a change. It is not part of any
specification; it stands in front of the definition it is a variation of.

## 1. Inventory

| Component | Source (under `src/internal/`) | State | Operations | What makes it correct | Model |
|---|---|---|---|---|---|
| Order service | `service/order.go`, `repo/order.go`, `http/handler/order.go` | `orders`, `order_items`, `order_status_events` | place, cancel, staff status change, read, lists | seats are never oversold or leaked; legal status changes; complete timeline; answers tell the truth | `OrderService`, `OrderBook`, `Checkout` |
| Order lifecycle | `domain/order.go` | none | `CanTransitionTo`, predicates | a status machine with terminal states | `OrderLifecycle` |
| Slots | `repo/slot.go`, `http/handler/slot.go` | `delivery_slots` with `booked_count`, `capacity`, cutoff | lock, increment, decrement, admin edit | `booked_count <= capacity`, and it counts the orders | `OrderService` |
| Short codes | `repo/order.go` (`NextShortCodeTx`) | `daily_order_counters`, UNIQUE `short_code` | draw a code | unique, gapless, obtainable | `ShortCodes`, `Checkout` |
| Cart and prices | `service/menu.go` (`ValidateCart`), `service/order.go`, `domain/menu.go` | none | quote, price an order | what is quoted is charged; totals are exact and fit their columns | `Pricing`, `Checkout` |
| Connection pool | `platform/db` as `service/order.go` uses it | 10 connections | begin, query, end | nobody waits for ever, nothing leaks | `ConnPool` |
| Sessions | `service/auth.go`, `repo/user.go` | `refresh_tokens` | login, rotate, detect reuse, log out | one live token per session; a stolen or logged-out session is over | `RefreshTokens`, `Authority` |
| Access tokens, roles | `platform/token`, `http/middleware/auth.go`, `role.go` | none (the token itself) | issue, let in | a role that was taken away is soon without effect | `Authority`; cryptography is not modelled |
| Admin users | `http/handler/admin_user.go`, `repo/user.go` | role and `is_active` in `users` | read, modify, write back | a deactivated user begins no session | `Authority` |
| Registration | `service/auth.go`, `http/handler/auth.go`, `repo/user.go` | `users` | normalise, check, insert, issue tokens | one account per mailbox and number; answers are true | `SignUp` |
| Menu service and cache | `service/menu.go`, `repo/menu.go` | menu in memory, 60 s | serve, fill, bust | bounded staleness | `MenuCache`, `Catalogue` |
| Menu edits | `http/handler/menu.go`, `repo/menu.go` | `menu_items` | read, modify, write back; availability; soft delete | a field that was not sent is not changed | `Catalogue` |
| Reviews | `service/review.go`, `repo/review.go` | `reviews`, `review_items`, the ratings in `menu_items` | create, edit, hide, recompute | one review per order; ratings agree with reviews | `Reviews` |
| Rate limiter | `http/middleware/ratelimit.go` | attempt times per host | `allow`, cleanup | never more than the limit per window; memory is freed | `RateLimiter`, `SignUp` |
| Settings, locations | `service/settings.go`, `service/location.go`, `repo/slot.go`, `http/handler/slot.go` | `app_settings`, `locations` | read, write | a flag takes effect | partly, in `OrderService` |
| Router, middleware | `http/router.go`, `http/middleware` | none | Timeout 30 s, roles, CORS | a request ends | its deadline, in `OrderService`, `ConnPool` and `Authority` |
| Image upload, configuration, error and response helpers, money formatting, startup, seeding, mocks | | none | | | not modelled |

How they interact:

* A handler calls one service method; services call repositories. There are no
  queues and no events: requests meet only in database rows, in the pool and in
  the two mutexes of the menu cache and the rate limiters.
* A writing order request runs one READ COMMITTED transaction. Its *writes* and
  `GetForUpdateTx` use the transaction's connection; its *reads* of flags,
  locations, menu items and of the order to change go through the pool. They
  take no lock, and a second connection.
* Review creation reads orders and writes `menu_items` behind the back of the
  menu cache. Registrations and logins pass the rate limiters. The cart is
  priced once for the customer who asks (`POST /cart/validate`) and once more,
  from rows read again, while the slot row is held.
* An admin's edit of a user and the user's own refreshes and logins meet in one
  row of `users`; what was read there lives on in access tokens that no query
  can take back.

What is hard here: reads through the pool that are used in a later write;
order of row locks; errors that are assigned to `_`; COMMIT whose answer is
lost; a cache that is filled outside its mutex; a second connection asked for
while the first is held; statements that should have been one. `PROJECT.json`
lists 40 such hazards by line, with the properties that cover each or the reason
none does.

## 2. Modules

| Module | Lines | Content |
|---|---|---|
| `OrderLifecycle` | 34 | statuses, `CanTransitionTo`, `IsCancelled`, `Absent` for a row that does not exist |
| `OrderService` | 640 | all order operations over slots, orders, events, row locks; the core |
| `OrderBook` | 48 | abstract specification: an order takes its seat when it appears, gives it back when it is cancelled |
| `ShortCodes` | 153 | the per-day counter and the unique index |
| `Loops` | 13 | `Kept`, the append-if loop that three components share |
| `Pricing` | 94 | the quote, the bill and the columns, as operators |
| `Checkout` | 131 | composes `ShortCodes` and `Pricing`: the inner part of a placement, while the menu changes |
| `ConnPool` | 163 | the pool and its waiters |
| `RefreshTokens` | 217 | sessions |
| `Authority` | 199 | extends `RefreshTokens` by the user's row, access tokens, admins and a clock |
| `MenuCache` | 172 | the cache and its race with edits |
| `Catalogue` | 114 | extends `MenuCache` by one item and the read-modify-write of its edits |
| `Reviews` | 266 | reviews and ratings |
| `RateLimiter` | 121 | the sliding windows |
| `SignUp` | 183 | extends `RateLimiter` by registration behind it |
| `MCOrders`, `MCShortCodes`, `MCCheckout`, `MCRefreshTokens`, `MCAuthority`, `MCCatalogue`, `MCReviews`, `MCSignUp` | | constants and symmetry of the runs (`ConnPool` needs none) |
| `LoopLemmas` | 451 | induction, and what the loops compute |
| `OrderServiceProofs` | 2632 | theorems about `OrderService` and its refinement of `OrderBook` |
| `CheckoutProofs` | 960 | about `ShortCodes`, `Pricing` and `Checkout` |
| `AuthorityProofs` | 944 | about `RefreshTokens` and `Authority` |
| `CatalogueProofs` | 416 | about `MenuCache` and `Catalogue` |
| `ReviewsProofs`, `ConnPoolProofs` | 911, 259 | about `Reviews` and `ConnPool` |
| `SignUpProofs` | 958 | about `RateLimiter` and `SignUp` |

A module that composes (`Checkout`, `Authority`, `Catalogue`, `SignUp`) EXTENDS
the one it composes and conjoins that module's actions with what they do to the
state it adds; the lower module's properties are then checked in the
composition, where its actions happen only as the composed code lets them.

### How `OrderService` corresponds to the code

A request `r` is one run of a handler; the order that a request of `Creates`
places bears its name. `pc[r]` stands between two statements that reach the
database:

| `pc` | next action | code |
|---|---|---|
| `new` | `CheckDelivery` | `Begin`, `delivery_enabled` through the pool |
| `location` | `CheckLocation` | the location's own flag, through the pool |
| `lock` | `LockSlot` | `GetForUpdateTx`, all checks of the slot, the cart read again |
| `code` | `TakeCode` | `NextShortCodeTx` (waits for the counter row) |
| `insert` | `InsertOrder` | `InsertTx` |
| `seat` | `TakeSeat` | `IncrementBookedTx`, `WHERE booked_count < capacity` |
| `new` (edits) | `ReadOrder` | `Begin`, `GetByIDWithDetails` through the pool, owner, status, deadline or `CanTransitionTo` |
| `write` | `WriteOrder` | `SetCancelledTx`, `SetDeliveredTx`, `UpdateStatusTx`: `WHERE id = $1` |
| `free` | `FreeSeat`, `FreeSeatFails` | `DecrementBookedTx` |
| `event` | `RecordEvent` | `InsertEventTx`, whose error is ignored |
| `commit` | `Commit` | `Commit` |
| `new`, `timeline` (reads) | `ReadStatus`, `ReadTimeline` | the queries of `GetOrder` |

`tx[r]` holds what the transaction wrote; it becomes visible, and every lock is
released, at `Commit`. `Refuse` is an error return with its deferred `Rollback`.
A statement that fails puts a PostgreSQL transaction in the failed state
(`tx[r].broken`), in which every later statement and the COMMIT fail; this is
what makes the ignored errors harmless, and the model keeps it instead of
assuming it away. `Fail` is everything that ends a request from outside at any
point: an error that is returned, a client that leaves, the router's deadline, a
panic, the end of the process. `Commit` may succeed while its caller is told of
an error.

The environment edits slots (`AdminUpdateSlot`, under the CHECK constraint and
the row lock), switches the delivery flags, lets cutoffs and cancel deadlines
pass at any moment, and lets a caller of `Regulars` send the next request.

Abstracted: items, prices and notes (a cart is accepted or refused, both are
possible; `Checkout` has the items); ids and times (a cutoff or deadline has passed or not); the two tables
`orders` and `order_items`, which are written by the same statements; the
counter row, of which `OrderService` only keeps the lock (`ShortCodes` has the
rest). `GET /orders/{id}` by somebody who is neither the owner nor staff is one
of the refusals of `ReadStatus`.

### The others

* **`ShortCodes`**: a caller formats the date, raises the counter of that day in
  its transaction, inserts the order under the unique index and commits. Letters
  and numbers per letter are constants (24 and 100 in the code).
* **`Pricing`**: `Quote` is `ValidateCart` with the fee its handler adds: the
  location's, nothing when the query of the location fails (a `Location` of zeroes
  beside the error, which is dropped), and a total of 0 when there is no such
  location. `delivery_enabled` is true in neither of the last two.
  `Orderable` and `Bill` are steps 4 and 5 of `createOrderTx`, `Storable` the
  CHECKs and INT columns. Sums wrap around like `int64` (`Wrap`). `Worth` is the
  reference: the same sum in whole numbers. Loops are functions of the number of
  passes (`Subtotal`, and `Kept` of `Loops`), so that they can be proved about.
* **`Checkout`**: `PriceItems` reads and prices the rows of the cart, `DrawCode`
  and `InsertOrder` are the steps of `ShortCodes` with the columns' verdict added,
  `MenuChanges` is an admin's edit at any moment. Queries may break off early
  (`found` is any subset of the rows).
* **`ConnPool`**: a transactional handler makes `PoolReads` queries through the
  pool while it holds its own connection, and locks the contended row only after
  the last of them, as all three order handlers do.
* **`RefreshTokens`**: each query is a step. `compromised`, `loggedOut`, `unheard`
  and `swallowed` are history variables. `compromised` and `loggedOut` are promises:
  families that were revoked on reuse, and families for whose usable token a logout
  was answered 204. `swallowed` and `unheard` say where an error was ignored: in a
  refresh, whose revocation then left the old token usable, and in a logout. A
  logout never answers an error: `LogoutIgnored` is a lookup that fails, which
  `Logout` takes for a token that is gone, or a revocation whose error the handler
  drops. `Fail` is an error that is returned or the end of the process; nobody
  is told of a success there.
* **`Authority`**: the user's row and `draft`, the row an admin has read and will
  write back; `role[h]`, what a handler has read of the row and will sign;
  `left`, the ticks until the last access token that says STAFF expires. `lost`
  and `shut` tell how long the row has been saying otherwise. A refresh re-reads
  the role and ignores `is_active`; a login looks at both. A request lives no longer
  than the router's deadline (`Tick` waits for it).
* **`MenuCache`**: a menu is represented by its age, the number of ticks for
  which it has been different from the database. A miss releases the mutex,
  queries and stores; an edit writes and then busts. Results that break off
  (`rows.Err()` is not looked at) are menus that are wrong from the start.
* **`Catalogue`**: `ReadItem` lays the body of `AdminUpdateItem` over the row it
  read, `WriteItem` writes it back and starts the edit of `MenuCache`, which
  `BustCache` ends. `image_url` stands for the seven columns, which are treated
  alike; `raced` notes that another edit wrote the column in between.
* **`Reviews`**: the statement that recomputes a rating takes its snapshot
  (`TakeSnapshot`) before it gets the item's row (`UpdateRating`). `excused`
  remembers the items whose last recomputation was lost, overtaken or never
  asked for.
* **`RateLimiter`**: both functions hold the mutex from end to end and are one
  step each. Which clients share a host is the constant `KeyOf`: behind a proxy
  `RealIP` leaves an address without a port, `SplitHostPort` fails and all such
  clients share the empty host.
* **`SignUp`**: each query of `Register` is a step; a check whose query fails
  counts as "free", because `Register` drops the error.
  Digits are sequences, because `normalizePhone` cuts by length; mailboxes and
  numbers are otherwise members of small sets. `Return` after `CreateUser` is the
  row that is written while its answer is an error.

## 3. Runs

| Run | Instance | Distinct states | Shows |
|---|---|---|---|
| `concurrent` | 2 placements, a customer's cancellation, a member of staff who edits again and again (up to 3 events per order), 1 slot of 2 seats that may be lowered to 1, flags, cutoffs, all failures | 437,120 | `TypeOK`, `WithinCapacity`, `SeatsBacked`, `AuditTrail`, `AckedIsRecorded`, `NoLockCycle`, `PlacementTakesSeat` under every interleaving |
| `serial` | the same with one editor per order at a time (`SerialSpec`), 1 slot whose capacity is edited between 1 and 2, 2 locations, every staff target | 172,160 | `LedgerExact`, `NoOversell`, `PaidIffDelivered`, `TimelineChained`, `LegalTransitions`, and `ImplementsOrderBook` |
| `live` | 2 placements, a member of staff, a reader, 2 slots; fair | 205,168 | `EveryRequestAnswered`, `ViewExplained` |
| `oversell` | `Spec`, 1 slot of 1 seat | counterexample | `NoOversell` fails when a stale write revives a cancelled order |
| `codes` | `Checkout`: 2 callers, 2 letters of 2 numbers, 2 days, 7 carts, 6 menus, amounts of 8 and 5 bits | 750,894 | `CheckoutTypeOK`, `CodesUnique`, `SequenceCountsOrders`, `ChargedExactly`, `QuoteHolds` |
| `codes_fresh` | `ShortCodes`: 3 callers | counterexample | `NextCodeIsFresh` fails on the second day |
| `pool` | 4 order handlers, 1 other, 3 connections, 2 pool reads | 3,016 | `StarvedHoldNoRow`, `StallTakesAFullPool`, `EveryRequestAnswered` |
| `tokens_serial` | `Authority`: 2 handlers, 1 session of 3 tokens, 1 admin, access tokens valid 2 ticks, requests up to 1; one request per session at a time | 1,195,675 | `AuthorityTypeOK`, `OneLiveToken`, `CompromisedFamilyDead`, `LoggedOutIsOver`, `AuthorityBounded`, `ShutOutOfNewSessions` |
| `tokens_race` | `RefreshTokens`: 2 handlers, any interleaving | counterexample | `CompromisedFamilyDead` fails |
| `menu` | `Catalogue`: 2 readers, 2 editors, one item, entries live 2 ticks, queries take up to 1 | 2,285,828 | `CatalogueTypeOK`, `BoundedStaleness`, `FreshUnlessExcused`, `OnlyNamedColumnsChange` |
| `reviews` | 2 creators, an updater, a hider, 2 orders that share an item, ratings 1 and 5 | 2,334,016 | `OneReviewPerOrder`, `RatingsExplained` |
| `ratelimit` | `SignUp`: 2 clients behind one host, limit 3, window 4, 3 ways to type 2 mailboxes, 3 numbers, 4 prefixes; fair | 621,150 | `WindowLimit`, `RefusedOnlyWhenFull`, `IdleKeysForgotten`, `OneAccountEach`, `AnswersAreTrue` |

`TypeOK` of `ConnPool` and `Reviews`, and `SignUpTypeOK`, say what the variables
range over and are in no run's list; section 6 proves the first two. Deadlock is checked wherever the system
cannot stop; only in the run about tokens may it, when all the tokens of the
bound are issued and expired.

Four properties name what they except: `OneLiveToken` and `LoggedOutIsOver`
(`swallowed`, `unheard`), `FreshUnlessExcused` and `RatingsExplained` (`excused`).
They say that nothing but the excepted errors and omissions of the code leads to a
second token, a stale menu or a wrong rating; they do not catch those.
`BoundedStaleness` bounds what the menu's exceptions do; section 5 says what a
logout's do.

Why the bounds are enough to mean something:

* *Orders.* Every hazard found in the code concerns two requests at one row:
  two placements for the last seat, two editors of one order, a placement and a
  capacity edit, a cancellation that frees the seat another takes. The instances
  have those pairs, and a third and fourth request as witness. `MaxEvents` only
  stops `Regulars` from editing for ever; in `serial` it is 9, more than the
  longest path through the lifecycle, and does not cut anything off.
* *Codes.* Four codes are exhausted within a day, and the second day starts again
  at the first code. The widths (`LongBits` 8, `IntBits` 5, `MaxQuantity` 3) are
  the code's 64, 32 and 20 made small: the carts have quantities that are
  zero, negative, over the limit, too large for the INT column, and such that
  the sum wraps around to a small positive amount. The property needs the CHECKs for
  exactly those.
* *Pool.* Four transactional handlers and three connections: the stall of three
  needs the whole pool, with one more handler waiting behind it.
* *Tokens.* Three tokens are a login and two rotations, enough to present each of
  a live, a rotated and a doubly rotated token while another request runs. One
  session suffices because every query names one family or one token; the user's
  row is what sessions share, and the second handler logs in to it or reads it
  while the first one refreshes. The ages saturate where the properties compare
  them.
* *Menu.* Ages saturate only at the bound the property compares them with, so
  nothing is lost by it. Two editors are the least that can race on one item.
* *Rate limiter.* A window of 4 ticks and a limit of 3 let windows be full,
  partly expired and empty. Ages saturate at the window, where the code treats
  all alike. Keys never touch each other's entries, so that one is enough. Of
  the numbers one begins like the country code and one is too short.

Symmetry is used in runs without liveness properties only.

## 4. Fairness

* `OrderService.FairSpec` assumes weak fairness of `Progress(r)` for each
  request: a goroutine keeps running and PostgreSQL answers a statement whose
  row is free. It assumes nothing of `Fail`, so no deadline helps, nor of
  administrators or the clock. Weak fairness suffices because in this instance
  whoever holds a row ends and no request starts twice.
* `ConnPool.FairSpec` assumes strong fairness of `Step(h)`: pgxpool serves its
  waiters in turn, so a connection that becomes free again and again reaches
  each of them; and weak fairness of the deadline *only in a stall*. The property
  therefore says that the deadline is needed for nothing else.
* `SignUpSpec` assumes weak fairness of `LimiterTicks` and `LimiterCleans`: time
  passes, and the `Sleep` of the cleanup goroutine, an endless loop, ends. It
  assumes nothing of clients, queries or restarts.

## 5. What the violations show

1. **`oversell`** (`service/order.go:196`, `:228`). `CancelOrder` and
   `AdminUpdateStatus` read the order through the pool and write it later
   `WHERE id = $1`. In the trace the slot has one seat: an admin reads the order
   while it is `PLACED`; its customer cancels it, which gives the seat back, once;
   a second order takes the seat; then the admin's write accepts the cancelled
   order again, and two live orders share the seat. The comment at `repo/slot.go:43`
   says the lock "prevents concurrent oversell", and a cancelled order that becomes
   accepted is against `domain.AllowedTransitions`. The same stale read also lets two
   editors cancel one order and give its seat back twice, which this trace does not
   show: it is why `LedgerExact` is stated for one editor at a time only. `serial`
   shows on its instance that the overlap is the only cause: with one editor per
   order at a time all of it holds.
2. **`codes_fresh`** (`repo/order.go:290`). The counter starts again each day,
   the code has no date, the index is unique for ever: the first order of a
   second day gets the code of the first order of the first, is refused, and its
   rollback takes the counter back, so every further attempt gets the same code.
3. **`tokens_race`** (`service/auth.go:156`). A rotation that is between
   revoking the old token and inserting the new one survives the revocation of
   its family, and leaves a live token in a family that was declared stolen.

Seen on the way, without a run of its own:

* A logout that fails is answered like one that worked. `Logout` takes every error of
  its lookup for "already logged out" (`service/auth.go:163`), and the error of the
  revocation is assigned to `_` (`http/handler/auth.go:95`); either way the cookie is
  cleared and the answer is 204. Without the exception of `unheard`, `LoggedOutIsOver`
  is violated by a login, the lookup of a logout and `LogoutIgnored`: the one
  token of the session stays usable, for whoever still has it, until it expires.
* A comment at `service/auth_test.go:180` says 'Phone must start with 6-9 but NOT start
  with "91" (normalizePhone strips that prefix)'. The code strips it only from
  twelve digits, as the comments at `auth.go:202` and `:210` say: a number of ten digits
  that begins with 91 is whole, valid, and stored as it is. The comment of the test seems older
  than the code. `AnswersAreTrue` sides with the code, and its run registers such a
  number (9191, of `NumberLen` 4 digits).
* `http/middleware/ratelimit.go:76` says "per identifier"; both limiters count per
  remote host (`KeyOf`), and clients that share one use up each other's attempts.
* A cart whose ids are all malformed is ordered empty, for the delivery fee; a
  cart that names an item twice is quoted as a whole and then refused, because
  `createOrderTx` compares the number of rows with the number of lines.
  `QuoteHolds` excludes the latter by name.
* `QuoteHolds` compares quote and order on one menu, and what it calls accepted is
  accepted by the pricing, step 4 of `createOrderTx`. The menu may change between
  the two readings, and the columns may refuse a quantity or an amount that was
  quoted without complaint; nothing promises otherwise.
* When the query of the location fails, a cart is quoted without the delivery fee
  and with `delivery_enabled` false; the error is not reported.
* A user who was deactivated keeps the sessions that exist, for as long as they are
  refreshed; `ShutOutOfNewSessions` is all that `is_active` achieves.
* `UpdateItem` writes `WHERE id = $8` without `is_active`, so an item that was deleted
  since it was read is written too, and reported as updated. It stays deleted
  (`OnlyNamedColumnsChange`).

What holds in spite of what one might fear: ignored errors of `InsertEventTx`
and `DecrementBookedTx` never lose an event or a seat (`AuditTrail`,
`SeatsBacked`, `AckedIsRecorded`), the locks never form a cycle
(`NoLockCycle`), racing cancellations free too many seats but never too few
(`SeatsBacked`), and capacity edits never undercut what is booked
(`WithinCapacity`). No quantity a client can send makes a total wrap around into
an order (`ChargedExactly`): the CHECKs on `order_items` catch what the `int64` sum
hides. However registrations race and whatever checks fail, nobody has two
accounts and no answer is wrong (`OneAccountEach`, `AnswersAreTrue`). A
member of staff who is demoted is shut out within the life of an access token plus
one request, although a refresh may have read the row just before
(`AuthorityBounded`).

## 6. Proofs

TLAPS proves every safety property of the passing runs of section 3, and the
refinement, for every value of the constants.

### Assumptions

They are the named `ASSUME`s of the modules; TLC evaluates them in the runs.

* Kinds of requests are disjoint sets and `Nobody` (`Nothing`) is none of them:
  a request runs one handler. `Creates`, `Slots`, `Locations` and `Families` are
  not empty. Requests and tokens may be infinitely many where the theorem does
  not count them; the pool's handlers and the tokens are finite sets.
* Limits, windows, lifetimes and capacities are positive, as the configuration's
  constants and the CHECK constraints are.
* `Checkout`: carts are sequences of items with quantities, a menu has a row for
  every item, prices are what the INT column and its CHECK admit, a line
  fits into int64, and no cart has so many lines (2^32 in the code) that a sum of INTs does not.
  `PowersAssumption` is arithmetic: the provers have no facts about `^`.
* `SignUp`: no subscriber's number is another's with the country code in front
  (numbers of one length are not), and what is typed before a number has no
  digits but those of the country code.

### Theorems

| Theorem | Module | Statement |
|---|---|---|
| `TypeCorrect` | `OrderServiceProofs` | `Spec => []TypeOK` |
| `CapacityKept`, `PlacementCounted` | | `Spec => []WithinCapacity`, `Spec => PlacementTakesSeat` |
| `NoDeadlock` | | `Spec => []NoLockCycle` |
| `NoSeatLeaks` | | `Spec => []SeatsBacked` |
| `TimelineExplains`, `SuccessIsRecorded` | | `Spec => []AuditTrail`, `Spec => []AckedIsRecorded` |
| `ReadsAgree` | | `Spec => []ViewExplained` |
| `TransitionsLegal`, `PaidWhenDelivered` | | `SerialSpec => LegalTransitions`, `SerialSpec => []PaidIffDelivered` |
| `TimelineHasNoGap` | | `SerialSpec => []TimelineChained` |
| `LedgerBalances`, `NeverOversold` | | `SerialSpec => []LedgerExact`, `SerialSpec => []NoOversell` |
| `OrderBookImplemented` | | `SerialSpec => ImplementsOrderBook` |
| `TypeCorrect`, `NumbersDiffer` | `CheckoutProofs` | `Spec => []TypeOK`, `Spec => []DrawnNumbersDiffer` (of `ShortCodes`) |
| `CodesStayUnique`, `NoGaps` | | `Spec => []CodesUnique`, `Spec => []SequenceCountsOrders` |
| `ImplementsShortCodes` | | `CheckoutSpec => Spec` |
| `PlacedCodesUnique`, `RefusedLeaveNoGap` | | the two of `ShortCodes`, of `CheckoutSpec` |
| `CheckoutTyped` | | `CheckoutSpec => []CheckoutTypeOK` |
| `ChargesAreExact`, `QuoteIsCharged` | | `CheckoutSpec => []ChargedExactly`, `CheckoutSpec => []QuoteHolds` |
| `OneReview`, `RatingsAreExplained` | `ReviewsProofs` | `Spec => []OneReviewPerOrder`, `Spec => []RatingsExplained` |
| `OneTokenPerSession` | `AuthorityProofs` | `SerialSpec => []OneLiveToken` (of `RefreshTokens`) |
| `StolenSessionDies`, `LogoutEndsSession` | | `SerialSpec => []CompromisedFamilyDead`, `SerialSpec => []LoggedOutIsOver` |
| `SessionsKept` | | `AuthoritySpec => SerialSpec` |
| `AuthorityTyped`, `AuthorityIsBounded` | | `AuthoritySpec => []AuthorityTypeOK`, `AuthoritySpec => []AuthorityBounded` |
| `ShutOut` | | `AuthoritySpec => ShutOutOfNewSessions` |
| `StalenessIsBounded`, `WrongEntriesExcused` | `CatalogueProofs` | `Spec => []BoundedStaleness`, `Spec => []FreshUnlessExcused` (of `MenuCache`) |
| `CacheKept` | | `CatalogueSpec => Spec` |
| `CatalogueTyped`, `PatchIsPartial` | | `CatalogueSpec => []CatalogueTypeOK`, `CatalogueSpec => OnlyNamedColumnsChange` |
| `PoolIsBounded` | `ConnPoolProofs` | `Spec => []TypeOK` |
| `StarvedAreHarmless`, `StallNeedsFullPool` | | `Spec => []StarvedHoldNoRow`, `Spec => []StallTakesAFullPool` |
| `WindowNeverOverrun`, `RefusalsAreDue` | `SignUpProofs` | `SignUpSpec => []WindowLimit`, `SignUpSpec => []RefusedOnlyWhenFull` |
| `AccountsAreDistinct`, `AnswersHold` | | `SignUpSpec => []OneAccountEach`, `SignUpSpec => []AnswersAreTrue` |

### Arguments

**Capacity.** `WithinCapacity` is not inductive: `Commit` writes a
`booked_count` that was computed earlier. `SeatInv` adds what makes that safe:

* `Targets`: an order that is placed is the work of a finished request, and an
  edit past `ReadOrder` has an order that is placed;
* `RowsWritten`: past its write a transaction holds an order row to commit;
* `PendingFits`: a transaction with a pending `booked_count` holds the row lock
  of its slot, so no other commit and no edit moves the count or the capacity,
  and the pending value fits the capacity;
* `PendingSeat`: the pending value of a placement is the committed one plus one.

Each group of actions (`StepKeepsLedger`, `RefuseKeepsLedger`, `Create...`, `Edit...`,
`Record...`, `Commit...`, `Read...`, `EnvironmentKeepsLedger`) keeps it by one
lemma, and `PlacementTakesSeat` follows from `PendingSeat` at `Commit`.

**Locks.** `LockInv` says of each writer at which places it may hold which rows.
So whoever holds the row that another waits for stands further on: a wait for
the order (`write`) is for an edit that is past it, a wait for the slot (`lock`,
`free`) for a transaction past `free`, a wait for the counter (`code`) for one past
`code`, and past `code` nobody waits. A cycle would have to come back
(`LocksAreRanked`).

**Records.** `WriteInv` relates what an open transaction has written to where it
stands: the row bears the status asked for, a cancellation has also given back its
seat, and before `Commit` there is the event that leads to that status, unless a statement
failed and PostgreSQL will not commit (`broken`). The last disjunct is why the
ignored errors are harmless. `RecordInv` adds `AuditTrail`, `AnswerInv` (what an
answered request left in the timeline) and the count of seats: `SeatsBacked` compares
`booked_count` with the cardinality of `Occupying`, which changes by one member
per commit, with the lemmas of `FiniteSetTheorems`.

**One editor at a time.** Under `SerialSpec` the row an editor has read cannot
change before it commits. `SerialInv` says so: `FreshRead` (what was read is still
committed, and may be left for the status asked for), `RowIsNext` (the row to
commit is the committed one in that status) and `PaidIffDelivered`. `SerialBooks`
joins it with the invariants above, `TimelineChained` and `LedgerExact`: now
every decrement belongs to an order that leaves `Occupying`, so that the
inequality of `SeatsBacked` becomes an equation. `NoOversell` follows with
`WithinCapacity`.

**Refinement.** Under `SerialBooks` each step of `OrderService` is a step of
`OrderBook` or leaves its variables alone: `Commit` of a placement takes a seat, of
a cancellation gives it back, of another edit changes nothing the book shows; an
edit of a slot is one of the book.

**Short codes.** `CodeInv`: `CounterHeld` (an open transaction that has drawn a
number holds its day's counter row, and the number is the next one),
`CommitsFresh` (what is about to commit has a code no order has and no other
open transaction has), `CodesUnique`, and `CountInv` (the placed orders of a day
are exactly its numbers, a finite set of that cardinality). Every step of
`Checkout` is a step of `ShortCodes` or leaves its variables alone
(`StepImplements`; an order the columns refuse is a `Fail` there).

**Loops.** The induction theorems of the library take a predicate, which the
provers cannot instantiate. The theorem that the numbers are well-founded speaks
of a set: `LoopLemmas` derives `Induction` and `SequenceInduction` from it with
sets in the place of predicates, then that a loop of n passes has a value after each of
them and only one (`LoopRuns`, `SameRuns`), and what `Kept` does to
appended, joined and typed slices.

**Money.** `BasketInv` says that a placement past its pricing has a menu with a
row for each of its items, and that what is about to commit passed the columns.
If each line passes the CHECK on its quantity and fits an INT, the partial
sums are bounded by the number of lines (`CostsFit`), so no `Wrap` changes
anything and the loop of the code ends with the sum in whole numbers
(`SubtotalIsCost`, `WorthIsCost`). For the quote, a line that `ValidateCart` shows
is one it found, so that a quote that shows all lines sums the same rows.

**Reviews.** `ReviewInv`: `Stages` says what a request's place implies for the
order it is about and the row it has inserted; with it `OneReviewPerOrder` and
`RatingsExplained` are inductive. The second needs for each step that changes a
visible review that a recomputation of its items is then owed, and for each rating
written from an older snapshot that it is noted in `excused`.

**Sessions.** `SessionInv` has `FamilySound` for each family (at most one live
token unless a refresh ignored the error of a revocation, none after reuse was
detected, none after a logout that revoked its current token: `Ended`) and
`RotationSound` for each handler (between revoking the old token and inserting the
new one its family has no live token, and was not revoked since the token was
looked up). `LogoutEndsSession` says nothing of logouts that hid an error
(`unheard`): for these the promise is false (section 5).

**Authority and cache.** In both, `AgesSound` ties clocks to each other: what a
handler holds is no older than its request, and what it stores or signs is therefore
wrong by no more than the request's time; what is stored ages with its own TTL.
`DraftInv` says of an editor's draft that it equals the row but for the named column,
or another edit came between.

**Pool.** `PoolInv`: each handler holds what its place says (`Seated`), so that
a row is held only after the last read through the pool; and the connections
are counted by the cardinality of two disjoint sets.

**Limiter and registration.** `LimiterInv`: what was let through within the window
is exactly what the loop keeps of the stored times, in whatever order ticks and
cleanups come (`YoungOfAged`: an expired time may be dropped before a tick or
after it). `AccountInv`: the UNIQUE columns, and that each phone `Reads` as the
number it was typed for: it is the number, or one of the two is the other with the country
code in front and the length tells which. Hence one number has one mobile phone
(`SameNumberSamePhone`) and one phone one number (`SamePhoneSameNumber`).

### Only model-checked

* Liveness: `EveryRequestAnswered` of the orders and of the pool, and
  `IdleKeysForgotten`. Fairness and ENABLED are out of the prover's reach.
* `SignUpTypeOK`, `TypeOK` of `RateLimiter` and the symmetry of the runs.
* That the properties fail without the hypothesis of one editor, or one request, at a time
  (section 5): a counterexample needs one instance only.

`DrawnNumbersDiffer` and the types of `ShortCodes` are proved and in no run's list:
`codes` checks `CheckoutTypeOK`, which contains the types. No module has a
RECURSIVE operator.

## 7. Not modelled

* Cryptography (bcrypt, JWT signatures, token hashes), presigned uploads,
  formatting of answers and amounts, logging, configuration, wiring, sample data,
  mocks: stateless or I/O.
* Public lists, queries of reports, the admin lists, the summary of reviews: they
  read only.
* `AdminUpdateSettings` beyond `delivery_enabled`: the other keys only decorate
  the menu's answer, so that nothing could be said of a loop that stops half-way.
* `CutoffAt` and the zone of the campus: a cutoff passes at any moment, which
  allows more than any calendar.
* Transaction start times, by which the timeline is ordered (`created_at`):
  events are in commit order here. Two events of one order come from
  different transactions that the row lock puts in order, but the one that began first
  may be the one that waited.
* Two admins who edit one user at once. The later one undoes the other's edit, as
  two editors of an item do (`raced` in `Catalogue`); nothing promises otherwise.
* Whether a password is right, and anything else a single request computes from
  its own input only.
* Loss of committed data by the database.

## 8. Plan

Done, in this order: `OrderLifecycle`, `OrderService` (placement, edits,
failures, reads), `OrderBook` and the refinement, `ShortCodes`, `ConnPool`,
`RefreshTokens`, `MenuCache`, `Reviews`, `RateLimiter`; then the compositions
`SignUp`, `Authority`, `Catalogue`, and `Pricing` with `Checkout`; then the proofs
of section 6.

Left for the models: start times of transactions in `OrderService`, for the order
of the timeline; the whole of `OrderService` over `Checkout` instead of the
counter's lock (the state space of the product is out of reach of the present
instances).

Left for the proofs: that `Checkout` refines the inner part of `OrderService`'s
placement; an abstract specification of sessions and of the cache, beside their
invariants, with the refinement; `SignUpTypeOK`.
