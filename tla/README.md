# A TLA+ model of willys-backend

willys-backend is the NestJS/TypeORM/PostgreSQL server of a restaurant chain:
menu, branches, carts, discounts, orders, payments (cash or Paymob), refunds,
notifications, users and roles.  One Node.js process serves all requests: every
handler is an `async` function, and between two `await`s any other handler may
run.  Nothing but PostgreSQL serialises them.  Most services read an entity,
change it in memory and `save` it whole; only the discount and checkout code
uses transactions and row locks.  These modules model that interleaving.

All source paths below are relative to `src/src/`, unless they begin with
`test/`.

## 1. Inventory

| component | state | operations | what is hard |
|---|---|---|---|
| Discounts (`modules/discounts`) | `discounts.currentUsageCount`, status and dates; `user_discounts.usageCount`; `discount_usage_logs` | update, activate, deactivate, expire, remove, assign, unassign, recordUsage | stale whole-row saves of the counter; limits checked and counted by concurrent requests |
| Cart (`modules/cart`) | `carts` (discounts, totals, options), `cart_items` | add, update, remove, clear, options, applyDiscount, removeDiscount, recalculateTotals, validateCart | a cart read before an `await` and saved whole after it; derived columns that every handler has to keep up to date; reservations released in a second statement |
| Checkout (`modules/orders/checkout.service.ts`) | a Map of idempotency keys, one transaction per request | processCheckout, getCheckoutSummary, handlePaymentConfirmation (never called) | payment, cart and key are outside the transaction; locks; pool of 20 connections |
| Orders (`modules/orders/orders.service.ts`) | `orders.status` and timestamps, `order_status_logs` | updateStatus, cancelOrder, confirmOrder, reorder | transition table checked on a status read earlier; log in a second statement |
| Payments (`modules/payments/payments.service.ts`) | `payments.status`, `refundedAmount`, transaction logs | create, process (cash, card), webhook | webhooks repeated and out of order; whole-row saves |
| Refunds (`refunds.service.ts`) | `refunds.status` | request, approve, reject, process with Paymob | pending refunds not counted; two approvals; failure after the money is back |
| Addresses, saved payment methods | `isDefault` flags | create, update, remove, setDefault | clear-then-set in two statements; a successor for a removed default |
| Branches, zones, routing | branches, zones | CRUD, route an order | borders of polygons, ties, filters spread over two services |
| Branch menu | overrides per branch | set, bulk update, remove, what is offered | find-then-save upserts against a unique key that covers deleted rows; a transaction nobody uses |
| Menu | items, bundles, categories, ingredients | CRUD | slug uniqueness checked before the insert |
| Notifications | device tokens, notification rows, preferences | register, remove, preferences, send with retries | a row per attempt; check-then-insert; events that delete tokens beside requests |
| Migrations | the schema, rows that change shape | run, revert | 23 migrations against databases of any earlier release |
| Authentication, users, roles | users, access and reset tokens, roles | login, refresh, password change and reset, role assignment | whole-row user saves; one-time tokens; role deleted while assigned |
| Uploads, analytics, health, mail, OTP, guards | - | - | I/O, queries and stateless transformations |

How they interact: `CartController` calls `CartService`, which updates
`discounts` with raw SQL under `FOR UPDATE`, asks `BranchMenuService` what a
branch offers and `OrderRoutingService` where an address is served from.
`CheckoutService` calls `CartService` (validate, read, clear),
`OrdersService.createFromCart` and `DiscountsService.recordUsage` (both on its
transaction) and `PaymentsService` (on other connections).  `PaymentsService`
and `RefundsService` call Paymob, which calls the webhook back.  Orders,
payments and registrations emit events to the notification listeners,
fire-and-forget; the listeners call Firebase.

What makes each correct:

- *discounts*: the reserved count means something (reservations plus usages), and
  they stay within the limit; a user's redemptions stay within the per-user limit;
  nothing switched off is redeemed; no request waits for ever;
- *cart*: the stored totals, which the checkout charges, are those of the lines,
  the discounts and the fee; the fee is one answered for the address; extras are paid;
- *checkout*: items are ordered once, however often the client retries; a whole
  cart becomes one order, or none; a confirmed order is paid; a response is true;
  every request is answered;
- *orders*: the status follows the transition table, and the log follows the
  status;
- *payments and refunds*: no more is recorded as refunded than went back, and
  with handlers in turn nothing is forgotten; a refund that was paid is not
  rejected; an approved refund comes to an end;
- *defaults*: at most one, and not lost by accident;
- *routing*: the best branch that serves the location, whatever order rows are
  fetched in; a border belongs to one zone;
- *branch menu*: the cart accepts what the menu shows; a request changes what it
  names, in its order;
- *notifications*: everybody registered is told, once; switched off stays off;
- *migrations*: from any schema that releases and reverts can leave, the newest
  release can be reached, and it fits the entities; rows keep their values.

The hazards, each at its line with the properties that cover it, are in
`PROJECT.json` under "hazards".

## 2. Plan

| | modules | content | status |
|---|---|---|---|
| 1 | `DiscountUsage`, `DiscountAccounting` | reservation and redemption | checked, proved |
| 2 | `Checkout`, `OrderPlacement` | processCheckout beside the discounts, and the atomic "place an order" it implements when a client's calls do not overlap | checked, proved |
| 3 | `OrderStatus`, `OrderLifecycle` | an order's status, and the abstract specification it implements when calls do not overlap | checked, proved |
| 4 | `PaymentRefund`, `RefundAccount` | a payment from its creation to its refunds, and the account it implements | checked, proved |
| 5 | `Notifications` | tokens, preferences, events and their attempts | checked, proved |
| 6 | `AddressBook`, `BranchMenu` | read-then-write protocols of defaults and overrides | checked, proved |
| 7 | `ShoppingCart` | derived columns of the cart | checked, proved |
| 8 | `OrderRouting` | point in polygon and choice of a branch, each against a reference definition | checked, proved |
| 9 | `Schema`, `Migrations` | what the entities need and what 23 migrations do | checked |
| 10 | refinement | `Checkout` as an implementation of `OrderPlacement`; the ledger of reservations that `DiscountUsage` keeps for sequential clients is the invariant `ReservationAccounting` | checked, proved |
| 11 | proofs of the sums | inductive invariants for `ReservationAccounting`, `BooksBalance` and `TotalsAddUp`; the best branch, common borders, the default that is kept | proved |
| 12 | more proofs | `Migrations`: which rows a run keeps, as a theorem about any rows | stays with TLC: a run folds over the statements of 23 sequences, and the proof would be an induction over them |

`MCLone` composes the modules 3 to 6 and 9 with one handler at a time and
failures, `MCOverlap` the modules 3 to 8 with two at a time, see 4.

## 3. The modules

**Conventions.**  A request is a process with a program counter (`pc[r]`,
`orderPc[c]`, `payPc[c]`, ...) that names the statement it awaits next.  One action
is one awaited statement and the synchronous code after it, or one transaction
whose intermediate states nobody can see.  `orderCopy`, `payCopy`, `snapshot` or
`cart` is the handler's copy of a row.  Variables commented "history" are not state
of the program; they remember what a property is about.  Definitions marked
"mutant" in the modules are wrong variants kept to show that the properties notice
them; no specification uses them.  The modules that are extended together prefix
what they all have: `OrderInit`, `PayNext`, `pushVars`, `BookTypeOK`, `cartFaults`,
`MenuCalls`.

TypeORM's `save` is a SELECT, by which it finds out what differs from the row,
and an UPDATE of just that.  Another handler's write may fall between the two.
`OrderStatus` models the gap, because the SELECT is also where a late save is
refused (`CompareOrder`, `SaveOrder`), and so does `EditSave`, for the counter that
an administrator's save may or may not write.  Elsewhere `save` is one step, at
its UPDATE, and writes the copy: what the gap adds there is that a column which
the save does not change keeps what another handler has just written to it.

TypeORM's `save` is modelled as it is used: it writes the columns of the copy
whether or not the row has changed since it was read, it does not write what is
`undefined` or what is as it was read in the loaded entity, it inserts a row again
that was deleted since, it prefers a relation object that was loaded to a changed
foreign key column, and it compares one-to-many relations that were loaded with the
database (which is what makes a late save of an order fail, see `OrderStatus`).

### DiscountUsage

State: the columns `currentUsageCount`, `usageCount`, `appliedDiscounts`; `limits`
(`maxUsageTotal` and `maxUsagePerUser`, 0 for none, which an administrator may
change at any time, below what is used as well); `state`
(isActive, status, dates and deletedAt of a discount folded into five values,
because `applyDiscount` ignores the dates and the checkout ignores the status);
`assigned` and `usageLogs` (rows of `user_discounts`, `discount_usage_logs`);
`lock` (row locks held across statements, by checkouts only).  `logsAtReset` is
a history variable.

| actions | code |
|---|---|
| `BeginApply`, `Reserve`, `RejectApply` | `CartService.applyDiscount`: read, then one transaction under `FOR UPDATE` |
| `RecalculateRead`, `RecalculateSave` | `recalculateTotals` |
| `BeginRemove`, `RemoveSave`, `RemoveRelease` | `removeDiscount` |
| `BeginClear`, `ClearRelease`, `ClearSave` | `clearCart(userId, true)` |
| `BeginTouch`, `TouchSave` | the setters that save the whole cart |
| `BeginCheckout` ... `CheckoutCommit` | `validateCart`, `getCart`, `validateDiscountsWithLock`, `recordUsage`, `clearCart(userId, false)`, commit |
| `BeginEdit`, `EditSave`, `SoftDelete`, `AssignToUser`, `RemoveUserAssignment` | `DiscountsService`, administrator |
| `DeadlockAbort`, `RequestFails`, `ReleaseFails`, `Crash` | PostgreSQL's deadlock detector, errors, the end of the process |

`EditSave` writes a new limit, a state, and the count read before or the present
one.  `CardCheckouts` are the checkouts that may hang between the check and the
commit, in the payment, which `Checkout` has in detail (`HangsOnCard`); as there,
nothing ends their wait, so that no fairness is assumed of it.

`DiscountAccounting` adds what the counter should be: carts that hold the
discount, plus logs, plus what handlers between two writes still owe.

### Checkout and OrderPlacement

State: `carts` (items), `orders` and `payments` (committed rows), the Map
`processedIdempotencyKeys`, and per request its copy of the cart, its order
number, whether the database has ended its transaction (`lost`) and its
response.  Pool use and locks are not variables: they follow from where the
handlers are (`Connections`, `HoldsOrderNumber`, `PaymentRowLocked`).

| actions | code |
|---|---|
| `BeginKnown`, `FindExisting` | the key is in the Map: `findOne` |
| `BeginNew`, `ValidateSave`, `GetCart`, `Connect` | validation, `getCart`, `startTransaction` |
| `LockDiscounts`, `InsertOrder` | `validateDiscountsWithLock` (its locks are in `DiscountUsage`), `generateOrderNumber`, `createFromCart` on the unique order number |
| `CheckPayment`, `SavePayment`, `LinkPayment` | `createPayment` on another connection, then the foreign key inside the transaction |
| `ProcessCash`, `Confirm` / `CallPaymob`, `SendCardSave`, `SaveCard` | the two kinds of payment |
| `ClearCart`, `StoreKey`, `Commit` | the end of the try block |
| `ConnectionTimeout`, `StatementFails`, `CommitUnacknowledged`, `TransactionLost`, `Crash`, `ExpireKey` | timeouts, errors, lost sessions, restarts, the 24-hour timer |

`AddItem` puts each unit of food into one cart once and only while that client
has no checkout in flight, so "ordered twice" has a meaning.

`OrderPlacement` is the endpoint as its client sees it: `SendBill`, `Settle`, then
`Place`, which turns the whole basket into an order and ends the attempt, or
`Repeat` of an order with the same key, or `GiveUp`.  `Checkout` maps to it
(`Placement`) as follows.  A basket is the cart, together with the cart that a
request of its owner has cleared and not yet committed (`Basket`), so that
`ClearCart`, which another connection commits, is a stutter and `Commit` is
`Place`.  What is placed are the items of committed orders, the bill is the row
of `payments` (settled when SUCCESS), and an attempt is over when its request is
done.  A request that fails gives up; a crash makes all in flight give up at
once, and the baskets they had cleared are lost.

### OrderStatus and OrderLifecycle

State: one order's row (status, who cancelled it, the set of timestamps that are
set), its status logs in the order of insertion, and per call the new status,
the caller, the order it read with the number of logs it loaded, and the row that
its save has compared that with.

| actions | code |
|---|---|
| `BeginUpdate` | `updateStatus`, `confirmOrder`: findOne, and the check against `statusTransitions` |
| `BeginCancel`, `FindForCancel` | `cancelOrder` reads and checks, then calls `updateStatus`, which reads again |
| `CompareOrder`, `SaveRefused` | the SELECT of `orderRepository.save`; refused when a log was inserted since the read, because the loaded `statusLogs` would lose it and `orderId` is NOT NULL |
| `SaveOrder` | its UPDATE, of the columns that differed (`Written`) |
| `SaveLog` | `logStatusChange` |
| `OrderCallFails`, `OrderCrash` | errors; nothing is undone |

`OrderLifecycle` is the abstract specification: a status that moves along the
table, and an owner who cancels only what is PENDING or CONFIRMED.  The
refinement maps `status` and `cancelledBy` to the columns of the row
(`FollowsLifecycle`).  It holds while calls do not overlap; with overlap an
order can go from CANCELLED to PREPARING, between one call's comparison and its log.

### PaymentRefund and RefundAccount

State: the payment's row, the statuses its transaction logs name, the rows of
its refunds, what Paymob has taken and returned (`charged`, `paidBack`,
`paidFor`, `webhooks`), and per handler its copy of the payment and its refund.

| actions | code |
|---|---|
| `CreatePayment`, `CreateLog` | `createPayment` |
| `FindToProcess`, `CashSave`, `CardCall`, `CardSave`, `CardFailed`, `ProcessLog` | `processCashPayment`, `processCardPayment` |
| `CustomerPays` | Paymob's page: a charge or a failed attempt, and a webhook (external) |
| `BeginWebhook`, `HookSave`, `HookLog` | `handleWebhookUpdate` |
| `BeginRequest`, `RequestSave` | `requestRefund` |
| `BeginDecision`, `RejectSave`, `ApproveSave` | `rejectRefund`, `approveRefund` |
| `RefundFind` ... `RefundReread`, `RefundFailed` | `processRefundWithPaymob`, with its catch clause |
| `PayCallFails`, `PayCrash` | errors, caught where the code catches them (`Caught`) |

Amounts are whole and their sum is kept exactly, as the column with two decimals
keeps it.  The status is decided before, from the unrounded sum of two
floating-point numbers: 0.70 + 0.10 is less than 0.80, and such a payment stays
PARTIALLY_REFUNDED although all of it went back.  Which amounts add up like this
is not modelled; `StatusAfter` allows both outcomes whenever something had been
refunded before.  `refundType` is left out: no code depends on it.  (By the code a
request without an amount is stored as PARTIAL, because `payment.amount` is a
string there, `refunds.service.ts:72`; the unit test at
`refunds.service.spec.ts:119` expects FULL of a mock with a number.)

`InOrder` says whether webhooks come once and in order or any number of times in
any order.  `RefundAccount` is the abstract specification: `returned` grows to
`Amount` at most, `recorded` follows it and never shrinks; the refinement maps
them to `paidBack` and `payment.refundedAmount` (`KeepsAccount`).

### Notifications

State: the rows of `admin_fcm_tokens` (a sequence, deleted ones included), the
preferences of each administrator, per event the rows it saved, its attempt, the
tokens it has read and those Firebase rejected, and per request what it is about.
`pushed` and `missed` are history variables: the rows whose push Firebase took, and
those whose push it did not.

| actions | code |
|---|---|
| `RegisterToken`, `TouchToken`, `DeactivateDevice`, `InsertToken` | `registerToken` |
| `RemoveToken`, `RemoveInvalidToken`, `RemovalFails` | `removeToken`, `removeInvalidToken` |
| `GetPreferences`, `UpdatePreferences`, `InsertPreferences`, `SavePreferences` | `getPreferences`, `updatePreferences` |
| `Emit`, `SaveRow`, `GetAdminsWithTokens`, `SendToTokens`, `AttemptFails`, `Disconnected` | `sendNotificationToAdmins`, its retries, `FcmService.sendToTokens` |
| `RequestFails`, `PushCrash` | errors, the end of the process |

A push has three outcomes (`SendToTokens`): Firebase takes it; it rejects the token
as unknown, which is then deleted; or it fails in another way, which
`FcmService.sendToToken` logs and returns, and nobody tries again.  The event ends
as sent in every case.

### ShoppingCart

State: the row of the cart (branch, order type, address, fee, discount taken,
totals) and its lines.  Overlapping requests overwrite each other's copy of the
whole cart, for any property of these columns; so requests come one at a time
here and `DiscountUsage` has the interleavings.  A request may stop after any
statement.  `AddItemBranch`, `AddItem`, `UpdateItem`, `RemoveItem`,
`SetOrderType`, `SetBranch`, `SetDeliveryAddress`, `ApplyDiscount`,
`RemoveDiscount`, `ClearLines`, `ClearCart` and `RecalculateTotals` are the
methods of `CartService`, `Checkout` is `validateCart` and the clearing that
follows the order.  What a branch offers and what things cost, an address's fee
included, may be different at each read.  `setDeliveryAddress` asks for the fee
once (`quoted`, a history variable): when the address is moved, or its zone's fee
changes, the cart keeps the old fee.  Prices of customizations may be negative,
because the DTO has no minimum; those of extras may not.

### BranchMenu

State: which entries of the core menu are active, and the row of each override:
none, on, off, or soft deleted.  `BulkUpdateAvailability`, `CheckCore`,
`FindOverride`, `SaveOverride`, `InsertRefused` are a bulk update (or, with one
element, a single set), `FindForRemoval`, `RemoveOverride` the removals, and
`AvailableProducts`, `IsProductAvailable` the customer queries and the cart's
question.

### AddressBook

One module for `AddressesService` and `PaymentMethodsService`; `kind`, chosen
initially, says which.  State: for each entry whether it exists and its flag, per
request the entry, the flag it will save and the successor it has found.  `Create`,
`ClearDefault`, `Count`, `Insert`, `Update`, `SaveUpdate`, `SetDefault`,
`SaveDefault`, `RemoveEntry`, `FindSuccessor`, `SaveSuccessor`, `Delete` are the
statements of create, update, revalidateAddress, setDefault and remove.
`FindSuccessor` is the search of `remove` for the newest address, which may find
the one to be removed.

### OrderRouting

State: zones and the flags of branches.  `PointInPolygon`, `Before` and
`RouteOrder` translate the pure functions of `ZonesService` and
`OrderRoutingService`.  What they are compared with is said without rays and without
sorting: neighbours are two rings that have one of three paths between two
corners in common (`Way`, `Cuts`), and the other two paths are the outline of both
together (`Outlines`); the best branch is a quantifier over those that serve
(`Serves`).  The code divides to find where an edge crosses the ray, in floating
point: a point right on a slanted edge may fall on either side of the rounded
quotient, and not on the same side from both ends of the edge.  On the border from
(0,0) to (1,3), at y = 1, the zone that has it one way round computes
0.3333333333333333 and its neighbour 0.33333333333333337, so that a point there can
be in both.  `RoundedUp` is any set of such points and directed edges, and `Crosses`
asks it there; off slanted edges, and on upright ones, it compares exactly.
Coordinates are integers: that a point so close to an edge that rounding reaches
it falls on the wrong side is left out.  `CreateZone`,
`UpdatePolygon`, `UpdateZone`, `ToggleZone`, `RemoveZone` and `ToggleBranch` make
every table of zones reachable.

### Schema and Migrations

`Schema` lists the tables and columns of the entities as sets.  `Migrations` gives each
of the 23 migrations as two sequences of statements; `Possible` and `Effect` are
what PostgreSQL requires of and does with a statement.  `Run(release)` applies
what is pending in one transaction, `Revert` takes back the last, and `EditFee`,
`EditPrice`, `EditContents` are the program at work in between.  Rows that change
shape are rewritten as the statements do it (`Rewritten`): the revert of
20260111120600 rounds a price to numeric(10,2) (`Cents`), that of 20260111120700
takes items without their quantities (`Singly`), and is refused when a bundle lists
an item twice or one that is gone (`Listable`).  A price too large for the column,
which refuses the revert as well, is left out.

### MCLone and MCOverlap

No handler of `OrderStatus` writes a row of `PaymentRefund`, and so on for every
pair; the listeners of `Notifications` start from an event and return nothing.
So a product of these components has no behaviour that its parts do not have, and
TLC explores them in turn: `scope` is chosen initially and says which component
is at work.  `MCLone` has orders, payments, devices, branch menus and migrations,
`MCOverlap` orders, payments, preferences, addresses or cards, carts and routing.
Its states are taken up to a renaming of handlers and of a cart's lines
(`Alike`): no definition tells two of them apart, nor do the properties, none of
which is a liveness property.
The components that do share rows, discounts and carts or orders, payments and
carts, are together inside `DiscountUsage` and `Checkout`.

## 4. What TLC checks

| run | instance | result |
|---|---|---|
| `DiscountLimits` | 3 requests (two of one user) of every kind, 1 discount with limits of 1 or 2, in all and per user, which administrators change, 1 fault; 270,807 states | `TypeOK`, `NoDuplicateDiscount`, `PerUserLimit`, `RedeemedWhileOffered` hold |
| `DiscountAccounting` | 3 cart requests, each client waits for its answer, limits of 1 or 2, 2 faults; 62,364 states | `ReservationAccounting` and `ReservedWithinLimit` hold: exact without faults, off by at most one per client and fault |
| `DiscountDeadlock` | 2 discounts, carts list them in opposite orders, 3 requests, two of one user, the third a card checkout that may hang; 71,344 states | `RequestsFinish` holds under `FairSpec` |
| `CheckoutSequential` | 3 checkouts: two of one client with one key, one of another by card; 3 connections, 2 order numbers, 2 items, 1 fault; 81,289 states | `TypeOK`, `NoItemOrderedTwice`, `ConfirmedIsPaid`, `PaymentReferenceUnique`, `AnsweredOrdersExist`, `CashCheckoutsFinish` and the refinement `PlacesOrders` hold |
| `LoneRequests` | one handler at a time, with failures: an order (2 faults), a payment of 3 with two refunds (2 faults), two tokens of one device with an event beside a request (1 fault), a menu of a category and two dishes with bulk updates of two, migrations with releases 8, 10 and 23 and two zones | orders: `FollowsLifecycle`, `JournalTellsTheStory`; payments: `KeepsAccount`, `BooksBalance`, `ApprovedIsSettled`; notifications: `OneRowPerToken`, `OnlyRevivedShareDevice`, `PushedOnce`, `SteadyAreTold`, `EventsEnd`; menu: `CheckAgreesWithMenu`, `BulkInOrder`; migrations: `RunSucceeds`, `NewestIsCanonical`, `RowsSurvive` hold |
| `Overlapping` | two handlers at a time and 1 fault: an order with at most 5 logs, a payment of 2 whose webhooks repeat in any order, an administrator's preferences, three addresses or cards; and, one request at a time, a cart of two lines over an item and a bundle (1 fault), two zones and two branches | `StatusIsLogged`, `SettledStays`, `BooksAreTrue`, `OptOutIsKept`, `AtMostOneDefault`, `OnlyNewestLeavesNone`, `TotalsAddUp`, `FeeBelongsToAddress`, `ExtrasArePaid`, `BorderHasOneSide`, `RoutedToTheBest` hold |
| `DiscountLastUse` | limit 2, two users | violated: `ReservedIsRedeemable` |
| `DiscountDoubleCheckout` | one client, overlapping checkouts of one cart | violated: `LogsMatchCount` |
| `CheckoutRetry` | two overlapping requests with one key | violated: `OneOrderPerKey` |
| `CheckoutCard` | one card checkout, nothing fails | violated: `CardCheckoutsFinish` |
| `AddressDefault` | as `Overlapping` | violated: `DefaultHasSuccessor` |
| `BulkUpdate` | as `LoneRequests` | violated: `BulkIsAllOrNothing` |

**What lone handlers keep and overlapping ones do not.**  `updateStatus`,
`handleWebhookUpdate`, `processRefundWithPaymob` and `setDefault` read a row and
save it whole, without a lock or a version.  With two of them at a time an order
leaves CANCELLED, a payment forgets a refund, and an entry ends with two defaults.
The project says so by what it checks in which run: in `LoneRequests` the order
implements `OrderLifecycle`, the payment implements `RefundAccount` and the books
balance, whatever fails; in `Overlapping` what is left is weaker and still worth
having.  The final status of an order has a log, and an order in a final status
keeps it once no call is between the comparison of its save and its log, because a
later save would take a log from the order and the database refuses that
(`SaveRefused`).  A call that compared before the log was inserted still takes the
order out of its status.  The books of a payment may forget a refund but never
invent one.  Two defaults last until `setDefault` is called by itself.  `tidy`,
`bookAlone` and `pushAlone` remember whether requests have met, so that one module
says both.

**The bounds.**  `MaxFaults` and its kin bound failed statements, lost answers and
crashes; one fault at each point of each interleaving is enough to separate any two
statements, and two in `DiscountAccounting` and `LoneRequests` show that errors add
up and no more.  In `DiscountUsage` and `Checkout` a request is used once, and a
retry is another request; three of them give two opponents and a bystander.  In the
other modules a request that has ended may begin again, so that two stand for any
sequence of them, two at a time.  A pool of three connections is the smallest in
which a cash checkout can begin its transaction beside a card checkout that hangs
and keeps two: it then finds no second connection for its payment, or waits for the
order number that the other holds.  Two order numbers are the fewest that can
collide and still let two orders commit.  Limits of 1 and 2 are the smallest that
tell "reserved" from "used up", and can be lowered below what is used.  `MaxLogs`
is 6 where an order goes from PENDING to its end and one log more, and 5 where two
calls overlap.  A payment of 3 can be refunded in two parts and asked for a third
time; two refunds can be requested, approved and paid in any order.  Three rows of
tokens hold a device's two tokens and one of them again after its removal.  Two
dishes in a category are the fewest in which an update of the one may change the
other.  Three addresses have a default, its successor and another; in a cart two
lines can be merged or not.  The two polygons share a border with an upright, a
level and a slanted part, the circle reaches into both, and the five locations lie
inside, on the border, on a corner and outside; an edge is rounded up for whoever
runs down it (`FromAbove`), which puts the two sides of a slanted border at odds.
Prices of 0, 3.0 and 3.4 cents are the fewest that a column of cents keeps and
rounds; a bundle's entries are an item, once or twice, and one that is gone.
Releases 8, 10 and 23 with `Revert` one migration at a time reach every version
from 0 to 23, those between releases on the way down.

`Idle` (`DiscountUsage`) and `CHECK_DEADLOCK FALSE` say that the system rests when
all requests are answered or `MaxLogs` is reached; in `Checkout` a card checkout
rests unanswered, which is a finding below.

**What a hung card checkout takes along.**  It keeps its row locks and its order
number for ever, since the database has no statement timeout.  So `RequestsFinish`
excepts whoever is, or waits behind, such a checkout (`Stuck`), and
`CashCheckoutsFinish` a cash checkout that has drawn its order number
(`WaitsForHungCheckout`); every other request is answered.

**Fairness.**  `WF_vars(Continue(r))` for each request of `DiscountUsage` and
`Checkout`: the event loop resumes a handler whose statement has completed,
PostgreSQL grants a free lock and its detector aborts a member of a cycle, the
pool gives up on a connection after ten seconds.  For the same reason `FairSpec`
of `MCLone` has it of `PayContinue` (a handler of a payment goes on, so
`ApprovedIsSettled`) and of `PushContinue` (the listener of an event goes on,
with its statements failing or not, so `EventsEnd`).  Nothing is assumed of
arrivals, faults, the 24-hour timer, customers on Paymob's page or clients.
`ApprovedIsSettled` makes an exception of failures: `approveRefund` gives up after
one, and no job looks for refunds left APPROVED or PROCESSING.

**What the violations say.**

- *The last reservation cannot be redeemed.*  `applyDiscount` counts the
  reservation, and the checkout compares that very count with the limit
  (`checkout.service.ts:320`): with a limit of two and two carts that hold the
  discount, neither can be checked out.
- *Overlapping checkouts of one cart both succeed* (`:76`): two orders, two
  usage logs, one counted reservation.
- *The idempotency key does not cover overlapping requests*: it is looked up at
  `:52` and stored at `:200`.
- *A card checkout waits for itself.*  Linking the payment (`:157`) makes the
  foreign key of `orders.paymentId` hold `FOR KEY SHARE` on the payment row
  until the commit.  `processCardPayment`, awaited in that transaction, changes
  the row's unique column `paymobOrderId` on another connection, which needs the
  conflicting `FOR UPDATE`.  PostgreSQL sees no cycle, there is no statement
  timeout, and the transaction is kept open, with its discount locks, until the
  session ends.  This rests on PostgreSQL's documented lock modes, the
  constraint of migration `20260111121300:64` and the key of
  `20260111121600:337`; no test of the repository gets past Paymob.
- *A user may be left without a default address.*  `remove` looks for the newest
  address while the one to be removed is still there (`addresses.service.ts:104`).
  If that is the newest, it finds itself, and nobody becomes the default, although
  a comment (`:102`) and a test (`addresses.service.spec.ts:360`) say that another
  does.  `OnlyNewestLeavesNone` shows that lone requests lose the default in no
  other way but by an update that takes it away.
- *A bulk update of the menu is not all or nothing.*  Its transaction is opened
  and not used (`branch-menu.service.ts:524`): an update that is refused leaves
  the earlier ones in place.

## 5. What is proved

TLAPS checks the following for every value of the constants, under each module's
assumption on them only: their types, finitely many users in `DiscountUsage`,
finitely many requests in the others, and values such as `NoRefund` that are none
of the refunds.  Where a theorem is of handlers one at a time, `MaxOrderCalls <= 1`
or its like is an assumption of the theorem, as `InFlightPerUser <= 1` is where
clients wait for their answers.  In `Notifications` and `AddressBook` the property
itself says "as long as requests have not met".

`DiscountUsage_proofs`:

- `TypeCorrect`, `CartsHoldNoDuplicate`: inductive invariant `TypeOK /\ CartInv`.
  `NoDuplicateDiscount` alone is not inductive: `CartInv` also says it of every
  copy a handler will save, and that a handler about to reserve has a copy
  without the discount.
- `UsersStayWithinLimit`: an action property, because a limit may be lowered below
  what was redeemed before: what a commit logs is within the limit of that moment.
  With `PerUserInv`: a checkout in its transaction has
  locked what it has passed (`LockInv`), what it found out about its caller
  stays true while it holds the lock (`CheckedInv`), and `usageCount` counts the
  logs since the last assignment (`CountInv`).
- `RedemptionsAreOffered`: an action property; while a row is locked its
  discount stays redeemable (`OfferedInv`), and a commit logs locked rows only.
- `ReservationsAreAccounted`, for `InFlightPerUser <= 1` and no administrator who
  edits (both needed: overlap redeems one reservation twice, and a stale edit
  writes an old count back).  The property has a case for each handler between
  two writes: a cart saved without the discount still owes its release,
  `clearCart` has released what its cart still holds, and a checkout about to
  commit has yet to log what its cart held.  It is inductive
  with `OneEach` (a user has one request at work) and `Fresh` (its copy of the cart
  is the row).  A step changes what one user accounts for (`Share`) and the count
  by the same, give or take a fault.  That the sum of all then changes by as much
  is `SumsMove`, from well-founded induction over the subsets of a finite set
  (`LeastSubset`): sums exist, do not depend on the order of summation, and take
  one member at a time.
- `ReservationsStayWithinLimit`, under the same conditions: the count stays within
  `maxUsageTotal` (`CountWithinLimit`, kept by every step but an administrator's
  save), and it leaves out no cart or order but for faults.  An administrator's stale
  save lowers the count, and then more carts get the discount than the limit says
  (hazard H7): the code does not keep this property with such saves.

`Checkout_proofs`:

- `TypeCorrect`.
- `AnswersAreCommitted`: committed orders stay (`OrdersStay`), and a response is
  either old, or that of `findOne`, or that of a commit (`ResponsesGrow`).
- `ConfirmedOrdersArePaid`: with `PaidInv`, which says that a cash checkout past
  `processCashPayment` is paid and that an order belongs to a finished request.
- `ItemsAreOrderedOnce`, for `InFlightPerUser <= 1`: with `StockInv` (every item
  is on the shelf, in one cart, or taken by one checkout; a handler before
  `clearCart` has a part of its client's cart) and `SequentialInv`.  The
  assumption is needed: `CheckoutRetry` is the counterexample without it.
- `ReferencesAreUnique`, likewise: with `ReferenceInv`: a request has its payment
  from `savePayment` on (`Stage`), and what the search before the insert did not
  find is still missing at the insert.
- `CheckoutPlacesOrders`, likewise: the refinement, initial states to initial states
  and every step to a step of `OrderPlacement` or a stutter.  `StockInv` lets a
  request hold a part of its client's cart; a whole basket becomes the order only
  if it holds all of it.  So `PlacementInv` has `Holds` (the copy is the cart until
  `clearCart`, and the cart is empty from there to the commit), `Billing` (how far the
  payment is at each statement), `Answers` (what a response may name) and `KeysInv`
  (the Map maps a key to a request of that key).

`OrderStatus_proofs`:

- `TypeCorrect`.
- `LoneCallsFollowLifecycle`: the refinement, initial states to initial states
  and every step to a step of `OrderLifecycle` or a stutter.  `AloneInv` says that
  a lone call about to save still has the row in its copy, that the table allows
  its target, and that an owner's call was let through from PENDING or CONFIRMED.
- `FinalStatusIsLogged`: with `LoggedInv`, whatever overlaps: before the first
  change nothing is about to be logged; after it the row's status is in a log, or
  a call is about to write it.
- `SettledOrdersStay`: with `CopyInv`.  A copy has no more logs than there are,
  and if as many, then the row's status, unless a call is between its comparison
  and its log.  So a save that is not refused starts from the settled status, and
  the table has nothing to offer from there.
- `LoneCallsKeepTheJournal`: with `JournalInv`: the chain of statuses that the logs
  tell has at most one gap per failed statement, with one held in reserve while
  the next log would open a gap.

`PaymentRefund_proofs`:

- `TypeCorrect`: with `WorkInv`, what each step knows of its refund.
- `NothingIsInvented`: `BooksAreTrue`, for any overlap and any failures.
  `BooksInv` has the two halves of the property and `OwnInv` (a refund being
  requested is one handler's) and `PaidInv` (no copy records more than was
  returned; what a handler is about to record has been returned on top of what
  its copy records).
- `LoneHandlersKeepAccount`, `PaidIsNotRejected`: with `AloneInv`, that is
  `OneAtWork`, `FreshInv` (a lone handler's copy has the row's recorded amount)
  and `StageInv` (a paid refund has left the statuses that can be decided on).
- `LoneHandlersBalance`: `BooksBalance`, for handlers that do not overlap and
  webhooks in order.  Books that balance are not inductive, because each handler
  unbalances them on its way.  `LedgerInv` says for every statement what is out of
  balance before it: `MoneyLedger` (between Paymob's answer and the save the
  amount returned is ahead of the recorded one, by that refund), `StatusLedger`
  (which log is still to be written), `HooksLedger`, `SuccessLedger`.  A payment
  returned in a single refund is REFUNDED; for one returned in several the status
  may be either, as the sum is not rounded.

`Notifications_proofs`:

- `TypeCorrect`.
- `NothingIsPushedTwice`, `EverybodySteadyIsTold`: with `EventInv`, which says per
  stage of an event what has been pushed (nothing before the push, so that an
  attempt that starts over repeats nothing), how many rows it has saved, and that
  who is steadily registered is deliverable until the query and in the batch
  after it.  That a push reaches its device is not claimed: Firebase may refuse one
  (`missed`), and there is no second attempt.
- `PushesStayOff`: an action property; the insert that loses the race leaves the
  winner's row as it is.  An update of another field saves the whole row and may
  switch pushes on again, but only if it read the row before they were switched off,
  hence overlapped.
- `TokensHaveOneRow`, `DevicesHaveOneToken`: with `TableInv`, the property of the
  table, and `FoundInv`: what a lone registration has found out is still so at its
  next statement, whatever rows events delete in between.

`AddressBook_proofs`: `TypeCorrect`, and `LoneRequestsKeepOneDefault` with
`ClearedInv` and `Prepared` (a lone request that will set a default has cleared
the others) and `TidyInv`.  `DefaultIsKeptByLoneRequests` is the action property
`OnlyNewestLeavesNone`, with `HeirInv`: the successor that `remove` has found is not the
address it removes, and a default it is about to delete is the newest address or
has been succeeded.

`ShoppingCart_proofs`: `FeeWasQuoted` with `FeeInv`, and `ExtrasAreCharged`
with `LinesInv`: a line of an item costs its quantity and its extras, customizations
that were priced by `updateItem` included in the unit price or on top of it, and a
line with extras is not one that `addItem` prices anew.  `TotalsAreTheLines`
with `TotalsInv`: as long as nothing has failed the totals are those of the
lines wherever a request has not yet changed a line, and `clearCart`, which
zeroes them without adding up, has emptied the lines before.

`Branches_proofs`, of `BranchMenu`: `TypeCorrect`; `CartAcceptsTheMenu`, of the state
by itself; `BulkGoesInOrder` and `OnlyRemovedAreRefused` with `LoneInv`, which
follows a lone request: what it has done and what it has left are its updates in
their order, the table is what it found but for what it has done, and the
override it has found is the one it will save.  Of `OrderRouting`:

- `OrdersGoToTheBest`: `RoutedToTheBest` follows from the types.  `Before` is a strict
  order of the matching zones (`BeforeIsOrder`), so a finite set of them can be
  listed in that order (`SortedExists`, by well-founded induction), the list that
  `MatchingBranches` chooses has all of them, and its first is the best.
- `BordersHaveOneSide`: `BorderHasOneSide`, for rings of any shape and length.  Two
  corners cut a ring into two paths between them, and the ray crosses the ring
  as often as it crosses the two (`CutsDivideRing`).  Neighbours may run
  through their border in opposite directions or in the same: the ray crosses an
  edge whichever way it runs
  (`EdgeHasOneSide`), and a path as often back as there (`BackCrossesAsOften`), so the
  crossings of the border cancel out in the parity (`AroundCrossesBoth`) and a point
  of the outline is in exactly one of the two.  On a slanted edge the rounding may
  differ from the two sides, and the theorem leaves these points out, whatever
  `RoundedUp` is; everywhere else `Crosses` is exact (`RoundingOnSlants`,
  `CrossesExactly`).  Crossings are sets of edges, and each
  of these facts is a bijection between two such sets or a disjoint union of them.

Only model-checked:

- the liveness properties `RequestsFinish`, `CashCheckoutsFinish`,
  `ApprovedIsSettled` and `EventsEnd`: liveness and `ENABLED` are out of the prover's
  reach;
- `RunSucceeds`, `NewestIsCanonical` and `RowsSurvive` of `Migrations`, which are about
  23 concrete sequences of statements: their truth is a computation, which is
  what TLC does, and has no parameter but the releases and the rows.

## 6. Abstractions

- *Data*: a price is a small number, never with a rounding error except where said
  above (the status of a refunded payment, slanted borders, the migration of
  prices), a name, an address and a product are model values.  Distances are
  compared by their squares on a grid where the code has the haversine formula of
  coordinates: the order of distances is all the routing uses.  The average of fees
  in a migration is an integer.
- *Carts* are sequential in `ShoppingCart`: overlapping requests overwrite each
  other's copy of the whole cart, totals included, which breaks any property of
  its columns at once.  `DiscountUsage` has the interleavings, for the columns
  that other tables depend on.
- *What a branch offers and what things cost* is read anew at each step of a cart
  and may differ each time: a choice, not state.
- *Pushes* of one event to all of a batch's tokens are one step; Firebase is
  configured (without it nothing is pushed).
- *Migrations*: an enum type is there or not; a column, key or index is a name; an
  index does not depend on its columns; of the rows only those that migrations
  rewrite are kept.  TypeORM applies all pending migrations in one transaction
  (`migrationsTransactionMode` is not set, and "all" is the default).
- *PostgreSQL, TypeORM, Paymob and Firebase* are modelled as the code uses them and
  marked external.
- *One server process*: the Map of keys would be per process, and overlap is
  already enough to defeat it.

## 7. What is not modelled, and why

- *Handlers without a caller*: `processAutomaticRefund`, `updatePaymentStatus`,
  `linkPayment`, `requiresRefund`, `handlePaymentConfirmation` (so a card order
  whose webhook arrives stays PENDING), the slug generator, `polygon-centroid`,
  the retry helper of `connection-health.ts`.
- *Accounts*: login, tokens, password changes and resets, users, customers, roles.
  Lone requests restate their guards (a password matches, a token has not
  expired); overlapping ones save the user's row whole, the protocol of orders and
  addresses again.  Three hazards stay open there: `updateLastLogin` writes an old
  password back (`users.service.ts:199`), two requests use one reset token
  (`authentication.service.ts:329`), and a role is assigned between the count of
  its users and its deletion (`roles.service.ts:116`).
- *Queries and geometry that change nothing*: lists, analytics, health,
  `findNearby` (SQL), `findNearestBranches`, `optimizeDeliveryRoute`, a zone's area
  and the validation of coordinates.
- *The catalogue*: CRUD of items, bundles, categories and ingredients, one row per
  request; TypeORM rewrites a bundle's components by its diff of a relation.
  `reorder` of an order's items only adds items to a cart.
- *Flags of one row*: `markAsRead`, `markAllAsRead`, pickup time, instructions.
- *Seeders*, which insert fixed rows once into an empty database.
- Uploads, mail, OTP, i18n, guards, interceptors, validators, the signature of the
  webhook: I/O or transformations of one request.
