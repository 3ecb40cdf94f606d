------------------------------ MODULE Checkout ------------------------------
(***************************************************************************)
(* CheckoutService.processCheckout: a cart becomes an order and a payment. *)
(*                                                                         *)
(* The order is written in a transaction on one pooled connection.  The    *)
(* payment, the emptied cart and the idempotency key are not part of it:   *)
(* the first two commit on connections of their own, the key lives in the  *)
(* memory of the process.  One action stands for one awaited statement and *)
(* the synchronous code that follows it.  The discounts of the cart, with  *)
(* the row locks that checkouts wait for, are in the module DiscountUsage. *)
(* OrderPlacement says what all this amounts to for one client.            *)
(***************************************************************************)
EXTENDS Naturals, FiniteSets

CONSTANTS
    Requests,          \* calls of POST /orders/checkout; also order ids
    NoRequest,
    Users,
    Items,             \* units of food, each put into one cart once
    Keys,              \* idempotency keys
    OrderNumbers,
    Caller,            \* request -> its user
    Key,               \* request -> its idempotency key
    PaymentType,       \* request -> "CARD" or "CASH"
    InFlightPerUser,   \* how many checkouts one client keeps in flight
    MaxConnections,    \* size of the connection pool
    MaxFaults          \* bound on failed statements and crashes

ASSUME ConstantsAssumption ==
    /\ NoRequest \notin Requests
    /\ IsFiniteSet(Requests)
    /\ OrderNumbers # {}
    /\ Caller \in [Requests -> Users]
    /\ Key \in [Requests -> Keys]
    /\ PaymentType \in [Requests -> {"CARD", "CASH"}]
    /\ InFlightPerUser \in Nat
    /\ MaxConnections \in Nat
    /\ MaxFaults \in Nat

VARIABLES
    carts,                    \* user -> items in the cart
    shelf,                    \* items nobody has put into a cart yet
    orders,                   \* committed orders: their status, or "none"
    payments,                 \* committed payments: their status, or "none"
    processedIdempotencyKeys, \* the Map: key -> order id
    pc,                       \* request -> its next awaited statement
    cart,                     \* request -> the items it read
    orderNumber,              \* request -> the number drawn for its order
    lost,                     \* the database has ended the transaction
    answer,                   \* request -> the order in its response
    faults

dbVars == <<carts, orders, payments>>
localVars == <<cart, orderNumber, lost, answer>>
vars == <<dbVars, shelf, processedIdempotencyKeys, pc, localVars, faults>>

-----------------------------------------------------------------------------
(* Connections and locks follow from where the handlers are.               *)

BeforeTransaction ==
    {"findOne", "validate_save", "getCart", "connect"}

\* From startTransaction to rollbackTransaction or commitTransaction.
InTransaction ==
    {"lock_discounts", "insert_order", "create_payment", "save_payment",
     "link_payment", "process_payment", "save_card", "save_card_wait",
     "save_failed", "save_failed_wait", "confirm", "clear_cart", "store_key",
     "commit"}

Steps == {"idle", "done"} \cup BeforeTransaction \cup InTransaction

Active(r) == pc[r] \notin {"idle", "done"}

\* Statements sent on a second connection while the transaction is open.
OnSecondConnection ==
    {"create_payment", "save_payment", "process_payment", "save_card",
     "save_failed", "clear_cart"}

\* The handler has sent its save and waits for the lock of the payment row.
WaitsForPaymentRow == {"save_card_wait", "save_failed_wait"}

Connections ==
    Cardinality({r \in Requests : pc[r] \in InTransaction})
      + Cardinality({r \in Requests : pc[r] \in WaitsForPaymentRow})

FreeConnection == Connections < MaxConnections

\* The transaction is open in the database as well.
Open(r) == pc[r] \in InTransaction /\ ~lost[r]

HoldsOrderNumber(r, n) ==
    /\ Open(r)
    /\ pc[r] \notin {"lock_discounts", "insert_order"}
    /\ orderNumber[r] = n

\* The foreign key orders."paymentId" takes FOR KEY SHARE on the payment ...
PaymentRowLocked(r) ==
    Open(r) /\ pc[r] \notin {"lock_discounts", "insert_order",
                             "create_payment", "save_payment", "link_payment"}

Committed(o) == orders[o] # "none"

Goto(r, step) == pc' = [pc EXCEPT ![r] = step]

\* The response is sent, and a transaction still open is rolled back.
Respond(r, order) ==
    /\ Goto(r, "done")
    /\ answer' = [answer EXCEPT ![r] = order]

Throw(r) == Respond(r, NoRequest)

-----------------------------------------------------------------------------
Init ==
    /\ carts = [u \in Users |-> {}]
    /\ shelf = Items
    /\ orders = [r \in Requests |-> "none"]
    /\ payments = [r \in Requests |-> "none"]
    /\ processedIdempotencyKeys = [k \in Keys |-> NoRequest]
    /\ pc = [r \in Requests |-> "idle"]
    /\ cart = [r \in Requests |-> {}]
    /\ orderNumber = [r \in Requests |-> CHOOSE n \in OrderNumbers : TRUE]
    /\ lost = [r \in Requests |-> FALSE]
    /\ answer = [r \in Requests |-> NoRequest]
    /\ faults = 0

\* CartService.addItem; the client adds nothing while it checks out.
AddItem(u) ==
    /\ \A r \in Requests : Active(r) => Caller[r] # u
    /\ \E i \in shelf :
         /\ shelf' = shelf \ {i}
         /\ carts' = [carts EXCEPT ![u] = @ \cup {i}]
    /\ UNCHANGED <<orders, payments, processedIdempotencyKeys, pc, localVars,
                   faults>>

Arrives(r) ==
    /\ pc[r] = "idle"
    /\ Cardinality({q \in Requests : Active(q) /\ Caller[q] = Caller[r]})
         < InFlightPerUser

ReadCart(r) == cart' = [cart EXCEPT ![r] = carts[Caller[r]]]

\* The key is known: the order is looked up and returned ...
BeginKnown(r) ==
    /\ Arrives(r)
    /\ processedIdempotencyKeys[Key[r]] # NoRequest
    /\ Goto(r, "findOne")
    /\ answer' =
         [answer EXCEPT ![r] = processedIdempotencyKeys[Key[r]]]
    /\ UNCHANGED <<dbVars, shelf, processedIdempotencyKeys, cart, orderNumber,
                   lost, faults>>

\* Mutant: the order of a known key is answered from memory
FoundUnread(o) == TRUE

Found(o) == Committed(o)

\* ... or not found, when its transaction has not committed.
FindExisting(r) ==
    /\ pc[r] = "findOne"
    /\ FreeConnection
    /\ IF Found(answer[r]) THEN Respond(r, answer[r]) ELSE Throw(r)
    /\ UNCHANGED <<dbVars, shelf, processedIdempotencyKeys, cart, orderNumber,
                   lost, faults>>

\* The key is new: validateCart reads the cart ...
BeginNew(r) ==
    /\ Arrives(r)
    /\ processedIdempotencyKeys[Key[r]] = NoRequest
    /\ ReadCart(r)
    /\ Goto(r, "validate_save")
    /\ UNCHANGED <<dbVars, shelf, processedIdempotencyKeys, orderNumber, lost,
                   answer, faults>>

\* ... and saves it with its items (cascade: true); a cart that is empty or
\* has other errors ends the request.
ValidateSave(r) ==
    /\ pc[r] = "validate_save"
    /\ FreeConnection
    /\ carts' = [carts EXCEPT ![Caller[r]] = cart[r]]
    /\ \/ cart[r] # {} /\ Goto(r, "getCart") /\ answer' = answer
       \/ Throw(r)
    /\ UNCHANGED <<shelf, orders, payments, processedIdempotencyKeys, cart,
                   orderNumber, lost, faults>>

\* Mutant: the cart is emptied as soon as it has been read
GetAndEmptyCart(r) ==
    /\ pc[r] = "getCart"
    /\ FreeConnection
    /\ ReadCart(r)
    /\ carts' = [carts EXCEPT ![Caller[r]] = {}]
    /\ \/ carts[Caller[r]] # {} /\ Goto(r, "connect") /\ answer' = answer
       \/ Throw(r)
    /\ UNCHANGED <<orders, payments, shelf, processedIdempotencyKeys,
                   orderNumber, lost, faults>>

\* getCart; an empty cart, or a user without a phone number, is refused.
GetCart(r) ==
    /\ pc[r] = "getCart"
    /\ FreeConnection
    /\ ReadCart(r)
    /\ \/ carts[Caller[r]] # {} /\ Goto(r, "connect") /\ answer' = answer
       \/ Throw(r)
    /\ UNCHANGED <<dbVars, shelf, processedIdempotencyKeys, orderNumber, lost,
                   faults>>

\* connect and startTransaction
Connect(r) ==
    /\ pc[r] = "connect"
    /\ FreeConnection
    /\ Goto(r, "lock_discounts")
    /\ UNCHANGED <<dbVars, shelf, processedIdempotencyKeys, localVars, faults>>

-----------------------------------------------------------------------------
(* Inside the try block.                                                   *)

\* validateDiscountsWithLock accepts the discounts, and createFromCart draws
\* an order number, or it rejects them.
LockDiscounts(r) ==
    /\ pc[r] = "lock_discounts"
    /\ ~lost[r]
    /\ \/ /\ \E n \in OrderNumbers :
               orderNumber' = [orderNumber EXCEPT ![r] = n]
          /\ Goto(r, "insert_order")
          /\ answer' = answer
       \/ Throw(r) /\ orderNumber' = orderNumber
    /\ UNCHANGED <<dbVars, shelf, processedIdempotencyKeys, cart, lost, faults>>

\* createFromCart inserts the order and its items, and recordUsage logs the
\* discounts.  The unique index makes the insert wait for a transaction that
\* has inserted the same number, and fail once that one has committed.
InsertOrder(r) ==
    LET taken == \E q \in Requests : /\ Committed(q)
                                     /\ orderNumber[q] = orderNumber[r]
    IN
    /\ pc[r] = "insert_order"
    /\ ~lost[r]
    /\ \A q \in Requests : ~HoldsOrderNumber(q, orderNumber[r])
    /\ IF taken THEN Throw(r) ELSE Goto(r, "create_payment") /\ answer' = answer
    /\ UNCHANGED <<dbVars, shelf, processedIdempotencyKeys, cart, orderNumber,
                   lost, faults>>

\* Mutant: no search for the merchantOrderId
NeverDuplicate(r) == FALSE

\* The user already has a payment with this merchantOrderId.
DuplicatePayment(r) ==
    \E q \in Requests : /\ payments[q] # "none"
                        /\ Caller[q] = Caller[r]
                        /\ orderNumber[q] = orderNumber[r]

\* createPayment: a search ...
CheckPayment(r) ==
    /\ pc[r] = "create_payment"
    /\ FreeConnection
    /\ IF DuplicatePayment(r)
       THEN Throw(r)
       ELSE Goto(r, "save_payment") /\ answer' = answer
    /\ UNCHANGED <<dbVars, shelf, processedIdempotencyKeys, cart, orderNumber,
                   lost, faults>>

\* ... then an insert, committed at once.
SavePayment(r) ==
    /\ pc[r] = "save_payment"
    /\ FreeConnection
    /\ payments' = [payments EXCEPT ![r] = "PENDING"]
    /\ Goto(r, "link_payment")
    /\ UNCHANGED <<carts, orders, shelf, processedIdempotencyKeys, localVars,
                   faults>>

LinkPayment(r) ==
    /\ pc[r] = "link_payment"
    /\ ~lost[r]
    /\ Goto(r, "process_payment")
    /\ UNCHANGED <<dbVars, shelf, processedIdempotencyKeys, localVars, faults>>

\* Mutant: the status of the order where that of the payment belongs
OrderStatusOfCash == "CONFIRMED"

CashStatus == "SUCCESS"

\* Mutant: the save of the settled payment is not awaited
ProcessCashUnawaited(r) ==
    /\ PaymentType[r] = "CASH"
    /\ pc[r] = "process_payment"
    /\ FreeConnection
    /\ payments' \in {payments, [payments EXCEPT ![r] = CashStatus]}
    /\ Goto(r, "confirm")
    /\ UNCHANGED <<carts, orders, shelf, processedIdempotencyKeys, localVars,
                   faults>>

\* processCashPayment, committed at once
ProcessCash(r) ==
    /\ PaymentType[r] = "CASH"
    /\ pc[r] = "process_payment"
    /\ FreeConnection
    /\ payments' = [payments EXCEPT ![r] = CashStatus]
    /\ Goto(r, "confirm")
    /\ UNCHANGED <<carts, orders, shelf, processedIdempotencyKeys, localVars,
                   faults>>

\* The status CONFIRMED, in the transaction.
Confirm(r) ==
    /\ pc[r] = "confirm"
    /\ ~lost[r]
    /\ Goto(r, "clear_cart")
    /\ UNCHANGED <<dbVars, shelf, processedIdempotencyKeys, localVars, faults>>

\* processCardPayment asks Paymob for an order and a key; if a call fails the
\* payment is saved as FAILED and the error thrown on.
CallPaymob(r) ==
    /\ PaymentType[r] = "CARD"
    /\ pc[r] = "process_payment"
    /\ FreeConnection
    /\ \/ Goto(r, "save_card") /\ UNCHANGED <<payments, answer>>
       \/ Throw(r) /\ payments' = [payments EXCEPT ![r] = "FAILED"]
    /\ UNCHANGED <<carts, orders, shelf, processedIdempotencyKeys, cart,
                   orderNumber, lost, faults>>

\* ... the unique column paymobOrderId changes, so the UPDATE needs the row
\* exclusively and waits for the transaction that links the payment: its own.
SendCardSave(r) ==
    /\ FreeConnection
    /\ \/ pc[r] = "save_card" /\ Goto(r, "save_card_wait")
       \/ pc[r] = "save_failed" /\ Goto(r, "save_failed_wait")
    /\ UNCHANGED <<dbVars, shelf, processedIdempotencyKeys, localVars, faults>>

SaveCard(r) ==
    /\ ~PaymentRowLocked(r)
    /\ \/ /\ pc[r] = "save_card_wait"
          /\ payments' = [payments EXCEPT ![r] = "PROCESSING"]
          /\ Goto(r, "clear_cart")
          /\ answer' = answer
       \/ /\ pc[r] = "save_failed_wait"
          /\ payments' = [payments EXCEPT ![r] = "FAILED"]
          /\ Throw(r)
    /\ UNCHANGED <<carts, orders, shelf, processedIdempotencyKeys, cart,
                   orderNumber, lost, faults>>

\* Mutant: a cart that cannot be cleared is only worth a warning
ClearCartOrWarn(r) ==
    /\ pc[r] = "clear_cart"
    /\ FreeConnection
    /\ carts' \in {carts, [carts EXCEPT ![Caller[r]] = {}]}
    /\ Goto(r, "store_key")
    /\ UNCHANGED <<orders, payments, shelf, processedIdempotencyKeys,
                   localVars, faults>>

\* clearCart(userId, false), committed at once
ClearCart(r) ==
    /\ pc[r] = "clear_cart"
    /\ FreeConnection
    /\ carts' = [carts EXCEPT ![Caller[r]] = {}]
    /\ Goto(r, "store_key")
    /\ UNCHANGED <<orders, payments, shelf, processedIdempotencyKeys,
                   localVars, faults>>

StoreKey(r) ==
    /\ pc[r] = "store_key"
    /\ processedIdempotencyKeys' =
         [processedIdempotencyKeys EXCEPT ![Key[r]] = r]
    /\ Goto(r, "commit")
    /\ UNCHANGED <<dbVars, shelf, localVars, faults>>

OrderCommitted(r) ==
    orders' = [orders EXCEPT ![r] =
                 IF PaymentType[r] = "CASH" THEN "CONFIRMED" ELSE "PENDING"]

Commit(r) ==
    /\ pc[r] = "commit"
    /\ ~lost[r]
    /\ OrderCommitted(r)
    /\ Respond(r, r)
    /\ UNCHANGED <<carts, payments, shelf, processedIdempotencyKeys, cart,
                   orderNumber, lost, faults>>

\* A statement of a transaction that the database has ended fails.
StatementOfLostTransaction(r) ==
    /\ pc[r] \in {"lock_discounts", "insert_order", "link_payment", "confirm",
                  "commit"}
    /\ lost[r]
    /\ Throw(r)
    /\ UNCHANGED <<dbVars, shelf, processedIdempotencyKeys, cart, orderNumber,
                   lost, faults>>

-----------------------------------------------------------------------------
(* Timeouts, failures and the clock.                                       *)

NeedsConnection(r) == pc[r] \in BeforeTransaction \cup OnSecondConnection

\* Mutant: a pool without connectionTimeoutMillis
NeverTimesOut(r) == FALSE

TimesOut(r) == NeedsConnection(r) /\ ~FreeConnection

\* What an error leads to: processCardPayment saves its payment once more.
Fails(r) ==
    IF pc[r] \in {"save_card", "save_card_wait"}
    THEN Goto(r, "save_failed") /\ answer' = answer
    ELSE Throw(r)

\* No connection within ten seconds.
ConnectionTimeout(r) ==
    /\ TimesOut(r)
    /\ Fails(r)
    /\ UNCHANGED <<dbVars, shelf, processedIdempotencyKeys, cart, orderNumber,
                   lost, faults>>

Fault == faults < MaxFaults /\ faults' = faults + 1

\* A statement fails without effect, or its reply is lost (then the handler
\* is already at the next step of this model).
StatementFails(r) ==
    /\ Active(r)
    /\ Fault
    /\ Fails(r)
    /\ UNCHANGED <<dbVars, shelf, processedIdempotencyKeys, cart, orderNumber,
                   lost>>

\* The transaction commits and the reply is lost.
CommitUnacknowledged(r) ==
    /\ pc[r] = "commit"
    /\ ~lost[r]
    /\ Fault
    /\ OrderCommitted(r)
    /\ Throw(r)
    /\ UNCHANGED <<carts, payments, shelf, processedIdempotencyKeys, cart,
                   orderNumber, lost>>

\* The database ends the session of the transaction and rolls it back; the
\* handler learns of it at its next statement there.
TransactionLost(r) ==
    /\ Open(r)
    /\ Fault
    /\ lost' = [lost EXCEPT ![r] = TRUE]
    /\ UNCHANGED <<dbVars, shelf, processedIdempotencyKeys, pc, cart,
                   orderNumber, answer>>

\* The process dies, and the Map with it.
Crash ==
    /\ \E r \in Requests : Active(r)
    /\ Fault
    /\ pc' = [r \in Requests |-> IF Active(r) THEN "done" ELSE pc[r]]
    /\ answer' = [r \in Requests |-> IF Active(r) THEN NoRequest ELSE answer[r]]
    /\ processedIdempotencyKeys' = [k \in Keys |-> NoRequest]
    /\ UNCHANGED <<dbVars, shelf, cart, orderNumber, lost>>

\* The timer of twenty-four hours; its request has long been answered.
ExpireKey(k) ==
    /\ processedIdempotencyKeys[k] # NoRequest
    /\ ~Active(processedIdempotencyKeys[k])
    /\ processedIdempotencyKeys' =
         [processedIdempotencyKeys EXCEPT ![k] = NoRequest]
    /\ UNCHANGED <<dbVars, shelf, pc, localVars, faults>>

-----------------------------------------------------------------------------
Begin(r) == BeginKnown(r) \/ BeginNew(r)

Prepare(r) == FindExisting(r) \/ ValidateSave(r) \/ GetCart(r) \/ Connect(r)

PlaceOrder(r) == LockDiscounts(r) \/ InsertOrder(r)

Pay(r) ==
    \/ CheckPayment(r) \/ SavePayment(r) \/ LinkPayment(r) \/ ProcessCash(r)
    \/ Confirm(r) \/ CallPaymob(r) \/ SendCardSave(r) \/ SaveCard(r)

Complete(r) == ClearCart(r) \/ StoreKey(r) \/ Commit(r)

Continue(r) ==
    \/ Prepare(r) \/ PlaceOrder(r) \/ Pay(r) \/ Complete(r)
    \/ StatementOfLostTransaction(r) \/ ConnectionTimeout(r)

Fail(r) == StatementFails(r) \/ CommitUnacknowledged(r) \/ TransactionLost(r)

Next ==
    \/ \E r \in Requests : Begin(r) \/ Continue(r) \/ Fail(r)
    \/ \E u \in Users : AddItem(u)
    \/ \E k \in Keys : ExpireKey(k)
    \/ Crash

Spec == Init /\ [][Next]_vars

\* The event loop resumes every handler whose statement has completed or
\* whose wait for a connection has timed out.
FairSpec == Spec /\ \A r \in Requests : WF_vars(Continue(r))

-----------------------------------------------------------------------------
(* The order of a client, as OrderPlacement sees it.                       *)

\* The cart is cleared and the order is not committed.
Cleared == {"store_key", "commit"}

\* The items of a cleared cart are still its owner's.
Basket(u) ==
    carts[u] \cup UNION {cart[r] : r \in {q \in Requests :
                           Caller[q] = u /\ pc[q] \in Cleared}}

OrderedItems(r) == IF Committed(r) THEN cart[r] ELSE {}

Bill(r) ==
    IF payments[r] = "none" THEN "none"
    ELSE IF payments[r] = "SUCCESS" THEN "settled" ELSE "sent"

Response(r) == IF pc[r] = "done" THEN answer[r] ELSE NoRequest

Placement == INSTANCE OrderPlacement WITH
    Attempts <- Requests,
    NoOrder <- NoRequest,
    Owner <- Caller,
    Prepaid <- {r \in Requests : PaymentType[r] = "CASH"},
    offered <- shelf,
    basket <- [u \in Users |-> Basket(u)],
    placed <- [r \in Requests |-> OrderedItems(r)],
    bill <- [r \in Requests |-> Bill(r)],
    over <- {r \in Requests : pc[r] = "done"},
    reply <- [r \in Requests |-> Response(r)]

-----------------------------------------------------------------------------
(* Properties.                                                             *)

OrderStatuses == {"none", "PENDING", "CONFIRMED"}
PaymentStatuses == {"none", "PENDING", "PROCESSING", "SUCCESS", "FAILED"}

\* Every variable holds a value of its column or local variable.
TypeOK ==
    /\ carts \in [Users -> SUBSET Items]
    /\ shelf \subseteq Items
    /\ orders \in [Requests -> OrderStatuses]
    /\ payments \in [Requests -> PaymentStatuses]
    /\ processedIdempotencyKeys \in [Keys -> Requests \cup {NoRequest}]
    /\ pc \in [Requests -> Steps]
    /\ cart \in [Requests -> SUBSET Items]
    /\ orderNumber \in [Requests -> OrderNumbers]
    /\ lost \in [Requests -> BOOLEAN]
    /\ answer \in [Requests -> Requests \cup {NoRequest}]
    /\ faults \in Nat

\* No item is in two committed orders of clients that send one checkout at a
\* time, however often they retry, with an old key or a new one, after an
\* error, an expired key or a restart that empties the Map: the cart is
\* cleared before the order is committed.
NoItemOrderedTwice ==
    \A q, r \in Requests :
        q # r /\ Committed(q) /\ Committed(r) => cart[q] \cap cart[r] = {}

\* A CONFIRMED order has a payment that was settled, although the two are
\* committed by different connections and either may fail.
ConfirmedIsPaid ==
    \A r \in Requests : orders[r] = "CONFIRMED" => payments[r] = "SUCCESS"

\* A client that sends one checkout at a time never has two payments with the
\* same merchantOrderId: a checkout that is rolled back leaves its payment, and
\* frees its order number, but a retry that draws the number again is refused.
PaymentReferenceUnique ==
    \A q, r \in Requests :
        /\ q # r
        /\ payments[q] # "none"
        /\ payments[r] # "none"
        /\ Caller[q] = Caller[r]
        => orderNumber[q] # orderNumber[r]

\* A response that names an order names one that is committed, also when the
\* key was stored for an order that was then rolled back.
AnsweredOrdersExist ==
    \A r \in Requests :
        pc[r] = "done" /\ answer[r] # NoRequest => Committed(answer[r])

\* The order number drawn is that of a card checkout which waits for itself
\* (CardCheckoutsFinish): no statement of this database times out.
WaitsForHungCheckout(r) ==
    /\ pc[r] = "insert_order"
    /\ \E q \in Requests : /\ pc[q] \in WaitsForPaymentRow
                            /\ PaymentRowLocked(q)
                            /\ HoldsOrderNumber(q, orderNumber[r])

\* A checkout paid in cash is answered, also when every connection is held by
\* checkouts that wait for a second one or for ever, unless its order has drawn
\* the number of a card checkout that hangs (or it waits for a discount row of
\* one, see RequestsFinish in DiscountUsage).
CashCheckoutsFinish ==
    \A r \in Requests :
        PaymentType[r] = "CASH" =>
            (Active(r) ~> ~Active(r) \/ WaitsForHungCheckout(r))

\* Checkouts of clients that send one at a time do what OrderPlacement says:
\* the payment, the emptied cart and the order are committed by different
\* connections, and any of them may fail or be the last thing a process does,
\* but the cart becomes one order or none, all of it, after its payment.
PlacesOrders == Placement!PlacementSpec

\* A test retries a key and expects one order per idempotency key.
OneOrderPerKey ==
    \A q, r \in Requests :
        q # r /\ Committed(q) /\ Committed(r) => Key[q] # Key[r]

\* A test expects a checkout paid by card to be answered, with or without
\* success.
CardCheckoutsFinish ==
    \A r \in Requests :
        PaymentType[r] = "CARD" => (Active(r) ~> ~Active(r))
=============================================================================
