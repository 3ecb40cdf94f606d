-------------------------- MODULE Checkout_proofs ---------------------------
(***************************************************************************)
(* Proofs about Checkout, for any number of clients, checkouts, keys and   *)
(* connections: type correctness, that a response names a committed order, *)
(* that a confirmed order is paid, and that clients that send one checkout *)
(* at a time order no item twice, have no two payments of one reference and*)
(* place orders as OrderPlacement does, in one step.                       *)
(***************************************************************************)
EXTENDS Checkout, FiniteSetTheorems, TLAPS

-----------------------------------------------------------------------------
(* Type correctness.                                                       *)

\* A step that sends a response, or moves a request on, keeps the types of
\* the program counter and of the response.
LEMMA ResponseTypes ==
    ASSUME TypeOK, NEW r \in Requests
    PROVE  /\ \A s \in Steps : Goto(r, s) => pc' \in [Requests -> Steps]
           /\ Throw(r) => /\ pc' \in [Requests -> Steps]
                          /\ answer' \in [Requests -> Requests \cup {NoRequest}]
           /\ \A o \in Requests :
                Respond(r, o) =>
                  /\ pc' \in [Requests -> Steps]
                  /\ answer' \in [Requests -> Requests \cup {NoRequest}]
BY DEF TypeOK, Goto, Throw, Respond, Steps

\* The steps before the transaction keep the types.
LEMMA PrepareTypes ==
    ASSUME TypeOK, NEW r \in Requests, Begin(r) \/ Prepare(r)
    PROVE  TypeOK'
<1> USE ConstantsAssumption
<1>1. CASE BeginKnown(r)
  <2>1. "findOne" \in Steps
    BY DEF Steps, BeforeTransaction
  <2>2. answer' \in [Requests -> Requests \cup {NoRequest}]
    BY <1>1 DEF BeginKnown, TypeOK
  <2>3. QED
    BY <1>1, <2>1, <2>2, ResponseTypes DEF BeginKnown, TypeOK, dbVars
<1>2. CASE BeginNew(r)
  <2>1. "validate_save" \in Steps
    BY DEF Steps, BeforeTransaction
  <2>2. cart' \in [Requests -> SUBSET Items]
    BY <1>2 DEF BeginNew, ReadCart, TypeOK
  <2>3. QED
    BY <1>2, <2>1, <2>2, ResponseTypes DEF BeginNew, TypeOK, dbVars
<1>3. CASE FindExisting(r)
  <2>1. Found(answer[r]) => answer[r] \in Requests \/ answer[r] = NoRequest
    BY DEF TypeOK
  <2>2. /\ pc' \in [Requests -> Steps]
        /\ answer' \in [Requests -> Requests \cup {NoRequest}]
    BY <1>3, <2>1, ResponseTypes DEF FindExisting, Throw, Respond, TypeOK
  <2>3. QED
    BY <1>3, <2>2 DEF FindExisting, TypeOK, dbVars
<1>4. CASE ValidateSave(r)
  <2>1. "getCart" \in Steps
    BY DEF Steps, BeforeTransaction
  <2>2. carts' \in [Users -> SUBSET Items]
    BY <1>4 DEF ValidateSave, TypeOK
  <2>3. QED
    BY <1>4, <2>1, <2>2, ResponseTypes DEF ValidateSave, TypeOK
<1>5. CASE GetCart(r)
  <2>1. "connect" \in Steps
    BY DEF Steps, BeforeTransaction
  <2>2. cart' \in [Requests -> SUBSET Items]
    BY <1>5 DEF GetCart, ReadCart, TypeOK
  <2>3. QED
    BY <1>5, <2>1, <2>2, ResponseTypes DEF GetCart, TypeOK, dbVars
<1>6. CASE Connect(r)
  <2>1. "lock_discounts" \in Steps
    BY DEF Steps, InTransaction
  <2>2. QED
    BY <1>6, <2>1, ResponseTypes DEF Connect, TypeOK, dbVars, localVars
<1>7. QED
  BY <1>1, <1>2, <1>3, <1>4, <1>5, <1>6 DEF Begin, Prepare

\* The steps that write the order and its payment keep the types.
LEMMA PayTypes ==
    ASSUME TypeOK, NEW r \in Requests, PlaceOrder(r) \/ Pay(r)
    PROVE  TypeOK'
<1>1. {"insert_order", "create_payment", "save_payment", "link_payment",
       "process_payment", "save_card", "save_card_wait", "save_failed_wait",
       "confirm", "clear_cart"} \subseteq Steps
  BY DEF Steps, InTransaction
<1>2. CASE LockDiscounts(r)
  <2>1. orderNumber' \in [Requests -> OrderNumbers]
    BY <1>2 DEF LockDiscounts, TypeOK
  <2>2. QED
    BY <1>1, <1>2, <2>1, ResponseTypes DEF LockDiscounts, TypeOK, dbVars
<1>3. CASE InsertOrder(r)
  BY <1>1, <1>3, ResponseTypes DEF InsertOrder, TypeOK, dbVars
<1>4. CASE CheckPayment(r)
  BY <1>1, <1>4, ResponseTypes DEF CheckPayment, TypeOK, dbVars
<1>5. CASE SavePayment(r)
  <2>1. payments' \in [Requests -> PaymentStatuses]
    BY <1>5 DEF SavePayment, TypeOK, PaymentStatuses
  <2>2. QED
    BY <1>1, <1>5, <2>1, ResponseTypes DEF SavePayment, TypeOK, localVars
<1>6. CASE LinkPayment(r)
  BY <1>1, <1>6, ResponseTypes DEF LinkPayment, TypeOK, dbVars, localVars
<1>7. CASE ProcessCash(r)
  <2>1. payments' \in [Requests -> PaymentStatuses]
    BY <1>7 DEF ProcessCash, CashStatus, TypeOK, PaymentStatuses
  <2>2. QED
    BY <1>1, <1>7, <2>1, ResponseTypes DEF ProcessCash, TypeOK, localVars
<1>8. CASE Confirm(r)
  BY <1>1, <1>8, ResponseTypes DEF Confirm, TypeOK, dbVars, localVars
<1>9. CASE CallPaymob(r)
  <2>1. payments' \in [Requests -> PaymentStatuses]
    BY <1>9 DEF CallPaymob, TypeOK, PaymentStatuses
  <2>2. QED
    BY <1>1, <1>9, <2>1, ResponseTypes DEF CallPaymob, TypeOK
<1>10. CASE SendCardSave(r)
  BY <1>1, <1>10, ResponseTypes DEF SendCardSave, TypeOK, dbVars, localVars
<1>11. CASE SaveCard(r)
  <2>1. payments' \in [Requests -> PaymentStatuses]
    BY <1>11 DEF SaveCard, TypeOK, PaymentStatuses
  <2>2. QED
    BY <1>1, <1>11, <2>1, ResponseTypes DEF SaveCard, TypeOK
<1>12. QED
  BY <1>2, <1>3, <1>4, <1>5, <1>6, <1>7, <1>8, <1>9, <1>10, <1>11
     DEF PlaceOrder, Pay

\* The last steps of a checkout, its errors and timeouts keep the types.
LEMMA CompleteTypes ==
    ASSUME TypeOK, NEW r \in Requests,
           \/ Complete(r) \/ StatementOfLostTransaction(r)
           \/ ConnectionTimeout(r) \/ Fail(r)
    PROVE  TypeOK'
<1>1. {"store_key", "commit", "save_failed"} \subseteq Steps
  BY DEF Steps, InTransaction
<1>2. Fails(r) => /\ pc' \in [Requests -> Steps]
                  /\ answer' \in [Requests -> Requests \cup {NoRequest}]
  BY <1>1, ResponseTypes DEF Fails, TypeOK
<1>3. CASE ClearCart(r)
  <2>1. carts' \in [Users -> SUBSET Items]
    BY <1>3 DEF ClearCart, TypeOK
  <2>2. QED
    BY <1>1, <1>3, <2>1, ResponseTypes DEF ClearCart, TypeOK, localVars
<1>4. CASE StoreKey(r)
  <2>1. processedIdempotencyKeys' \in [Keys -> Requests \cup {NoRequest}]
    BY <1>4 DEF StoreKey, TypeOK
  <2>2. QED
    BY <1>1, <1>4, <2>1, ResponseTypes
       DEF StoreKey, TypeOK, dbVars, localVars
<1>5. CASE Commit(r) \/ CommitUnacknowledged(r)
  <2>1. orders' \in [Requests -> OrderStatuses]
    BY <1>5
       DEF Commit, CommitUnacknowledged, OrderCommitted, TypeOK, OrderStatuses
  <2>2. QED
    BY <1>5, <2>1, ResponseTypes
       DEF Commit, CommitUnacknowledged, Fault, TypeOK
<1>6. CASE StatementOfLostTransaction(r)
  BY <1>6, ResponseTypes DEF StatementOfLostTransaction, TypeOK, dbVars
<1>7. CASE ConnectionTimeout(r)
  BY <1>2, <1>7 DEF ConnectionTimeout, TypeOK, dbVars
<1>8. CASE StatementFails(r)
  BY <1>2, <1>8 DEF StatementFails, Fault, TypeOK, dbVars
<1>9. CASE TransactionLost(r)
  <2>1. lost' \in [Requests -> BOOLEAN]
    BY <1>9 DEF TransactionLost, TypeOK
  <2>2. QED
    BY <1>9, <2>1 DEF TransactionLost, Fault, TypeOK, dbVars
<1>10. QED
  BY <1>3, <1>4, <1>5, <1>6, <1>7, <1>8, <1>9 DEF Complete, Fail

\* The types are inductive.
LEMMA TypeStep == TypeOK /\ [Next]_vars => TypeOK'
<1> SUFFICES ASSUME TypeOK, [Next]_vars PROVE TypeOK'
  OBVIOUS
<1>1. ASSUME NEW r \in Requests,
             Begin(r) \/ Continue(r) \/ Fail(r)
      PROVE  TypeOK'
  BY <1>1, PrepareTypes, PayTypes, CompleteTypes DEF Continue
<1>2. ASSUME NEW u \in Users, AddItem(u)
      PROVE  TypeOK'
  <2>1. shelf' \subseteq Items /\ carts' \in [Users -> SUBSET Items]
    BY <1>2 DEF AddItem, TypeOK
  <2>2. QED
    BY <1>2, <2>1 DEF AddItem, TypeOK, localVars
<1>3. ASSUME NEW k \in Keys, ExpireKey(k)
      PROVE  TypeOK'
  <2>1. processedIdempotencyKeys' \in [Keys -> Requests \cup {NoRequest}]
    BY <1>3 DEF ExpireKey, TypeOK
  <2>2. QED
    BY <1>3, <2>1 DEF ExpireKey, TypeOK, dbVars, localVars
<1>4. CASE Crash
  <2>1. pc' \in [Requests -> Steps]
    BY <1>4 DEF Crash, TypeOK, Steps
  <2>2. /\ answer' \in [Requests -> Requests \cup {NoRequest}]
        /\ processedIdempotencyKeys' \in [Keys -> Requests \cup {NoRequest}]
    BY <1>4 DEF Crash, TypeOK
  <2>3. QED
    BY <1>4, <2>1, <2>2 DEF Crash, Fault, TypeOK, dbVars
<1>5. CASE UNCHANGED vars
  BY <1>5 DEF vars, dbVars, localVars, TypeOK
<1>6. QED
  BY <1>1, <1>2, <1>3, <1>4, <1>5 DEF Next

\* The initial state is well typed.
LEMMA TypeInit == Init => TypeOK
<1> SUFFICES ASSUME Init PROVE TypeOK
  OBVIOUS
<1>1. (CHOOSE n \in OrderNumbers : TRUE) \in OrderNumbers
  BY ConstantsAssumption
<1>2. QED
  BY <1>1 DEF Init, TypeOK, OrderStatuses, PaymentStatuses, Steps

\* Every column, local variable and response keeps its type, for any number
\* of clients, checkouts and connections.
THEOREM TypeCorrect == Spec => []TypeOK
BY TypeInit, TypeStep, PTL DEF Spec

-----------------------------------------------------------------------------
(* Responses.                                                              *)

\* A committed order stays, and a response given before stays right.
LEMMA OrdersStay ==
    ASSUME TypeOK, [Next]_vars
    PROVE  \A o \in Requests : orders[o] # "none" => orders'[o] # "none"
<1>1. CASE \E r \in Requests : Commit(r) \/ CommitUnacknowledged(r)
  BY <1>1 DEF Commit, CommitUnacknowledged, OrderCommitted, TypeOK
<1>2. CASE orders' = orders
  BY <1>2
<1>3. \/ \E r \in Requests : Commit(r) \/ CommitUnacknowledged(r)
      \/ orders' = orders
  BY DEF Next, vars, Begin, Continue, Prepare, PlaceOrder, Pay, Complete, Fail,
         BeginKnown, BeginNew, FindExisting, ValidateSave, GetCart, Connect,
         LockDiscounts, InsertOrder, CheckPayment, SavePayment, LinkPayment,
         ProcessCash, Confirm, CallPaymob, SendCardSave, SaveCard, ClearCart,
         StoreKey, StatementOfLostTransaction, ConnectionTimeout,
         StatementFails, TransactionLost, AddItem, ExpireKey, Crash, dbVars
<1>4. QED
  BY <1>1, <1>2, <1>3

\* The only responses that name an order are that of findOne, which has found
\* it, and that of the commit.
LEMMA ResponsesGrow ==
    ASSUME TypeOK, TypeOK', [Next]_vars, NEW q \in Requests,
           pc'[q] = "done", answer'[q] # NoRequest
    PROVE  \/ pc[q] = "done" /\ answer'[q] = answer[q]
           \/ orders'[answer'[q]] # "none"
<1> USE DEF Goto, Respond, Throw, Fails, TypeOK, Found, Committed
<1>1. ASSUME NEW r \in Requests, FindExisting(r)
      PROVE  \/ pc[q] = "done" /\ answer'[q] = answer[q]
             \/ orders'[answer'[q]] # "none"
  <2>1. orders' = orders
    BY <1>1 DEF FindExisting, dbVars
  <2>2. CASE q = r
    BY <1>1, <2>1, <2>2 DEF FindExisting
  <2>3. CASE q # r
    BY <1>1, <2>3 DEF FindExisting
  <2>4. QED
    BY <2>2, <2>3
<1>2. ASSUME NEW r \in Requests, Commit(r)
      PROVE  \/ pc[q] = "done" /\ answer'[q] = answer[q]
             \/ orders'[answer'[q]] # "none"
  <2>1. CASE q = r
    BY <1>2, <2>1 DEF Commit, OrderCommitted
  <2>2. CASE q # r
    BY <1>2, <2>2 DEF Commit
  <2>3. QED
    BY <2>1, <2>2
<1>3. ASSUME NEW r \in Requests,
             \/ Begin(r) \/ Connect(r) \/ SavePayment(r) \/ LinkPayment(r)
             \/ ProcessCash(r) \/ Confirm(r) \/ SendCardSave(r) \/ ClearCart(r)
             \/ StoreKey(r) \/ TransactionLost(r)
      PROVE  pc[q] = "done" /\ answer'[q] = answer[q]
  <2>1. CASE q = r
    BY <1>3, <2>1
       DEF Begin, BeginKnown, BeginNew, Arrives, Connect, SavePayment,
           LinkPayment, ProcessCash, Confirm, SendCardSave, ClearCart,
           StoreKey, TransactionLost, localVars
  <2>2. CASE q # r
    BY <1>3, <2>2
       DEF Begin, BeginKnown, BeginNew, Connect, SavePayment, LinkPayment,
           ProcessCash, Confirm, SendCardSave, ClearCart, StoreKey,
           TransactionLost, localVars
  <2>3. QED
    BY <2>1, <2>2
<1>4. ASSUME NEW r \in Requests,
             \/ ValidateSave(r) \/ GetCart(r) \/ LockDiscounts(r)
             \/ InsertOrder(r) \/ CheckPayment(r) \/ CallPaymob(r) \/ SaveCard(r)
             \/ StatementOfLostTransaction(r) \/ ConnectionTimeout(r)
             \/ StatementFails(r) \/ CommitUnacknowledged(r)
      PROVE  pc[q] = "done" /\ answer'[q] = answer[q]
  <2>1. CASE q = r
    BY <1>4, <2>1
       DEF ValidateSave, GetCart, LockDiscounts, InsertOrder, CheckPayment,
           CallPaymob, SaveCard, StatementOfLostTransaction,
           ConnectionTimeout, StatementFails, CommitUnacknowledged
  <2>2. CASE q # r
    BY <1>4, <2>2
       DEF ValidateSave, GetCart, LockDiscounts, InsertOrder, CheckPayment,
           CallPaymob, SaveCard, StatementOfLostTransaction,
           ConnectionTimeout, StatementFails, CommitUnacknowledged
  <2>3. QED
    BY <2>1, <2>2
<1>5. CASE Crash
  BY <1>5 DEF Crash, Active
<1>6. CASE \/ \E u \in Users : AddItem(u)
           \/ \E k \in Keys : ExpireKey(k)
           \/ UNCHANGED vars
  BY <1>6 DEF AddItem, ExpireKey, vars, localVars
<1>7. QED
  BY <1>1, <1>2, <1>3, <1>4, <1>5, <1>6
     DEF Next, Continue, Prepare, PlaceOrder, Pay, Complete, Fail

\* A response that names an order names a committed one, for any number of
\* concurrent checkouts, retries and restarts: findOne looks the order up, and
\* nothing removes it.
THEOREM AnswersAreCommitted == Spec => []AnsweredOrdersExist
<1>1. Init => AnsweredOrdersExist
  BY DEF Init, AnsweredOrdersExist
<1>2. TypeOK /\ TypeOK' /\ AnsweredOrdersExist /\ [Next]_vars
        => AnsweredOrdersExist'
  <2> SUFFICES ASSUME TypeOK, TypeOK', AnsweredOrdersExist, [Next]_vars,
                      NEW q \in Requests, pc'[q] = "done",
                      answer'[q] # NoRequest
               PROVE  orders'[answer'[q]] # "none"
    BY DEF AnsweredOrdersExist, Committed
  <2>1. CASE pc[q] = "done" /\ answer'[q] = answer[q]
    <3>1. orders[answer[q]] # "none" /\ answer[q] \in Requests
      BY <2>1 DEF AnsweredOrdersExist, Committed, TypeOK
    <3>2. QED
      BY <2>1, <3>1, OrdersStay
  <2>2. QED
    BY <2>1, ResponsesGrow
<1>3. QED
  BY <1>1, <1>2, TypeCorrect, PTL DEF Spec

-----------------------------------------------------------------------------
(* What a step of one request leaves alone.                                *)

Step(r) == Begin(r) \/ Continue(r) \/ Fail(r)

\* A step of one request is no step of another.
LEMMA OthersUnchanged ==
    ASSUME TypeOK, NEW r \in Requests, NEW q \in Requests, q # r, Step(r)
    PROVE  /\ pc'[q] = pc[q] /\ cart'[q] = cart[q]
           /\ orders'[q] = orders[q] /\ payments'[q] = payments[q]
<1> USE DEF Goto, Respond, Throw, Fails, TypeOK
<1>1. CASE Begin(r) \/ Prepare(r)
  BY <1>1
     DEF Begin, Prepare, BeginKnown, BeginNew, FindExisting, ValidateSave,
         GetCart, Connect, ReadCart, dbVars, localVars
<1>2. CASE PlaceOrder(r) \/ Pay(r)
  BY <1>2
     DEF PlaceOrder, Pay, LockDiscounts, InsertOrder, CheckPayment,
         SavePayment, LinkPayment, ProcessCash, Confirm, CallPaymob,
         SendCardSave, SaveCard, dbVars, localVars
<1>3. CASE \/ Complete(r) \/ StatementOfLostTransaction(r)
           \/ ConnectionTimeout(r) \/ Fail(r)
  BY <1>3
     DEF Complete, Fail, ClearCart, StoreKey, Commit, OrderCommitted,
         StatementOfLostTransaction, ConnectionTimeout, StatementFails,
         CommitUnacknowledged, TransactionLost, dbVars, localVars
<1>4. QED
  BY <1>1, <1>2, <1>3 DEF Step, Continue

-----------------------------------------------------------------------------
(* Payments.                                                               *)

CardSteps == {"save_card", "save_card_wait", "save_failed", "save_failed_wait"}

Settled == {"confirm", "clear_cart", "store_key", "commit"}

\* From processCashPayment on a cash checkout is paid; an order belongs to a
\* request that is over, so no later step touches its payment.
Paid(r) ==
    /\ orders[r] # "none" => pc[r] = "done"
    /\ orders[r] = "CONFIRMED" => payments[r] = "SUCCESS"
    /\ pc[r] \in CardSteps => PaymentType[r] = "CARD"
    /\ pc[r] \in Settled /\ PaymentType[r] = "CASH" => payments[r] = "SUCCESS"

PaidInv == \A r \in Requests : Paid(r)

\* A step of a request keeps what PaidInv says of it.
LEMMA PaidStep ==
    ASSUME TypeOK, NEW r \in Requests, Paid(r), Step(r)
    PROVE  Paid(r)'
<1> USE DEF Goto, Respond, Throw, Fails, TypeOK, Paid, CardSteps, Settled
<1>1. CASE Begin(r) \/ Prepare(r)
  BY <1>1
     DEF Begin, Prepare, BeginKnown, BeginNew, Arrives, FindExisting,
         ValidateSave, GetCart, Connect, dbVars
<1>2. CASE \/ PlaceOrder(r) \/ CheckPayment(r) \/ SavePayment(r)
           \/ LinkPayment(r)
  BY <1>2
     DEF PlaceOrder, LockDiscounts, InsertOrder, CheckPayment, SavePayment,
         LinkPayment, dbVars
<1>3. CASE ProcessCash(r) \/ Confirm(r)
  BY <1>3 DEF ProcessCash, CashStatus, Confirm, dbVars
<1>4. CASE CallPaymob(r) \/ SendCardSave(r)
  BY <1>4 DEF CallPaymob, SendCardSave, dbVars
<1>5. CASE SaveCard(r)
  BY <1>5 DEF SaveCard
<1>6. CASE ClearCart(r) \/ StoreKey(r)
  BY <1>6 DEF ClearCart, StoreKey, dbVars
<1>7. CASE Commit(r) \/ CommitUnacknowledged(r)
  BY <1>7, ConstantsAssumption
     DEF Commit, CommitUnacknowledged, OrderCommitted
<1>8. CASE \/ StatementOfLostTransaction(r) \/ ConnectionTimeout(r)
           \/ StatementFails(r) \/ TransactionLost(r)
  BY <1>8
     DEF StatementOfLostTransaction, ConnectionTimeout, TimesOut,
         NeedsConnection, StatementFails, TransactionLost, Active, dbVars
<1>9. QED
  BY <1>1, <1>2, <1>3, <1>4, <1>5, <1>6, <1>7, <1>8
     DEF Step, Continue, Pay, Complete, Fail

\* A confirmed order is paid, whatever fails between the payment and the
\* commit, for any number of clients, numbers and connections: the payment is
\* settled before the order is, and nothing touches it after the commit.
THEOREM ConfirmedOrdersArePaid == Spec => []ConfirmedIsPaid
<1>1. Init => PaidInv
  BY DEF Init, PaidInv, Paid, CardSteps, Settled
<1>2. TypeOK /\ PaidInv /\ [Next]_vars => PaidInv'
  <2> SUFFICES ASSUME TypeOK, PaidInv, [Next]_vars, NEW q \in Requests
               PROVE  Paid(q)'
    BY DEF PaidInv
  <2>1. Paid(q)
    BY DEF PaidInv
  <2>2. ASSUME NEW r \in Requests, Step(r)
        PROVE  Paid(q)'
    <3>1. CASE q = r
      BY <2>1, <2>2, <3>1, PaidStep
    <3>2. CASE q # r
      BY <2>1, <2>2, <3>2, OthersUnchanged DEF Paid
    <3>3. QED
      BY <3>1, <3>2
  <2>3. CASE Crash
    BY <2>1, <2>3 DEF Crash, Paid, Active, TypeOK, CardSteps, Settled, dbVars
  <2>4. CASE \/ \E u \in Users : AddItem(u)
             \/ \E k \in Keys : ExpireKey(k)
             \/ UNCHANGED vars
    BY <2>1, <2>4 DEF AddItem, ExpireKey, vars, dbVars, Paid
  <2>5. QED
    BY <2>2, <2>3, <2>4 DEF Next, Step
<1>3. PaidInv => ConfirmedIsPaid
  BY DEF PaidInv, Paid, ConfirmedIsPaid
<1>4. QED
  BY <1>1, <1>2, <1>3, TypeCorrect, PTL DEF Spec

-----------------------------------------------------------------------------
(* Items.                                                                  *)

\* The request has read its cart, and has not cleared it.
HoldsCart ==
    {"validate_save", "getCart", "connect"}
      \cup (InTransaction \ {"store_key", "commit"})

\* The items of the request have left the cart for an order.
Taken(r) == orders[r] # "none" \/ pc[r] \in {"store_key", "commit"}

\* Every item is on the shelf, in one cart, or taken by one checkout.
StockInv ==
    /\ \A u \in Users : carts[u] \cap shelf = {}
    /\ \A u, v \in Users : u # v => carts[u] \cap carts[v] = {}
    /\ \A r \in Requests :
         pc[r] \in HoldsCart => cart[r] \subseteq carts[Caller[r]]
    /\ \A r \in Requests : Taken(r) =>
         /\ cart[r] \cap shelf = {}
         /\ \A u \in Users : cart[r] \cap carts[u] = {}
    /\ \A q, r \in Requests :
         q # r /\ Taken(q) /\ Taken(r) => cart[q] \cap cart[r] = {}
    /\ \A r \in Requests : orders[r] # "none" => pc[r] = "done"

\* A client has one checkout in flight.
SequentialInv ==
    \A q, r \in Requests :
        q # r /\ Active(q) /\ Active(r) => Caller[q] # Caller[r]

\* A client with at most one checkout in flight sends one when it has none.
LEMMA ArrivesAlone ==
    ASSUME InFlightPerUser <= 1, NEW r \in Requests, Arrives(r)
    PROVE  \A q \in Requests : Active(q) => Caller[q] # Caller[r]
<1> DEFINE S == {q \in Requests : Active(q) /\ Caller[q] = Caller[r]}
<1>1. IsFiniteSet(S)
  BY ConstantsAssumption, FS_Subset
<1>2. Cardinality(S) < InFlightPerUser
  BY DEF Arrives
<1>3. Cardinality(S) \in Nat
  BY <1>1, FS_CardinalityType
<1>4. Cardinality(S) = 0
  BY <1>2, <1>3, ConstantsAssumption
<1>5. S = {}
  BY <1>1, <1>4, FS_EmptySet
<1>6. QED
  BY <1>5

\* No step but an arrival makes a request active.
LEMMA ActiveBefore ==
    ASSUME TypeOK, NEW r \in Requests, Step(r)
    PROVE  Active(r) \/ Arrives(r)
BY DEF Step, Begin, BeginKnown, BeginNew, Continue, Prepare, PlaceOrder, Pay,
       Complete, FindExisting, ValidateSave, GetCart, Connect, LockDiscounts,
       InsertOrder, CheckPayment, SavePayment, LinkPayment, ProcessCash,
       Confirm, CallPaymob, SendCardSave, SaveCard, ClearCart, StoreKey,
       Commit, StatementOfLostTransaction, ConnectionTimeout, TimesOut,
       NeedsConnection, BeforeTransaction, OnSecondConnection, Fail,
       StatementFails, CommitUnacknowledged, TransactionLost, Open,
       InTransaction, Active

\* SequentialInv is inductive when clients wait for their answers.
LEMMA SequentialStep ==
    ASSUME InFlightPerUser <= 1, TypeOK, SequentialInv, [Next]_vars
    PROVE  SequentialInv'
<1> SUFFICES ASSUME NEW p \in Requests, NEW q \in Requests, p # q,
                    Active(p)', Active(q)'
             PROVE  Caller[p] # Caller[q]
  BY DEF SequentialInv
<1>1. ASSUME NEW r \in Requests, Step(r)
      PROVE  Caller[p] # Caller[q]
  <2>1. \A x \in Requests : x # r /\ Active(x)' => Active(x)
    BY <1>1, OthersUnchanged DEF Active
  <2>2. Active(r) \/ \A x \in Requests : Active(x) => Caller[x] # Caller[r]
    BY <1>1, ActiveBefore, ArrivesAlone
  <2>3. QED
    BY <2>1, <2>2 DEF SequentialInv
<1>2. CASE Crash
  BY <1>2 DEF Crash, Active, SequentialInv, TypeOK
<1>3. CASE \/ \E u \in Users : AddItem(u)
           \/ \E k \in Keys : ExpireKey(k)
           \/ UNCHANGED vars
  BY <1>3 DEF AddItem, ExpireKey, vars, Active, SequentialInv
<1>4. QED
  BY <1>1, <1>2, <1>3 DEF Next, Step

\* A step that moves one request on without touching carts or orders.
LEMMA QuietStep ==
    ASSUME TypeOK, StockInv, NEW r \in Requests, Active(r), NEW s,
           pc' = [pc EXCEPT ![r] = s],
           s \in HoldsCart => pc[r] \in HoldsCart,
           s \in {"store_key", "commit"} => pc[r] \in {"store_key", "commit"},
           UNCHANGED <<carts, shelf, cart, orders>>
    PROVE  StockInv'
<1>1. orders[r] = "none"
  BY DEF StockInv, Active
<1>2. \A q \in Requests : Taken(q)' => Taken(q)
  BY <1>1 DEF Taken, TypeOK
<1>3. \A q \in Requests : pc'[q] \in HoldsCart => pc[q] \in HoldsCart
  BY DEF TypeOK
<1>4. \A q \in Requests : orders'[q] # "none" => pc'[q] = "done"
  BY <1>1 DEF TypeOK, StockInv
<1>5. QED
  BY <1>2, <1>3, <1>4 DEF StockInv

\* The steps that are quiet in this sense.
LEMMA QuietSteps ==
    ASSUME TypeOK, StockInv, NEW r \in Requests,
           \/ FindExisting(r) \/ Connect(r) \/ PlaceOrder(r) \/ Pay(r)
           \/ StoreKey(r) \/ StatementOfLostTransaction(r)
           \/ ConnectionTimeout(r) \/ StatementFails(r) \/ TransactionLost(r)
    PROVE  StockInv'
<1> USE DEF Goto, Respond, Throw, Fails, HoldsCart, InTransaction
<1>1. Active(r)
  BY DEF FindExisting,
     Connect, PlaceOrder, LockDiscounts, InsertOrder, Pay, CheckPayment,
     SavePayment, LinkPayment, ProcessCash, Confirm, CallPaymob, SendCardSave,
     SaveCard, StoreKey, StatementOfLostTransaction, ConnectionTimeout,
     TimesOut, NeedsConnection, BeforeTransaction, OnSecondConnection,
     StatementFails, TransactionLost, Open, Active
<1>2. CASE FindExisting(r)
  <2>1. pc' = [pc EXCEPT ![r] = "done"] /\ UNCHANGED <<carts, shelf, cart, orders>>
    BY <1>2 DEF FindExisting, dbVars
  <2>2. QED
    BY <1>1, <2>1, QuietStep
<1>3. CASE Connect(r)
  <2>1. /\ pc[r] = "connect" /\ pc' = [pc EXCEPT ![r] = "lock_discounts"]
        /\ UNCHANGED <<carts, shelf, cart, orders>>
    BY <1>3 DEF Connect, dbVars, localVars
  <2>2. QED
    BY <1>1, <2>1, QuietStep
<1>4. CASE PlaceOrder(r)
  <2>1. /\ pc[r] \in HoldsCart
        /\ \E s \in {"insert_order", "create_payment", "done"} :
             pc' = [pc EXCEPT ![r] = s]
        /\ UNCHANGED <<carts, shelf, cart, orders>>
    BY <1>4 DEF PlaceOrder, LockDiscounts, InsertOrder, dbVars
  <2>2. QED
    BY <1>1, <2>1, QuietStep
<1>5. CASE Pay(r)
  <2>1. pc[r] \in HoldsCart /\ UNCHANGED <<carts, shelf, cart, orders>>
    BY <1>5 DEF Pay, CheckPayment, SavePayment, LinkPayment, ProcessCash,
       Confirm, CallPaymob, SendCardSave, SaveCard, dbVars, localVars
  <2>2. \E s \in {"save_payment", "link_payment", "process_payment", "confirm",
                   "clear_cart", "save_card", "save_card_wait",
                   "save_failed_wait", "done"} :
          pc' = [pc EXCEPT ![r] = s]
    BY <1>5 DEF Pay, CheckPayment, SavePayment, LinkPayment, ProcessCash,
       Confirm, CallPaymob, SendCardSave, SaveCard
  <2>3. QED
    BY <1>1, <2>1, <2>2, QuietStep
<1>6. CASE StoreKey(r)
  <2>1. /\ pc[r] = "store_key" /\ pc' = [pc EXCEPT ![r] = "commit"]
        /\ UNCHANGED <<carts, shelf, cart, orders>>
    BY <1>6 DEF StoreKey, dbVars, localVars
  <2>2. QED
    BY <1>1, <2>1, QuietStep
<1>7. CASE \/ StatementOfLostTransaction(r) \/ ConnectionTimeout(r)
           \/ StatementFails(r)
  <2>1. UNCHANGED <<carts, shelf, cart, orders>>
    BY <1>7
       DEF StatementOfLostTransaction, ConnectionTimeout, StatementFails, dbVars
  <2>2. \/ pc' = [pc EXCEPT ![r] = "done"]
        \/ pc[r] \in HoldsCart /\ pc' = [pc EXCEPT ![r] = "save_failed"]
    BY <1>7
       DEF StatementOfLostTransaction, ConnectionTimeout, StatementFails
  <2>3. QED
    BY <1>1, <2>1, <2>2, QuietStep
<1>8. CASE TransactionLost(r)
  <2>1. pc' = [pc EXCEPT ![r] = pc[r]] /\ UNCHANGED <<carts, shelf, cart, orders>>
    BY <1>8 DEF TransactionLost, dbVars, TypeOK
  <2>2. QED
    BY <1>1, <2>1, QuietStep
<1>9. QED
  BY <1>2, <1>3, <1>4, <1>5, <1>6, <1>7, <1>8

\* The steps that read, save or clear a cart, or commit an order.
LEMMA CartSteps ==
    ASSUME TypeOK, StockInv, SequentialInv, NEW r \in Requests,
           \/ Begin(r) \/ ValidateSave(r) \/ GetCart(r) \/ ClearCart(r)
           \/ Commit(r) \/ CommitUnacknowledged(r)
    PROVE  StockInv'
<1> USE ConstantsAssumption DEF Goto, Respond, Throw
<1>1. CASE Begin(r)
  <2>1. /\ UNCHANGED <<carts, shelf, orders>>
        /\ pc[r] = "idle"
        /\ \/ pc' = [pc EXCEPT ![r] = "findOne"] /\ cart' = cart
           \/ /\ pc' = [pc EXCEPT ![r] = "validate_save"]
              /\ cart' = [cart EXCEPT ![r] = carts[Caller[r]]]
    BY <1>1 DEF Begin, BeginKnown, BeginNew, Arrives, ReadCart, dbVars
  <2>2. ~Taken(r) /\ ~Taken(r)'
    BY <2>1 DEF Taken, StockInv, TypeOK
  <2>3. \A q \in Requests : q # r => /\ Taken(q)' <=> Taken(q)
                                     /\ cart'[q] = cart[q]
                                     /\ pc'[q] = pc[q]
    BY <2>1 DEF Taken, TypeOK
  <2>4. pc'[r] \in HoldsCart => cart'[r] \subseteq carts'[Caller[r]]
    BY <2>1 DEF HoldsCart, InTransaction, TypeOK
  <2>5. QED
    BY <2>1, <2>2, <2>3, <2>4 DEF StockInv
<1>2. CASE ValidateSave(r)
  <2>1. /\ pc[r] = "validate_save"
        /\ UNCHANGED <<cart, shelf, orders>>
        /\ carts' = [carts EXCEPT ![Caller[r]] = cart[r]]
        /\ \E s \in {"getCart", "done"} : pc' = [pc EXCEPT ![r] = s]
    BY <1>2 DEF ValidateSave
  <2>2. cart[r] \subseteq carts[Caller[r]]
    BY <2>1 DEF StockInv, HoldsCart
  <2>3. \A u \in Users : carts'[u] \subseteq carts[u]
    BY <2>1, <2>2 DEF TypeOK
  <2>4. ~Taken(r) /\ ~Taken(r)'
    BY <2>1 DEF Taken, StockInv, TypeOK
  <2>5. \A q \in Requests : q # r => (Taken(q)' <=> Taken(q)) /\ pc'[q] = pc[q]
    BY <2>1 DEF Taken, TypeOK
  <2>6. \A q \in Requests :
          pc'[q] \in HoldsCart => cart'[q] \subseteq carts'[Caller[q]]
    <3> SUFFICES ASSUME NEW q \in Requests, pc'[q] \in HoldsCart
                 PROVE  cart'[q] \subseteq carts'[Caller[q]]
      OBVIOUS
    <3>1. CASE q = r
      BY <2>1, <3>1 DEF TypeOK
    <3>2. CASE q # r
      <4>1. Active(q) /\ Active(r)
        BY <2>1, <2>5, <3>2 DEF Active, HoldsCart, InTransaction
      <4>2. Caller[q] # Caller[r] /\ Caller[q] \in Users
        BY <3>2, <4>1 DEF SequentialInv
      <4>3. QED
        BY <2>1, <2>5, <3>2, <4>2 DEF StockInv, TypeOK
    <3>3. QED
      BY <3>1, <3>2
  <2>7. \A q \in Requests : orders'[q] # "none" => pc'[q] = "done"
    BY <2>1, <2>4, <2>5 DEF StockInv, Taken
  <2>8. QED
    BY <2>1, <2>3, <2>4, <2>5, <2>6, <2>7 DEF StockInv
<1>3. CASE GetCart(r)
  <2>1. /\ UNCHANGED <<carts, shelf, orders>>
        /\ pc[r] = "getCart"
        /\ \E s \in {"connect", "done"} : pc' = [pc EXCEPT ![r] = s]
        /\ cart' = [cart EXCEPT ![r] = carts[Caller[r]]]
    BY <1>3 DEF GetCart, ReadCart, dbVars
  <2>2. ~Taken(r) /\ ~Taken(r)'
    BY <2>1 DEF Taken, StockInv, TypeOK
  <2>3. \A q \in Requests : q # r => /\ Taken(q)' <=> Taken(q)
                                     /\ cart'[q] = cart[q]
                                     /\ pc'[q] = pc[q]
    BY <2>1 DEF Taken, TypeOK
  <2>4. cart'[r] \subseteq carts'[Caller[r]]
    BY <2>1 DEF TypeOK
  <2>5. QED
    BY <2>1, <2>2, <2>3, <2>4 DEF StockInv, Taken
<1>4. CASE ClearCart(r)
  <2>1. /\ pc[r] = "clear_cart"
        /\ UNCHANGED <<cart, shelf, orders>>
        /\ carts' = [carts EXCEPT ![Caller[r]] = {}]
        /\ pc' = [pc EXCEPT ![r] = "store_key"]
    BY <1>4 DEF ClearCart, localVars
  <2>2. cart[r] \subseteq carts[Caller[r]]
    BY <2>1 DEF StockInv, HoldsCart, InTransaction
  <2>3. /\ \A u \in Users : carts'[u] \subseteq carts[u]
        /\ carts'[Caller[r]] = {}
    BY <2>1 DEF TypeOK
  <2>4. \A q \in Requests : q # r => (Taken(q)' <=> Taken(q)) /\ pc'[q] = pc[q]
    BY <2>1 DEF Taken, TypeOK
  <2>5. orders'[r] = "none"
    BY <2>1 DEF StockInv
  <2>6. \A q \in Requests :
          pc'[q] \in HoldsCart => cart'[q] \subseteq carts'[Caller[q]]
    <3> SUFFICES ASSUME NEW q \in Requests, pc'[q] \in HoldsCart
                 PROVE  cart'[q] \subseteq carts'[Caller[q]]
      OBVIOUS
    <3>1. q # r
      BY <2>1 DEF HoldsCart, TypeOK
    <3>2. Active(q) /\ Active(r)
      BY <2>1, <2>4, <3>1 DEF Active, HoldsCart, InTransaction
    <3>3. Caller[q] # Caller[r] /\ Caller[q] \in Users
      BY <3>1, <3>2 DEF SequentialInv
    <3>4. QED
      BY <2>1, <2>4, <3>1, <3>3 DEF StockInv, TypeOK
  <2>7. /\ cart'[r] \cap shelf' = {}
        /\ \A u \in Users : cart'[r] \cap carts'[u] = {}
    BY <2>1, <2>2, <2>3 DEF StockInv
  <2>8. \A q \in Requests : q # r /\ Taken(q) => cart[q] \cap cart[r] = {}
    BY <2>2 DEF StockInv
  <2>9. QED
    BY <2>1, <2>3, <2>4, <2>5, <2>6, <2>7, <2>8 DEF StockInv
<1>5. CASE Commit(r) \/ CommitUnacknowledged(r)
  <2>1. /\ pc[r] = "commit" /\ pc' = [pc EXCEPT ![r] = "done"]
        /\ UNCHANGED <<carts, shelf, cart>>
        /\ \A q \in Requests : q # r => orders'[q] = orders[q]
    BY <1>5 DEF Commit, CommitUnacknowledged, OrderCommitted, TypeOK
  <2>2. Taken(r)
    BY <2>1 DEF Taken
  <2>3. \A q \in Requests : q # r => (Taken(q)' <=> Taken(q)) /\ pc'[q] = pc[q]
    BY <2>1 DEF Taken, TypeOK
  <2>4. pc'[r] = "done" /\ pc'[r] \notin HoldsCart
    BY <2>1 DEF HoldsCart, InTransaction, TypeOK
  <2>5. QED
    BY <2>1, <2>2, <2>3, <2>4 DEF StockInv
<1>6. QED
  BY <1>1, <1>2, <1>3, <1>4, <1>5

\* StockInv is inductive when clients wait for their answers.
LEMMA StockStep ==
    ASSUME TypeOK, StockInv, SequentialInv, [Next]_vars
    PROVE  StockInv'
<1>1. ASSUME NEW r \in Requests, Step(r)
      PROVE  StockInv'
  BY <1>1, QuietSteps, CartSteps DEF Step, Continue, Prepare, Complete, Fail
<1>2. ASSUME NEW u \in Users, AddItem(u)
      PROVE  StockInv'
  <2>1. PICK i \in shelf : /\ shelf' = shelf \ {i}
                           /\ carts' = [carts EXCEPT ![u] = @ \cup {i}]
    BY <1>2 DEF AddItem
  <2>2. UNCHANGED <<orders, pc, cart>>
    BY <1>2 DEF AddItem, localVars
  <2>3. /\ \A v \in Users : v # u => carts'[v] = carts[v]
        /\ carts'[u] = carts[u] \cup {i}
    BY <2>1 DEF TypeOK
  <2>4. \A q \in Requests : Taken(q)' <=> Taken(q)
    BY <2>2 DEF Taken
  <2>5. /\ \A v \in Users : carts'[v] \cap shelf' = {}
        /\ \A v, w \in Users : v # w => carts'[v] \cap carts'[w] = {}
    BY <2>1, <2>3 DEF StockInv
  <2>6. \A v \in Users : carts[v] \subseteq carts'[v]
    BY <2>3
  <2>7. \A q \in Requests :
          pc'[q] \in HoldsCart => cart'[q] \subseteq carts'[Caller[q]]
    BY <2>2, <2>6, ConstantsAssumption DEF StockInv
  <2>8. \A q \in Requests : Taken(q)' =>
          /\ cart'[q] \cap shelf' = {}
          /\ \A v \in Users : cart'[q] \cap carts'[v] = {}
    BY <2>1, <2>2, <2>3, <2>4 DEF StockInv
  <2>9. QED
    BY <2>2, <2>4, <2>5, <2>7, <2>8 DEF StockInv
<1>3. CASE Crash
  <2>1. /\ UNCHANGED <<carts, shelf, cart, orders>>
        /\ \A q \in Requests : pc'[q] = IF Active(q) THEN "done" ELSE pc[q]
    BY <1>3 DEF Crash, dbVars
  <2>2. \A q \in Requests : /\ Taken(q)' => Taken(q)
                            /\ pc'[q] \notin HoldsCart
                            /\ orders'[q] # "none" => pc'[q] = "done"
    BY <2>1 DEF Taken, Active, HoldsCart, InTransaction, StockInv
  <2>3. QED
    BY <2>1, <2>2 DEF StockInv
<1>4. CASE (\E k \in Keys : ExpireKey(k)) \/ UNCHANGED vars
  <2>1. UNCHANGED <<carts, shelf, cart, orders, pc>>
    BY <1>4 DEF ExpireKey, vars, dbVars, localVars
  <2>2. QED
    BY <2>1 DEF StockInv, Taken
<1>5. QED
  BY <1>1, <1>2, <1>3, <1>4 DEF Next, Step

\* When every client waits for its answer, no item is in two orders, for any
\* number of clients, retries, failures and restarts: the cart is cleared
\* before the order that takes its items is committed.
THEOREM ItemsAreOrderedOnce ==
    ASSUME InFlightPerUser <= 1
    PROVE  Spec => []NoItemOrderedTwice
<1>1. Init => StockInv /\ SequentialInv
  BY DEF Init, StockInv, SequentialInv, Taken, Active, HoldsCart, InTransaction
<1>2. /\ TypeOK /\ StockInv /\ SequentialInv /\ [Next]_vars
      => StockInv' /\ SequentialInv'
  BY StockStep, SequentialStep
<1>3. StockInv => NoItemOrderedTwice
  BY DEF StockInv, Taken, NoItemOrderedTwice, Committed
<1>4. QED
  BY <1>1, <1>2, <1>3, TypeCorrect, PTL DEF Spec

-----------------------------------------------------------------------------
(* Payment references.                                                     *)

Booked(r) == payments[r] # "none"

Unpaid ==
    {"idle", "lock_discounts", "insert_order", "create_payment", "save_payment"}
      \cup BeforeTransaction

\* A request has its payment from savePayment on.
Stage(r) ==
    /\ pc[r] \in Unpaid => ~Booked(r)
    /\ pc[r] \notin Unpaid \cup {"done"} => Booked(r)

\* What was found before the save of a payment is still so at the save.
ReferenceInv ==
    /\ PaymentReferenceUnique
    /\ \A r \in Requests : /\ Stage(r)
                           /\ pc[r] = "save_payment" => ~DuplicatePayment(r)

\* How a request books its payment: with the number it has drawn, which stays,
\* right after it has found no payment of that number.
Books(r) ==
    /\ Booked(r) => Booked(r)'
    /\ Booked(r)' => /\ orderNumber'[r] = orderNumber[r]
                     /\ Booked(r) \/ pc[r] = "save_payment"
    /\ pc'[r] = "save_payment" =>
         /\ orderNumber'[r] = orderNumber[r]
         /\ \/ pc[r] = "save_payment"
            \/ pc[r] = "create_payment" /\ ~DuplicatePayment(r)

LEMMA BookingStep ==
    ASSUME TypeOK, NEW r \in Requests, Stage(r), Step(r)
    PROVE  Stage(r)' /\ Books(r)
<1> USE DEF Goto, Respond, Throw, Fails, TypeOK, Stage, Books, Booked, Unpaid,
            BeforeTransaction
<1>1. CASE Begin(r) \/ Prepare(r)
  BY <1>1
     DEF Begin, Prepare, BeginKnown, BeginNew, Arrives, FindExisting,
         ValidateSave, GetCart, Connect, dbVars, localVars
<1>2. CASE LockDiscounts(r) \/ InsertOrder(r)
  BY <1>2 DEF LockDiscounts, InsertOrder, dbVars
<1>3. CASE CheckPayment(r) \/ SavePayment(r) \/ LinkPayment(r)
  BY <1>3 DEF CheckPayment, SavePayment, LinkPayment, dbVars, localVars
<1>4. CASE ProcessCash(r) \/ Confirm(r)
  BY <1>4 DEF ProcessCash, CashStatus, Confirm, dbVars, localVars
<1>5. CASE CallPaymob(r) \/ SendCardSave(r)
  BY <1>5 DEF CallPaymob, SendCardSave, dbVars, localVars
<1>6. CASE SaveCard(r)
  BY <1>6 DEF SaveCard
<1>7. CASE ClearCart(r) \/ StoreKey(r)
  BY <1>7 DEF ClearCart, StoreKey, dbVars, localVars
<1>8. CASE Commit(r) \/ CommitUnacknowledged(r)
  BY <1>8 DEF Commit, CommitUnacknowledged, OrderCommitted
<1>9. CASE \/ StatementOfLostTransaction(r) \/ ConnectionTimeout(r)
           \/ StatementFails(r) \/ TransactionLost(r)
  BY <1>9
     DEF StatementOfLostTransaction, ConnectionTimeout, TimesOut,
         NeedsConnection, StatementFails, TransactionLost, Open, InTransaction,
         Active, dbVars
<1>10. QED
  BY <1>1, <1>2, <1>3, <1>4, <1>5, <1>6, <1>7, <1>8, <1>9
     DEF Step, Continue, PlaceOrder, Pay, Complete, Fail

\* A step of one request draws no number for another.
LEMMA NumbersOfOthers ==
    ASSUME TypeOK, NEW r \in Requests, NEW q \in Requests, q # r, Step(r)
    PROVE  orderNumber'[q] = orderNumber[q]
BY DEF Step, Begin, Continue, Prepare, PlaceOrder, Pay, Complete, Fail, TypeOK,
   BeginKnown, BeginNew, FindExisting, ValidateSave, GetCart, Connect,
   LockDiscounts, InsertOrder, CheckPayment, SavePayment, LinkPayment,
   ProcessCash, Confirm, CallPaymob, SendCardSave, SaveCard, ClearCart,
   StoreKey, Commit, StatementOfLostTransaction, ConnectionTimeout,
   StatementFails, CommitUnacknowledged, TransactionLost, localVars

LEMMA ReferenceStep ==
    ASSUME TypeOK, ReferenceInv, SequentialInv, NEW r \in Requests, Step(r)
    PROVE  ReferenceInv'
<1>1. Stage(r)' /\ Books(r)
  BY BookingStep DEF ReferenceInv
<1>2. \A q \in Requests : q # r => /\ pc'[q] = pc[q]
                                   /\ Booked(q)' <=> Booked(q)
                                   /\ orderNumber'[q] = orderNumber[q]
  BY OthersUnchanged, NumbersOfOthers DEF Booked
<1>3. ASSUME NEW q \in Requests, q # r, Booked(q), Booked(r)',
             Caller[q] = Caller[r], orderNumber'[q] = orderNumber'[r]
      PROVE  FALSE
  <2>1. orderNumber[q] = orderNumber[r] /\ (Booked(r) \/ pc[r] = "save_payment")
    BY <1>1, <1>2, <1>3 DEF Books
  <2>2. CASE Booked(r)
    BY <1>3, <2>1, <2>2 DEF ReferenceInv, PaymentReferenceUnique, Booked
  <2>3. CASE pc[r] = "save_payment"
    BY <1>3, <2>1, <2>3 DEF ReferenceInv, DuplicatePayment, Booked
  <2>4. QED
    BY <2>1, <2>2, <2>3
<1>4. PaymentReferenceUnique'
  <2> SUFFICES ASSUME NEW p \in Requests, NEW q \in Requests, p # q,
                      Booked(p)', Booked(q)', Caller[p] = Caller[q],
                      orderNumber'[p] = orderNumber'[q]
               PROVE  FALSE
    BY DEF PaymentReferenceUnique, Booked
  <2>1. CASE p # r /\ q # r
    BY <1>2, <2>1 DEF ReferenceInv, PaymentReferenceUnique, Booked
  <2>2. CASE p = r \/ q = r
    BY <1>2, <1>3, <2>2
  <2>3. QED
    BY <2>1, <2>2
<1>5. \A q \in Requests : Stage(q)'
  BY <1>1, <1>2 DEF ReferenceInv, Stage
<1>6. ASSUME NEW x \in Requests, pc'[x] = "save_payment", NEW q \in Requests,
             Booked(q)', Caller[q] = Caller[x], orderNumber'[q] = orderNumber'[x]
      PROVE  FALSE
  <2>1. ~Booked(x)' /\ q # x
    BY <1>5, <1>6 DEF Stage, Unpaid
  <2>2. CASE x = r
    <3>1. Booked(q) /\ orderNumber[q] = orderNumber[r] /\ ~DuplicatePayment(r)
      BY <1>1, <1>2, <1>6, <2>1, <2>2 DEF Books, ReferenceInv
    <3>2. QED
      BY <1>6, <2>2, <3>1 DEF DuplicatePayment, Booked
  <2>3. CASE x # r /\ q # r
    BY <1>2, <1>6, <2>3 DEF ReferenceInv, DuplicatePayment, Booked
  <2>4. CASE x # r /\ q = r
    <3>1. pc[x] = "save_payment" /\ orderNumber[q] = orderNumber[x]
      BY <1>1, <1>2, <1>6, <2>4 DEF Books
    <3>2. CASE Booked(r)
      BY <1>6, <2>4, <3>1, <3>2 DEF ReferenceInv, DuplicatePayment, Booked
    <3>3. CASE ~Booked(r)
      <4>1. pc[r] = "save_payment"
        BY <1>1, <1>6, <2>4, <3>3 DEF Books
      <4>2. QED
        BY <1>6, <2>4, <3>1, <4>1 DEF SequentialInv, Active
    <3>4. QED
      BY <3>2, <3>3
  <2>5. QED
    BY <2>2, <2>3, <2>4
<1>7. \A x \in Requests : pc'[x] = "save_payment" => ~DuplicatePayment(x)'
  BY <1>6 DEF DuplicatePayment, Booked
<1>8. QED
  BY <1>4, <1>5, <1>7 DEF ReferenceInv

\* Clients that wait for their answers never have two payments of one
\* reference, for any number of retries, failures and restarts and however
\* few numbers there are: the search before the insert is not overtaken.
THEOREM ReferencesAreUnique ==
    ASSUME InFlightPerUser <= 1
    PROVE  Spec => []PaymentReferenceUnique
<1>1. Init => ReferenceInv /\ SequentialInv
  BY DEF Init, ReferenceInv, PaymentReferenceUnique, Stage, Booked, Unpaid,
     SequentialInv, Active
<1>2. /\ TypeOK /\ ReferenceInv /\ SequentialInv /\ [Next]_vars
      => ReferenceInv' /\ SequentialInv'
  <2> SUFFICES ASSUME TypeOK, ReferenceInv, SequentialInv, [Next]_vars
               PROVE  ReferenceInv'
    BY SequentialStep
  <2>1. ASSUME NEW r \in Requests, Step(r)
        PROVE  ReferenceInv'
    BY <2>1, ReferenceStep
  <2>2. CASE Crash
    <3>1. UNCHANGED <<payments, orderNumber>>
      BY <2>2 DEF Crash, dbVars
    <3>2. \A r \in Requests : /\ pc'[r] \in {"idle", "done"}
                              /\ pc'[r] = "idle" => pc[r] = "idle"
      BY <2>2 DEF Crash, Active
    <3>3. ASSUME NEW r \in Requests
          PROVE  Stage(r)' /\ pc'[r] # "save_payment"
      <4>1. Stage(r) /\ (Booked(r)' <=> Booked(r))
        BY <3>1 DEF ReferenceInv, Booked
      <4>2. CASE pc'[r] = "done"
        BY <4>2 DEF Stage, Unpaid, BeforeTransaction
      <4>3. CASE pc'[r] = "idle"
        BY <3>2, <4>1, <4>3 DEF Stage, Unpaid
      <4>4. QED
        BY <3>2, <4>2, <4>3
    <3>4. PaymentReferenceUnique'
      BY <3>1 DEF ReferenceInv, PaymentReferenceUnique
    <3>5. QED
      BY <3>3, <3>4 DEF ReferenceInv
  <2>3. CASE \/ \E u \in Users : AddItem(u)
             \/ \E k \in Keys : ExpireKey(k)
             \/ UNCHANGED vars
    <3>1. UNCHANGED <<payments, orderNumber, pc>>
      BY <2>3 DEF AddItem, ExpireKey, vars, dbVars, localVars
    <3>2. QED
      BY <3>1 DEF ReferenceInv, PaymentReferenceUnique, Stage, Booked,
         DuplicatePayment
  <2>4. QED
    BY <2>1, <2>2, <2>3 DEF Next, Step
<1>3. ReferenceInv => PaymentReferenceUnique
  BY DEF ReferenceInv
<1>4. QED
  BY <1>1, <1>2, <1>3, TypeCorrect, PTL DEF Spec

-----------------------------------------------------------------------------
(* Placing an order is one step of OrderPlacement.  What a request holds,   *)
(* has been billed for and may answer, at each of its steps.                *)

\* The request holds the items of its cart, all of them, until the cart is
\* cleared and then alone; an order is never without items.
Holds(r) ==
    /\ pc[r] \in HoldsCart => cart[r] = carts[Caller[r]]
    /\ pc[r] \in Cleared => carts[Caller[r]] = {}
    /\ pc[r] \in InTransaction \cup {"connect"} => cart[r] # {}
    /\ orders[r] # "none" => pc[r] = "done" /\ cart[r] # {}

\* How far the bill is: unsent, sent, or as an order needs it.
Billing(r) ==
    /\ pc[r] \in Unpaid => payments[r] = "none"
    /\ pc[r] \in {"link_payment", "process_payment"} => payments[r] = "PENDING"
    /\ pc[r] \in CardSteps => PaymentType[r] = "CARD" /\ Bill(r) = "sent"
    /\ pc[r] \in Settled =>
         Bill(r) = IF PaymentType[r] = "CASH" THEN "settled" ELSE "sent"

\* The order a request will look up, or will be told of, is one of its key.
Answers(r) ==
    /\ pc[r] = "findOne" => answer[r] \in Requests /\ Key[answer[r]] = Key[r]
    /\ pc[r] \notin {"findOne", "done"} => answer[r] = NoRequest

KeysInv ==
    \A k \in Keys : LET r == processedIdempotencyKeys[k] IN
                    r # NoRequest => Key[r] = k

PlacementInv ==
    /\ SequentialInv
    /\ \A r \in Requests : Holds(r) /\ Billing(r) /\ Answers(r)
    /\ KeysInv

\* A step of a request keeps the bill as it has to be.
LEMMA BillingKept ==
    ASSUME TypeOK, NEW r \in Requests, Billing(r), Step(r)
    PROVE  Billing(r)'
<1> USE DEF Goto, Respond, Throw, Fails, TypeOK, Billing, Bill, CardSteps,
            Settled, Unpaid, BeforeTransaction
<1>1. CASE Begin(r) \/ Prepare(r)
  BY <1>1
     DEF Begin, Prepare, BeginKnown, BeginNew, Arrives, FindExisting,
         ValidateSave, GetCart, Connect, dbVars
<1>2. CASE PlaceOrder(r) \/ CheckPayment(r)
  BY <1>2 DEF PlaceOrder, LockDiscounts, InsertOrder, CheckPayment, dbVars
<1>3. CASE SavePayment(r) \/ LinkPayment(r)
  BY <1>3 DEF SavePayment, LinkPayment, dbVars
<1>4. CASE ProcessCash(r)
  BY <1>4 DEF ProcessCash, CashStatus
<1>5. CASE Confirm(r)
  BY <1>5 DEF Confirm, dbVars
<1>6. CASE CallPaymob(r) \/ SendCardSave(r)
  BY <1>6 DEF CallPaymob, SendCardSave, dbVars
<1>7. CASE SaveCard(r)
  BY <1>7 DEF SaveCard
<1>8. CASE ClearCart(r) \/ StoreKey(r)
  BY <1>8 DEF ClearCart, StoreKey, dbVars
<1>9. CASE Commit(r) \/ CommitUnacknowledged(r)
  BY <1>9 DEF Commit, CommitUnacknowledged
<1>10. CASE \/ StatementOfLostTransaction(r) \/ ConnectionTimeout(r)
            \/ StatementFails(r) \/ TransactionLost(r)
  BY <1>10
     DEF StatementOfLostTransaction, ConnectionTimeout, StatementFails,
         TransactionLost, Active, dbVars
<1>11. QED
  BY <1>1, <1>2, <1>3, <1>4, <1>5, <1>6, <1>7, <1>8, <1>9, <1>10
     DEF Step, Continue, Pay, Complete, Fail

\* Only an arrival with a known key gives a request an answer before its end.
LEMMA AnswersKept ==
    ASSUME TypeOK, KeysInv, NEW r \in Requests, Answers(r), Step(r)
    PROVE  Answers(r)'
<1> USE ConstantsAssumption DEF Goto, Respond, Throw, Fails, TypeOK, Answers
<1>1. CASE BeginKnown(r)
  <2>1. /\ Key[r] \in Keys
        /\ processedIdempotencyKeys[Key[r]] \in Requests
        /\ Key[processedIdempotencyKeys[Key[r]]] = Key[r]
    BY <1>1 DEF BeginKnown, KeysInv
  <2>2. QED
    BY <1>1, <2>1 DEF BeginKnown
<1>2. CASE BeginNew(r)
  BY <1>2 DEF BeginNew, Arrives
<1>3. CASE Prepare(r)
  BY <1>3
     DEF Prepare, FindExisting, ValidateSave, GetCart, Connect, dbVars, localVars
<1>4. CASE PlaceOrder(r) \/ CheckPayment(r) \/ SavePayment(r) \/ LinkPayment(r)
  BY <1>4 DEF PlaceOrder, LockDiscounts, InsertOrder, CheckPayment, SavePayment,
     LinkPayment, localVars
<1>5. CASE \/ ProcessCash(r) \/ Confirm(r) \/ CallPaymob(r) \/ SendCardSave(r)
           \/ SaveCard(r)
  BY <1>5 DEF ProcessCash, Confirm, CallPaymob, SendCardSave, SaveCard, localVars
<1>6. CASE Complete(r) \/ CommitUnacknowledged(r)
  BY <1>6 DEF Complete, ClearCart, StoreKey, Commit, CommitUnacknowledged,
     localVars
<1>7. CASE \/ StatementOfLostTransaction(r) \/ ConnectionTimeout(r)
           \/ StatementFails(r) \/ TransactionLost(r)
  BY <1>7
     DEF StatementOfLostTransaction, ConnectionTimeout, StatementFails,
         TransactionLost
<1>8. QED
  BY <1>1, <1>2, <1>3, <1>4, <1>5, <1>6, <1>7
     DEF Step, Begin, Continue, Pay, Fail

\* What the Map has for a key is an order of that key.
LEMMA KeysKept ==
    ASSUME TypeOK, KeysInv, [Next]_vars
    PROVE  KeysInv'
<1> USE ConstantsAssumption DEF KeysInv, TypeOK
<1>1. CASE \E r \in Requests : StoreKey(r)
  BY <1>1 DEF StoreKey
<1>2. CASE Crash
  BY <1>2 DEF Crash
<1>3. CASE \E k \in Keys : ExpireKey(k)
  BY <1>3 DEF ExpireKey
<1>4. CASE processedIdempotencyKeys' = processedIdempotencyKeys
  BY <1>4
<1>5. \/ \E r \in Requests : StoreKey(r)
      \/ Crash
      \/ \E k \in Keys : ExpireKey(k)
      \/ processedIdempotencyKeys' = processedIdempotencyKeys
  BY DEF Next, vars, Begin, Continue, Prepare, PlaceOrder, Pay, Complete, Fail,
     BeginKnown, BeginNew, FindExisting, ValidateSave, GetCart, Connect,
     LockDiscounts, InsertOrder, CheckPayment, SavePayment, LinkPayment,
     ProcessCash, Confirm, CallPaymob, SendCardSave, SaveCard, ClearCart,
     Commit, StatementOfLostTransaction, ConnectionTimeout, StatementFails,
     CommitUnacknowledged, TransactionLost, AddItem
<1>6. QED
  BY <1>1, <1>2, <1>3, <1>4, <1>5

\* A step of one request touches the cart of no client but its own, and that
\* only in validateCart and clearCart.
LEMMA CartsOfOthers ==
    ASSUME TypeOK, NEW r \in Requests, Step(r)
    PROVE  /\ \A u \in Users : u # Caller[r] => carts'[u] = carts[u]
           /\ ~Active(r) => carts' = carts
           /\ shelf' = shelf
<1> USE DEF TypeOK
<1>1. CASE ValidateSave(r) \/ ClearCart(r)
  BY <1>1 DEF ValidateSave, ClearCart, Active
<1>2. CASE UNCHANGED <<carts, shelf>>
  BY <1>2
<1>3. \/ ValidateSave(r) \/ ClearCart(r)
      \/ UNCHANGED <<carts, shelf>>
  BY DEF Step, Begin, Continue, Prepare, PlaceOrder, Pay, Complete, Fail,
     BeginKnown, BeginNew, FindExisting, GetCart, Connect,
     LockDiscounts, InsertOrder, CheckPayment, SavePayment, LinkPayment,
     ProcessCash, Confirm, CallPaymob, SendCardSave, SaveCard, StoreKey,
     Commit, StatementOfLostTransaction, ConnectionTimeout, StatementFails,
     CommitUnacknowledged, TransactionLost, dbVars
<1>4. QED
  BY <1>1, <1>2, <1>3

\* A step of a request keeps what it holds.
LEMMA HoldsKept ==
    ASSUME TypeOK, NEW r \in Requests, Holds(r), Step(r)
    PROVE  Holds(r)'
<1> USE ConstantsAssumption
    DEF Goto, Respond, Throw, Fails, TypeOK, Holds, HoldsCart, Cleared,
        InTransaction
<1>1. CASE Begin(r) \/ FindExisting(r)
  BY <1>1
     DEF Begin, BeginKnown, BeginNew, Arrives, ReadCart, FindExisting, dbVars
<1>2. CASE ValidateSave(r)
  BY <1>2 DEF ValidateSave
<1>3. CASE GetCart(r)
  BY <1>3 DEF GetCart, ReadCart, dbVars
<1>4. CASE Connect(r) \/ PlaceOrder(r)
  BY <1>4 DEF Connect, PlaceOrder, LockDiscounts, InsertOrder, dbVars, localVars
<1>5. CASE \/ CheckPayment(r) \/ SavePayment(r) \/ LinkPayment(r)
           \/ ProcessCash(r) \/ Confirm(r)
  BY <1>5 DEF CheckPayment, SavePayment, LinkPayment, ProcessCash, Confirm,
     dbVars, localVars
<1>6. CASE CallPaymob(r) \/ SendCardSave(r) \/ SaveCard(r)
  BY <1>6 DEF CallPaymob, SendCardSave, SaveCard, dbVars, localVars
<1>7. CASE ClearCart(r) \/ StoreKey(r)
  BY <1>7 DEF ClearCart, StoreKey, dbVars, localVars
<1>8. CASE Commit(r) \/ CommitUnacknowledged(r)
  BY <1>8 DEF Commit, CommitUnacknowledged, OrderCommitted
<1>9. CASE \/ StatementOfLostTransaction(r) \/ ConnectionTimeout(r)
           \/ StatementFails(r) \/ TransactionLost(r)
  BY <1>9
     DEF StatementOfLostTransaction, ConnectionTimeout, StatementFails,
         TransactionLost, Active, dbVars
<1>10. QED
  BY <1>1, <1>2, <1>3, <1>4, <1>5, <1>6, <1>7, <1>8, <1>9
     DEF Step, Continue, Prepare, Pay, Complete, Fail

\* A step of one request gives another no answer.
LEMMA AnswersOfOthers ==
    ASSUME TypeOK, NEW r \in Requests, NEW q \in Requests, q # r, Step(r)
    PROVE  answer'[q] = answer[q]
BY DEF Step, Begin, Continue, Prepare, PlaceOrder, Pay, Complete, Fail, TypeOK,
   BeginKnown, BeginNew, FindExisting, ValidateSave, GetCart, Connect,
   LockDiscounts, InsertOrder, CheckPayment, SavePayment, LinkPayment,
   ProcessCash, Confirm, CallPaymob, SendCardSave, SaveCard, ClearCart,
   StoreKey, Commit, StatementOfLostTransaction, ConnectionTimeout, Fails,
   StatementFails, CommitUnacknowledged, TransactionLost, localVars, Goto,
   Respond, Throw

\* PlacementInv is inductive when clients wait for their answers: what another
\* request does is done to another client's cart.
LEMMA PlacementInvKept ==
    ASSUME InFlightPerUser <= 1, TypeOK, PlacementInv, [Next]_vars
    PROVE  PlacementInv'
<1>1. SequentialInv' /\ KeysInv'
  BY SequentialStep, KeysKept DEF PlacementInv
<1>2. ASSUME NEW q \in Requests
      PROVE  Holds(q)' /\ Billing(q)' /\ Answers(q)'
  <2>1. Holds(q) /\ Billing(q) /\ Answers(q)
    BY DEF PlacementInv
  <2>2. ASSUME NEW r \in Requests, Step(r), q # r
        PROVE  Holds(q)' /\ Billing(q)' /\ Answers(q)'
    <3>1. /\ pc'[q] = pc[q] /\ cart'[q] = cart[q] /\ orders'[q] = orders[q]
          /\ payments'[q] = payments[q] /\ answer'[q] = answer[q]
      BY <2>2, OthersUnchanged, AnswersOfOthers
    <3>2. Active(q) => carts'[Caller[q]] = carts[Caller[q]]
      BY <2>2, CartsOfOthers, ConstantsAssumption DEF PlacementInv, SequentialInv
    <3>3. pc[q] \in HoldsCart \cup Cleared => Active(q)
      BY DEF HoldsCart, Cleared, InTransaction, Active
    <3>4. QED
      BY <2>1, <3>1, <3>2, <3>3 DEF Holds, Billing, Bill, Answers
  <2>3. ASSUME NEW r \in Requests, Step(r)
        PROVE  Holds(q)' /\ Billing(q)' /\ Answers(q)'
    BY <2>1, <2>2, <2>3, HoldsKept, BillingKept, AnswersKept DEF PlacementInv
  <2>4. CASE Crash
    <3>1. /\ UNCHANGED <<carts, orders, payments, cart>>
          /\ pc'[q] = (IF Active(q) THEN "done" ELSE pc[q])
          /\ pc'[q] = pc[q] => answer'[q] = answer[q]
      BY <2>4 DEF Crash, Active, dbVars
    <3>2. pc'[q] \in {"idle", "done"} /\ (pc'[q] = "idle" => pc[q] = "idle")
      BY <3>1 DEF Active
    <3>3. QED
      BY <2>1, <3>1, <3>2 DEF Holds, Billing, Bill, Answers, HoldsCart, Cleared,
         InTransaction, BeforeTransaction, CardSteps, Settled, Unpaid, Active
  <2>5. ASSUME NEW u \in Users, AddItem(u)
        PROVE  Holds(q)' /\ Billing(q)' /\ Answers(q)'
    <3>1. UNCHANGED <<pc, orders, payments, cart, answer>>
      BY <2>5 DEF AddItem, localVars
    <3>2. Active(q) => carts'[Caller[q]] = carts[Caller[q]]
      BY <2>5, ConstantsAssumption DEF AddItem, TypeOK
    <3>3. pc[q] \in HoldsCart \cup Cleared => Active(q)
      BY DEF HoldsCart, Cleared, InTransaction, Active
    <3>4. QED
      BY <2>1, <3>1, <3>2, <3>3 DEF Holds, Billing, Bill, Answers
  <2>6. CASE (\E k \in Keys : ExpireKey(k)) \/ UNCHANGED vars
    BY <2>1, <2>6
       DEF ExpireKey, vars, dbVars, localVars, Holds, Billing, Bill, Answers
  <2>7. QED
    BY <2>3, <2>4, <2>5, <2>6 DEF Next, Step
<1>3. QED
  BY <1>1, <1>2 DEF PlacementInv

\* What the step of a request is for the client's order.
Continues(r) ==
    /\ orders'[r] = "none"
    /\ pc'[r] # "done"

Ends(r) ==
    /\ orders'[r] = "none"
    /\ pc'[r] = "done"
    /\ answer'[r] = NoRequest
    /\ Bill(r)' = Bill(r)

Repeats(r) ==
    /\ orders'[r] = "none"
    /\ pc[r] = "findOne"
    /\ pc'[r] = "done"
    /\ answer'[r] = answer[r]
    /\ Committed(answer[r])
    /\ Bill(r)' = Bill(r)

Places(r) ==
    /\ pc[r] = "commit"
    /\ orders'[r] # "none"
    /\ pc'[r] = "done"
    /\ cart'[r] = cart[r]
    /\ answer'[r] \in {r, NoRequest}
    /\ Bill(r)' = Bill(r)

BillMoves(r) ==
    \/ Bill(r)' = Bill(r)
    \/ Bill(r) = "none" /\ Bill(r)' = "sent"
    \/ PaymentType[r] = "CASH" /\ Bill(r) = "sent" /\ Bill(r)' = "settled"

\* Every step of a request is one of these.
LEMMA Effects ==
    ASSUME TypeOK, NEW r \in Requests, Holds(r), Billing(r), Answers(r), Step(r)
    PROVE  /\ orders[r] = "none" /\ pc[r] # "done"
           /\ \/ Continues(r) /\ BillMoves(r)
              \/ Ends(r) \/ Repeats(r) \/ Places(r)
<1> USE DEF Goto, Respond, Throw, Fails, TypeOK, Continues, Ends, Repeats,
            Places, BillMoves
<1>0. pc[r] # "done" /\ orders[r] = "none"
  BY ActiveBefore DEF Active, Arrives, Holds
<1>1. CASE Begin(r)
  BY <1>0, <1>1 DEF Begin, BeginKnown, BeginNew, Bill, dbVars
<1>2. CASE FindExisting(r)
  BY <1>0, <1>2 DEF FindExisting, Found, Bill, dbVars
<1>3. CASE ValidateSave(r) \/ GetCart(r) \/ Connect(r)
  BY <1>0, <1>3 DEF ValidateSave, GetCart, Connect, Answers, Bill, dbVars
<1>4. CASE PlaceOrder(r) \/ CheckPayment(r)
  BY <1>0, <1>4
     DEF PlaceOrder, LockDiscounts, InsertOrder, CheckPayment, Answers, Bill,
         dbVars
<1>5. CASE SavePayment(r) \/ ProcessCash(r)
  BY <1>0, <1>5
     DEF SavePayment, ProcessCash, CashStatus, Billing, Bill, Unpaid, Answers
<1>6. CASE LinkPayment(r) \/ Confirm(r) \/ SendCardSave(r)
  BY <1>0, <1>6 DEF LinkPayment, Confirm, SendCardSave, Bill, dbVars
<1>7. CASE CallPaymob(r)
  BY <1>0, <1>7 DEF CallPaymob, Billing, Bill, Answers
<1>8. CASE SaveCard(r)
  BY <1>0, <1>8 DEF SaveCard, Billing, CardSteps, Bill, Answers
<1>9. CASE ClearCart(r) \/ StoreKey(r)
  BY <1>0, <1>9 DEF ClearCart, StoreKey, Bill, dbVars
<1>10. CASE Commit(r) \/ CommitUnacknowledged(r)
  BY <1>0, <1>10
     DEF Commit, CommitUnacknowledged, OrderCommitted, Bill, Answers
<1>11. CASE \/ StatementOfLostTransaction(r) \/ ConnectionTimeout(r)
            \/ StatementFails(r) \/ TransactionLost(r)
  BY <1>0, <1>11
     DEF StatementOfLostTransaction, ConnectionTimeout, StatementFails,
         TransactionLost, Bill, Answers, dbVars
<1>12. QED
  BY <1>0, <1>1, <1>2, <1>3, <1>4, <1>5, <1>6, <1>7, <1>8, <1>9, <1>10, <1>11
     DEF Step, Continue, Prepare, Pay, Complete, Fail

\* The items of the request's client, as long as it is the only one of its
\* client that may have cleared the cart.
Own(r) == carts[Caller[r]] \cup (IF pc[r] \in Cleared THEN cart[r] ELSE {})

\* Clearing the cart moves the items into the hands of the request; only the
\* end of the request takes them away.
LEMMA OwnStep ==
    ASSUME TypeOK, NEW r \in Requests, Holds(r), Step(r)
    PROVE  IF pc[r] \in Cleared /\ pc'[r] \notin Cleared
           THEN pc'[r] = "done" /\ Own(r) = cart[r] /\ Own(r)' = {}
           ELSE Own(r)' = Own(r)
<1> USE ConstantsAssumption
    DEF Goto, Respond, Throw, Fails, TypeOK, Own, Holds, HoldsCart, Cleared,
        InTransaction
<1>1. CASE Begin(r) \/ Prepare(r)
  BY <1>1
     DEF Begin, BeginKnown, BeginNew, Arrives, Prepare, FindExisting,
         ValidateSave, GetCart, Connect, dbVars
<1>2. CASE PlaceOrder(r) \/ Pay(r)
  BY <1>2
     DEF PlaceOrder, LockDiscounts, InsertOrder, Pay, CheckPayment,
         SavePayment, LinkPayment, ProcessCash, Confirm, CallPaymob,
         SendCardSave, SaveCard, dbVars
<1>3. CASE Complete(r) \/ CommitUnacknowledged(r)
  BY <1>3
     DEF Complete, ClearCart, StoreKey, Commit, CommitUnacknowledged, dbVars,
         localVars
<1>4. CASE \/ StatementOfLostTransaction(r) \/ ConnectionTimeout(r)
           \/ StatementFails(r) \/ TransactionLost(r)
  BY <1>4
     DEF StatementOfLostTransaction, ConnectionTimeout, StatementFails,
         TransactionLost, dbVars
<1>5. QED
  BY <1>1, <1>2, <1>3, <1>4 DEF Step, Continue, Fail

\* The client's basket is what the request has of it.
LEMMA BasketIsOwn ==
    ASSUME NEW r \in Requests,
           \A q \in Requests :
             q # r /\ pc[q] \in Cleared => Caller[q] # Caller[r]
    PROVE  Basket(Caller[r]) = Own(r)
BY DEF Basket, Own, Cleared

LEMMA BasketStep ==
    ASSUME TypeOK, PlacementInv, InFlightPerUser <= 1, NEW r \in Requests, Step(r)
    PROVE  /\ \A u \in Users : u # Caller[r] => Basket(u)' = Basket(u)
           /\ Basket(Caller[r]) = Own(r)
           /\ Basket(Caller[r])' = Own(r)'
<1>1. \A q \in Requests : q # r => pc'[q] = pc[q] /\ cart'[q] = cart[q]
  BY OthersUnchanged
<1>2. \A q \in Requests :
        q # r /\ pc[q] \in Cleared => Caller[q] # Caller[r]
  <2>1. \A q \in Requests : pc[q] \in Cleared => Active(q)
    BY DEF Cleared, Active
  <2>2. QED
    BY <2>1, ActiveBefore, ArrivesAlone DEF PlacementInv, SequentialInv
<1>3. Basket(Caller[r]) = Own(r)
  BY <1>2, BasketIsOwn
<1>4. Basket(Caller[r])' = Own(r)'
  BY <1>1, <1>2 DEF Basket, Own, Cleared
<1>5. ASSUME NEW u \in Users, u # Caller[r]
      PROVE  Basket(u)' = Basket(u)
  BY <1>1, <1>5, CartsOfOthers DEF Basket
<1>6. QED
  BY <1>3, <1>4, <1>5

\* What OrderPlacement sees of a request: its order, bill, end and response.
Same(r) ==
    /\ OrderedItems(r)' = OrderedItems(r)
    /\ Bill(r)' = Bill(r)
    /\ pc'[r] = "done" <=> pc[r] = "done"
    /\ Response(r)' = Response(r)

\* It sees nothing of a request in the step of another.
LEMMA OthersSame ==
    ASSUME TypeOK, NEW r \in Requests, NEW q \in Requests, q # r, Step(r)
    PROVE  Same(q)
BY OthersUnchanged, AnswersOfOthers
   DEF Same, OrderedItems, Committed, Bill, Response

AbstractNext == [Placement!PlacementNext]_(Placement!placementVars)

\* A step that goes on to the next statement is none, or moves the bill.
LEMMA ContinueStep ==
    ASSUME TypeOK, NEW r \in Requests, orders[r] = "none", pc[r] # "done",
           Continues(r), BillMoves(r),
           \A q \in Requests : q # r => Same(q),
           \A u \in Users : Basket(u)' = Basket(u),
           shelf' = shelf
    PROVE  AbstractNext
<1>1. /\ OrderedItems(r)' = OrderedItems(r)
      /\ Response(r)' = Response(r)
  BY DEF OrderedItems, Committed, Response, Continues
<1>2. /\ [u \in Users |-> Basket(u)]' = [u \in Users |-> Basket(u)]
      /\ [q \in Requests |-> OrderedItems(q)]'
           = [q \in Requests |-> OrderedItems(q)]
      /\ {q \in Requests : pc[q] = "done"}' = {q \in Requests : pc[q] = "done"}
      /\ [q \in Requests |-> Response(q)]' = [q \in Requests |-> Response(q)]
  BY <1>1 DEF Same, Continues
<1>3. CASE Bill(r)' = Bill(r)
  <2>1. [q \in Requests |-> Bill(q)]' = [q \in Requests |-> Bill(q)]
    BY <1>3 DEF Same
  <2>2. QED
    BY <1>2, <2>1 DEF AbstractNext, Placement!placementVars
<1>4. CASE Bill(r) = "none" /\ Bill(r)' = "sent"
  <2>1. [q \in Requests |-> Bill(q)]'
          = [[q \in Requests |-> Bill(q)] EXCEPT ![r] = "sent"]
    BY <1>4 DEF Same
  <2>2. Placement!SendBill(r)
    BY <1>2, <1>4, <2>1 DEF Placement!SendBill
  <2>3. QED
    BY <2>2 DEF AbstractNext, Placement!PlacementNext
<1>5. CASE PaymentType[r] = "CASH" /\ Bill(r) = "sent" /\ Bill(r)' = "settled"
  <2>1. [q \in Requests |-> Bill(q)]'
          = [[q \in Requests |-> Bill(q)] EXCEPT ![r] = "settled"]
    BY <1>5 DEF Same
  <2>2. Placement!Settle(r)
    BY <1>2, <1>5, <2>1 DEF Placement!Settle
  <2>3. QED
    BY <2>2 DEF AbstractNext, Placement!PlacementNext
<1>6. QED
  BY <1>3, <1>4, <1>5 DEF BillMoves

\* A request that ends without an order gives up; if it had cleared the cart,
\* its bill was out, and the basket is gone.
LEMMA EndStep ==
    ASSUME NEW r \in Requests, pc[r] # "done", orders[r] = "none", Ends(r),
           Billing(r),
           \A q \in Requests : q # r => Same(q),
           \A u \in Users : u # Caller[r] => Basket(u)' = Basket(u),
           \/ Basket(Caller[r])' = Basket(Caller[r])
           \/ pc[r] \in Cleared /\ Basket(Caller[r])' = {},
           shelf' = shelf
    PROVE  AbstractNext
<1> DEFINE spilt == IF Basket(Caller[r])' = Basket(Caller[r]) THEN {} ELSE {r}
<1>1. OrderedItems(r)' = OrderedItems(r) /\ Bill(r)' = Bill(r)
  BY DEF OrderedItems, Committed, Ends
<1>2. Response(r)' = Response(r)
  BY DEF Response, Ends
<1>3. /\ [q \in Requests |-> OrderedItems(q)]'
           = [q \in Requests |-> OrderedItems(q)]
      /\ [q \in Requests |-> Bill(q)]' = [q \in Requests |-> Bill(q)]
      /\ [q \in Requests |-> Response(q)]' = [q \in Requests |-> Response(q)]
  BY <1>1, <1>2 DEF Same
<1>4. {q \in Requests : pc[q] = "done"}'
        = {q \in Requests : pc[q] = "done"} \cup {r}
  BY DEF Same, Ends
<1>5. {r} \cap {q \in Requests : pc[q] = "done"} = {}
  OBVIOUS
<1>6. spilt \in SUBSET {q \in {r} : Placement!Billed(q)}
  BY DEF Placement!Billed, Billing, Settled, Cleared
<1>7. [u \in Users |-> Basket(u)]' =
        [u \in Users |-> IF \E q \in spilt : Caller[q] = u
                         THEN {} ELSE [v \in Users |-> Basket(v)][u]]
  BY ConstantsAssumption
<1>8. Placement!GiveUp({r})
  <2> HIDE DEF spilt
  <2>1. QED
    BY <1>3, <1>4, <1>5, <1>6, <1>7 DEF Placement!GiveUp
<1>9. QED
  BY <1>8 DEF AbstractNext, Placement!PlacementNext

\* A request with a known key repeats the order it has found.
LEMMA RepeatStep ==
    ASSUME NEW r \in Requests, orders[r] = "none",
           Repeats(r), Answers(r),
           \A q \in Requests : Holds(q),
           \A q \in Requests : q # r => Same(q),
           \A u \in Users : Basket(u)' = Basket(u),
           shelf' = shelf
    PROVE  AbstractNext
<1>1. PICK o \in Requests : o = answer[r]
  BY DEF Repeats, Answers
<1>2. /\ Key[o] = Key[r] /\ Committed(o)
      /\ [q \in Requests |-> OrderedItems(q)][o] # {}
  BY <1>1 DEF Repeats, Answers, Holds, OrderedItems, Committed
<1>3. /\ OrderedItems(r)' = OrderedItems(r) /\ Bill(r)' = Bill(r)
      /\ Response(r)' = o
  BY <1>1 DEF OrderedItems, Committed, Response, Repeats
<1>4. /\ [q \in Requests |-> OrderedItems(q)]'
           = [q \in Requests |-> OrderedItems(q)]
      /\ [q \in Requests |-> Bill(q)]' = [q \in Requests |-> Bill(q)]
      /\ [u \in Users |-> Basket(u)]' = [u \in Users |-> Basket(u)]
      /\ [q \in Requests |-> Response(q)]'
           = [[q \in Requests |-> Response(q)] EXCEPT ![r] = o]
  BY <1>3 DEF Same
<1>5. /\ {q \in Requests : pc[q] = "done"}'
           = {q \in Requests : pc[q] = "done"} \cup {r}
      /\ r \notin {q \in Requests : pc[q] = "done"}
  BY DEF Same, Repeats
<1>6. Placement!Repeat(r)
  BY <1>2, <1>4, <1>5 DEF Placement!Repeat
<1>7. QED
  BY <1>6 DEF AbstractNext, Placement!PlacementNext

\* A commit places the order, of the whole basket.
LEMMA PlaceStep ==
    ASSUME NEW r \in Requests, orders[r] = "none",
           Places(r), Holds(r), Billing(r),
           Basket(Caller[r]) = cart[r],
           Basket(Caller[r])' = {},
           \A q \in Requests : q # r => Same(q),
           \A u \in Users : u # Caller[r] => Basket(u)' = Basket(u),
           shelf' = shelf
    PROVE  AbstractNext
<1>1. Caller[r] \in Users
  BY ConstantsAssumption
<1>2. /\ cart[r] # {}
      /\ [u \in Users |-> Basket(u)][Caller[r]] = cart[r]
  BY <1>1 DEF Holds, Places, InTransaction
<1>3. Placement!Billed(r)
  BY DEF Placement!Billed, Billing, Settled, Places
<1>4. /\ OrderedItems(r)' = cart[r]
      /\ Bill(r)' = Bill(r)
      /\ Response(r)' = answer'[r]
  BY DEF OrderedItems, Committed, Response, Places
<1>5. /\ [q \in Requests |-> OrderedItems(q)]'
           = [[q \in Requests |-> OrderedItems(q)] EXCEPT ![r] = cart[r]]
      /\ [q \in Requests |-> Bill(q)]' = [q \in Requests |-> Bill(q)]
      /\ [q \in Requests |-> Response(q)]'
           = [[q \in Requests |-> Response(q)] EXCEPT ![r] = answer'[r]]
  BY <1>4 DEF Same
<1>6. [u \in Users |-> Basket(u)]'
        = [[u \in Users |-> Basket(u)] EXCEPT ![Caller[r]] = {}]
  BY <1>1
<1>7. /\ {q \in Requests : pc[q] = "done"}'
           = {q \in Requests : pc[q] = "done"} \cup {r}
      /\ r \notin {q \in Requests : pc[q] = "done"}
  BY DEF Same, Places
<1>8. \E o \in {r, NoRequest} :
        [q \in Requests |-> Response(q)]'
          = [[q \in Requests |-> Response(q)] EXCEPT ![r] = o]
  BY <1>5 DEF Places
<1>9. Placement!Place(r)
  BY <1>2, <1>3, <1>5, <1>6, <1>7, <1>8 DEF Placement!Place
<1>10. QED
  BY <1>9 DEF AbstractNext, Placement!PlacementNext

\* A step of a request is a step of OrderPlacement.
LEMMA RequestStep ==
    ASSUME TypeOK, PlacementInv, InFlightPerUser <= 1, NEW r \in Requests, Step(r)
    PROVE  AbstractNext
<1>1. Holds(r) /\ Billing(r) /\ Answers(r)
  BY DEF PlacementInv
<1>2. \A q \in Requests : q # r => Same(q)
  BY OthersSame
<1>3. orders[r] = "none" /\ pc[r] # "done" /\ shelf' = shelf
  BY <1>1, Effects, CartsOfOthers
<1>4. /\ \A u \in Users : u # Caller[r] => Basket(u)' = Basket(u)
      /\ IF pc[r] \in Cleared /\ pc'[r] \notin Cleared
         THEN /\ pc'[r] = "done"
              /\ Basket(Caller[r]) = cart[r]
              /\ Basket(Caller[r])' = {}
         ELSE Basket(Caller[r])' = Basket(Caller[r])
  BY <1>1, BasketStep, OwnStep
<1>5. CASE Continues(r) /\ BillMoves(r)
  BY <1>2, <1>3, <1>4, <1>5, ContinueStep DEF Continues
<1>6. CASE Ends(r)
  BY <1>1, <1>2, <1>3, <1>4, <1>6, EndStep
<1>7. CASE Repeats(r)
  BY <1>1, <1>2, <1>3, <1>4, <1>7, RepeatStep DEF Repeats, Cleared, PlacementInv
<1>8. CASE Places(r)
  BY <1>1, <1>2, <1>3, <1>4, <1>8, PlaceStep
     DEF Places, Cleared
<1>9. QED
  BY <1>1, <1>5, <1>6, <1>7, <1>8, Effects

\* When the process dies, every request in flight gives up, and the baskets of
\* those that had cleared their carts are gone.
LEMMA CrashStep ==
    ASSUME TypeOK, PlacementInv, Crash
    PROVE  AbstractNext
<1> DEFINE spilt == {q \in Requests : pc[q] \in Cleared}
<1>1. PICK gone \in SUBSET Requests : gone = {q \in Requests : Active(q)}
  OBVIOUS
<1>2. /\ UNCHANGED <<carts, orders, payments, shelf, cart>>
      /\ \A q \in Requests :
           /\ pc'[q] = IF Active(q) THEN "done" ELSE pc[q]
           /\ answer'[q] = IF Active(q) THEN NoRequest ELSE answer[q]
  BY DEF Crash, dbVars
<1>3. ASSUME NEW q \in Requests
      PROVE  /\ OrderedItems(q)' = OrderedItems(q) /\ Bill(q)' = Bill(q)
             /\ Response(q)' = Response(q)
             /\ pc'[q] = "done" <=> pc[q] = "done" \/ Active(q)
             /\ pc'[q] \notin Cleared
  BY <1>2 DEF OrderedItems, Committed, Bill, Response, Active, Cleared
<1>4. /\ [q \in Requests |-> OrderedItems(q)]'
           = [q \in Requests |-> OrderedItems(q)]
      /\ [q \in Requests |-> Bill(q)]' = [q \in Requests |-> Bill(q)]
      /\ [q \in Requests |-> Response(q)]' = [q \in Requests |-> Response(q)]
      /\ {q \in Requests : pc[q] = "done"}'
           = {q \in Requests : pc[q] = "done"} \cup gone
  BY <1>1, <1>3
<1>5. gone \cap {q \in Requests : pc[q] = "done"} = {}
  BY <1>1 DEF Active
<1>6. spilt \in SUBSET {q \in gone : Placement!Billed(q)}
  BY <1>1 DEF Placement!Billed, PlacementInv, Billing, Settled, Cleared, Active
<1>7. ASSUME NEW u \in Users
      PROVE  Basket(u)' = IF \E q \in spilt : Caller[q] = u THEN {}
                          ELSE Basket(u)
  <2>1. Basket(u)' = carts[u]
    BY <1>2, <1>3 DEF Basket, Cleared
  <2>2. CASE \E q \in spilt : Caller[q] = u
    BY <2>1, <2>2 DEF PlacementInv, Holds
  <2>3. CASE ~\E q \in spilt : Caller[q] = u
    BY <2>1, <2>3 DEF Basket, Cleared
  <2>4. QED
    BY <2>2, <2>3
<1>8. [u \in Users |-> Basket(u)]' =
        [u \in Users |-> IF \E q \in spilt : Caller[q] = u
                         THEN {} ELSE [v \in Users |-> Basket(v)][u]]
  <2> HIDE DEF spilt
  <2>1. QED
    BY <1>7
<1>9. Placement!GiveUp(gone)
  <2> HIDE DEF spilt
  <2>1. QED
    BY <1>2, <1>4, <1>5, <1>6, <1>8 DEF Placement!GiveUp
<1>10. QED
  BY <1>9 DEF AbstractNext, Placement!PlacementNext

\* A client puts an item into its basket.
LEMMA PutStep ==
    ASSUME TypeOK, NEW u \in Users, AddItem(u)
    PROVE  AbstractNext
<1>1. PICK i \in shelf : /\ shelf' = shelf \ {i}
                         /\ carts' = [carts EXCEPT ![u] = @ \cup {i}]
  BY DEF AddItem
<1>2. UNCHANGED <<orders, payments, pc, cart, answer>>
  BY DEF AddItem, localVars
<1>3. /\ [q \in Requests |-> OrderedItems(q)]'
           = [q \in Requests |-> OrderedItems(q)]
      /\ [q \in Requests |-> Bill(q)]' = [q \in Requests |-> Bill(q)]
      /\ [q \in Requests |-> Response(q)]' = [q \in Requests |-> Response(q)]
      /\ {q \in Requests : pc[q] = "done"}' = {q \in Requests : pc[q] = "done"}
  BY <1>2 DEF OrderedItems, Committed, Bill, Response
<1>4. ASSUME NEW v \in Users
      PROVE  Basket(v)' = IF v = u THEN Basket(v) \cup {i} ELSE Basket(v)
  BY <1>1, <1>2 DEF Basket, TypeOK
<1>5. [v \in Users |-> Basket(v)]'
        = [[v \in Users |-> Basket(v)] EXCEPT
             ![u] = [v \in Users |-> Basket(v)][u] \cup {i}]
  BY <1>4
<1>6. Placement!Put(u)
  BY <1>1, <1>3, <1>5 DEF Placement!Put
<1>7. QED
  BY <1>6 DEF AbstractNext, Placement!PlacementNext

\* Checkouts of clients that wait for their answers place orders as if in one
\* step, for any number of clients, retries, failures and restarts: the cart
\* becomes one order, after its payment, or it is left, or it is lost by a
\* checkout that was billed (processCheckout).
THEOREM CheckoutPlacesOrders ==
    ASSUME InFlightPerUser <= 1
    PROVE  Spec => PlacesOrders
<1>1. Init => PlacementInv
  BY DEF Init, PlacementInv, SequentialInv, Active, Holds, Billing, Answers,
     KeysInv, HoldsCart, Cleared, InTransaction, CardSteps, Settled
<1>2. TypeOK /\ PlacementInv /\ [Next]_vars => PlacementInv'
  BY PlacementInvKept
<1>3. Init => Placement!PlacementInit
  <2> SUFFICES ASSUME Init PROVE Placement!PlacementInit
    OBVIOUS
  <2>1. \A u \in Users : Basket(u) = {}
    BY DEF Init, Basket
  <2>2. \A r \in Requests : /\ OrderedItems(r) = {} /\ Bill(r) = "none"
                            /\ Response(r) = NoRequest /\ pc[r] # "done"
    BY DEF Init, OrderedItems, Committed, Bill, Response
  <2>3. shelf = Items
    BY DEF Init
  <2>4. QED
    BY <2>1, <2>2, <2>3 DEF Placement!PlacementInit
<1>4. TypeOK /\ PlacementInv /\ [Next]_vars
        => [Placement!PlacementNext]_(Placement!placementVars)
  <2> SUFFICES ASSUME TypeOK, PlacementInv, [Next]_vars PROVE AbstractNext
    BY DEF AbstractNext
  <2>1. CASE (\E k \in Keys : ExpireKey(k)) \/ UNCHANGED vars
    <3>1. UNCHANGED <<carts, shelf, orders, payments, pc, cart, answer>>
      BY <2>1 DEF ExpireKey, vars, dbVars, localVars
    <3>2. UNCHANGED (Placement!placementVars)
      BY <3>1
         DEF Placement!placementVars, Basket, OrderedItems, Committed, Bill,
             Response
    <3>3. QED
      BY <3>2 DEF AbstractNext
  <2>2. QED
    BY <2>1, RequestStep, CrashStep, PutStep DEF Next, Step
<1>5. QED
  BY <1>1, <1>2, <1>3, <1>4, TypeCorrect, PTL
     DEF Spec, PlacesOrders, Placement!PlacementSpec
=============================================================================
