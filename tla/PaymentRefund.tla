---------------------------- MODULE PaymentRefund ----------------------------
(***************************************************************************)
(* One payment from its creation to its refunds: PaymentsService           *)
(* (createPayment, processCardPayment, processCashPayment,                 *)
(* handleWebhookUpdate) and RefundsService (requestRefund, approveRefund,  *)
(* rejectRefund, processRefundWithPaymob), beside Paymob.                  *)
(*                                                                         *)
(* Nothing here uses a transaction.  A handler reads the payment, awaits   *)
(* other statements and calls of Paymob, and writes: createPayment, the    *)
(* webhook and the two process methods save the whole row they read, the   *)
(* end of a refund updates two columns computed from the row it read.      *)
(***************************************************************************)
EXTENDS Naturals, FiniteSets

CONSTANTS
    PayCalls,         \* handlers that can be at work on the payment
    Refunds,          \* refunds that can be requested
    NoRefund,
    Amount,           \* what the payment is for
    Requested,        \* the amounts that refunds are requested for
    MaxPayCalls,      \* how many handlers work at the same time
    InOrder,          \* TRUE: webhooks come once, in the order Paymob sent them
    MaxPayFaults      \* bound on failed statements, lost answers and crashes

\* What the properties need of the constants.
PaymentAssumption ==
    /\ IsFiniteSet(PayCalls)
    /\ NoRefund \notin Refunds
    /\ Amount \in Nat \ {0}
    /\ Requested \subseteq 1..Amount
    /\ MaxPayCalls \in Nat
    /\ InOrder \in BOOLEAN
    /\ MaxPayFaults \in Nat

VARIABLES
    paymentType,      \* "CARD" or "CASH"
    payment,          \* the row: status, refundedAmount, paymobTransactionId
    logged,           \* the new statuses in its transaction logs
    refunds,          \* refund -> its row: status, amount, type
    charged,          \* Paymob has taken the money
    paidBack,         \* what Paymob has returned
    paidFor,          \* the refunds it has returned money for
    webhooks,         \* notifications of Paymob: sent, and handled if InOrder
    payPc,            \* call -> its next awaited statement
    refund,           \* call -> the refund it works on
    payCopy,          \* call -> the payment it read
    payFaults

external == <<charged, paidBack, paidFor, webhooks>>
payLocals == <<refund, payCopy>>
payVars ==
    <<paymentType, payment, logged, refunds, external, payPc, payLocals, payFaults>>

PaymentStatuses ==
    {"NONE", "PENDING", "PROCESSING", "SUCCESS", "FAILED", "REFUNDED",
     "PARTIALLY_REFUNDED"}

RefundStatuses ==
    {"NONE", "PENDING", "APPROVED", "PROCESSING", "SUCCESS", "FAILED",
     "REJECTED"}

Settled == {"SUCCESS", "FAILED", "REJECTED"}

Payments ==
    [status : PaymentStatuses, refundedAmount : Nat, transaction : BOOLEAN]

RefundRows == [status : RefundStatuses, amount : 0..Amount]

PaySteps ==
    {"idle", "create_log", "process_find", "cash_save", "cash_log",
     "card_call", "card_save", "card_log", "card_failed", "card_failed_log",
     "hook_success", "hook_failed", "hook_log", "request_save",
     "approve_save", "reject_save", "refund_find", "refund_processing",
     "refund_call", "refund_success", "refund_payment", "refund_reread",
     "refund_failed"}

\* What a payment is before it is created, and a copy before it is read.
NoPayment == [status |-> "NONE", refundedAmount |-> 0, transaction |-> FALSE]

-----------------------------------------------------------------------------
PayInit ==
    /\ paymentType \in {"CARD", "CASH"}
    /\ payment = NoPayment
    /\ logged = {}
    /\ refunds = [r \in Refunds |-> [status |-> "NONE", amount |-> 0]]
    /\ charged = FALSE
    /\ paidBack = 0
    /\ paidFor = {}
    /\ webhooks = [sent |-> {}, handled |-> {}]
    /\ payPc = [c \in PayCalls |-> "idle"]
    /\ refund = [c \in PayCalls |-> NoRefund]
    /\ payCopy = [c \in PayCalls |-> NoPayment]
    /\ payFaults = 0

PayGoto(c, step) == payPc' = [payPc EXCEPT ![c] = step]

\* The handler returns or throws; its variables are gone.
PayReturn(c) ==
    /\ PayGoto(c, "idle")
    /\ refund' = [refund EXCEPT ![c] = NoRefund]
    /\ payCopy' = [payCopy EXCEPT ![c] = NoPayment]

PayArrives(c, step) ==
    /\ payPc[c] = "idle"
    /\ Cardinality({d \in PayCalls : payPc[d] # "idle"}) < MaxPayCalls
    /\ PayGoto(c, step)

ReadPayment(c) == payCopy' = [payCopy EXCEPT ![c] = payment]

SetRefund(r, status) ==
    refunds' = [refunds EXCEPT ![r].status = status]

\* save of the payment in memory: its status changed, the rest as read.
SavePayment(c, status) ==
    payment' = [payCopy[c] EXCEPT
                  !.status = status,
                  !.transaction = @ \/ payPc[c] = "hook_success"]

Log(status) == logged' = logged \cup {status}

-----------------------------------------------------------------------------
(* POST /payments: the payment is created and processed at once.           *)

CreatePayment(c) ==
    /\ payment.status = "NONE"
    /\ PayArrives(c, "create_log")
    /\ payment' = [payment EXCEPT !.status = "PENDING"]
    /\ UNCHANGED <<paymentType, logged, refunds, external, payLocals, payFaults>>

CreateLog(c) ==
    /\ payPc[c] = "create_log"
    /\ Log("PENDING")
    /\ PayGoto(c, "process_find")
    /\ UNCHANGED <<paymentType, payment, refunds, external, payLocals, payFaults>>

\* No other handler knows the payment yet: the checks of its type and its
\* status pass.
FindToProcess(c) ==
    /\ payPc[c] = "process_find"
    /\ payment.status = "PENDING"
    /\ ReadPayment(c)
    /\ PayGoto(c, IF paymentType = "CARD" THEN "card_call" ELSE "cash_save")
    /\ UNCHANGED <<paymentType, payment, logged, refunds, external, refund,
                   payFaults>>

CashSave(c) ==
    /\ payPc[c] = "cash_save"
    /\ SavePayment(c, "SUCCESS")
    /\ PayGoto(c, "cash_log")
    /\ UNCHANGED <<paymentType, logged, refunds, external, payLocals, payFaults>>

\* authenticate, createOrder and createPaymentKey have answered.
CardCall(c) ==
    /\ payPc[c] = "card_call"
    /\ PayGoto(c, "card_save")
    /\ UNCHANGED <<paymentType, payment, logged, refunds, external, payLocals,
                   payFaults>>

CardSave(c) ==
    /\ payPc[c] = "card_save"
    /\ SavePayment(c, "PROCESSING")
    /\ PayGoto(c, "card_log")
    /\ UNCHANGED <<paymentType, logged, refunds, external, payLocals, payFaults>>

CardFailed(c) ==
    /\ payPc[c] = "card_failed"
    /\ SavePayment(c, "FAILED")
    /\ PayGoto(c, "card_failed_log")
    /\ UNCHANGED <<paymentType, logged, refunds, external, payLocals, payFaults>>

\* The transaction log that ends a process method.
ProcessLog(c) ==
    /\ \/ payPc[c] = "cash_log" /\ Log("SUCCESS")
       \/ payPc[c] = "card_log" /\ Log("PROCESSING")
       \/ payPc[c] = "card_failed_log" /\ Log("FAILED")
    /\ PayReturn(c)
    /\ UNCHANGED <<paymentType, payment, refunds, external, payFaults>>

-----------------------------------------------------------------------------
(* Paymob takes the money and says so.  A customer may fail and try again. *)

\* The iframe is handed out in the response, after the PROCESSING log.
CustomerPays ==
    /\ "PROCESSING" \in logged
    /\ ~charged
    /\ \/ /\ charged' = TRUE
          /\ webhooks' = [webhooks EXCEPT !.sent = @ \cup {"success"}]
       \/ /\ webhooks' = [webhooks EXCEPT !.sent = @ \cup {"failed"}]
          /\ UNCHANGED charged
    /\ UNCHANGED <<paymentType, payment, logged, refunds, paidBack, paidFor, payPc,
                   payLocals, payFaults>>

\* In order and once: no failure after the success, nothing handled twice.
HookDeliverable(hook) ==
    /\ hook \in webhooks.sent
    /\ InOrder => /\ hook \notin webhooks.handled
                  /\ hook = "failed" => "success" \notin webhooks.handled
                  /\ hook = "success" => "failed" \notin
                                           webhooks.sent \ webhooks.handled

BeginWebhook(c, hook) ==
    /\ HookDeliverable(hook)
    /\ PayArrives(c, IF hook = "success" THEN "hook_success" ELSE "hook_failed")
    /\ ReadPayment(c)
    /\ webhooks' = [webhooks EXCEPT !.handled = @ \cup {hook}]
    /\ UNCHANGED <<paymentType, payment, logged, refunds, charged, paidBack,
                   paidFor, refund, payFaults>>

\* Whatever the status was, it becomes what the webhook says.
HookSave(c) ==
    /\ payPc[c] \in {"hook_success", "hook_failed"}
    /\ SavePayment(c, IF payPc[c] = "hook_success" THEN "SUCCESS" ELSE "FAILED")
    /\ payCopy' = [payCopy EXCEPT ![c] = payment']
    /\ PayGoto(c, "hook_log")
    /\ UNCHANGED <<paymentType, logged, refunds, external, refund, payFaults>>

HookLog(c) ==
    /\ payPc[c] = "hook_log"
    /\ Log(payCopy[c].status)
    /\ PayReturn(c)
    /\ UNCHANGED <<paymentType, payment, refunds, external, payFaults>>

-----------------------------------------------------------------------------
(* Refunds: a customer asks, an administrator answers.                     *)

\* r is the id the database will give to the refund.
BeginRequest(c, r) ==
    /\ refunds[r].status = "NONE"
    /\ \A d \in PayCalls : payPc[d] = "request_save" => refund[d] # r
    /\ paymentType = "CARD"                         \* isRefundable
    /\ payment.status = "SUCCESS"
    /\ payment.refundedAmount < Amount
    /\ PayArrives(c, "request_save")
    /\ ReadPayment(c)
    /\ refund' = [refund EXCEPT ![c] = r]
    /\ UNCHANGED <<paymentType, payment, logged, refunds, external, payFaults>>

\* A request that names no amount asks for all of the payment's.
RequestSave(c) ==
    /\ payPc[c] = "request_save"
    /\ \E amount \in Requested :
         /\ amount <= Amount - payCopy[c].refundedAmount
         /\ refunds' = [refunds EXCEPT ![refund[c]] =
                          [status |-> "PENDING", amount |-> amount]]
    /\ PayReturn(c)
    /\ UNCHANGED <<paymentType, payment, logged, external, payFaults>>

\* findOne and the check of approveRefund and rejectRefund.
BeginDecision(c, r, step) ==
    /\ refunds[r].status = "PENDING"
    /\ PayArrives(c, step)
    /\ refund' = [refund EXCEPT ![c] = r]
    /\ UNCHANGED <<paymentType, payment, logged, refunds, external, payCopy,
                   payFaults>>

RejectSave(c) ==
    /\ payPc[c] = "reject_save"
    /\ SetRefund(refund[c], "REJECTED")
    /\ PayReturn(c)
    /\ UNCHANGED <<paymentType, payment, logged, external, payFaults>>

ApproveSave(c) ==
    /\ payPc[c] = "approve_save"
    /\ SetRefund(refund[c], "APPROVED")
    /\ PayGoto(c, "refund_find")
    /\ UNCHANGED <<paymentType, payment, logged, external, payLocals, payFaults>>

(* processRefundWithPaymob.                                                *)

RefundFind(c) ==
    /\ payPc[c] = "refund_find"
    /\ ReadPayment(c)
    /\ PayGoto(c, IF payment.transaction THEN "refund_processing"
                                         ELSE "refund_failed")
    /\ UNCHANGED <<paymentType, payment, logged, refunds, external, refund,
                   payFaults>>

RefundProcessing(c) ==
    /\ payPc[c] = "refund_processing"
    /\ SetRefund(refund[c], "PROCESSING")
    /\ PayGoto(c, "refund_call")
    /\ UNCHANGED <<paymentType, payment, logged, external, payLocals, payFaults>>

\* Paymob returns no more than it has taken.
PaymobPaysBack(r) ==
    /\ charged
    /\ refunds[r].amount <= Amount - paidBack
    /\ paidBack' = paidBack + refunds[r].amount
    /\ paidFor' = paidFor \cup {r}

\* Mutant: an error of Paymob is taken for an answer.
RefundCallUnchecked(c) ==
    /\ payPc[c] = "refund_call"
    /\ PaymobPaysBack(refund[c]) \/ UNCHANGED <<paidBack, paidFor>>
    /\ PayGoto(c, "refund_success")
    /\ UNCHANGED <<paymentType, payment, logged, refunds, charged, webhooks,
                   payLocals, payFaults>>

RefundCall(c) ==
    /\ payPc[c] = "refund_call"
    /\ \/ /\ PaymobPaysBack(refund[c])
          /\ \/ PayGoto(c, "refund_success") /\ UNCHANGED payFaults
             \/ /\ payFaults < MaxPayFaults     \* the answer is lost
                /\ payFaults' = payFaults + 1
                /\ PayGoto(c, "refund_failed")
       \/ /\ ~charged \/ refunds[refund[c]].amount > Amount - paidBack
          /\ PayGoto(c, "refund_failed")
          /\ UNCHANGED <<paidBack, paidFor, payFaults>>
    /\ UNCHANGED <<paymentType, payment, logged, refunds, charged, webhooks,
                   payLocals>>

RefundSuccess(c) ==
    /\ payPc[c] = "refund_success"
    /\ SetRefund(refund[c], "SUCCESS")
    /\ PayGoto(c, "refund_payment")
    /\ UNCHANGED <<paymentType, payment, logged, external, payLocals, payFaults>>

\* Mutants: the amount of this refund only; nothing added.
LastRefundOnly(c) == refunds[refund[c]].amount
NothingAdded(c) == payCopy[c].refundedAmount

\* The new amount is computed from the payment that RefundFind read.  Its
\* column has two decimals and keeps the sum exactly.
RefundedAmount(c) == payCopy[c].refundedAmount + refunds[refund[c]].amount

\* The status is decided by the unrounded sum of two floating-point numbers,
\* which may stay below the amount it should reach (0.70 + 0.10 < 0.80).
StatusAfter(c) ==
    LET sum == RefundedAmount(c)
    IN IF sum < Amount THEN {"PARTIALLY_REFUNDED"}
       ELSE IF sum = Amount /\ payCopy[c].refundedAmount > 0
         THEN {"REFUNDED", "PARTIALLY_REFUNDED"}
       ELSE {"REFUNDED"}

RefundPayment(c) ==
    /\ payPc[c] = "refund_payment"
    /\ \E status \in StatusAfter(c) :
         payment' = [payment EXCEPT !.refundedAmount = RefundedAmount(c),
                                    !.status = status]
    /\ PayGoto(c, "refund_reread")
    /\ UNCHANGED <<paymentType, logged, refunds, external, payLocals, payFaults>>

\* The findOne for the event: a failure still marks the refund FAILED.
RefundReread(c) ==
    /\ payPc[c] = "refund_reread"
    /\ PayReturn(c)
    /\ UNCHANGED <<paymentType, payment, logged, refunds, external,
                   payFaults>>

\* Mutant: the catch clause rethrows without marking the refund.
RefundForgotten(c) ==
    /\ payPc[c] = "refund_failed"
    /\ PayReturn(c)
    /\ UNCHANGED <<paymentType, payment, logged, refunds, external, payFaults>>

RefundFailed(c) ==
    /\ payPc[c] = "refund_failed"
    /\ SetRefund(refund[c], "FAILED")
    /\ PayReturn(c)
    /\ UNCHANGED <<paymentType, payment, logged, external, payFaults>>

-----------------------------------------------------------------------------
(* Failures.  Where an awaited statement throws, the handler goes on in its *)
(* catch clause, if it has one.                                            *)

Caught(step) ==
    CASE step \in {"card_call", "card_save", "card_log"} -> "card_failed"
      [] step \in {"refund_find", "refund_processing", "refund_call",
                   "refund_success", "refund_payment", "refund_reread"}
           -> "refund_failed"
      [] OTHER -> "idle"

PayCallFails(c) ==
    /\ payPc[c] # "idle"
    /\ payFaults < MaxPayFaults
    /\ payFaults' = payFaults + 1
    /\ IF Caught(payPc[c]) = "idle"
         THEN PayReturn(c)
         ELSE PayGoto(c, Caught(payPc[c])) /\ UNCHANGED payLocals
    /\ UNCHANGED <<paymentType, payment, logged, refunds, external>>

PayCrash ==
    /\ payFaults < MaxPayFaults
    /\ \E c \in PayCalls : payPc[c] # "idle"
    /\ payFaults' = payFaults + 1
    /\ payPc' = [c \in PayCalls |-> "idle"]
    /\ refund' = [c \in PayCalls |-> NoRefund]
    /\ payCopy' = [c \in PayCalls |-> NoPayment]
    /\ UNCHANGED <<paymentType, payment, logged, refunds, external>>

Process(c) ==
    \/ CreateLog(c) \/ FindToProcess(c) \/ CashSave(c)
    \/ CardCall(c) \/ CardSave(c) \/ CardFailed(c) \/ ProcessLog(c)

ProcessRefund(c) ==
    \/ ApproveSave(c) \/ RefundFind(c) \/ RefundProcessing(c) \/ RefundCall(c)
    \/ RefundSuccess(c) \/ RefundPayment(c) \/ RefundReread(c) \/ RefundFailed(c)

PayContinue(c) ==
    \/ Process(c) \/ HookSave(c) \/ HookLog(c)
    \/ RequestSave(c) \/ RejectSave(c) \/ ProcessRefund(c)

Begin(c) ==
    \/ CreatePayment(c)
    \/ \E hook \in webhooks.sent : BeginWebhook(c, hook)
    \/ \E r \in Refunds :
         \/ BeginRequest(c, r)
         \/ \E step \in {"approve_save", "reject_save"} : BeginDecision(c, r, step)

PayNext ==
    \/ CustomerPays
    \/ \E c \in PayCalls : Begin(c) \/ PayContinue(c) \/ PayCallFails(c)
    \/ PayCrash

PaySpec == PayInit /\ [][PayNext]_payVars

\* The event loop resumes a handler whose statement or call has ended.
PayFairSpec == PaySpec /\ \A c \in PayCalls : WF_payVars(PayContinue(c))

-----------------------------------------------------------------------------
(* Properties.                                                             *)

\* Every variable has its type; nobody works on a refund that is no refund.
PayTypeOK ==
    /\ paymentType \in {"CARD", "CASH"}
    /\ payment \in Payments
    /\ logged \subseteq PaymentStatuses
    /\ refunds \in [Refunds -> RefundRows]
    /\ charged \in BOOLEAN
    /\ paidBack \in 0..Amount
    /\ paidFor \subseteq Refunds
    /\ webhooks \in [sent : SUBSET {"success", "failed"},
                    handled : SUBSET {"success", "failed"}]
    /\ payPc \in [PayCalls -> PaySteps]
    /\ refund \in [PayCalls -> Refunds \cup {NoRefund}]
    /\ payCopy \in [PayCalls -> Payments]
    /\ payFaults \in 0..MaxPayFaults

Quiet == payFaults = 0 /\ \A c \in PayCalls : payPc[c] = "idle"

Account == INSTANCE RefundAccount
    WITH returned <- paidBack, recorded <- payment.refundedAmount

\* As long as handlers do not overlap, refunds move the account as it should
\* move, whatever fails (processRefundWithPaymob, handleWebhookUpdate).
KeepsAccount == Account!AccountSpec

\* However handlers overlap and fail, the books do not say more than Paymob
\* did: the payment records no refund that was not made, though it may forget
\* one (refunds.service.ts:314), one said to be REFUNDED has been returned in
\* full, and a refund said to be a SUCCESS has been paid.
RecordedWasReturned == payment.refundedAmount <= paidBack
SaidWasDone ==
    /\ payment.status = "REFUNDED" => paidBack = Amount
    /\ \A r \in Refunds : refunds[r].status = "SUCCESS" => r \in paidFor
BooksAreTrue == RecordedWasReturned /\ SaidWasDone

\* As long as handlers do not overlap, a refund that was paid is not REJECTED,
\* whatever fails.
RejectedIsNotPaid ==
    \A r \in paidFor : refunds[r].status # "REJECTED"

\* The status of a payment of which paidBack has been returned.  One that
\* went back in several refunds may stay PARTIALLY_REFUNDED (StatusAfter).
StatusOfReturned ==
    IF paidBack = 0 THEN {"SUCCESS"}
    ELSE IF paidBack < Amount THEN {"PARTIALLY_REFUNDED"}
    ELSE IF \E r \in Refunds : paidFor = {r} THEN {"REFUNDED"}
    ELSE {"REFUNDED", "PARTIALLY_REFUNDED"}

\* As long as handlers do not overlap and webhooks come once and in order, and
\* nothing has failed: the books say what Paymob did, a payment it announced
\* is not taken for unpaid, one returned in a single refund is REFUNDED, and
\* the logs know every status but those of the refunds.
BooksBalance ==
    Quiet =>
        /\ payment.refundedAmount = paidBack
        /\ paidFor = {r \in Refunds : refunds[r].status = "SUCCESS"}
        /\ "success" \in webhooks.handled =>
             payment.status \in StatusOfReturned
        /\ payment.status \in {"PENDING", "PROCESSING", "SUCCESS", "FAILED"} =>
             payment.status \in logged

\* A refund an administrator has approved comes to an end, unless a statement
\* fails or the process ends (approveRefund).
ApprovedIsSettled ==
    \A r \in Refunds :
        refunds[r].status = "APPROVED"
            ~> (refunds[r].status \in Settled \/ payFaults > 0)
=============================================================================
