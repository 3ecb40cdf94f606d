------------------------ MODULE PaymentRefund_proofs -------------------------
(***************************************************************************)
(* Proofs about PaymentRefund, for any amount and any number of calls and  *)
(* refunds: type correctness; that however handlers overlap and fail, the  *)
(* books never record more than was returned and never say that something  *)
(* was done that was not; that handlers which do not overlap implement     *)
(* RefundAccount and reject no refund that was paid; and that, if nothing  *)
(* fails either, the books balance whenever none is at work.               *)
(***************************************************************************)
EXTENDS PaymentRefund, FiniteSetTheorems, TLAPS

\* Where a handler works on a refund that has a row.
RefundSteps ==
    {"approve_save", "reject_save", "refund_find", "refund_processing",
     "refund_call", "refund_success", "refund_payment", "refund_reread",
     "refund_failed"}

\* A handler works on a refund wherever it needs one.
WorkInv ==
    \A c \in PayCalls :
        payPc[c] \in RefundSteps \cup {"request_save"} => refund[c] \in Refunds

TypeInv == PayTypeOK /\ WorkInv

-----------------------------------------------------------------------------
(* Type correctness.                                                       *)

\* No copy at all is typed as a copy.
LEMMA NoCopyType == NoPayment \in Payments
BY DEF NoPayment, Payments, PaymentStatuses

\* Moving on, returning and reading keep the types of the local variables,
\* and leave those of the other handlers alone.
LEMMA Going ==
    ASSUME PayTypeOK, NEW c \in PayCalls, NEW step \in PaySteps, PayGoto(c, step)
    PROVE  /\ payPc' \in [PayCalls -> PaySteps] /\ payPc'[c] = step
           /\ \A d \in PayCalls : d # c => payPc'[d] = payPc[d]
BY DEF PayTypeOK, PayGoto

\* What a handler that ends leaves behind.
LEMMA Returning ==
    ASSUME PayTypeOK, NEW c \in PayCalls, PayReturn(c)
    PROVE  /\ payPc' \in [PayCalls -> PaySteps] /\ payPc'[c] = "idle"
           /\ refund' \in [PayCalls -> Refunds \cup {NoRefund}]
           /\ payCopy' \in [PayCalls -> Payments] /\ payCopy'[c] = NoPayment
           /\ \A d \in PayCalls : d # c => /\ payPc'[d] = payPc[d]
                                           /\ refund'[d] = refund[d]
                                           /\ payCopy'[d] = payCopy[d]
<1>1. "idle" \in PaySteps
  BY DEF PaySteps
<1>2. PayGoto(c, "idle")
  BY DEF PayReturn
<1>3. /\ payPc' \in [PayCalls -> PaySteps] /\ payPc'[c] = "idle"
      /\ \A d \in PayCalls : d # c => payPc'[d] = payPc[d]
  BY <1>1, <1>2, Going
<1>4. /\ refund' \in [PayCalls -> Refunds \cup {NoRefund}]
      /\ \A d \in PayCalls : d # c => refund'[d] = refund[d]
  BY DEF PayReturn, PayTypeOK
<1>5. /\ payCopy' \in [PayCalls -> Payments] /\ payCopy'[c] = NoPayment
      /\ \A d \in PayCalls : d # c => payCopy'[d] = payCopy[d]
  BY NoCopyType DEF PayReturn, PayTypeOK
<1>6. QED
  BY <1>3, <1>4, <1>5

\* What reading the payment does.
LEMMA Reading ==
    ASSUME PayTypeOK, NEW c \in PayCalls, ReadPayment(c)
    PROVE  /\ payCopy' \in [PayCalls -> Payments] /\ payCopy'[c] = payment
           /\ \A d \in PayCalls : d # c => payCopy'[d] = payCopy[d]
BY DEF PayTypeOK, ReadPayment

\* What saving a refund's status does.
LEMMA SettingRefund ==
    ASSUME PayTypeOK, NEW r \in Refunds, NEW s \in RefundStatuses, SetRefund(r, s)
    PROVE  /\ refunds' \in [Refunds -> RefundRows]
           /\ refunds'[r].status = s
           /\ \A q \in Refunds : refunds'[q].amount = refunds[q].amount
           /\ \A q \in Refunds : q # r => refunds'[q] = refunds[q]
<1>1. refunds \in [Refunds -> RefundRows]
  BY DEF PayTypeOK
<1>2. refunds' = [refunds EXCEPT ![r].status = s]
  BY DEF SetRefund
<1>3. [refunds[r] EXCEPT !.status = s] \in RefundRows
  BY <1>1 DEF RefundRows
<1>4. refunds[r] \in RefundRows
  BY <1>1
<1>5. /\ [refunds[r] EXCEPT !.status = s].status = s
      /\ [refunds[r] EXCEPT !.status = s].amount = refunds[r].amount
  BY <1>4 DEF RefundRows
<1>6. QED
  BY <1>1, <1>2, <1>3, <1>5

\* What saving a copy of the payment does: it takes everything but the
\* status from the copy.
LEMMA SavingPayment ==
    ASSUME PayTypeOK, NEW c \in PayCalls, NEW s \in PaymentStatuses, SavePayment(c, s)
    PROVE  /\ payment' \in Payments /\ payment'.status = s
           /\ payment'.refundedAmount = payCopy[c].refundedAmount
<1>1. payCopy[c] \in Payments
  BY DEF PayTypeOK
<1>2. QED
  BY <1>1 DEF SavePayment, Payments

-----------------------------------------------------------------------------
(* What the steps of a handler do, as far as the proofs need to know.      *)

\* The steps that begin a request.
LEMMA BeginDoes ==
    ASSUME TypeInv, NEW c \in PayCalls, Begin(c)
    PROVE  /\ TypeInv'
           /\ UNCHANGED <<refunds, paidBack, paidFor, payFaults>>
           /\ \A d \in PayCalls : d # c => /\ payPc'[d] = payPc[d]
                                           /\ refund'[d] = refund[d]
                                           /\ payCopy'[d] = payCopy[d]
           /\ payCopy'[c] \in {payCopy[c], payment}
           /\ \/ UNCHANGED payment
              \/ /\ payment'.refundedAmount = payment.refundedAmount
                 /\ payment'.status = "PENDING"
                 /\ payPc'[c] = "create_log"
           /\ payPc[c] = "idle"
           /\ payPc'[c] \in {"create_log", "hook_success", "hook_failed",
                             "request_save", "approve_save", "reject_save"}
           /\ payPc'[c] \in {"hook_success", "hook_failed"} => payCopy'[c] = payment
           /\ payPc'[c] = "request_save" =>
                /\ refund'[c] \in Refunds
                /\ refunds[refund'[c]].status = "NONE"
                /\ \A d \in PayCalls : payPc[d] = "request_save"
                                      => refund[d] # refund'[c]
           /\ payPc'[c] \in {"approve_save", "reject_save"} =>
                /\ refund'[c] \in Refunds
                /\ refunds[refund'[c]].status = "PENDING"
<1> USE DEF TypeInv
<1>1. CASE CreatePayment(c)
  <2>1. PayGoto(c, "create_log") /\ "create_log" \in PaySteps /\ payPc[c] = "idle"
    BY <1>1 DEF CreatePayment, PayArrives, PaySteps
  <2>2. /\ payment' \in Payments /\ payment'.status = "PENDING"
        /\ payment'.refundedAmount = payment.refundedAmount
    BY <1>1 DEF CreatePayment, PayTypeOK, Payments, PaymentStatuses
  <2>3. PayTypeOK'
    BY <1>1, <2>1, <2>2, Going DEF CreatePayment, PayTypeOK, external, payLocals
  <2>4. WorkInv'
    BY <1>1, <2>1, Going DEF CreatePayment, WorkInv, RefundSteps, payLocals
  <2>5. QED
    BY <1>1, <2>1, <2>2, <2>3, <2>4, Going DEF CreatePayment, external, payLocals
<1>2. ASSUME NEW hook \in webhooks.sent, BeginWebhook(c, hook)
      PROVE  /\ TypeInv'
             /\ UNCHANGED <<payment, refunds, paidBack, paidFor, refund, payFaults>>
             /\ payCopy'[c] = payment
             /\ \A d \in PayCalls : d # c => payPc'[d] = payPc[d] /\ payCopy'[d] = payCopy[d]
             /\ payPc[c] = "idle" /\ payPc'[c] \in {"hook_success", "hook_failed"}
  <2> DEFINE step == IF hook = "success" THEN "hook_success" ELSE "hook_failed"
  <2>1. PayGoto(c, step) /\ step \in PaySteps /\ payPc[c] = "idle"
    BY <1>2 DEF BeginWebhook, PayArrives, PaySteps
  <2>2. webhooks' \in [sent : SUBSET {"success", "failed"},
                       handled : SUBSET {"success", "failed"}]
    BY <1>2 DEF BeginWebhook, PayTypeOK
  <2>3. ReadPayment(c)
    BY <1>2 DEF BeginWebhook
  <2>4. PayTypeOK'
    <3> HIDE DEF step
    <3> QED BY <1>2, <2>1, <2>2, <2>3, Going, Reading DEF BeginWebhook, PayTypeOK
  <2>5. step \in {"hook_success", "hook_failed"}
    OBVIOUS
  <2>6. WorkInv'
    <3> HIDE DEF step
    <3> QED BY <1>2, <2>1, <2>5, Going DEF BeginWebhook, WorkInv, RefundSteps
  <2>7. QED
    <3> HIDE DEF step
    <3> QED BY <1>2, <2>1, <2>3, <2>4, <2>5, <2>6, Going, Reading
               DEF BeginWebhook
<1>3. ASSUME NEW r \in Refunds, BeginRequest(c, r)
      PROVE  /\ TypeInv'
             /\ UNCHANGED <<payment, refunds, paidBack, paidFor, payFaults>>
             /\ payCopy'[c] = payment /\ refund'[c] = r
             /\ refunds[r].status = "NONE"
             /\ \A d \in PayCalls : payPc[d] = "request_save" => refund[d] # r
             /\ \A d \in PayCalls : d # c => /\ payPc'[d] = payPc[d]
                                             /\ refund'[d] = refund[d]
                                             /\ payCopy'[d] = payCopy[d]
             /\ payPc[c] = "idle" /\ payPc'[c] = "request_save"
  <2>1. PayGoto(c, "request_save") /\ "request_save" \in PaySteps /\ payPc[c] = "idle"
    BY <1>3 DEF BeginRequest, PayArrives, PaySteps
  <2>2. /\ refund' \in [PayCalls -> Refunds \cup {NoRefund}] /\ refund'[c] = r
        /\ \A d \in PayCalls : d # c => refund'[d] = refund[d]
    BY <1>3 DEF BeginRequest, PayTypeOK
  <2>3. ReadPayment(c)
    BY <1>3 DEF BeginRequest
  <2>4. PayTypeOK'
    BY <1>3, <2>1, <2>2, <2>3, Going, Reading DEF BeginRequest, PayTypeOK, external
  <2>5. WorkInv'
    BY <2>1, <2>2, Going DEF WorkInv
  <2>6. QED
    BY <1>3, <2>1, <2>2, <2>3, <2>4, <2>5, Going, Reading
       DEF BeginRequest, external
<1>4. ASSUME NEW r \in Refunds, NEW step \in {"approve_save", "reject_save"},
             BeginDecision(c, r, step)
      PROVE  /\ TypeInv'
             /\ UNCHANGED <<payment, refunds, paidBack, paidFor, payCopy, payFaults>>
             /\ refund'[c] = r /\ refunds[r].status = "PENDING"
             /\ \A d \in PayCalls : d # c => /\ payPc'[d] = payPc[d]
                                             /\ refund'[d] = refund[d]
             /\ payPc[c] = "idle" /\ payPc'[c] = step
  <2>1. PayGoto(c, step) /\ step \in PaySteps /\ payPc[c] = "idle"
    BY <1>4 DEF BeginDecision, PayArrives, PaySteps
  <2>2. /\ refund' \in [PayCalls -> Refunds \cup {NoRefund}] /\ refund'[c] = r
        /\ \A d \in PayCalls : d # c => refund'[d] = refund[d]
    BY <1>4 DEF BeginDecision, PayTypeOK
  <2>3. PayTypeOK'
    BY <1>4, <2>1, <2>2, Going DEF BeginDecision, PayTypeOK, external
  <2>4. WorkInv'
    BY <2>1, <2>2, Going DEF WorkInv
  <2>5. QED
    BY <1>4, <2>1, <2>2, <2>3, <2>4, Going DEF BeginDecision, external
<1>5. QED
  BY <1>1, <1>2, <1>3, <1>4 DEF Begin

\* The other handlers keep their variables.
Alone(c) ==
    \A d \in PayCalls : d # c => /\ payPc'[d] = payPc[d]
                                 /\ refund'[d] = refund[d]
                                 /\ payCopy'[d] = payCopy[d]

\* Where a handler has a copy of the payment that it will use.
CopySteps ==
    {"cash_save", "card_call", "card_save", "card_log", "card_failed",
     "hook_success", "hook_failed", "refund_processing", "refund_call",
     "refund_success", "refund_payment"}

\* The steps that create and process the payment, and those of a webhook.
LEMMA ProcessDoes ==
    ASSUME TypeInv, NEW c \in PayCalls, Process(c) \/ HookSave(c) \/ HookLog(c)
    PROVE  /\ TypeInv'
           /\ UNCHANGED <<refunds, paidBack, paidFor, payFaults>>
           /\ Alone(c)
           /\ payCopy'[c] \in {payCopy[c], payment, payment', NoPayment}
           /\ \/ UNCHANGED payment
              \/ /\ payment'.refundedAmount = payCopy[c].refundedAmount
                 /\ payment'.status # "REFUNDED"
                 /\ payPc[c] \in CopySteps
           /\ payPc[c] # "idle" /\ payPc'[c] \notin RefundSteps \cup {"request_save"}
           /\ payPc'[c] \in CopySteps =>
                \/ UNCHANGED payment /\ payCopy'[c] = payment
                \/ payPc[c] \in CopySteps /\ payCopy'[c] = payCopy[c]
<1> USE DEF TypeInv
<1>1. ASSUME NEW step \in PaySteps, PayGoto(c, step),
             step \notin RefundSteps \cup {"request_save"},
             UNCHANGED refund
      PROVE  WorkInv'
  BY <1>1, Going DEF WorkInv
<1>2. ASSUME PayReturn(c)
      PROVE  WorkInv'
  BY <1>2, Returning DEF WorkInv, RefundSteps
<1>3. {"process_find", "card_call", "cash_save", "cash_log", "card_save",
       "card_log", "card_failed_log", "hook_log"}
        \subseteq PaySteps \ (RefundSteps \cup {"request_save"})
  BY DEF PaySteps, RefundSteps
<1>4. {"PENDING", "SUCCESS", "PROCESSING", "FAILED"} \subseteq PaymentStatuses
  BY DEF PaymentStatuses
<1>5. CASE CreateLog(c)
  BY <1>1, <1>3, <1>4, <1>5, Going
     DEF CreateLog, Log, PayTypeOK, external, payLocals, CopySteps, Alone
<1>6. CASE FindToProcess(c)
  <2> DEFINE step == IF paymentType = "CARD" THEN "card_call" ELSE "cash_save"
  <2>1. /\ PayGoto(c, step) /\ ReadPayment(c) /\ payPc[c] = "process_find"
        /\ UNCHANGED <<paymentType, payment, logged, refunds, external, refund,
                       payFaults>>
    BY <1>6 DEF FindToProcess
  <2>2. step \in PaySteps \ (RefundSteps \cup {"request_save"})
    BY <1>3
  <2> HIDE DEF step
  <2>3. WorkInv'
    BY <1>1, <2>1, <2>2
  <2>4. PayTypeOK'
    BY <2>1, <2>2, Going, Reading DEF PayTypeOK, external
  <2>5. QED
    BY <2>1, <2>2, <2>3, <2>4, Going, Reading DEF external, Alone
<1>7. ASSUME NEW step \in {"cash_log", "card_log", "card_failed_log"},
             NEW s \in {"SUCCESS", "PROCESSING", "FAILED"},
             payPc[c] \in {"cash_save", "card_save", "card_failed"},
             SavePayment(c, s), PayGoto(c, step),
             UNCHANGED <<paymentType, logged, refunds, external, payLocals, payFaults>>
      PROVE  /\ TypeInv' /\ Alone(c) /\ payPc'[c] = step
             /\ payment'.refundedAmount = payCopy[c].refundedAmount
             /\ payment'.status # "REFUNDED"
  <2>1. step \in PaySteps \ (RefundSteps \cup {"request_save"})
    BY <1>3
  <2>2. WorkInv'
    BY <1>1, <1>7, <2>1 DEF payLocals
  <2>3. PayTypeOK'
    BY <1>4, <1>7, <2>1, Going, SavingPayment DEF PayTypeOK, external, payLocals
  <2>4. QED
    BY <1>4, <1>7, <2>1, <2>2, <2>3, Going, SavingPayment DEF payLocals, Alone
<1>8. CASE CashSave(c) \/ CardSave(c) \/ CardFailed(c)
  <2>1. PICK step \in {"cash_log", "card_log", "card_failed_log"},
             s \in {"SUCCESS", "PROCESSING", "FAILED"} :
          /\ payPc[c] \in {"cash_save", "card_save", "card_failed"}
          /\ SavePayment(c, s) /\ PayGoto(c, step)
          /\ UNCHANGED <<paymentType, logged, refunds, external, payLocals, payFaults>>
    BY <1>8 DEF CashSave, CardSave, CardFailed
  <2>2. /\ TypeInv' /\ Alone(c) /\ payPc'[c] = step
        /\ payment'.refundedAmount = payCopy[c].refundedAmount
        /\ payment'.status # "REFUNDED"
    BY <1>7, <2>1
  <2>3. QED
    BY <1>3, <2>1, <2>2 DEF external, payLocals, CopySteps
<1>9. CASE CardCall(c)
  BY <1>1, <1>3, <1>9, Going
     DEF CardCall, PayTypeOK, external, payLocals, CopySteps, Alone
<1>10. CASE ProcessLog(c)
  <2>1. logged' \subseteq PaymentStatuses
    BY <1>4, <1>10 DEF ProcessLog, Log, PayTypeOK
  <2>2. PayTypeOK'
    BY <1>10, <2>1, Returning DEF ProcessLog, PayTypeOK, external
  <2>3. payPc'[c] = "idle" /\ payCopy'[c] = NoPayment /\ Alone(c)
    BY <1>10, Returning DEF ProcessLog, Alone
  <2>4. QED
    BY <1>2, <1>10, <2>2, <2>3
       DEF ProcessLog, external, CopySteps, RefundSteps
<1>11. CASE HookSave(c)
  <2> DEFINE s == IF payPc[c] = "hook_success" THEN "SUCCESS" ELSE "FAILED"
  <2>1. /\ SavePayment(c, s) /\ PayGoto(c, "hook_log")
        /\ payCopy' = [payCopy EXCEPT ![c] = payment']
        /\ payPc[c] \in {"hook_success", "hook_failed"}
        /\ UNCHANGED <<paymentType, logged, refunds, external, refund, payFaults>>
    BY <1>11 DEF HookSave
  <2>2. s \in PaymentStatuses /\ s # "REFUNDED"
    BY <1>4
  <2> HIDE DEF s
  <2>3. /\ payment' \in Payments /\ payment'.status = s
        /\ payment'.refundedAmount = payCopy[c].refundedAmount
    BY <2>1, <2>2, SavingPayment
  <2>4. /\ payCopy' \in [PayCalls -> Payments] /\ payCopy'[c] = payment'
        /\ \A d \in PayCalls : d # c => payCopy'[d] = payCopy[d]
    BY <2>1, <2>3 DEF PayTypeOK
  <2>5. WorkInv'
    BY <1>1, <1>3, <2>1
  <2>6. PayTypeOK'
    BY <1>3, <2>1, <2>3, <2>4, Going DEF PayTypeOK, external
  <2>7. payPc'[c] = "hook_log" /\ Alone(c)
    BY <1>3, <2>1, <2>4, Going DEF Alone
  <2>8. QED
    BY <1>3, <2>1, <2>2, <2>3, <2>4, <2>5, <2>6, <2>7 DEF external, CopySteps
<1>12. CASE HookLog(c)
  <2>1. logged' \subseteq PaymentStatuses
    BY <1>12 DEF HookLog, Log, PayTypeOK, Payments
  <2>2. PayTypeOK'
    BY <1>12, <2>1, Returning DEF HookLog, PayTypeOK, external
  <2>3. payPc'[c] = "idle" /\ payCopy'[c] = NoPayment /\ Alone(c)
    BY <1>12, Returning DEF HookLog, Alone
  <2>4. QED
    BY <1>2, <1>12, <2>2, <2>3 DEF HookLog, external, CopySteps, RefundSteps
<1>13. QED
  BY <1>5, <1>6, <1>8, <1>9, <1>10, <1>11, <1>12 DEF Process

\* The statements that only change the status of the refund at work.
LEMMA SetDoes ==
    ASSUME TypeInv, NEW c \in PayCalls, NEW s \in RefundStatuses, NEW step \in PaySteps,
           payPc[c] \in RefundSteps, SetRefund(refund[c], s), PayGoto(c, step),
           UNCHANGED <<paymentType, payment, logged, external, payFaults>>,
           \/ UNCHANGED payLocals
           \/ PayReturn(c) /\ step = "idle"
    PROVE  TypeInv' /\ Alone(c) /\ payPc'[c] = step /\ payCopy'[c] \in {payCopy[c], NoPayment}
<1> USE DEF TypeInv
<1>1. refund[c] \in Refunds
  BY DEF WorkInv
<1>2. refunds' \in [Refunds -> RefundRows]
  BY <1>1, SettingRefund
<1>3. /\ payPc' \in [PayCalls -> PaySteps] /\ payPc'[c] = step
      /\ \A d \in PayCalls : d # c => payPc'[d] = payPc[d]
  BY Going
<1>4. CASE UNCHANGED payLocals
  <2>1. PayTypeOK'
    BY <1>2, <1>3, <1>4 DEF PayTypeOK, external, payLocals
  <2>2. WorkInv'
    BY <1>1, <1>3, <1>4 DEF WorkInv, payLocals
  <2>3. QED
    BY <1>3, <1>4, <2>1, <2>2 DEF payLocals, Alone
<1>5. CASE PayReturn(c) /\ step = "idle"
  <2>1. PayTypeOK'
    BY <1>2, <1>5, Returning DEF PayTypeOK, external
  <2>2. WorkInv'
    BY <1>5, Returning DEF WorkInv, RefundSteps
  <2>3. QED
    BY <1>3, <1>5, <2>1, <2>2, Returning DEF Alone
<1>6. QED
  BY <1>4, <1>5

\* The steps and statuses named above are steps and statuses.
LEMMA Named ==
    /\ RefundSteps \subseteq PaySteps /\ CopySteps \subseteq PaySteps
    /\ {"idle", "request_save"} \subseteq PaySteps \ RefundSteps
    /\ {"PENDING", "APPROVED", "PROCESSING", "SUCCESS", "FAILED", "REJECTED"}
         \subseteq RefundStatuses
BY DEF RefundSteps, CopySteps, PaySteps, RefundStatuses

\* A decision, or a step of processRefundWithPaymob that marks the refund.
Marks(c, s, step) ==
    /\ payPc[c] \in RefundSteps /\ payPc'[c] = step /\ payCopy'[c] \in {payCopy[c], NoPayment}
    /\ refund[c] \in Refunds /\ refunds'[refund[c]].status = s
    /\ \A r \in Refunds : refunds'[r].amount = refunds[r].amount
    /\ \A r \in Refunds : r # refund[c] => refunds'[r] = refunds[r]
    /\ UNCHANGED <<payment, paidBack, paidFor, payFaults>>

\* What the statements that mark a refund do,
LEMMA MarkDoes ==
    ASSUME TypeInv, NEW c \in PayCalls
    PROVE  /\ RejectSave(c) => /\ TypeInv' /\ Alone(c)
                               /\ Marks(c, "REJECTED", "idle")
           /\ ApproveSave(c) => /\ TypeInv' /\ Alone(c)
                                /\ Marks(c, "APPROVED", "refund_find")
                                /\ UNCHANGED payLocals
           /\ RefundProcessing(c) => /\ TypeInv' /\ Alone(c)
                                     /\ Marks(c, "PROCESSING", "refund_call")
                                     /\ UNCHANGED payLocals
           /\ RefundSuccess(c) => /\ TypeInv' /\ Alone(c)
                                  /\ Marks(c, "SUCCESS", "refund_payment")
                                  /\ UNCHANGED payLocals
           /\ RefundFailed(c) => /\ TypeInv' /\ Alone(c)
                                 /\ Marks(c, "FAILED", "idle")
<1>1. ASSUME NEW s \in RefundStatuses, NEW step \in PaySteps,
             payPc[c] \in RefundSteps, SetRefund(refund[c], s), PayGoto(c, step),
             UNCHANGED <<paymentType, payment, logged, external, payFaults>>,
             UNCHANGED payLocals \/ (PayReturn(c) /\ step = "idle")
      PROVE  TypeInv' /\ Alone(c) /\ Marks(c, s, step)
  <2>1. TypeInv' /\ Alone(c) /\ payPc'[c] = step /\ payCopy'[c] \in {payCopy[c], NoPayment}
    BY <1>1, SetDoes
  <2>2. refund[c] \in Refunds
    BY <1>1 DEF TypeInv, WorkInv
  <2>3. QED
    BY <1>1, <2>1, <2>2, SettingRefund DEF TypeInv, Marks, external
<1>2. RejectSave(c) => TypeInv' /\ Alone(c) /\ Marks(c, "REJECTED", "idle")
  BY <1>1, Named DEF RejectSave, PayReturn, RefundSteps
<1>3. ApproveSave(c) => /\ TypeInv' /\ Alone(c) /\ UNCHANGED payLocals
                        /\ Marks(c, "APPROVED", "refund_find")
  BY <1>1, Named DEF ApproveSave, RefundSteps
<1>4. RefundProcessing(c) => /\ TypeInv' /\ Alone(c) /\ UNCHANGED payLocals
                             /\ Marks(c, "PROCESSING", "refund_call")
  BY <1>1, Named DEF RefundProcessing, RefundSteps
<1>5. RefundSuccess(c) => /\ TypeInv' /\ Alone(c) /\ UNCHANGED payLocals
                          /\ Marks(c, "SUCCESS", "refund_payment")
  BY <1>1, Named DEF RefundSuccess, RefundSteps
<1>6. RefundFailed(c) => TypeInv' /\ Alone(c) /\ Marks(c, "FAILED", "idle")
  BY <1>1, Named DEF RefundFailed, PayReturn, RefundSteps
<1>7. QED
  BY <1>2, <1>3, <1>4, <1>5, <1>6

\* A requested refund gets its row.
LEMMA RequestDoes ==
    ASSUME PaymentAssumption, TypeInv, NEW c \in PayCalls, RequestSave(c)
    PROVE  /\ TypeInv' /\ Alone(c)
           /\ payPc[c] = "request_save" /\ payPc'[c] = "idle" /\ payCopy'[c] = NoPayment
           /\ refund[c] \in Refunds /\ refunds'[refund[c]].status = "PENDING"
           /\ \A r \in Refunds : r # refund[c] => refunds'[r] = refunds[r]
           /\ UNCHANGED <<payment, paidBack, paidFor, payFaults>>
<1> USE DEF TypeInv
<1>1. refund[c] \in Refunds
  BY DEF RequestSave, WorkInv
<1>2. PICK amount \in Requested :
        refunds' = [refunds EXCEPT ![refund[c]] =
                      [status |-> "PENDING", amount |-> amount]]
  BY DEF RequestSave
<1>3. [status |-> "PENDING", amount |-> amount] \in RefundRows
  BY Named DEF RefundRows, PaymentAssumption
<1>4. /\ refunds' \in [Refunds -> RefundRows]
      /\ refunds'[refund[c]].status = "PENDING"
      /\ \A r \in Refunds : r # refund[c] => refunds'[r] = refunds[r]
  BY <1>1, <1>2, <1>3 DEF PayTypeOK
<1>5. PayReturn(c)
  BY DEF RequestSave
<1>6. PayTypeOK'
  BY <1>4, <1>5, Returning DEF RequestSave, PayTypeOK, external
<1>7. WorkInv'
  BY <1>5, Returning DEF WorkInv, RefundSteps
<1>8. QED
  BY <1>1, <1>4, <1>5, <1>6, <1>7, Returning DEF RequestSave, Alone, external

\* The steps of processRefundWithPaymob that leave the refunds alone.
LEMMA FindDoes ==
    ASSUME TypeInv, NEW c \in PayCalls, RefundFind(c)
    PROVE  /\ TypeInv' /\ Alone(c)
           /\ payPc[c] = "refund_find"
           /\ payPc'[c] \in {"refund_processing", "refund_failed"}
           /\ payCopy'[c] = payment /\ refund'[c] = refund[c]
           /\ UNCHANGED <<payment, refunds, paidBack, paidFor, payFaults>>
<1> DEFINE step == IF payment.transaction THEN "refund_processing"
                                          ELSE "refund_failed"
<1>1. /\ payPc[c] = "refund_find" /\ PayGoto(c, step) /\ ReadPayment(c)
      /\ UNCHANGED <<paymentType, payment, logged, refunds, external, refund,
                     payFaults>>
  BY DEF RefundFind
<1>2. step \in PaySteps /\ step \in {"refund_processing", "refund_failed"}
  BY Named DEF RefundSteps
<1> HIDE DEF step
<1>3. PayTypeOK'
  BY <1>1, <1>2, Going, Reading DEF TypeInv, PayTypeOK, external
<1>4. refund[c] \in Refunds
  BY <1>1 DEF TypeInv, WorkInv, RefundSteps
<1>5. WorkInv'
  BY <1>1, <1>2, <1>4, Going DEF TypeInv, WorkInv, RefundSteps
<1>6. QED
  BY <1>1, <1>2, <1>3, <1>5, Going, Reading DEF TypeInv, Alone, external

\* what Paymob's answer does,
LEMMA CallDoes ==
    ASSUME PaymentAssumption, TypeInv, NEW c \in PayCalls, RefundCall(c)
    PROVE  /\ TypeInv' /\ Alone(c)
           /\ payPc[c] = "refund_call"
           /\ payPc'[c] \in {"refund_success", "refund_failed"}
           /\ refund[c] \in Refunds
           /\ UNCHANGED <<payment, refunds, payLocals>>
           /\ payFaults' >= payFaults
           /\ \/ /\ paidBack' = paidBack + refunds[refund[c]].amount
                 /\ paidBack' <= Amount
                 /\ paidFor' = paidFor \cup {refund[c]}
              \/ UNCHANGED <<paidBack, paidFor>> /\ payPc'[c] = "refund_failed"
<1> USE DEF TypeInv
<1>1. payPc[c] = "refund_call" /\ refund[c] \in Refunds
  BY DEF RefundCall, WorkInv, RefundSteps
<1>2. PICK step \in {"refund_success", "refund_failed"} : PayGoto(c, step)
  BY DEF RefundCall
<1>3. /\ payPc' \in [PayCalls -> PaySteps] /\ payPc'[c] = step
      /\ \A d \in PayCalls : d # c => payPc'[d] = payPc[d]
  BY <1>2, Going, Named DEF RefundSteps
<1>4. refunds[refund[c]].amount \in 0..Amount /\ paidBack \in 0..Amount
  BY <1>1 DEF PayTypeOK, RefundRows
<1>5. \/ /\ paidBack' = paidBack + refunds[refund[c]].amount
         /\ paidBack' <= Amount
         /\ paidFor' = paidFor \cup {refund[c]}
      \/ UNCHANGED <<paidBack, paidFor>> /\ payPc'[c] = "refund_failed"
  <2>1. CASE PaymobPaysBack(refund[c])
    BY <1>4, <2>1 DEF PaymobPaysBack, PaymentAssumption
  <2>2. CASE UNCHANGED <<paidBack, paidFor>> /\ PayGoto(c, "refund_failed")
    BY <2>2, Going, Named DEF RefundSteps
  <2>3. QED
    BY <2>1, <2>2 DEF RefundCall
<1>6. paidBack' \in 0..Amount /\ paidFor' \subseteq Refunds
  BY <1>1, <1>4, <1>5 DEF PayTypeOK, PaymentAssumption
<1>7. payFaults' \in 0..MaxPayFaults /\ payFaults' >= payFaults
  BY DEF RefundCall, PayTypeOK, PaymentAssumption
<1>8. PayTypeOK'
  BY <1>3, <1>6, <1>7 DEF RefundCall, PayTypeOK, payLocals
<1>9. WorkInv'
  BY <1>1, <1>3 DEF RefundCall, WorkInv, payLocals
<1>10. QED
  BY <1>1, <1>3, <1>5, <1>7, <1>8, <1>9 DEF RefundCall, Alone, payLocals

\* what recording it in the payment does,
LEMMA RecordDoes ==
    ASSUME TypeInv, NEW c \in PayCalls, RefundPayment(c)
    PROVE  /\ TypeInv' /\ Alone(c)
           /\ payPc[c] = "refund_payment" /\ payPc'[c] = "refund_reread"
           /\ refund[c] \in Refunds
           /\ payment'.refundedAmount =
                payCopy[c].refundedAmount + refunds[refund[c]].amount
           /\ payment'.status \in StatusAfter(c)
           /\ UNCHANGED <<refunds, paidBack, paidFor, payLocals, payFaults>>
<1> USE DEF TypeInv
<1>1. payPc[c] = "refund_payment" /\ refund[c] \in Refunds
  BY DEF RefundPayment, WorkInv, RefundSteps
<1>2. /\ refunds[refund[c]].amount \in Nat /\ payCopy[c].refundedAmount \in Nat
      /\ payment \in Payments
  BY <1>1 DEF PayTypeOK, RefundRows, Payments
<1>3. /\ RefundedAmount(c) = payCopy[c].refundedAmount + refunds[refund[c]].amount
      /\ RefundedAmount(c) \in Nat
  BY <1>2 DEF RefundedAmount
<1>4. StatusAfter(c) \subseteq PaymentStatuses
  BY DEF StatusAfter, PaymentStatuses
<1>5. /\ payment' \in Payments
      /\ payment'.refundedAmount = RefundedAmount(c)
      /\ payment'.status \in StatusAfter(c)
  BY <1>2, <1>3, <1>4 DEF RefundPayment, Payments
<1>6. PayGoto(c, "refund_reread") /\ "refund_reread" \in PaySteps
  BY Named DEF RefundPayment, RefundSteps
<1>7. PayTypeOK'
  BY <1>5, <1>6, Going DEF RefundPayment, PayTypeOK, external, payLocals
<1>8. WorkInv'
  BY <1>1, <1>6, Going DEF RefundPayment, WorkInv, RefundSteps, payLocals
<1>9. QED
  BY <1>1, <1>3, <1>5, <1>6, <1>7, <1>8, Going
     DEF RefundPayment, external, payLocals, Alone

\* Failures, the end of a refund, and what happens without a handler.
LEMMA FailDoes ==
    ASSUME PaymentAssumption, TypeInv, NEW c \in PayCalls,
           RefundReread(c) \/ PayCallFails(c)
    PROVE  /\ TypeInv' /\ Alone(c)
           /\ UNCHANGED <<payment, refunds, paidBack, paidFor>>
           /\ payPc[c] # "idle"
           /\ \/ payPc'[c] = "idle" /\ payCopy'[c] = NoPayment
              \/ /\ payPc'[c] = "refund_failed" /\ payPc[c] \in RefundSteps
                 /\ UNCHANGED payLocals
              \/ /\ payPc'[c] = "card_failed" /\ payPc[c] \in CopySteps
                 /\ UNCHANGED payLocals
           /\ payFaults' >= payFaults /\ (PayCallFails(c) => payFaults' > payFaults)
<1> USE DEF TypeInv
<1>1. payFaults' \in 0..MaxPayFaults /\ payFaults' >= payFaults
  BY DEF RefundReread, PayCallFails, PayTypeOK, PaymentAssumption
<1>2. UNCHANGED <<paymentType, payment, logged, refunds, external>>
  BY DEF RefundReread, PayCallFails
<1>3. CASE PayReturn(c)
  <2>1. PayTypeOK'
    BY <1>1, <1>2, <1>3, Returning DEF PayTypeOK, external
  <2>2. WorkInv'
    BY <1>3, Returning DEF WorkInv, RefundSteps
  <2>3. QED
    BY <1>1, <1>2, <1>3, <2>1, <2>2, Returning
       DEF RefundReread, PayCallFails, Alone, external, PayTypeOK
<1>4. CASE ~PayReturn(c)
  <2>1. PayCallFails(c) /\ UNCHANGED payLocals /\ PayGoto(c, Caught(payPc[c]))
    BY <1>4 DEF RefundReread, PayCallFails
  <2>2. \/ Caught(payPc[c]) = "card_failed" /\ payPc[c] \in CopySteps
        \/ Caught(payPc[c]) = "refund_failed" /\ payPc[c] \in RefundSteps
    BY <1>4, <2>1 DEF PayCallFails, Caught, CopySteps, RefundSteps
  <2>3. Caught(payPc[c]) \in PaySteps
    BY <2>2, Named DEF CopySteps, RefundSteps
  <2>4. /\ payPc' \in [PayCalls -> PaySteps] /\ payPc'[c] = Caught(payPc[c])
        /\ \A d \in PayCalls : d # c => payPc'[d] = payPc[d]
    BY <2>1, <2>3, Going
  <2>5. PayTypeOK'
    BY <1>1, <1>2, <2>1, <2>4 DEF PayTypeOK, external, payLocals
  <2>6. WorkInv'
    BY <2>1, <2>2, <2>4 DEF WorkInv, RefundSteps, payLocals
  <2>7. payFaults' > payFaults
    BY <2>1 DEF PayCallFails, PayTypeOK
  <2>8. QED
    BY <1>1, <1>2, <2>1, <2>2, <2>4, <2>5, <2>6, <2>7
       DEF PayCallFails, Alone, external, payLocals
<1>5. QED
  BY <1>3, <1>4

\* and what the customer, a crash and a stutter leave alone.
LEMMA CrashDoes ==
    ASSUME PaymentAssumption, TypeInv, CustomerPays \/ PayCrash \/ UNCHANGED payVars
    PROVE  /\ TypeInv'
           /\ UNCHANGED <<payment, refunds, paidBack, paidFor>>
           /\ \/ UNCHANGED <<payPc, payLocals>>
              \/ \A c \in PayCalls : payPc'[c] = "idle" /\ payCopy'[c] = NoPayment
<1> USE DEF TypeInv
<1>1. CASE CustomerPays
  <2>1. /\ charged' \in BOOLEAN
        /\ webhooks' \in [sent : SUBSET {"success", "failed"},
                          handled : SUBSET {"success", "failed"}]
    BY <1>1 DEF CustomerPays, PayTypeOK
  <2>2. QED
    BY <1>1, <2>1 DEF CustomerPays, PayTypeOK, WorkInv, payLocals
<1>2. CASE PayCrash
  <2>1. payFaults' \in 0..MaxPayFaults
    BY <1>2 DEF PayCrash, PayTypeOK, PaymentAssumption
  <2>2. "idle" \in PaySteps
    BY Named
  <2>3. /\ payPc' \in [PayCalls -> PaySteps] /\ payCopy' \in [PayCalls -> Payments]
        /\ refund' \in [PayCalls -> Refunds \cup {NoRefund}]
        /\ \A c \in PayCalls : payPc'[c] = "idle" /\ payCopy'[c] = NoPayment
    BY <1>2, <2>2, NoCopyType DEF PayCrash
  <2>4. QED
    BY <1>2, <2>1, <2>3
       DEF PayCrash, PayTypeOK, WorkInv, RefundSteps, external
<1>3. CASE UNCHANGED payVars
  BY <1>3 DEF payVars, PayTypeOK, WorkInv, external, payLocals
<1>4. QED
  BY <1>1, <1>2, <1>3

\* Every step is one of these.
LEMMA Kinds ==
    ASSUME [PayNext]_payVars
    PROVE  \/ CustomerPays \/ PayCrash \/ UNCHANGED payVars
           \/ \E c \in PayCalls :
                \/ Begin(c)
                \/ Process(c) \/ HookSave(c) \/ HookLog(c)
                \/ RequestSave(c)
                \/ RejectSave(c) \/ ApproveSave(c) \/ RefundProcessing(c)
                \/ RefundSuccess(c) \/ RefundFailed(c)
                \/ RefundFind(c) \/ RefundCall(c) \/ RefundPayment(c)
                \/ RefundReread(c) \/ PayCallFails(c)
BY DEF PayNext, PayContinue, ProcessRefund

\* Types hold in the beginning,
LEMMA InitTypes == ASSUME PaymentAssumption, PayInit PROVE TypeInv
<1>1. /\ \A r \in Refunds : refunds[r] \in RefundRows
      /\ refunds \in [Refunds -> RefundRows]
  BY DEF PayInit, RefundRows, RefundStatuses, PaymentAssumption
<1>2. "idle" \in PaySteps
  BY Named
<1>3. PayTypeOK
  <2>1. paidBack \in 0..Amount /\ payFaults \in 0..MaxPayFaults
    BY DEF PayInit, PaymentAssumption
  <2>2. /\ payment \in Payments /\ payCopy \in [PayCalls -> Payments]
        /\ payPc \in [PayCalls -> PaySteps] /\ refund \in [PayCalls -> Refunds \cup {NoRefund}]
    BY <1>2, NoCopyType DEF PayInit
  <2>3. /\ logged \subseteq PaymentStatuses /\ paidFor \subseteq Refunds
        /\ webhooks \in [sent : SUBSET {"success", "failed"},
                        handled : SUBSET {"success", "failed"}]
    BY DEF PayInit
  <2>4. paymentType \in {"CARD", "CASH"} /\ charged \in BOOLEAN
    BY DEF PayInit
  <2>5. QED
    BY <1>1, <2>1, <2>2, <2>3, <2>4 DEF PayTypeOK
<1>4. WorkInv
  BY DEF PayInit, WorkInv, RefundSteps
<1>5. QED
  BY <1>3, <1>4 DEF TypeInv

\* and with every step.
LEMMA StepTypes ==
    ASSUME PaymentAssumption, TypeInv, [PayNext]_payVars
    PROVE  TypeInv'
BY Kinds, BeginDoes, ProcessDoes, MarkDoes, RequestDoes, FindDoes, CallDoes,
   RecordDoes, FailDoes, CrashDoes

\* The rows of the payment and its refunds and the local variables of every
\* handler keep their types (createPayment to processRefundWithPaymob).
THEOREM TypeCorrect ==
    ASSUME PaymentAssumption
    PROVE  PaySpec => []PayTypeOK
<1>1. PayInit => TypeInv
  BY InitTypes
<1>2. TypeInv /\ [PayNext]_payVars => TypeInv'
  BY StepTypes
<1>3. TypeInv => PayTypeOK
  BY DEF TypeInv
<1>4. QED
  BY <1>1, <1>2, <1>3, PTL DEF PaySpec

-----------------------------------------------------------------------------
(* However handlers overlap and fail.                                      *)

\* A handler's refund has a row, except where it is about to get one, and no
\* two handlers are about to write the same row.
OwnInv ==
    \A c \in PayCalls :
        /\ payPc[c] \in RefundSteps => refunds[refund[c]].status # "NONE"
        /\ payPc[c] = "request_save" =>
             /\ refunds[refund[c]].status = "NONE"
             /\ \A d \in PayCalls : d # c /\ payPc[d] = "request_save"
                                   => refund[d] # refund[c]

\* No copy of the payment records more than was returned, and what a handler
\* is about to record has been returned on top of what its copy records.
PaidInv ==
    \A c \in PayCalls :
        /\ payCopy[c].refundedAmount <= paidBack
        /\ payPc[c] \in {"refund_success", "refund_payment"} =>
             payCopy[c].refundedAmount + refunds[refund[c]].amount <= paidBack
        /\ payPc[c] = "refund_success" => refund[c] \in paidFor

BooksInv == OwnInv /\ PaidInv /\ RecordedWasReturned /\ SaidWasDone

\* A step of handler c that leaves the refunds and Paymob's account alone.
LEMMA QuietStep ==
    ASSUME TypeInv, BooksInv, NEW c \in PayCalls, Alone(c),
           UNCHANGED <<refunds, paidBack, paidFor>>,
           payment'.refundedAmount <= paidBack,
           payment'.status = "REFUNDED" => paidBack = Amount,
           payCopy'[c].refundedAmount <= paidBack,
           payPc'[c] \notin {"refund_success", "refund_payment"},
           payPc'[c] \in RefundSteps => refunds[refund'[c]].status # "NONE",
           payPc'[c] = "request_save" =>
             /\ refunds[refund'[c]].status = "NONE"
             /\ \A d \in PayCalls : d # c /\ payPc[d] = "request_save"
                                   => refund[d] # refund'[c]
    PROVE  BooksInv'
<1>1. OwnInv'
  BY DEF BooksInv, OwnInv, Alone
<1>2. PaidInv'
  BY DEF BooksInv, PaidInv, Alone
<1>3. RecordedWasReturned' /\ SaidWasDone'
  BY DEF BooksInv, RecordedWasReturned, SaidWasDone
<1>4. QED
  BY <1>1, <1>2, <1>3 DEF BooksInv

\* A statement that marks a refund: only a paid one is marked a SUCCESS.
LEMMA MarkStep ==
    ASSUME TypeInv, BooksInv, NEW c \in PayCalls, NEW s, NEW step,
           Alone(c), Marks(c, s, step),
           s # "NONE", step # "request_save",
           step = "idle" \/ UNCHANGED payLocals,
           s = "SUCCESS" => payPc[c] = "refund_success",
           step = "refund_payment" => payPc[c] = "refund_success",
           step # "refund_success"
    PROVE  BooksInv'
<1>1. /\ refund[c] \in Refunds /\ refunds'[refund[c]].status = s
      /\ \A r \in Refunds : refunds'[r].amount = refunds[r].amount
      /\ \A r \in Refunds : r # refund[c] => refunds'[r] = refunds[r]
      /\ UNCHANGED <<payment, paidBack, paidFor>>
      /\ payPc[c] \in RefundSteps /\ payPc'[c] = step /\ payCopy'[c] \in {payCopy[c], NoPayment}
  BY DEF Marks
<1>2. \A d \in PayCalls : payPc[d] \in RefundSteps \cup {"request_save"} =>
                         refund[d] \in Refunds
  BY DEF TypeInv, WorkInv
<1>3. "idle" \notin RefundSteps
  BY Named
<1>4. OwnInv'
  <2>1. ASSUME NEW d \in PayCalls, payPc'[d] \in RefundSteps
        PROVE  refunds'[refund'[d]].status # "NONE"
    <3>1. refund'[d] = refund[d] /\ (d # c => payPc'[d] = payPc[d])
      BY <1>1, <1>3, <2>1 DEF Alone, payLocals
    <3>2. CASE refund[d] = refund[c]
      BY <1>1, <3>1, <3>2
    <3>3. CASE refund[d] # refund[c]
      BY <1>1, <1>2, <2>1, <3>1, <3>3 DEF BooksInv, OwnInv
    <3>4. QED
      BY <3>2, <3>3
  <2>2. ASSUME NEW d \in PayCalls, payPc'[d] = "request_save"
        PROVE  /\ refunds'[refund'[d]].status = "NONE"
               /\ \A e \in PayCalls : e # d /\ payPc'[e] = "request_save"
                                     => refund'[e] # refund'[d]
    <3>1. d # c /\ payPc[d] = "request_save" /\ refund'[d] = refund[d]
      BY <1>1, <2>2 DEF Alone
    <3>2. refund[d] # refund[c]
      BY <1>1, <3>1 DEF BooksInv, OwnInv
    <3>3. refunds'[refund[d]].status = "NONE"
      BY <1>1, <1>2, <3>1, <3>2 DEF BooksInv, OwnInv
    <3>4. QED
      BY <1>1, <3>1, <3>3 DEF BooksInv, OwnInv, Alone
  <2>3. QED
    BY <2>1, <2>2 DEF OwnInv
<1>5. PaidInv'
  <2>1. ASSUME NEW d \in PayCalls
        PROVE  payCopy'[d].refundedAmount <= paidBack
    <3>1. payCopy'[d] \in {payCopy[d], NoPayment}
      BY <1>1 DEF Alone
    <3>2. paidBack >= 0
      BY DEF TypeInv, PayTypeOK
    <3>3. QED
      BY <3>1, <3>2 DEF BooksInv, PaidInv, NoPayment
  <2>2. ASSUME NEW d \in PayCalls, payPc'[d] \in {"refund_success", "refund_payment"}
        PROVE  /\ payCopy'[d].refundedAmount + refunds'[refund'[d]].amount <= paidBack
               /\ payPc'[d] = "refund_success" => refund'[d] \in paidFor
    <3>1. /\ payPc[d] \in {"refund_success", "refund_payment"}
          /\ refund'[d] = refund[d] /\ payCopy'[d] = payCopy[d]
          /\ payPc'[d] = "refund_success" => payPc[d] = "refund_success"
      BY <1>1, <2>2 DEF Alone, payLocals
    <3>2. refund[d] \in Refunds
      BY <1>2, <3>1 DEF RefundSteps
    <3>3. QED
      BY <1>1, <3>1, <3>2 DEF BooksInv, PaidInv
  <2>3. QED
    BY <1>1, <2>1, <2>2 DEF PaidInv
<1>6. RecordedWasReturned'
  BY <1>1 DEF BooksInv, RecordedWasReturned
<1>7. SaidWasDone'
  <2>1. s = "SUCCESS" => refund[c] \in paidFor
    BY DEF BooksInv, PaidInv
  <2>2. QED
    BY <1>1, <2>1 DEF BooksInv, SaidWasDone
<1>8. QED
  BY <1>4, <1>5, <1>6, <1>7 DEF BooksInv

\* A new refund keeps the books true,
LEMMA RequestStep ==
    ASSUME PaymentAssumption, TypeInv, BooksInv, NEW c \in PayCalls, RequestSave(c)
    PROVE  BooksInv'
<1>1. /\ Alone(c) /\ payPc[c] = "request_save" /\ payPc'[c] = "idle"
      /\ payCopy'[c] = NoPayment
      /\ refund[c] \in Refunds /\ refunds'[refund[c]].status = "PENDING"
      /\ \A r \in Refunds : r # refund[c] => refunds'[r] = refunds[r]
      /\ UNCHANGED <<payment, paidBack, paidFor>>
  BY RequestDoes
<1>2. /\ refunds[refund[c]].status = "NONE"
      /\ \A d \in PayCalls : d # c /\ payPc[d] = "request_save"
                            => refund[d] # refund[c]
  BY <1>1 DEF BooksInv, OwnInv
<1>3. ASSUME NEW d \in PayCalls, payPc'[d] \in RefundSteps \cup {"request_save"}
      PROVE  /\ d # c /\ payPc'[d] = payPc[d] /\ refund'[d] = refund[d]
             /\ payCopy'[d] = payCopy[d]
             /\ refund[d] # refund[c] /\ refund[d] \in Refunds
             /\ refunds'[refund[d]] = refunds[refund[d]]
  <2>1. d # c /\ payPc'[d] = payPc[d] /\ refund'[d] = refund[d] /\ payCopy'[d] = payCopy[d]
    BY <1>1, <1>3, Named DEF Alone
  <2>2. refund[d] \in Refunds
    BY <1>3, <2>1 DEF TypeInv, WorkInv
  <2>3. refund[d] # refund[c]
    BY <1>2, <1>3, <2>1 DEF BooksInv, OwnInv
  <2>4. QED
    BY <1>1, <2>1, <2>2, <2>3
<1>4. OwnInv'
  <2>1. ASSUME NEW d \in PayCalls, payPc'[d] \in RefundSteps
        PROVE  refunds'[refund'[d]].status # "NONE"
    BY <1>3, <2>1 DEF BooksInv, OwnInv
  <2>2. ASSUME NEW d \in PayCalls, payPc'[d] = "request_save"
        PROVE  /\ refunds'[refund'[d]].status = "NONE"
               /\ \A e \in PayCalls : e # d /\ payPc'[e] = "request_save"
                                     => refund'[e] # refund'[d]
    BY <1>3, <2>2 DEF BooksInv, OwnInv
  <2>3. QED
    BY <2>1, <2>2 DEF OwnInv
<1>5. PaidInv'
  <2>1. ASSUME NEW d \in PayCalls
        PROVE  payCopy'[d].refundedAmount <= paidBack
    <3>1. payCopy'[d] \in {payCopy[d], NoPayment}
      BY <1>1 DEF Alone
    <3>2. paidBack >= 0
      BY DEF TypeInv, PayTypeOK
    <3>3. QED
      BY <3>1, <3>2 DEF BooksInv, PaidInv, NoPayment
  <2>2. ASSUME NEW d \in PayCalls, payPc'[d] \in {"refund_success", "refund_payment"}
        PROVE  /\ payCopy'[d].refundedAmount + refunds'[refund'[d]].amount <= paidBack
               /\ payPc'[d] = "refund_success" => refund'[d] \in paidFor
    BY <1>3, <2>2 DEF RefundSteps, BooksInv, PaidInv
  <2>3. QED
    BY <1>1, <2>1, <2>2 DEF PaidInv
<1>6. RecordedWasReturned' /\ SaidWasDone'
  BY <1>1 DEF BooksInv, RecordedWasReturned, SaidWasDone
<1>7. QED
  BY <1>4, <1>5, <1>6 DEF BooksInv

\* Paymob returns money, or refuses to.
LEMMA CallStep ==
    ASSUME PaymentAssumption, TypeInv, BooksInv, NEW c \in PayCalls, RefundCall(c)
    PROVE  BooksInv'
<1>1. /\ Alone(c) /\ payPc[c] = "refund_call"
      /\ payPc'[c] \in {"refund_success", "refund_failed"}
      /\ refund[c] \in Refunds
      /\ UNCHANGED <<payment, refunds, payLocals>>
      /\ \/ /\ paidBack' = paidBack + refunds[refund[c]].amount
            /\ paidBack' <= Amount
            /\ paidFor' = paidFor \cup {refund[c]}
         \/ UNCHANGED <<paidBack, paidFor>> /\ payPc'[c] = "refund_failed"
  BY CallDoes
<1>2. /\ paidBack \in 0..Amount /\ Amount \in Nat
      /\ refunds[refund[c]].amount \in Nat
      /\ payment.refundedAmount \in Nat
      /\ \A d \in PayCalls : payCopy[d].refundedAmount \in Nat
  BY <1>1 DEF TypeInv, PayTypeOK, RefundRows, Payments, PaymentAssumption
<1>3. paidBack' >= paidBack /\ paidBack' <= Amount /\ paidFor \subseteq paidFor'
      /\ paidBack' \in Nat
  BY <1>1, <1>2
<1>4. OwnInv'
  BY <1>1 DEF BooksInv, OwnInv, Alone, payLocals, RefundSteps
<1>5. PaidInv'
  <2>1. ASSUME NEW d \in PayCalls
        PROVE  payCopy'[d].refundedAmount <= paidBack'
    BY <1>1, <1>2, <1>3 DEF BooksInv, PaidInv, payLocals
  <2>2. ASSUME NEW d \in PayCalls, d # c,
               payPc'[d] \in {"refund_success", "refund_payment"}
        PROVE  /\ payCopy'[d].refundedAmount + refunds'[refund'[d]].amount <= paidBack'
               /\ payPc'[d] = "refund_success" => refund'[d] \in paidFor'
    <3>1. refund[d] \in Refunds /\ payPc[d] = payPc'[d]
      BY <2>2, <1>1 DEF TypeInv, WorkInv, RefundSteps, Alone
    <3>2. refunds[refund[d]].amount \in Nat
      BY <3>1 DEF TypeInv, PayTypeOK, RefundRows
    <3>3. QED
      BY <1>1, <1>2, <1>3, <2>2, <3>1, <3>2 DEF BooksInv, PaidInv, payLocals
  <2>3. payPc'[c] = "refund_success" =>
          /\ payCopy'[c].refundedAmount + refunds'[refund'[c]].amount <= paidBack'
          /\ refund'[c] \in paidFor'
    BY <1>1, <1>2 DEF BooksInv, PaidInv, payLocals
  <2>4. payPc'[c] # "refund_payment"
    BY <1>1
  <2>5. QED
    BY <2>1, <2>2, <2>3, <2>4 DEF PaidInv
<1>6. RecordedWasReturned'
  BY <1>1, <1>2, <1>3 DEF BooksInv, RecordedWasReturned
<1>7. SaidWasDone'
  <2>1. payment.status = "REFUNDED" => paidBack' = Amount
    BY <1>2, <1>3 DEF BooksInv, SaidWasDone
  <2>2. QED
    BY <1>1, <1>3, <2>1 DEF BooksInv, SaidWasDone
<1>8. QED
  BY <1>4, <1>5, <1>6, <1>7 DEF BooksInv

\* The amount recorded has been returned: a payment said to be REFUNDED has
\* been returned in full.
LEMMA RecordStep ==
    ASSUME PaymentAssumption, TypeInv, BooksInv, NEW c \in PayCalls, RefundPayment(c)
    PROVE  BooksInv'
<1>1. /\ Alone(c) /\ payPc[c] = "refund_payment" /\ payPc'[c] = "refund_reread"
      /\ refund[c] \in Refunds
      /\ payment'.refundedAmount =
           payCopy[c].refundedAmount + refunds[refund[c]].amount
      /\ payment'.status \in StatusAfter(c)
      /\ UNCHANGED <<refunds, paidBack, paidFor, payLocals>>
  BY RecordDoes
<1>2. /\ paidBack \in 0..Amount /\ Amount \in Nat
      /\ refunds[refund[c]].amount \in Nat /\ payCopy[c].refundedAmount \in Nat
  BY <1>1 DEF TypeInv, PayTypeOK, RefundRows, Payments, PaymentAssumption
<1>3. payment'.refundedAmount <= paidBack
  BY <1>1 DEF BooksInv, PaidInv
<1>4. payment'.status = "REFUNDED" => paidBack = Amount
  BY <1>1, <1>2, <1>3 DEF StatusAfter, RefundedAmount
<1>5. /\ payCopy'[c].refundedAmount <= paidBack
      /\ refunds[refund'[c]].status # "NONE"
  BY <1>1 DEF BooksInv, PaidInv, OwnInv, RefundSteps, payLocals
<1>6. QED
  BY <1>1, <1>3, <1>4, <1>5, QuietStep

\* as does every step,
LEMMA BooksStep ==
    ASSUME PaymentAssumption, TypeInv, BooksInv, [PayNext]_payVars
    PROVE  BooksInv'
<1>1. /\ paidBack >= 0 /\ NoPayment.refundedAmount = 0
      /\ payment.refundedAmount <= paidBack
      /\ payment.status = "REFUNDED" => paidBack = Amount
      /\ \A c \in PayCalls : payCopy[c].refundedAmount <= paidBack
  BY DEF TypeInv, PayTypeOK, NoPayment, BooksInv, PaidInv, RecordedWasReturned,
         SaidWasDone
<1>2. CASE CustomerPays \/ PayCrash \/ UNCHANGED payVars
  <2>1. UNCHANGED <<payment, refunds, paidBack, paidFor>>
    BY <1>2, CrashDoes
  <2>2. RecordedWasReturned' /\ SaidWasDone'
    BY <2>1 DEF BooksInv, RecordedWasReturned, SaidWasDone
  <2>3. CASE UNCHANGED <<payPc, payLocals>>
    BY <2>1, <2>2, <2>3 DEF BooksInv, OwnInv, PaidInv, payLocals
  <2>4. CASE \A c \in PayCalls : payPc'[c] = "idle" /\ payCopy'[c] = NoPayment
    BY <1>1, <2>1, <2>2, <2>4 DEF BooksInv, OwnInv, PaidInv, RefundSteps
  <2>5. QED
    BY <1>2, <2>3, <2>4, CrashDoes
<1>3. ASSUME NEW c \in PayCalls, Begin(c)
      PROVE  BooksInv'
  <2>1. /\ payCopy'[c].refundedAmount <= paidBack
        /\ payment'.refundedAmount <= paidBack
        /\ payment'.status = "REFUNDED" => paidBack = Amount
    BY <1>1, <1>3, BeginDoes
  <2>2. /\ payPc'[c] \notin {"refund_success", "refund_payment"}
        /\ payPc'[c] \in RefundSteps => refunds[refund'[c]].status # "NONE"
    BY <1>3, BeginDoes DEF RefundSteps
  <2>3. Alone(c)
    BY <1>3, BeginDoes DEF Alone
  <2>4. UNCHANGED <<refunds, paidBack, paidFor>>
    BY <1>3, BeginDoes
  <2>5. payPc'[c] = "request_save" =>
          /\ refunds[refund'[c]].status = "NONE"
          /\ \A d \in PayCalls : d # c /\ payPc[d] = "request_save"
                                => refund[d] # refund'[c]
    BY <1>3, BeginDoes
  <2>6. QED
    BY <2>1, <2>2, <2>3, <2>4, <2>5, QuietStep
<1>4. ASSUME NEW c \in PayCalls, Process(c) \/ HookSave(c) \/ HookLog(c)
      PROVE  BooksInv'
  <2>1. /\ Alone(c) /\ UNCHANGED <<refunds, paidBack, paidFor>>
        /\ payPc'[c] \notin RefundSteps \cup {"request_save"}
    BY <1>4, ProcessDoes
  <2>2. /\ payment'.refundedAmount <= paidBack
        /\ payment'.status = "REFUNDED" => paidBack = Amount
    BY <1>1, <1>4, ProcessDoes
  <2>3. payCopy'[c].refundedAmount <= paidBack
    BY <1>1, <1>4, <2>2, ProcessDoes
  <2>4. payPc'[c] \notin {"refund_success", "refund_payment"}
    BY <2>1 DEF RefundSteps
  <2>5. QED
    BY <2>1, <2>2, <2>3, <2>4, QuietStep
<1>5. ASSUME NEW c \in PayCalls, RefundFind(c)
      PROVE  BooksInv'
  <2>1. refunds[refund[c]].status # "NONE"
    BY <1>5, FindDoes DEF BooksInv, OwnInv, RefundSteps
  <2>2. /\ Alone(c) /\ payCopy'[c] = payment /\ refund'[c] = refund[c]
        /\ payPc'[c] \in {"refund_processing", "refund_failed"}
        /\ UNCHANGED <<payment, refunds, paidBack, paidFor>>
    BY <1>5, FindDoes
  <2>3. QED
    BY <1>1, <2>1, <2>2, QuietStep
<1>6. ASSUME NEW c \in PayCalls, RefundReread(c) \/ PayCallFails(c)
      PROVE  BooksInv'
  <2>1. /\ Alone(c) /\ UNCHANGED <<payment, refunds, paidBack, paidFor>>
        /\ \/ payPc'[c] = "idle" /\ payCopy'[c] = NoPayment
           \/ /\ payPc'[c] = "refund_failed" /\ payPc[c] \in RefundSteps
              /\ UNCHANGED payLocals
           \/ payPc'[c] = "card_failed" /\ UNCHANGED payLocals
    BY <1>6, FailDoes
  <2>2. /\ payCopy'[c].refundedAmount <= paidBack
        /\ payPc'[c] \in RefundSteps => refunds[refund'[c]].status # "NONE"
    BY <1>1, <2>1, Named DEF BooksInv, OwnInv, RefundSteps, payLocals
  <2>3. QED
    BY <1>1, <2>1, <2>2, QuietStep
<1>7. ASSUME NEW c \in PayCalls,
             \/ RejectSave(c) \/ ApproveSave(c) \/ RefundProcessing(c)
             \/ RefundSuccess(c) \/ RefundFailed(c)
      PROVE  BooksInv'
  <2>1. RefundSuccess(c) => payPc[c] = "refund_success"
    BY DEF RefundSuccess
  <2>2. QED
    BY <1>7, <2>1, MarkDoes, MarkStep
<1>8. QED
  BY <1>2, <1>3, <1>4, <1>5, <1>6, <1>7, Kinds, RequestStep, CallStep, RecordStep

\* and they are true in the beginning.
LEMMA InitBooks == ASSUME PaymentAssumption, PayInit PROVE BooksInv
<1>1. OwnInv /\ PaidInv
  BY DEF PayInit, OwnInv, PaidInv, RefundSteps, NoPayment
<1>2. RecordedWasReturned /\ SaidWasDone
  BY DEF PayInit, RecordedWasReturned, SaidWasDone, NoPayment
<1>3. QED
  BY <1>1, <1>2 DEF BooksInv

\* However handlers overlap and fail, the payment records no refund that
\* Paymob has not made, one said to be REFUNDED has been returned in full, and
\* a refund said to be a SUCCESS has been paid (processRefundWithPaymob,
\* handleWebhookUpdate).
THEOREM NothingIsInvented ==
    ASSUME PaymentAssumption
    PROVE  PaySpec => []BooksAreTrue
<1>1. PayInit => TypeInv /\ BooksInv
  BY InitTypes, InitBooks
<1>2. TypeInv /\ BooksInv /\ [PayNext]_payVars => (TypeInv /\ BooksInv)'
  BY StepTypes, BooksStep
<1>3. BooksInv => BooksAreTrue
  BY DEF BooksInv, BooksAreTrue
<1>4. QED
  BY <1>1, <1>2, <1>3, PTL DEF PaySpec

-----------------------------------------------------------------------------
(* As long as handlers do not overlap, whatever fails.                     *)

OneAtWork ==
    \A c \in PayCalls, d \in PayCalls : payPc[c] # "idle" /\ payPc[d] # "idle" => c = d

\* The copy that a handler will use is up to date.
FreshInv ==
    \A c \in PayCalls :
        payPc[c] \in CopySteps => payCopy[c].refundedAmount = payment.refundedAmount

\* A paid refund has left the statuses that can still be decided on.
StageInv ==
    /\ \A r \in paidFor :
          refunds[r].status \in {"PROCESSING", "SUCCESS", "FAILED"}
    /\ \A c \in PayCalls :
          /\ payPc[c] \in {"approve_save", "reject_save"} =>
               refunds[refund[c]].status = "PENDING"
          /\ payPc[c] = "refund_call" => refunds[refund[c]].status = "PROCESSING"

AloneInv == OneAtWork /\ FreshInv /\ StageInv

\* A handler arrives only when no other is at work.
LEMMA ArrivesAlone ==
    ASSUME PaymentAssumption, MaxPayCalls <= 1, NEW c \in PayCalls, Begin(c)
    PROVE  \A d \in PayCalls : payPc[d] = "idle"
<1> DEFINE Busy == {d \in PayCalls : payPc[d] # "idle"}
<1>1. IsFiniteSet(Busy)
  BY FS_Subset DEF PaymentAssumption
<1>2. Cardinality(Busy) < MaxPayCalls
  BY DEF Begin, CreatePayment, BeginWebhook, BeginRequest, BeginDecision, PayArrives
<1>3. Cardinality(Busy) = 0
  <2>1. Cardinality(Busy) \in Nat /\ MaxPayCalls \in Nat
    BY <1>1, FS_CardinalityType DEF PaymentAssumption
  <2> HIDE DEF Busy
  <2>2. QED
    BY <1>2, <2>1
<1>4. Busy = {}
  BY <1>1, <1>3, FS_EmptySet
<1>5. QED
  BY <1>4

\* What a step of one handler must do to keep the invariant: the others are
\* idle, and stay so.
LEMMA LoneStep ==
    ASSUME TypeInv, NEW c \in PayCalls, Alone(c),
           \A d \in PayCalls : d # c => payPc[d] = "idle",
           payPc'[c] \in CopySteps =>
             payCopy'[c].refundedAmount = payment'.refundedAmount,
           \A r \in paidFor' :
             refunds'[r].status \in {"PROCESSING", "SUCCESS", "FAILED"},
           payPc'[c] \in {"approve_save", "reject_save"} =>
             refunds'[refund'[c]].status = "PENDING",
           payPc'[c] = "refund_call" => refunds'[refund'[c]].status = "PROCESSING"
    PROVE  AloneInv'
<1>1. \A d \in PayCalls : d # c => payPc'[d] = "idle"
  BY DEF Alone
<1>2. "idle" \notin CopySteps
  BY DEF CopySteps
<1>3. OneAtWork' /\ FreshInv'
  BY <1>1, <1>2 DEF OneAtWork, FreshInv
<1>4. StageInv'
  BY <1>1 DEF StageInv
<1>5. QED
  BY <1>3, <1>4 DEF AloneInv

\* What the steps must say to be steps of RefundAccount.
LEMMA AccountStep ==
    ASSUME PaymentAssumption, TypeInv, TypeInv', RecordedWasReturned',
           \/ /\ paidBack' >= paidBack
              /\ payment'.refundedAmount = payment.refundedAmount
           \/ /\ paidBack' = paidBack
              /\ payment'.refundedAmount >= payment.refundedAmount
    PROVE  [Account!Return \/ Account!Record]_(Account!accountVars)
<1>1. /\ payment.refundedAmount \in Nat /\ payment'.refundedAmount \in Nat
      /\ paidBack \in 0..Amount /\ paidBack' \in 0..Amount /\ Amount \in Nat
  BY DEF TypeInv, PayTypeOK, Payments, PaymentAssumption
<1>2. payment'.refundedAmount <= paidBack'
  BY DEF RecordedWasReturned
<1>3. QED
  BY <1>1, <1>2 DEF Account!Return, Account!Record, Account!accountVars

\* A handler that is alone has a copy that is up to date wherever it saves
\* it; and every step either leaves Paymob's account or raises it.
LEMMA AloneStep ==
    ASSUME PaymentAssumption, MaxPayCalls <= 1, TypeInv, BooksInv, AloneInv,
           [PayNext]_payVars
    PROVE  /\ AloneInv'
           /\ \/ /\ paidBack' >= paidBack
                 /\ payment'.refundedAmount = payment.refundedAmount
              \/ /\ paidBack' = paidBack
                 /\ payment'.refundedAmount >= payment.refundedAmount
<1> DEFINE Moves == \/ /\ paidBack' >= paidBack
                       /\ payment'.refundedAmount = payment.refundedAmount
                    \/ /\ paidBack' = paidBack
                       /\ payment'.refundedAmount >= payment.refundedAmount
<1>1. /\ paidBack \in Nat /\ payment.refundedAmount \in Nat
      /\ \A r \in paidFor : /\ r \in Refunds
                            /\ refunds[r].status \in {"PROCESSING", "SUCCESS", "FAILED"}
  BY DEF TypeInv, PayTypeOK, AloneInv, StageInv, Payments
<1>2. CASE CustomerPays \/ PayCrash \/ UNCHANGED payVars
  <2>1. UNCHANGED <<payment, refunds, paidBack, paidFor>>
    BY <1>2, CrashDoes
  <2>2. CASE UNCHANGED <<payPc, payLocals>>
    BY <1>1, <2>1, <2>2 DEF AloneInv, OneAtWork, FreshInv, StageInv, payLocals
  <2>3. CASE \A c \in PayCalls : payPc'[c] = "idle" /\ payCopy'[c] = NoPayment
    <3>1. StageInv' /\ OneAtWork' /\ FreshInv'
      BY <2>1, <2>3 DEF AloneInv, OneAtWork, FreshInv, StageInv, CopySteps
    <3>2. QED
      BY <1>1, <2>1, <3>1 DEF AloneInv
  <2>4. QED
    BY <1>2, <2>2, <2>3, CrashDoes
<1>3. ASSUME NEW c \in PayCalls, payPc[c] # "idle"
      PROVE  \A d \in PayCalls : d # c => payPc[d] = "idle"
  BY <1>3 DEF AloneInv, OneAtWork
<1>4. ASSUME NEW c \in PayCalls, Begin(c)
      PROVE  AloneInv' /\ Moves
  <2>1. \A d \in PayCalls : d # c => payPc[d] = "idle"
    BY <1>4, ArrivesAlone
  <2>2. Alone(c) /\ UNCHANGED <<refunds, paidBack, paidFor>>
    BY <1>4, BeginDoes DEF Alone
  <2>3. payment'.refundedAmount = payment.refundedAmount
    BY <1>4, BeginDoes
  <2>4. payPc'[c] \in CopySteps => payCopy'[c].refundedAmount = payment'.refundedAmount
    BY <1>4, <2>3, BeginDoes DEF CopySteps
  <2>5. /\ payPc'[c] \in {"approve_save", "reject_save"} =>
             refunds[refund'[c]].status = "PENDING"
        /\ payPc'[c] # "refund_call"
    BY <1>4, BeginDoes
  <2>6. QED
    BY <1>1, <2>1, <2>2, <2>3, <2>4, <2>5, LoneStep
<1>5. ASSUME NEW c \in PayCalls, Process(c) \/ HookSave(c) \/ HookLog(c)
      PROVE  AloneInv' /\ Moves
  <2>1. /\ Alone(c) /\ UNCHANGED <<refunds, paidBack, paidFor>>
        /\ payPc[c] # "idle" /\ payPc'[c] \notin RefundSteps \cup {"request_save"}
    BY <1>5, ProcessDoes
  <2>2. payPc[c] \in CopySteps => payCopy[c].refundedAmount = payment.refundedAmount
    BY DEF AloneInv, FreshInv
  <2>3. payment'.refundedAmount = payment.refundedAmount
    BY <1>5, <2>2, ProcessDoes
  <2>4. payPc'[c] \in CopySteps => payCopy'[c].refundedAmount = payment'.refundedAmount
    BY <1>5, <2>2, <2>3, ProcessDoes
  <2>5. payPc'[c] \notin {"approve_save", "reject_save", "refund_call"}
    BY <2>1 DEF RefundSteps
  <2>6. QED
    BY <1>1, <1>3, <2>1, <2>3, <2>4, <2>5, LoneStep
<1>6. ASSUME NEW c \in PayCalls, RefundFind(c)
      PROVE  AloneInv' /\ Moves
  <2>1. /\ Alone(c) /\ payCopy'[c] = payment /\ payPc[c] # "idle"
        /\ payPc'[c] \in {"refund_processing", "refund_failed"}
        /\ UNCHANGED <<payment, refunds, paidBack, paidFor>>
    BY <1>6, FindDoes
  <2>2. QED
    BY <1>1, <1>3, <2>1, LoneStep
<1>7. ASSUME NEW c \in PayCalls, RefundReread(c) \/ PayCallFails(c)
      PROVE  AloneInv' /\ Moves
  <2>1. /\ Alone(c) /\ UNCHANGED <<payment, refunds, paidBack, paidFor>>
        /\ payPc[c] # "idle"
        /\ \/ payPc'[c] = "idle"
           \/ payPc'[c] = "refund_failed"
           \/ payPc'[c] = "card_failed" /\ payPc[c] \in CopySteps /\ UNCHANGED payLocals
    BY <1>7, FailDoes
  <2>2. payPc'[c] \in CopySteps => payCopy'[c].refundedAmount = payment'.refundedAmount
    BY <2>1 DEF AloneInv, FreshInv, CopySteps, payLocals
  <2>3. QED
    BY <1>1, <1>3, <2>1, <2>2, LoneStep
<1>8. ASSUME NEW c \in PayCalls, RequestSave(c)
      PROVE  AloneInv' /\ Moves
  <2>1. /\ Alone(c) /\ payPc[c] = "request_save" /\ payPc'[c] = "idle"
        /\ \A r \in Refunds : r # refund[c] => refunds'[r] = refunds[r]
        /\ UNCHANGED <<payment, paidBack, paidFor>>
    BY <1>8, RequestDoes
  <2>2. refund[c] \notin paidFor
    BY <1>1, <2>1 DEF BooksInv, OwnInv
  <2>3. \A r \in paidFor : refunds'[r] = refunds[r]
    BY <1>1, <2>1, <2>2
  <2>4. "idle" \notin CopySteps
    BY DEF CopySteps
  <2>5. QED
    BY <1>1, <1>3, <2>1, <2>3, <2>4, LoneStep
<1>9. ASSUME NEW c \in PayCalls, NEW s, NEW step, Alone(c), Marks(c, s, step),
             \/ /\ payPc[c] \in {"approve_save", "reject_save"}
                /\ step \in {"idle", "refund_find"}
             \/ /\ s \in {"PROCESSING", "SUCCESS", "FAILED"}
                /\ step \in {"idle", "refund_call", "refund_payment"}
                /\ step # "idle" => payPc[c] \in CopySteps /\ UNCHANGED payLocals
                /\ step = "refund_call" => s = "PROCESSING"
      PROVE  AloneInv' /\ Moves
  <2>1. /\ refund[c] \in Refunds /\ refunds'[refund[c]].status = s
        /\ \A r \in Refunds : r # refund[c] => refunds'[r] = refunds[r]
        /\ UNCHANGED <<payment, paidBack, paidFor>>
        /\ payPc[c] \in RefundSteps /\ payPc'[c] = step
    BY <1>9 DEF Marks
  <2>2. payPc[c] \in {"approve_save", "reject_save"} => refund[c] \notin paidFor
    BY <1>1 DEF AloneInv, StageInv
  <2>3. \A r \in paidFor :
          refunds'[r].status \in {"PROCESSING", "SUCCESS", "FAILED"}
    BY <1>1, <1>9, <2>1, <2>2
  <2>4. step \in CopySteps => payCopy'[c].refundedAmount = payment'.refundedAmount
    BY <1>9, <2>1 DEF AloneInv, FreshInv, CopySteps, payLocals
  <2>5. step = "refund_call" => refunds'[refund'[c]].status = "PROCESSING"
    BY <1>9, <2>1 DEF payLocals
  <2>6. payPc[c] # "idle"
    BY <2>1, Named
  <2>7. step \notin {"approve_save", "reject_save"}
    BY <1>9
  <2>8. QED
    BY <1>1, <1>3, <1>9, <2>1, <2>3, <2>4, <2>5, <2>6, <2>7, LoneStep
<1>10. ASSUME NEW c \in PayCalls,
              \/ RejectSave(c) \/ ApproveSave(c) \/ RefundProcessing(c)
              \/ RefundSuccess(c) \/ RefundFailed(c)
       PROVE  AloneInv' /\ Moves
  <2>1. CASE RejectSave(c) \/ ApproveSave(c)
    <3>1. payPc[c] \in {"approve_save", "reject_save"}
      BY <2>1 DEF RejectSave, ApproveSave
    <3>2. QED
      BY <1>9, <2>1, <3>1, MarkDoes
  <2>2. CASE RefundProcessing(c) \/ RefundSuccess(c) \/ RefundFailed(c)
    <3>1. RefundProcessing(c) \/ RefundSuccess(c) => payPc[c] \in CopySteps
      BY DEF RefundProcessing, RefundSuccess, CopySteps
    <3>2. QED
      BY <1>9, <2>2, <3>1, MarkDoes
  <2>3. QED
    BY <1>10, <2>1, <2>2
<1>11. ASSUME NEW c \in PayCalls, RefundCall(c)
       PROVE  AloneInv' /\ Moves
  <2>1. /\ Alone(c) /\ payPc[c] = "refund_call" /\ refund[c] \in Refunds
        /\ payPc'[c] \in {"refund_success", "refund_failed"}
        /\ UNCHANGED <<payment, refunds, payLocals>>
        /\ paidFor' \subseteq paidFor \cup {refund[c]}
    BY <1>11, CallDoes
  <2>2. paidBack' >= paidBack
    <3>1. refunds[refund[c]].amount \in Nat
      BY <2>1 DEF TypeInv, PayTypeOK, RefundRows
    <3>2. QED
      BY <1>1, <1>11, <3>1, CallDoes
  <2>3. refunds[refund[c]].status = "PROCESSING"
    BY <2>1 DEF AloneInv, StageInv
  <2>4. \A r \in paidFor' :
          refunds'[r].status \in {"PROCESSING", "SUCCESS", "FAILED"}
    BY <1>1, <2>1, <2>3
  <2>5. payCopy'[c].refundedAmount = payment'.refundedAmount
    BY <2>1 DEF AloneInv, FreshInv, CopySteps, payLocals
  <2>6. QED
    BY <1>1, <1>3, <2>1, <2>2, <2>4, <2>5, LoneStep
<1>12. ASSUME NEW c \in PayCalls, RefundPayment(c)
       PROVE  AloneInv' /\ Moves
  <2>1. /\ Alone(c) /\ payPc[c] = "refund_payment" /\ payPc'[c] = "refund_reread"
        /\ refund[c] \in Refunds
        /\ payment'.refundedAmount =
             payCopy[c].refundedAmount + refunds[refund[c]].amount
        /\ UNCHANGED <<refunds, paidBack, paidFor>>
    BY <1>12, RecordDoes
  <2>2. payment'.refundedAmount >= payment.refundedAmount
    <3>1. refunds[refund[c]].amount \in Nat
      BY <2>1 DEF TypeInv, PayTypeOK, RefundRows
    <3>2. payCopy[c].refundedAmount = payment.refundedAmount
      BY <2>1 DEF AloneInv, FreshInv, CopySteps
    <3>3. QED
      BY <1>1, <2>1, <3>1, <3>2
  <2>3. "refund_reread" \notin CopySteps
    BY DEF CopySteps
  <2>4. QED
    BY <1>1, <1>3, <2>1, <2>2, <2>3, LoneStep
<1>13. QED
  BY <1>2, <1>4, <1>5, <1>6, <1>7, <1>8, <1>10, <1>11, <1>12, Kinds

\* No handler is at work in the beginning.
LEMMA InitAlone == ASSUME PaymentAssumption, PayInit PROVE AloneInv
BY DEF PayInit, AloneInv, OneAtWork, FreshInv, StageInv, CopySteps

\* Handlers that do not overlap implement RefundAccount: whatever fails, the
\* payment's refundedAmount never shrinks and never passes what Paymob has
\* returned (processRefundWithPaymob, handleWebhookUpdate).
THEOREM LoneHandlersKeepAccount ==
    ASSUME PaymentAssumption, MaxPayCalls <= 1
    PROVE  PaySpec => KeepsAccount
<1> DEFINE Inv == TypeInv /\ BooksInv /\ AloneInv
<1>1. PayInit => Inv
  BY InitTypes, InitBooks, InitAlone
<1>2. Inv /\ [PayNext]_payVars => Inv'
  BY StepTypes, BooksStep, AloneStep
<1>3. PayInit => Account!AccountInit
  BY DEF PayInit, NoPayment, Account!AccountInit
<1>4. Inv /\ [PayNext]_payVars
        => [Account!Return \/ Account!Record]_(Account!accountVars)
  <2> SUFFICES ASSUME Inv, [PayNext]_payVars
               PROVE  [Account!Return \/ Account!Record]_(Account!accountVars)
    OBVIOUS
  <2>1. TypeInv' /\ RecordedWasReturned'
    BY StepTypes, BooksStep DEF BooksInv
  <2>2. QED
    BY <2>1, AloneStep, AccountStep
<1>5. QED
  BY <1>1, <1>2, <1>3, <1>4, PTL DEF PaySpec, KeepsAccount, Account!AccountSpec

\* Handlers that do not overlap never reject a refund that was paid, whatever
\* fails (rejectRefund, processRefundWithPaymob).
THEOREM PaidIsNotRejected ==
    ASSUME PaymentAssumption, MaxPayCalls <= 1
    PROVE  PaySpec => []RejectedIsNotPaid
<1> DEFINE Inv == TypeInv /\ BooksInv /\ AloneInv
<1>1. PayInit => Inv
  BY InitTypes, InitBooks, InitAlone
<1>2. Inv /\ [PayNext]_payVars => Inv'
  BY StepTypes, BooksStep, AloneStep
<1>3. Inv => RejectedIsNotPaid
  BY DEF AloneInv, StageInv, RejectedIsNotPaid
<1>4. QED
  BY <1>1, <1>2, <1>3, PTL DEF PaySpec

-----------------------------------------------------------------------------
(* As long as handlers do not overlap, webhooks come once and in order, and *)
(* nothing has failed: the books balance.  The ledger says where the       *)
(* handler at work has left them unbalanced, statement by statement.       *)

ProcessSteps ==
    {"create_log", "process_find", "cash_save", "cash_log", "card_call",
     "card_save", "card_log"}
LogSteps == {"create_log", "cash_log", "card_log", "hook_log"}

\* Paymob only speaks of a payment whose iframe was handed out.
HooksLedger(step) ==
    /\ webhooks.handled \subseteq webhooks.sent
    /\ webhooks.sent # {} => "PROCESSING" \in logged
    /\ "PROCESSING" \in logged => /\ paymentType = "CARD" /\ payment.status # "NONE"
                                  /\ step \notin ProcessSteps
    /\ step \in {"cash_save", "cash_log"} => paymentType = "CASH"
    /\ step \in {"card_call", "card_save", "card_log"} => paymentType = "CARD"
    /\ step \notin {"card_failed", "card_failed_log"}

NothingRefunded == paidBack = 0 /\ \A r \in Refunds : refunds[r].status = "NONE"

\* Nothing is refunded before the success of the payment is known.
SuccessLedger(step) ==
    /\ "success" \in webhooks.handled =>
         /\ step # "hook_failed"
         /\ step = "hook_success" => NothingRefunded
    /\ "success" \notin webhooks.handled =>
         /\ NothingRefunded
         /\ paymentType = "CARD" => payment.status # "SUCCESS"
         /\ step \notin RefundSteps \cup {"request_save", "hook_success"}

Succeeded == {s \in Refunds : refunds[s].status = "SUCCESS"}

\* Between Paymob's answer and the end of a refund r, what was returned is
\* one refund ahead of the payment, and for one statement of the refunds.
MoneyLedger(step, r) ==
    /\ \A s \in Refunds : refunds[s].status # "NONE" => refunds[s].amount > 0
    /\ step \notin {"refund_success", "refund_payment"} =>
         paidBack = payment.refundedAmount
    /\ step \in {"refund_success", "refund_payment"} =>
         paidBack = payment.refundedAmount + refunds[r].amount
    /\ step \notin {"refund_success", "refund_payment"} /\ paidBack > 0 => paidFor # {}
    /\ step \in {"refund_success", "refund_payment"} =>
         /\ r \in paidFor
         /\ payment.refundedAmount > 0 => paidFor # {r}
    /\ step # "refund_success" => paidFor = Succeeded
    /\ step = "refund_success" => paidFor = Succeeded \cup {r}
    /\ step \in RefundSteps => refunds[r].status # "NONE"
    /\ step \in RefundSteps \ {"refund_payment", "refund_reread"} =>
         refunds[r].status # "SUCCESS"

\* A status is written before its log.
StatusLedger(step, copy) ==
    /\ "success" \in webhooks.handled
         /\ step \notin {"hook_success", "refund_success", "refund_payment"}
         => payment.status \in StatusOfReturned
    /\ step = "create_log" => payment.status = "PENDING"
    /\ step = "card_log" => payment.status = "PROCESSING"
    /\ step = "cash_log" => payment.status = "SUCCESS"
    /\ step = "hook_log" => /\ payment.status = copy.status
                            /\ payment.status \in {"SUCCESS", "FAILED"}
    /\ step \notin LogSteps
         /\ payment.status \in {"PENDING", "PROCESSING", "SUCCESS", "FAILED"}
         => payment.status \in logged

\* The books beside a handler before its statement step, on refund r, with
\* that copy of the payment; "idle" if no handler is at work.
Ledger(step, r, copy) ==
    /\ HooksLedger(step) /\ SuccessLedger(step)
    /\ MoneyLedger(step, r) /\ StatusLedger(step, copy)

LedgerInv ==
    payFaults = 0 =>
        /\ \A c \in PayCalls :
              payPc[c] # "idle" => Ledger(payPc[c], refund[c], payCopy[c])
        /\ (\A c \in PayCalls : payPc[c] = "idle") =>
              Ledger("idle", NoRefund, NoPayment)

\* Without a handler at work, no refund and no copy matter.
LEMMA IdleLedger ==
    ASSUME NEW r, NEW copy
    PROVE  Ledger("idle", r, copy) <=> Ledger("idle", NoRefund, NoPayment)
BY DEF Ledger, MoneyLedger, StatusLedger, RefundSteps, LogSteps

\* The same after a step that ends a handler.
LEMMA IdleLedgerNext ==
    ASSUME NEW c \in PayCalls, payPc'[c] = "idle",
           Ledger(payPc[c], refund[c], payCopy[c])'
    PROVE  Ledger("idle", NoRefund, NoPayment)'
BY DEF Ledger, HooksLedger, SuccessLedger, MoneyLedger, StatusLedger, Succeeded,
       NothingRefunded, RefundSteps, LogSteps, ProcessSteps

\* A step of the only handler at work.
LEMMA LedgerKept ==
    ASSUME NEW c \in PayCalls, Alone(c), \A d \in PayCalls : d # c => payPc[d] = "idle",
           payFaults' = 0 => Ledger(payPc[c], refund[c], payCopy[c])'
    PROVE  LedgerInv'
<1> SUFFICES ASSUME payFaults' = 0
             PROVE  /\ \A d \in PayCalls :
                          payPc'[d] # "idle" => Ledger(payPc[d], refund[d], payCopy[d])'
                    /\ (\A d \in PayCalls : payPc'[d] = "idle") =>
                          Ledger("idle", NoRefund, NoPayment)'
  BY DEF LedgerInv
<1>1. \A d \in PayCalls : d # c => payPc'[d] = "idle"
  BY DEF Alone
<1>2. \A d \in PayCalls :
         payPc'[d] # "idle" => Ledger(payPc[d], refund[d], payCopy[d])'
  BY <1>1
<1>3. QED
  BY <1>2, IdleLedgerNext

\* The statements on the payment and the webhooks leave refunds and money
\* alone.
LEMMA MoneyKept ==
    ASSUME NEW step, NEW r, MoneyLedger(step, r), NEW c \in PayCalls,
           UNCHANGED <<refunds, paidBack, paidFor>>,
           payment'.refundedAmount = payment.refundedAmount,
           step \notin {"refund_success", "refund_payment"},
           payPc'[c] \notin {"refund_success", "refund_payment"},
           payPc'[c] \in RefundSteps => /\ refunds[refund'[c]].status # "NONE"
                                        /\ payPc'[c] # "refund_reread" =>
                                             refunds[refund'[c]].status # "SUCCESS"
    PROVE  MoneyLedger(payPc[c], refund[c])'
BY DEF MoneyLedger, Succeeded

\* A handler that arrives finds the books balanced,
LEMMA ArrivingLedger ==
    ASSUME PaymentAssumption, InOrder, TypeInv, NEW c \in PayCalls, Begin(c),
           Ledger("idle", NoRefund, NoPayment)
    PROVE  Ledger(payPc[c], refund[c], payCopy[c])'
<1> USE DEF Ledger
<1>1. /\ UNCHANGED <<refunds, paidBack, paidFor>>
      /\ payment'.refundedAmount = payment.refundedAmount
      /\ payPc'[c] \in {"create_log", "hook_success", "hook_failed",
                        "request_save", "approve_save", "reject_save"}
      /\ payPc'[c] \in {"approve_save", "reject_save"} =>
           refunds[refund'[c]].status = "PENDING"
  BY BeginDoes
<1>2. MoneyLedger(payPc[c], refund[c])'
  BY <1>1, MoneyKept DEF RefundSteps
<1>3. CASE CreatePayment(c)
  <2>1. /\ payPc'[c] = "create_log" /\ payment.status = "NONE"
        /\ payment'.status = "PENDING"
        /\ UNCHANGED <<paymentType, logged, webhooks, refunds, paidBack>>
    BY <1>3 DEF CreatePayment, PayArrives, PayGoto, TypeInv, PayTypeOK, Payments, external
  <2>2. HooksLedger(payPc[c])' /\ "success" \notin webhooks.handled
    BY <2>1 DEF HooksLedger
  <2>3. SuccessLedger(payPc[c])'
    BY <2>1, <2>2 DEF SuccessLedger, NothingRefunded, RefundSteps
  <2>4. StatusLedger(payPc[c], payCopy[c])'
    BY <2>1, <2>2 DEF StatusLedger, StatusOfReturned, LogSteps
  <2>5. QED
    BY <1>2, <2>2, <2>3, <2>4
<1>4. ASSUME NEW hook \in webhooks.sent, BeginWebhook(c, hook)
      PROVE  Ledger(payPc[c], refund[c], payCopy[c])'
  <2>1. /\ payPc'[c] = IF hook = "success" THEN "hook_success" ELSE "hook_failed"
        /\ hook \in {"success", "failed"}
        /\ hook \notin webhooks.handled
        /\ hook = "failed" => "success" \notin webhooks.handled
        /\ webhooks'.sent = webhooks.sent
        /\ webhooks'.handled = webhooks.handled \cup {hook}
        /\ UNCHANGED <<paymentType, payment, logged, refunds, paidBack>>
    BY <1>4 DEF BeginWebhook, HookDeliverable, PayArrives, PayGoto, TypeInv, PayTypeOK
  <2>2. HooksLedger(payPc[c])'
    BY <2>1 DEF HooksLedger, ProcessSteps
  <2>3. SuccessLedger(payPc[c])'
    BY <2>1 DEF SuccessLedger, NothingRefunded, RefundSteps
  <2>4. StatusLedger(payPc[c], payCopy[c])'
    BY <2>1 DEF StatusLedger, StatusOfReturned, LogSteps
  <2>5. QED
    BY <1>2, <2>2, <2>3, <2>4
<1>5. ASSUME NEW r \in Refunds, NEW step \in {"approve_save", "reject_save"},
             BeginRequest(c, r) \/ BeginDecision(c, r, step)
      PROVE  Ledger(payPc[c], refund[c], payCopy[c])'
  <2>1. /\ payPc'[c] \in {"request_save", "approve_save", "reject_save"}
        /\ \/ paymentType = "CARD" /\ payment.status = "SUCCESS"
           \/ refunds[r].status = "PENDING"
        /\ UNCHANGED <<paymentType, payment, logged, webhooks, refunds, paidBack, paidFor>>
    BY <1>5 DEF BeginRequest, BeginDecision, PayArrives, PayGoto, TypeInv, PayTypeOK, external
  <2>2. "success" \in webhooks.handled
    BY <2>1 DEF SuccessLedger, NothingRefunded
  <2>3. HooksLedger(payPc[c])'
    BY <2>1 DEF HooksLedger, ProcessSteps
  <2>4. SuccessLedger(payPc[c])'
    BY <2>1, <2>2 DEF SuccessLedger
  <2>5. StatusLedger(payPc[c], payCopy[c])'
    BY <2>1 DEF StatusLedger, StatusOfReturned, LogSteps
  <2>6. QED
    BY <1>2, <2>3, <2>4, <2>5
<1>6. QED
  BY <1>3, <1>4, <1>5 DEF Begin

\* one about the payment keeps them,
LEMMA ProcessLedger ==
    ASSUME TypeInv, NEW c \in PayCalls, Process(c) \/ HookSave(c) \/ HookLog(c),
           Ledger(payPc[c], refund[c], payCopy[c]),
           payPc[c] \in CopySteps => payCopy[c].refundedAmount = payment.refundedAmount
    PROVE  Ledger(payPc[c], refund[c], payCopy[c])'
<1> USE DEF Ledger
<1>1. /\ UNCHANGED <<refunds, paidBack, paidFor>>
      /\ payPc'[c] \notin RefundSteps \cup {"request_save"}
      /\ payment'.refundedAmount = payment.refundedAmount
  BY ProcessDoes
<1>2. payPc[c] \notin {"refund_success", "refund_payment"}
  BY DEF Process, CreateLog, FindToProcess, CashSave, CardCall, CardSave, CardFailed,
         ProcessLog, HookSave, HookLog
<1>3. MoneyLedger(payPc[c], refund[c])'
  BY <1>1, <1>2, MoneyKept DEF RefundSteps
<1>4. UNCHANGED <<paymentType, webhooks>>
  BY DEF Process, CreateLog, FindToProcess, CashSave, CardCall, CardSave, CardFailed,
         ProcessLog, HookSave, HookLog, external
<1>5. payCopy[c] \in Payments /\ payPc \in [PayCalls -> PaySteps]
      /\ payCopy \in [PayCalls -> Payments]
  BY DEF TypeInv, PayTypeOK
<1>6. CASE CreateLog(c)
  <2>1. /\ payPc[c] = "create_log" /\ payPc'[c] = "process_find"
        /\ payment' = payment /\ logged' = logged \cup {"PENDING"}
    BY <1>5, <1>6 DEF CreateLog, PayGoto, Log
  <2>2. QED
    BY <1>1, <1>3, <1>4, <2>1 DEF HooksLedger, SuccessLedger, StatusLedger, NothingRefunded,
       ProcessSteps, RefundSteps, LogSteps
<1>7. CASE FindToProcess(c) \/ CardCall(c)
  <2>1. /\ payPc[c] \in {"process_find", "card_call"}
        /\ \/ payPc'[c] = "cash_save" /\ paymentType = "CASH"
           \/ payPc'[c] \in {"card_call", "card_save"} /\ paymentType = "CARD"
        /\ payment' = payment /\ logged' = logged
    BY <1>5, <1>7 DEF FindToProcess, CardCall, PayGoto, HooksLedger, TypeInv, PayTypeOK
  <2>2. QED
    BY <1>1, <1>3, <1>4, <2>1 DEF HooksLedger, SuccessLedger, StatusLedger, NothingRefunded,
       ProcessSteps, RefundSteps, LogSteps
<1>8. CASE CashSave(c) \/ CardSave(c)
  <2>1. /\ \/ payPc[c] = "cash_save" /\ payPc'[c] = "cash_log" /\ payment'.status = "SUCCESS"
           \/ payPc[c] = "card_save" /\ payPc'[c] = "card_log" /\ payment'.status = "PROCESSING"
        /\ logged' = logged
    BY <1>5, <1>8 DEF CashSave, CardSave, SavePayment, PayGoto, Payments
  <2>2. QED
    BY <1>1, <1>3, <1>4, <2>1 DEF HooksLedger, SuccessLedger, StatusLedger, NothingRefunded,
       ProcessSteps, RefundSteps, LogSteps
<1>9. CASE ProcessLog(c)
  <2>1. /\ \/ payPc[c] = "cash_log" /\ logged' = logged \cup {"SUCCESS"}
           \/ payPc[c] = "card_log" /\ logged' = logged \cup {"PROCESSING"}
        /\ payPc'[c] = "idle" /\ payment' = payment
    BY <1>5, <1>9 DEF ProcessLog, PayReturn, PayGoto, Log, HooksLedger
  <2>2. QED
    BY <1>1, <1>3, <1>4, <2>1 DEF HooksLedger, SuccessLedger, StatusLedger, NothingRefunded,
       ProcessSteps, RefundSteps, LogSteps
<1>10. CASE HookSave(c)
  <2>1. /\ \/ payPc[c] = "hook_success" /\ payment'.status = "SUCCESS"
           \/ payPc[c] = "hook_failed" /\ payment'.status = "FAILED"
        /\ payPc'[c] = "hook_log" /\ payCopy'[c] = payment' /\ logged' = logged
    BY <1>5, <1>10 DEF HookSave, SavePayment, PayGoto, Payments
  <2>2. StatusOfReturned' = StatusOfReturned
    BY <1>1 DEF StatusOfReturned
  <2>3. payPc[c] = "hook_success" => paidBack = 0 /\ StatusOfReturned = {"SUCCESS"}
    BY DEF SuccessLedger, MoneyLedger, NothingRefunded, StatusOfReturned
  <2>4. QED
    BY <1>1, <1>3, <1>4, <2>1, <2>2, <2>3
       DEF HooksLedger, SuccessLedger, StatusLedger, NothingRefunded,
       ProcessSteps, RefundSteps, LogSteps
<1>11. CASE HookLog(c)
  <2>1. /\ payPc[c] = "hook_log" /\ payPc'[c] = "idle" /\ payment' = payment
        /\ logged' = logged \cup {payCopy[c].status}
    BY <1>5, <1>11 DEF HookLog, PayReturn, PayGoto, Log
  <2>2. StatusOfReturned' = StatusOfReturned
    BY <1>1 DEF StatusOfReturned
  <2>3. QED
    BY <1>1, <1>3, <1>4, <2>1, <2>2 DEF HooksLedger, SuccessLedger, StatusLedger, NothingRefunded,
       ProcessSteps, RefundSteps, LogSteps
<1>12. CASE CardFailed(c)
  BY <1>12 DEF CardFailed, HooksLedger
<1>13. QED
  BY <1>6, <1>7, <1>8, <1>9, <1>10, <1>11, <1>12 DEF Process

\* The steps on a refund leave the payment's own story alone.
LEMMA StoryKept ==
    ASSUME NEW c \in PayCalls, HooksLedger(payPc[c]), SuccessLedger(payPc[c]),
           payPc[c] \in RefundSteps \cup {"request_save"},
           payPc'[c] \in RefundSteps \cup {"idle"},
           payment'.status # "NONE" \/ UNCHANGED payment,
           UNCHANGED <<paymentType, logged, webhooks>>
    PROVE  HooksLedger(payPc[c])' /\ SuccessLedger(payPc[c])'
           /\ "success" \in webhooks.handled
BY DEF HooksLedger, SuccessLedger, RefundSteps, ProcessSteps

\* as do a refund that is requested,
LEMMA RequestLedger ==
    ASSUME PaymentAssumption, TypeInv, NEW c \in PayCalls, RequestSave(c),
           Ledger(payPc[c], refund[c], payCopy[c]), refund[c] \notin paidFor
    PROVE  Ledger(payPc[c], refund[c], payCopy[c])'
<1> USE DEF Ledger
<1>1. /\ payPc[c] = "request_save" /\ payPc'[c] = "idle"
      /\ refund[c] \in Refunds /\ refunds'[refund[c]].status = "PENDING"
      /\ \A r \in Refunds : r # refund[c] => refunds'[r] = refunds[r]
      /\ UNCHANGED <<payment, paidBack, paidFor>>
  BY RequestDoes
<1>2. refunds'[refund[c]].amount > 0
  <2>1. refunds \in [Refunds -> RefundRows]
    BY DEF TypeInv, PayTypeOK
  <2>2. QED
    BY <1>1, <2>1 DEF RequestSave, PaymentAssumption
<1>3. UNCHANGED <<paymentType, logged, webhooks>>
  BY DEF RequestSave, external
<1>4. HooksLedger(payPc[c])' /\ SuccessLedger(payPc[c])'
  BY <1>1, <1>3, StoryKept
<1>5. StatusLedger(payPc[c], payCopy[c])'
  BY <1>1, <1>3 DEF StatusLedger, StatusOfReturned, LogSteps
<1>6. MoneyLedger(payPc[c], refund[c])'
  <2>1. refund[c] \notin Succeeded
    BY <1>1 DEF MoneyLedger
  <2>2. Succeeded' = Succeeded
    BY <1>1, <2>1 DEF Succeeded
  <2>3. QED
    BY <1>1, <1>2, <2>2 DEF MoneyLedger, RefundSteps
<1>7. QED
  BY <1>4, <1>5, <1>6

\* A decision, or a step that marks the refund at work.
LEMMA MarkLedger ==
    ASSUME TypeInv, NEW c \in PayCalls, NEW s, NEW step, Marks(c, s, step),
           UNCHANGED <<paymentType, logged, webhooks>>,
           Ledger(payPc[c], refund[c], payCopy[c]),
           s # "NONE" /\ (s = "SUCCESS" <=> payPc[c] = "refund_success"),
           payPc[c] \notin {"refund_payment", "refund_reread"},
           \/ step = "idle"
           \/ step \in {"refund_find", "refund_call", "refund_payment"}
                /\ refund'[c] = refund[c],
           step = "refund_payment" <=> payPc[c] = "refund_success"
    PROVE  Ledger(payPc[c], refund[c], payCopy[c])'
<1> USE DEF Ledger
<1>1. /\ refund[c] \in Refunds /\ refunds'[refund[c]].status = s
      /\ \A r \in Refunds : refunds'[r].amount = refunds[r].amount
      /\ \A r \in Refunds : r # refund[c] => refunds'[r] = refunds[r]
      /\ UNCHANGED <<payment, paidBack, paidFor>>
      /\ payPc[c] \in RefundSteps /\ payPc'[c] = step
  BY DEF Marks
<1>2. payPc'[c] \in RefundSteps \cup {"idle"}
  BY <1>1 DEF RefundSteps
<1>3. HooksLedger(payPc[c])' /\ SuccessLedger(payPc[c])'
  BY <1>1, <1>2, StoryKept
<1>4. StatusLedger(payPc[c], payCopy[c])'
  BY <1>1, <1>2 DEF StatusLedger, StatusOfReturned, LogSteps, RefundSteps
<1>5. /\ refunds[refund[c]].status # "NONE"
      /\ refunds[refund[c]].status # "SUCCESS"
  BY <1>1 DEF MoneyLedger, RefundSteps
<1>6. \A r \in Refunds : refunds'[r].status # "NONE" => refunds'[r].amount > 0
  BY <1>1, <1>5 DEF MoneyLedger
<1>7. CASE payPc[c] = "refund_success"
  <2>1. Succeeded' = Succeeded \cup {refund[c]}
    BY <1>1, <1>7 DEF Succeeded
  <2>2. QED
    BY <1>1, <1>3, <1>4, <1>6, <1>7, <2>1 DEF MoneyLedger, RefundSteps
<1>8. CASE payPc[c] # "refund_success"
  <2>1. Succeeded' = Succeeded
    BY <1>1, <1>5, <1>8 DEF Succeeded
  <2>2. QED
    BY <1>1, <1>3, <1>4, <1>6, <1>8, <2>1 DEF MoneyLedger, RefundSteps
<1>9. QED
  BY <1>7, <1>8

\* and each statement of a refund's way to Paymob and back;
LEMMA RefundLedger ==
    ASSUME PaymentAssumption, TypeInv, NEW c \in PayCalls,
           Ledger(payPc[c], refund[c], payCopy[c]), payFaults' = 0, payFaults = 0,
           payPc[c] \in CopySteps => payCopy[c].refundedAmount = payment.refundedAmount,
           \/ RejectSave(c) \/ ApproveSave(c) \/ RefundProcessing(c)
           \/ RefundSuccess(c) \/ RefundFailed(c)
           \/ RefundFind(c) \/ RefundCall(c) \/ RefundPayment(c)
           \/ RefundReread(c) \/ PayCallFails(c)
    PROVE  Ledger(payPc[c], refund[c], payCopy[c])'
<1> USE DEF Ledger
<1>1. ~PayCallFails(c)
  BY FailDoes
<1>2. UNCHANGED <<paymentType, logged, webhooks>>
  BY <1>1 DEF RejectSave, ApproveSave, RefundProcessing, RefundSuccess, RefundFailed,
     RefundFind, RefundCall, RefundPayment, RefundReread, external
<1>3. CASE \/ RejectSave(c) \/ ApproveSave(c) \/ RefundProcessing(c)
           \/ RefundSuccess(c) \/ RefundFailed(c)
  <2>1. CASE RejectSave(c)
    <3>1. Marks(c, "REJECTED", "idle") /\ payPc[c] = "reject_save"
      BY <2>1, MarkDoes DEF RejectSave
    <3>2. QED
      BY <1>2, <3>1, MarkLedger
  <2>2. CASE ApproveSave(c)
    <3>1. /\ Marks(c, "APPROVED", "refund_find") /\ payPc[c] = "approve_save"
          /\ refund' = refund
      BY <2>2, MarkDoes DEF ApproveSave, payLocals
    <3>2. QED
      BY <1>2, <3>1, MarkLedger
  <2>3. CASE RefundProcessing(c)
    <3>1. /\ Marks(c, "PROCESSING", "refund_call") /\ payPc[c] = "refund_processing"
          /\ refund' = refund
      BY <2>3, MarkDoes DEF RefundProcessing, payLocals
    <3>2. QED
      BY <1>2, <3>1, MarkLedger
  <2>4. CASE RefundSuccess(c)
    <3>1. /\ Marks(c, "SUCCESS", "refund_payment") /\ payPc[c] = "refund_success"
          /\ refund' = refund
      BY <2>4, MarkDoes DEF RefundSuccess, payLocals
    <3>2. QED
      BY <1>2, <3>1, MarkLedger
  <2>5. CASE RefundFailed(c)
    <3>1. Marks(c, "FAILED", "idle") /\ payPc[c] = "refund_failed"
      BY <2>5, MarkDoes DEF RefundFailed
    <3>2. QED
      BY <1>2, <3>1, MarkLedger
  <2>6. QED
    BY <1>3, <2>1, <2>2, <2>3, <2>4, <2>5
<1>4. CASE RefundFind(c)
  <2>1. /\ payPc[c] = "refund_find" /\ payPc'[c] \in {"refund_processing", "refund_failed"}
        /\ refund'[c] = refund[c]
        /\ UNCHANGED <<payment, refunds, paidBack, paidFor>>
    BY <1>4, FindDoes
  <2>2. HooksLedger(payPc[c])' /\ SuccessLedger(payPc[c])'
    BY <1>2, <2>1, StoryKept DEF RefundSteps
  <2>3. QED
    BY <1>2, <2>1, <2>2 DEF MoneyLedger, StatusLedger, StatusOfReturned, Succeeded,
         RefundSteps, LogSteps
<1>5. CASE RefundCall(c)
  <2>1. /\ payPc[c] = "refund_call"
        /\ payPc'[c] \in {"refund_success", "refund_failed"}
        /\ refund[c] \in Refunds /\ refund'[c] = refund[c]
        /\ UNCHANGED <<payment, refunds>>
        /\ \/ /\ paidBack' = paidBack + refunds[refund[c]].amount
              /\ paidFor' = paidFor \cup {refund[c]}
           \/ UNCHANGED <<paidBack, paidFor>> /\ payPc'[c] = "refund_failed"
    BY <1>5, CallDoes DEF payLocals
  <2>2. payPc'[c] = "refund_failed" => UNCHANGED <<paidBack, paidFor>>
    <3>1. payPc[c] = "refund_call" /\ payPc \in [PayCalls -> PaySteps]
          /\ payFaults \in Nat
      BY <2>1 DEF TypeInv, PayTypeOK
    <3>2. QED
      BY <1>5, <3>1 DEF RefundCall, PayGoto
  <2>3. HooksLedger(payPc[c])' /\ SuccessLedger(payPc[c])'
    BY <1>2, <2>1, StoryKept DEF RefundSteps
  <2>4. Succeeded' = Succeeded
    BY <2>1 DEF Succeeded
  <2>8. /\ refund[c] \notin paidFor
        /\ payment.refundedAmount > 0 => paidFor # {}
        /\ paidBack = payment.refundedAmount
    BY <2>1 DEF MoneyLedger, Succeeded, RefundSteps
  <2>9. payment.refundedAmount > 0 => paidFor \cup {refund[c]} # {refund[c]}
    BY <2>8
  <2>5. MoneyLedger(payPc[c], refund[c])'
    <3>1. CASE UNCHANGED <<paidBack, paidFor>> /\ payPc'[c] = "refund_failed"
      BY <2>1, <2>4, <3>1 DEF MoneyLedger, RefundSteps
    <3>2. CASE /\ paidBack' = paidBack + refunds[refund[c]].amount
               /\ paidFor' = paidFor \cup {refund[c]}
               /\ payPc'[c] = "refund_success"
      BY <2>1, <2>4, <2>8, <2>9, <3>2 DEF MoneyLedger, RefundSteps
    <3>3. QED
      BY <2>1, <2>2, <3>1, <3>2
  <2>6. StatusLedger(payPc[c], payCopy[c])'
    BY <1>2, <2>1, <2>2 DEF StatusLedger, StatusOfReturned, LogSteps
  <2>7. QED
    BY <2>3, <2>5, <2>6
<1>6. CASE RefundPayment(c)
  <2>1. /\ payPc[c] = "refund_payment" /\ payPc'[c] = "refund_reread"
        /\ refund[c] \in Refunds /\ refund'[c] = refund[c]
        /\ payment'.refundedAmount = payment.refundedAmount + refunds[refund[c]].amount
        /\ payment'.status \in StatusAfter(c)
        /\ RefundedAmount(c) = payment'.refundedAmount
        /\ payCopy[c].refundedAmount = payment.refundedAmount
        /\ UNCHANGED <<refunds, paidBack, paidFor>>
    BY <1>6, RecordDoes DEF CopySteps, payLocals, RefundedAmount
  <2>2. HooksLedger(payPc[c])' /\ SuccessLedger(payPc[c])'
    BY <1>2, <2>1, StoryKept DEF RefundSteps, StatusAfter
  <2>3. Succeeded' = Succeeded
    BY <2>1 DEF Succeeded
  <2>4. /\ payment'.refundedAmount = paidBack
        /\ paidBack \in Nat /\ paidBack > 0 /\ paidBack <= Amount
    <3>1. /\ paidBack = payment.refundedAmount + refunds[refund[c]].amount
          /\ refunds[refund[c]].amount > 0
      BY <2>1 DEF MoneyLedger, RefundSteps
    <3>2. payment.refundedAmount \in Nat /\ paidBack \in 0..Amount
          /\ refunds[refund[c]].amount \in Nat
      BY <2>1 DEF TypeInv, PayTypeOK, Payments, RefundRows
    <3>3. QED
      BY <2>1, <3>1, <3>2
  <2>5. payment'.status \in StatusOfReturned'
    <3>1. \A r \in Refunds : paidFor = {r} => payment.refundedAmount = 0
      <4>1. payment.refundedAmount \in Nat
        BY DEF TypeInv, PayTypeOK, Payments
      <4>2. refund[c] \in paidFor
            /\ (payment.refundedAmount > 0 => paidFor # {refund[c]})
        BY <2>1 DEF MoneyLedger
      <4>3. QED
        BY <4>1, <4>2
    <3>2. QED
      BY <2>1, <2>4, <3>1 DEF StatusAfter, StatusOfReturned, PaymentAssumption
  <2>6. MoneyLedger(payPc[c], refund[c])'
    BY <2>1, <2>3, <2>4 DEF MoneyLedger, RefundSteps
  <2>7. StatusLedger(payPc[c], payCopy[c])'
    BY <1>2, <2>1, <2>4, <2>5 DEF StatusLedger, StatusOfReturned, LogSteps
  <2>8. QED
    BY <2>2, <2>6, <2>7
<1>7. CASE RefundReread(c)
  <2>1. /\ payPc[c] = "refund_reread" /\ payPc'[c] = "idle"
        /\ UNCHANGED <<payment, refunds, paidBack, paidFor>>
    BY <1>7, Returning DEF RefundReread, external, TypeInv
  <2>2. HooksLedger(payPc[c])' /\ SuccessLedger(payPc[c])'
    BY <1>2, <2>1, StoryKept DEF RefundSteps
  <2>3. QED
    BY <1>2, <2>1, <2>2 DEF MoneyLedger, StatusLedger, StatusOfReturned, Succeeded,
         RefundSteps, LogSteps
<1>8. QED
  BY <1>1, <1>3, <1>4, <1>5, <1>6, <1>7

\* A customer who pays changes nothing but what Paymob will say.
LEMMA CustomerLedger ==
    ASSUME TypeInv, CustomerPays, NEW step, NEW r, NEW copy, Ledger(step, r, copy)
    PROVE  /\ HooksLedger(step)' /\ SuccessLedger(step)'
           /\ MoneyLedger(step, r)' /\ StatusLedger(step, copy)'
<1>1. /\ webhooks'.handled = webhooks.handled /\ webhooks.sent \subseteq webhooks'.sent
      /\ "PROCESSING" \in logged
      /\ UNCHANGED <<paymentType, payment, logged, refunds, paidBack, paidFor>>
  BY DEF CustomerPays, TypeInv, PayTypeOK
<1>2. QED
  BY <1>1 DEF Ledger, HooksLedger, SuccessLedger, MoneyLedger, StatusLedger,
     StatusOfReturned, NothingRefunded, Succeeded

\* hence every step keeps them.
LEMMA LedgerStep ==
    ASSUME PaymentAssumption, InOrder, MaxPayCalls <= 1, TypeInv, BooksInv, AloneInv,
           LedgerInv, [PayNext]_payVars
    PROVE  LedgerInv'
<1>1. ASSUME NEW c \in PayCalls, payPc[c] # "idle"
      PROVE  /\ \A d \in PayCalls : d # c => payPc[d] = "idle"
             /\ payFaults = 0 => Ledger(payPc[c], refund[c], payCopy[c])
             /\ payPc[c] \in CopySteps =>
                  payCopy[c].refundedAmount = payment.refundedAmount
  BY <1>1 DEF AloneInv, OneAtWork, FreshInv, LedgerInv
<1>2. payFaults \in Nat
  BY DEF TypeInv, PayTypeOK
<1>3. CASE UNCHANGED payVars
  BY <1>3 DEF payVars, external, payLocals, LedgerInv, Ledger, HooksLedger, SuccessLedger,
     MoneyLedger, StatusLedger, StatusOfReturned, NothingRefunded, Succeeded
<1>4. CASE CustomerPays
  <2>1. UNCHANGED <<payPc, refund, payCopy, payFaults>>
    BY <1>4 DEF CustomerPays, payLocals
  <2>2. QED
    BY <1>4, <2>1, CustomerLedger DEF LedgerInv, Ledger
<1>5. CASE PayCrash
  BY <1>2, <1>5 DEF PayCrash, LedgerInv
<1>6. ASSUME NEW c \in PayCalls, Begin(c)
      PROVE  LedgerInv'
  <2>1. \A d \in PayCalls : payPc[d] = "idle"
    BY <1>6, ArrivesAlone
  <2>2. Alone(c) /\ payFaults' = payFaults
    BY <1>6, BeginDoes DEF Alone
  <2>3. payFaults = 0 => Ledger(payPc[c], refund[c], payCopy[c])'
    BY <1>6, <2>1, ArrivingLedger DEF LedgerInv
  <2>4. QED
    BY <2>1, <2>2, <2>3, LedgerKept
<1>7. ASSUME NEW c \in PayCalls, Process(c) \/ HookSave(c) \/ HookLog(c)
      PROVE  LedgerInv'
  <2>1. Alone(c) /\ payFaults' = payFaults /\ payPc[c] # "idle"
    BY <1>7, ProcessDoes
  <2>2. QED
    BY <1>1, <1>7, <2>1, ProcessLedger, LedgerKept
<1>8. ASSUME NEW c \in PayCalls, RequestSave(c)
      PROVE  LedgerInv'
  <2>1. /\ Alone(c) /\ payFaults' = payFaults /\ payPc[c] = "request_save"
        /\ refund[c] \in Refunds
    BY <1>8, RequestDoes
  <2>2. refund[c] \notin paidFor
    BY <2>1 DEF BooksInv, OwnInv, AloneInv, StageInv
  <2>3. QED
    BY <1>1, <1>8, <2>1, <2>2, RequestLedger, LedgerKept
<1>9. ASSUME NEW c \in PayCalls,
             \/ RejectSave(c) \/ ApproveSave(c) \/ RefundProcessing(c)
             \/ RefundSuccess(c) \/ RefundFailed(c)
             \/ RefundFind(c) \/ RefundCall(c) \/ RefundPayment(c)
             \/ RefundReread(c) \/ PayCallFails(c)
      PROVE  LedgerInv'
  <2>1. Alone(c)
    BY <1>9, MarkDoes, FindDoes, CallDoes, RecordDoes, FailDoes
  <2>2. payFaults' >= payFaults
    BY <1>2, <1>9, MarkDoes, FindDoes, CallDoes, RecordDoes, FailDoes DEF Marks
  <2>3. payPc[c] # "idle"
    BY <1>9 DEF RejectSave, ApproveSave, RefundProcessing, RefundSuccess, RefundFailed,
       RefundFind, RefundCall, RefundPayment, RefundReread, PayCallFails
  <2>4. payFaults' = 0 => payFaults = 0
    BY <1>2, <2>2
  <2>5. payFaults' = 0 => Ledger(payPc[c], refund[c], payCopy[c])'
    BY <1>1, <1>9, <2>3, <2>4, RefundLedger
  <2>6. QED
    BY <1>1, <2>1, <2>3, <2>5, LedgerKept
<1>10. QED
  BY <1>3, <1>4, <1>5, <1>6, <1>7, <1>8, <1>9, Kinds

\* They balance in the beginning.
LEMMA InitLedger == ASSUME PaymentAssumption, PayInit PROVE LedgerInv
<1>1. \A r \in Refunds : refunds[r].status = "NONE"
  BY DEF PayInit
<1>2. Ledger("idle", NoRefund, NoPayment)
  BY <1>1 DEF PayInit, NoPayment, Ledger, HooksLedger, SuccessLedger, MoneyLedger,
     StatusLedger, NothingRefunded, Succeeded, RefundSteps, LogSteps, ProcessSteps
<1>3. QED
  BY <1>2 DEF PayInit, LedgerInv

\* Books kept this way balance.
LEMMA IdleBalances ==
    ASSUME LedgerInv
    PROVE  BooksBalance
BY DEF LedgerInv, BooksBalance, Quiet, Ledger, SuccessLedger, MoneyLedger, StatusLedger,
   StatusOfReturned, Succeeded, LogSteps

\* As long as handlers do not overlap, webhooks come once and in order, and
\* nothing fails, the payment records exactly what Paymob has returned, the
\* refunds it was returned for are those marked SUCCESS, a success Paymob has
\* announced is never lost, and every status was logged (createPayment,
\* handleWebhookUpdate, processRefundWithPaymob).
THEOREM LoneHandlersBalance ==
    ASSUME PaymentAssumption, InOrder, MaxPayCalls <= 1
    PROVE  PaySpec => []BooksBalance
<1> DEFINE Inv == TypeInv /\ BooksInv /\ AloneInv /\ LedgerInv
<1>1. PayInit => Inv
  BY InitTypes, InitBooks, InitAlone, InitLedger
<1>2. Inv /\ [PayNext]_payVars => Inv'
  BY StepTypes, BooksStep, AloneStep, LedgerStep
<1>3. Inv => BooksBalance
  BY IdleBalances
<1>4. QED
  BY <1>1, <1>2, <1>3, PTL DEF PaySpec
=============================================================================
