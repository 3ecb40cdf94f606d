------------------------- MODULE OrderStatus_proofs --------------------------
(***************************************************************************)
(* Proofs about OrderStatus, for any number of calls: type correctness;    *)
(* that calls which do not overlap implement OrderLifecycle and leave logs *)
(* that tell what happened; and, however many overlap, that the final      *)
(* status is a logged one and that a settled order stays as it is.         *)
(***************************************************************************)
EXTENDS OrderStatus, FiniteSetTheorems, TLAPS

-----------------------------------------------------------------------------
(* Type correctness.                                                       *)

\* Moving on, returning and reading keep the types of the local variables.
LEMMA LocalTypes ==
    ASSUME OrderTypeOK, NEW c \in OrderCalls
    PROVE  /\ \A s \in OrderSteps : OrderGoto(c, s) => orderPc' \in [OrderCalls -> OrderSteps]
           /\ OrderReturn(c) => /\ orderPc' \in [OrderCalls -> OrderSteps]
                                /\ target' \in [OrderCalls -> Statuses]
                                /\ caller' \in [OrderCalls -> {"owner", "staff"}]
                                /\ orderCopy' \in [OrderCalls -> [order : Orders, logs : Nat, seen : Orders]]
           /\ \A s \in Statuses : FindAndValidate(c, s) =>
                /\ orderPc' \in [OrderCalls -> OrderSteps]
                /\ target' \in [OrderCalls -> Statuses]
                /\ orderCopy' \in [OrderCalls -> [order : Orders, logs : Nat, seen : Orders]]
<1>1. NoOrderCopy \in [order : Orders, logs : Nat, seen : Orders] /\ "PENDING" \in Statuses
  BY DEF NoOrderCopy, NoOrder, Orders, Statuses, Lifecycle!Statuses
<1>2. /\ Len(logs) \in Nat
      /\ [order |-> order, logs |-> Len(logs), seen |-> NoOrder]
           \in [order : Orders, logs : Nat, seen : Orders]
  BY <1>1 DEF OrderTypeOK, NoOrderCopy
<1>3. ASSUME NEW step \in OrderSteps, OrderGoto(c, step)
      PROVE  orderPc' \in [OrderCalls -> OrderSteps]
  BY <1>3 DEF OrderTypeOK, OrderGoto
<1>4. ASSUME OrderReturn(c)
      PROVE  /\ orderPc' \in [OrderCalls -> OrderSteps]
             /\ target' \in [OrderCalls -> Statuses]
             /\ caller' \in [OrderCalls -> {"owner", "staff"}]
             /\ orderCopy' \in [OrderCalls -> [order : Orders, logs : Nat, seen : Orders]]
  <2>1. orderPc' \in [OrderCalls -> OrderSteps]
    BY <1>3, <1>4 DEF OrderReturn, OrderSteps
  <2>2. QED
    BY <1>1, <1>4, <2>1 DEF OrderTypeOK, OrderReturn
<1>5. ASSUME NEW s \in Statuses, FindAndValidate(c, s)
      PROVE  /\ orderPc' \in [OrderCalls -> OrderSteps]
             /\ target' \in [OrderCalls -> Statuses]
             /\ orderCopy' \in [OrderCalls -> [order : Orders, logs : Nat, seen : Orders]]
  <2>1. orderPc' \in [OrderCalls -> OrderSteps]
    BY <1>3, <1>5 DEF FindAndValidate, OrderSteps
  <2>2. QED
    BY <1>2, <1>5, <2>1 DEF OrderTypeOK, FindAndValidate
<1>6. QED
  BY <1>3, <1>4, <1>5

\* What a call makes of its copy, and of the row, is a row of the table.
LEMMA UpdatedType ==
    ASSUME OrderTypeOK, NEW c \in OrderCalls
    PROVE  /\ UpdatedOrder(c) \in Orders
           /\ Written(UpdatedOrder(c), orderCopy[c].seen) \in Orders
<1>1. /\ orderCopy[c].order \in Orders /\ target[c] \in Statuses
      /\ caller[c] \in {"owner", "staff"}
  BY DEF OrderTypeOK
<1>2. UpdatedOrder(c) \in Orders
  BY <1>1 DEF UpdatedOrder, Orders
<1>3. order \in Orders
  BY DEF OrderTypeOK
<1>4. ASSUME NEW made \in Orders, NEW seen
      PROVE  Written(made, seen) \in Orders
  BY <1>3, <1>4 DEF Written, Orders
<1>5. QED
  BY <1>2, <1>4

LEMMA InitTypes ==
    ASSUME OrderStatusAssumption, OrderInit
    PROVE  OrderTypeOK
<1>1. PICK s \in Initial :
        order = [status |-> s, cancelledBy |-> "nobody",
                 stamps |-> {s} \cap Stamped]
  BY DEF OrderInit
<1>2. order \in Orders
  BY <1>1 DEF OrderStatusAssumption, Orders, Statuses, Lifecycle!Statuses
<1>3. logs \in Seq(StatusLogs) /\ Len(logs) >= 1
  BY DEF OrderInit, StatusLogs, Statuses, Lifecycle!Statuses
<1>4. NoOrderCopy \in [order : Orders, logs : Nat, seen : Orders] /\ "PENDING" \in Statuses
  BY DEF NoOrderCopy, NoOrder, Orders, Statuses, Lifecycle!Statuses
<1>5. QED
  BY <1>2, <1>3, <1>4 DEF OrderInit, OrderTypeOK, OrderSteps, OrderStatusAssumption

LEMMA StepTypes ==
    ASSUME OrderStatusAssumption, OrderTypeOK, [OrderNext]_orderVars
    PROVE  OrderTypeOK'
<1> USE DEF OrderSteps
<1>1. ASSUME NEW c \in OrderCalls, BeginUpdate(c)
      PROVE  OrderTypeOK'
  <2>1. PICK s \in Statuses : FindAndValidate(c, s)
    BY <1>1 DEF BeginUpdate
  <2>2. QED
    BY <1>1, <2>1, LocalTypes DEF BeginUpdate, OrderTypeOK
<1>2. ASSUME NEW c \in OrderCalls, NEW who \in {"owner", "staff"}, BeginCancel(c, who)
      PROVE  OrderTypeOK'
  BY <1>2, LocalTypes DEF BeginCancel, OrderTypeOK
<1>3. ASSUME NEW c \in OrderCalls, FindForCancel(c)
      PROVE  OrderTypeOK'
  <2>1. "CANCELLED" \in Statuses
    BY DEF Statuses, Lifecycle!Statuses
  <2>2. QED
    BY <1>3, <2>1, LocalTypes DEF FindForCancel, OrderTypeOK
<1>4. ASSUME NEW c \in OrderCalls, SaveOrder(c)
      PROVE  OrderTypeOK'
  BY <1>4, LocalTypes, UpdatedType DEF SaveOrder, orderLocals, OrderTypeOK
<1>5. ASSUME NEW c \in OrderCalls, SaveRefused(c)
      PROVE  OrderTypeOK'
  BY <1>5, LocalTypes DEF SaveRefused, OrderTypeOK
<1>6. ASSUME NEW c \in OrderCalls, SaveLog(c)
      PROVE  OrderTypeOK'
  <2> DEFINE new == [previousStatus |-> orderCopy[c].order.status,
                     newStatus |-> target[c], changedBy |-> caller[c]]
  <2>1. new \in StatusLogs
    BY DEF OrderTypeOK, StatusLogs, Orders
  <2>2. logs' \in Seq(StatusLogs) /\ Len(logs') >= 1
    <3> HIDE DEF new
    <3>1. logs' = Append(logs, new)
      BY <1>6 DEF SaveLog, new
    <3>2. QED
      BY <2>1, <3>1 DEF OrderTypeOK
  <2>3. QED
    BY <1>6, <2>2, LocalTypes DEF SaveLog, OrderTypeOK
<1>11. ASSUME NEW c \in OrderCalls, CompareOrder(c)
       PROVE  OrderTypeOK'
  BY <1>11, LocalTypes DEF CompareOrder, OrderTypeOK
<1>7. ASSUME NEW c \in OrderCalls, OrderCallFails(c)
      PROVE  OrderTypeOK'
  <2>1. orderFaults' \in 0..MaxOrderFaults
    BY <1>7 DEF OrderCallFails, OrderTypeOK, OrderStatusAssumption
  <2>2. QED
    BY <1>7, <2>1, LocalTypes DEF OrderCallFails, OrderTypeOK
<1>8. CASE OrderCrash
  <2>1. orderFaults' \in 0..MaxOrderFaults
    BY <1>8 DEF OrderCrash, OrderTypeOK, OrderStatusAssumption
  <2>2. NoOrderCopy \in [order : Orders, logs : Nat, seen : Orders] /\ "PENDING" \in Statuses
    BY DEF NoOrderCopy, NoOrder, Orders, Statuses, Lifecycle!Statuses
  <2>3. QED
    BY <1>8, <2>1, <2>2 DEF OrderCrash, OrderTypeOK
<1>9. CASE UNCHANGED orderVars
  BY <1>9 DEF orderVars, OrderTypeOK
<1>10. QED
  BY <1>1, <1>2, <1>3, <1>4, <1>5, <1>6, <1>7, <1>8, <1>9, <1>11
     DEF OrderNext, OrderContinue

\* The row, its logs and the local variables of every call keep their types
\* (updateStatus, cancelOrder).
THEOREM TypeCorrect ==
    ASSUME OrderStatusAssumption
    PROVE  OrderSpec => []OrderTypeOK
<1>1. OrderInit => OrderTypeOK
  BY InitTypes
<1>2. OrderTypeOK /\ [OrderNext]_orderVars => OrderTypeOK'
  BY StepTypes
<1>3. QED
  BY <1>1, <1>2, PTL DEF OrderSpec

-----------------------------------------------------------------------------
(* Refinement of OrderLifecycle when calls do not overlap.                 *)

\* One call at a time, and what it has read of the order is still true: a
\* call about to save has the row as its copy and a permitted transition as
\* its aim, it has compared its copy with the same row, and the owner's call
\* finds the order cancellable.
AloneInv ==
    /\ \A c, d \in OrderCalls : orderPc[c] # "idle" /\ orderPc[d] # "idle" => c = d
    /\ \A c \in OrderCalls :
         /\ orderPc[c] \in {"save", "update"} =>
              /\ orderCopy[c].order = order
              /\ target[c] \in statusTransitions[order.status]
              /\ caller[c] = "owner" => target[c] = "CANCELLED"
         /\ orderPc[c] = "update" => orderCopy[c].seen = order
         /\ orderPc[c] \in {"find", "save", "update"} /\ caller[c] = "owner" =>
              order.status \in userCancellableStatuses

\* A call that arrives is alone.
LEMMA ArrivesAlone ==
    ASSUME OrderStatusAssumption, MaxOrderCalls <= 1, NEW c \in OrderCalls, OrderArrives(c)
    PROVE  \A d \in OrderCalls : orderPc[d] = "idle"
<1> DEFINE Busy == {d \in OrderCalls : orderPc[d] # "idle"}
<1>1. IsFiniteSet(Busy)
  BY FS_Subset DEF OrderStatusAssumption
<1>2. Cardinality(Busy) \in Nat /\ Cardinality(Busy) < MaxOrderCalls
  BY <1>1, FS_CardinalityType DEF OrderArrives
<1>3. Cardinality(Busy) = 0
  <2> HIDE DEF Busy
  <2> QED BY <1>2 DEF OrderStatusAssumption
<1>4. Busy = {}
  BY <1>1, <1>3, FS_EmptySet
<1>5. QED
  BY <1>4

LEMMA AloneStep ==
    ASSUME OrderStatusAssumption, MaxOrderCalls <= 1, OrderTypeOK, AloneInv, [OrderNext]_orderVars
    PROVE  AloneInv'
<1>1. ASSUME NEW c \in OrderCalls, BeginUpdate(c)
      PROVE  AloneInv'
  <2>1. PICK s \in Statuses : FindAndValidate(c, s)
    BY <1>1 DEF BeginUpdate
  <2>2. \A d \in OrderCalls : orderPc[d] = "idle"
    BY <1>1, ArrivesAlone DEF BeginUpdate
  <2>3. \A d \in OrderCalls : d # c => orderPc'[d] = "idle"
    BY <2>1, <2>2 DEF FindAndValidate, OrderGoto, OrderTypeOK
  <2>4. /\ orderPc'[c] = "save" /\ orderCopy'[c].order = order /\ target'[c] = s
        /\ caller'[c] = "staff" /\ order' = order
        /\ s \in statusTransitions[order.status]
    BY <1>1, <2>1 DEF BeginUpdate, FindAndValidate, OrderGoto, OrderTypeOK
  <2>5. QED
    BY <2>3, <2>4 DEF AloneInv
<1>2. ASSUME NEW c \in OrderCalls, NEW who \in {"owner", "staff"}, BeginCancel(c, who)
      PROVE  AloneInv'
  <2>1. \A d \in OrderCalls : orderPc[d] = "idle"
    BY <1>2, ArrivesAlone DEF BeginCancel
  <2>2. \A d \in OrderCalls : d # c => orderPc'[d] = "idle"
    BY <1>2, <2>1 DEF BeginCancel, OrderGoto, OrderTypeOK
  <2>3. /\ orderPc'[c] = "find" /\ caller'[c] = who /\ order' = order
        /\ who = "owner" => order.status \in userCancellableStatuses
    BY <1>2 DEF BeginCancel, OrderGoto, OrderTypeOK
  <2>4. QED
    BY <2>2, <2>3 DEF AloneInv
<1>3. ASSUME NEW c \in OrderCalls, OrderContinue(c)
      PROVE  AloneInv'
  <2> USE DEF OrderContinue, FindForCancel, FindAndValidate, CompareOrder, SaveOrder,
        SaveRefused, SaveLog, OrderReturn, OrderGoto
  <2>1. \A d \in OrderCalls : d # c => orderPc[d] = "idle"
    BY <1>3 DEF AloneInv
  <2>2. \A d \in OrderCalls : d # c => orderPc'[d] = "idle"
    BY <1>3, <2>1 DEF OrderTypeOK
  <2>3. CASE orderPc'[c] \notin {"find", "save", "update"}
    BY <2>2, <2>3 DEF AloneInv
  <2>4. CASE orderPc'[c] \in {"find", "save"}
    <3>1. orderPc[c] = "find" /\ FindAndValidate(c, "CANCELLED") /\ UNCHANGED <<order, caller>>
      BY <1>3, <2>4 DEF OrderTypeOK
    <3>2. /\ orderPc'[c] = "save" /\ orderCopy'[c].order = order
          /\ target'[c] = "CANCELLED"
          /\ "CANCELLED" \in statusTransitions[order.status]
      BY <3>1 DEF OrderTypeOK
    <3>3. QED
      BY <2>2, <3>1, <3>2 DEF AloneInv
  <2>5. CASE orderPc'[c] = "update"
    <3>1. orderPc[c] = "save" /\ CompareOrder(c)
      BY <1>3, <2>5 DEF OrderTypeOK
    <3>2. /\ orderCopy'[c].order = orderCopy[c].order /\ orderCopy'[c].seen = order
          /\ UNCHANGED <<order, target, caller>>
      BY <3>1 DEF OrderTypeOK
    <3>3. QED
      BY <2>2, <2>5, <3>1, <3>2 DEF AloneInv
  <2>6. QED
    BY <2>3, <2>4, <2>5
<1>4. ASSUME NEW c \in OrderCalls, OrderCallFails(c)
      PROVE  AloneInv'
  <2>1. /\ orderPc'[c] = "idle" /\ order' = order
        /\ \A d \in OrderCalls : d # c => /\ orderPc'[d] = orderPc[d] /\ orderCopy'[d] = orderCopy[d]
                                          /\ target'[d] = target[d]
                                          /\ caller'[d] = caller[d]
    BY <1>4 DEF OrderCallFails, OrderReturn, OrderGoto, OrderTypeOK
  <2>2. QED
    BY <2>1 DEF AloneInv
<1>5. CASE OrderCrash
  BY <1>5 DEF OrderCrash, AloneInv
<1>6. CASE UNCHANGED orderVars
  BY <1>6 DEF orderVars, AloneInv
<1>7. QED
  BY <1>1, <1>2, <1>3, <1>4, <1>5, <1>6 DEF OrderNext

\* A step of a lone call is a step of the lifecycle, or invisible to it.
LEMMA LifecycleStep ==
    ASSUME OrderTypeOK, AloneInv, [OrderNext]_orderVars
    PROVE  [Lifecycle!Advance \/ Lifecycle!OwnerCancels]_(Lifecycle!lifeVars)
<1>1. ASSUME NEW c \in OrderCalls, SaveOrder(c)
      PROVE  Lifecycle!Advance \/ Lifecycle!OwnerCancels
  <2>1. /\ orderCopy[c].order = order /\ orderCopy[c].seen = order
        /\ target[c] \in statusTransitions[order.status]
        /\ caller[c] = "owner" =>
             /\ target[c] = "CANCELLED"
             /\ order.status \in userCancellableStatuses
    BY <1>1 DEF SaveOrder, AloneInv
  <2>2. /\ order'.status = target[c]
        /\ order'.cancelledBy = IF target[c] = "CANCELLED" THEN caller[c]
                                                           ELSE order.cancelledBy
    BY <1>1, <2>1 DEF SaveOrder, UpdatedOrder, Written
  <2>3. CASE caller[c] = "owner"
    BY <2>1, <2>2, <2>3 DEF Lifecycle!OwnerCancels, userCancellableStatuses
  <2>4. CASE caller[c] = "staff"
    BY <2>1, <2>2, <2>4 DEF Lifecycle!Advance, statusTransitions
  <2>5. QED
    BY <2>3, <2>4 DEF OrderTypeOK
<1>2. CASE UNCHANGED order
  BY <1>2 DEF Lifecycle!lifeVars
<1>3. QED
  BY <1>1, <1>2 DEF OrderNext, OrderContinue, BeginUpdate, BeginCancel, FindForCancel,
       CompareOrder, SaveRefused, SaveLog, OrderCallFails, OrderCrash, orderVars

\* Calls that do not overlap implement OrderLifecycle, whatever statement
\* fails: the order moves along the transition table, and its owner cancels
\* it only before it is prepared (updateStatus, cancelOrder).
THEOREM LoneCallsFollowLifecycle ==
    ASSUME OrderStatusAssumption, MaxOrderCalls <= 1
    PROVE  OrderSpec => FollowsLifecycle
<1>1. OrderInit => OrderTypeOK /\ AloneInv
  <2>1. OrderInit => AloneInv
    BY DEF OrderInit, AloneInv
  <2>2. QED
    BY <2>1, InitTypes
<1>2. OrderTypeOK /\ AloneInv /\ [OrderNext]_orderVars => (OrderTypeOK /\ AloneInv)'
  BY StepTypes, AloneStep
<1>3. OrderInit => Lifecycle!LifeInit
  BY DEF OrderInit, Lifecycle!LifeInit
<1>4. OrderTypeOK /\ AloneInv /\ [OrderNext]_orderVars
        => [Lifecycle!Advance \/ Lifecycle!OwnerCancels]_(Lifecycle!lifeVars)
  BY LifecycleStep
<1>5. QED
  BY <1>1, <1>2, <1>3, <1>4, PTL DEF OrderSpec, FollowsLifecycle, Lifecycle!LifeSpec

-----------------------------------------------------------------------------
(* Overlapping calls: the final status is a logged one, and an order that  *)
(* has settled stays as it is.                                             *)

\* As long as nothing has failed, the order has the status the checkout gave
\* it, and so had it for every call that has compared its copy with the row;
\* or a status that a call has saved and will log; or one that is logged.
LoggedInv ==
    orderFaults = 0 =>
        \/ /\ Len(logs) = 1
           /\ \A c \in OrderCalls :
                /\ orderPc[c] # "log"
                /\ orderPc[c] = "update" => orderCopy[c].seen.status = order.status
        \/ \E c \in OrderCalls : orderPc[c] = "log" /\ target[c] = order.status
        \/ \E i \in 2..Len(logs) : logs[i].newStatus = order.status

\* As long as nothing has failed, a call that is about to save has read no
\* more logs than there are; if just as many, then it also has the order's
\* status, or some call has saved another one and is about to log it.
CopyInv ==
    \A c \in OrderCalls : orderPc[c] = "save" =>
        /\ target[c] \in statusTransitions[orderCopy[c].order.status]
        /\ orderFaults = 0 =>
             /\ orderCopy[c].logs <= Len(logs)
             /\ orderCopy[c].logs = Len(logs) =>
                  \/ orderCopy[c].order.status = order.status
                  \/ \E d \in OrderCalls : orderPc[d] = "log"

\* The steps that change neither the row nor its logs.
Reads(c) ==
    \/ BeginUpdate(c)
    \/ \E who \in {"owner", "staff"} : BeginCancel(c, who)
    \/ FindForCancel(c)
    \/ CompareOrder(c)
    \/ SaveRefused(c)

LEMMA ReadsLeave ==
    ASSUME OrderTypeOK, NEW c \in OrderCalls, Reads(c)
    PROVE  /\ UNCHANGED <<order, logs, orderFaults>>
           /\ orderPc[c] # "log" /\ orderPc'[c] # "log"
           /\ \A d \in OrderCalls : d # c => /\ orderPc'[d] = orderPc[d]
                                             /\ target'[d] = target[d]
                                             /\ orderCopy'[d] = orderCopy[d]
           /\ orderPc'[c] = "save" =>
                /\ orderCopy'[c].order = order /\ orderCopy'[c].logs = Len(logs)
                /\ target'[c] \in statusTransitions[order.status]
           /\ orderPc'[c] = "update" =>
                /\ orderPc[c] = "save" /\ LogsAsRead(c)
                /\ orderCopy'[c].seen = order
<1>1. CASE BeginUpdate(c)
  BY <1>1 DEF BeginUpdate, FindAndValidate, OrderArrives, OrderGoto, OrderTypeOK
<1>2. CASE \E who \in {"owner", "staff"} : BeginCancel(c, who)
  BY <1>2 DEF BeginCancel, OrderArrives, OrderGoto, OrderTypeOK
<1>3. CASE FindForCancel(c)
  BY <1>3 DEF FindForCancel, FindAndValidate, OrderReturn, OrderGoto, OrderTypeOK
<1>4. CASE CompareOrder(c)
  BY <1>4 DEF CompareOrder, OrderGoto, OrderTypeOK
<1>5. CASE SaveRefused(c)
  BY <1>5 DEF SaveRefused, OrderReturn, OrderGoto, OrderTypeOK
<1>6. QED
  BY <1>1, <1>2, <1>3, <1>4, <1>5 DEF Reads

\* The save leaves the status it was called for, unless the row had that
\* status when it was compared: then it does not write the column.
LEMMA SaveDoes ==
    ASSUME OrderTypeOK, NEW c \in OrderCalls, SaveOrder(c)
    PROVE  /\ orderPc[c] = "update" /\ orderPc'[c] = "log"
           /\ UNCHANGED <<logs, orderLocals, orderFaults>>
           /\ \/ order'.status = target[c]
              \/ order'.status = order.status /\ orderCopy[c].seen.status = target[c]
           /\ \A d \in OrderCalls : d # c => orderPc'[d] = orderPc[d]
BY DEF SaveOrder, UpdatedOrder, Written, OrderGoto, OrderTypeOK

LEMMA SaveLogDoes ==
    ASSUME OrderTypeOK, NEW c \in OrderCalls, SaveLog(c)
    PROVE  /\ orderPc[c] = "log" /\ orderPc'[c] = "idle"
           /\ UNCHANGED <<order, orderFaults>>
           /\ Len(logs') = Len(logs) + 1
           /\ logs'[Len(logs')].newStatus = target[c]
           /\ \A i \in 1..Len(logs) : logs'[i] = logs[i]
           /\ \A d \in OrderCalls : d # c => /\ orderPc'[d] = orderPc[d]
                                             /\ target'[d] = target[d]
                                             /\ orderCopy'[d] = orderCopy[d]
<1> DEFINE new == [previousStatus |-> orderCopy[c].order.status,
                   newStatus |-> target[c], changedBy |-> caller[c]]
<1>1. logs' = Append(logs, new)
  BY DEF SaveLog
<1>2. logs \in Seq(StatusLogs) /\ new \in StatusLogs
  BY DEF OrderTypeOK, StatusLogs, Orders
<1>3. new.newStatus = target[c]
  OBVIOUS
<1>4. /\ Len(logs') = Len(logs) + 1
      /\ logs'[Len(logs')].newStatus = target[c]
      /\ \A i \in 1..Len(logs) : logs'[i] = logs[i]
  <2> HIDE DEF new
  <2> QED BY <1>1, <1>2, <1>3
<1>5. QED
  BY <1>4 DEF SaveLog, OrderReturn, OrderGoto, OrderTypeOK

LEMMA LoggedStep ==
    ASSUME OrderTypeOK, LoggedInv, [OrderNext]_orderVars
    PROVE  LoggedInv'
<1>1. ASSUME NEW c \in OrderCalls, Reads(c)
      PROVE  LoggedInv'
  BY <1>1, ReadsLeave DEF LoggedInv
<1>2. ASSUME NEW c \in OrderCalls, SaveOrder(c)
      PROVE  LoggedInv'
  <2>1. /\ orderPc[c] = "update" /\ orderPc'[c] = "log"
        /\ UNCHANGED <<logs, target, orderFaults>>
        /\ \A d \in OrderCalls : d # c => orderPc'[d] = orderPc[d]
    BY <1>2, SaveDoes DEF orderLocals
  <2>2. CASE order'.status = target[c]
    BY <2>1, <2>2 DEF LoggedInv
  <2>3. CASE order'.status = order.status /\ orderCopy[c].seen.status = target[c]
    BY <2>1, <2>3 DEF LoggedInv
  <2>4. QED
    BY <1>2, <2>2, <2>3, SaveDoes
<1>3. ASSUME NEW c \in OrderCalls, SaveLog(c), orderFaults = 0
      PROVE  LoggedInv'
  <2>1. Len(logs) \in Nat /\ Len(logs) >= 1
    BY DEF OrderTypeOK
  <2>2. \E d \in OrderCalls : orderPc[d] = "log"
    BY <1>3, SaveLogDoes
  <2>3. CASE target[c] = order.status
    BY <1>3, <2>1, <2>3, SaveLogDoes DEF LoggedInv
  <2>4. CASE \E d \in OrderCalls : d # c /\ orderPc[d] = "log" /\ target[d] = order.status
    BY <1>3, <2>4, SaveLogDoes DEF LoggedInv
  <2>5. CASE \E i \in 2..Len(logs) : logs[i].newStatus = order.status
    BY <1>3, <2>1, <2>5, SaveLogDoes DEF LoggedInv
  <2>6. QED
    BY <1>3, <2>2, <2>3, <2>4, <2>5 DEF LoggedInv
<1>4. ASSUME orderFaults' # 0
      PROVE  LoggedInv'
  BY <1>4 DEF LoggedInv
<1>5. CASE UNCHANGED orderVars
  BY <1>5 DEF orderVars, LoggedInv
<1>6. ASSUME NEW c \in OrderCalls, OrderCallFails(c)
      PROVE  orderFaults' # 0
  BY <1>6 DEF OrderCallFails, OrderTypeOK
<1>7. ASSUME OrderCrash
      PROVE  orderFaults' # 0
  BY <1>7 DEF OrderCrash, OrderTypeOK
<1>8. ASSUME NEW c \in OrderCalls, SaveLog(c), orderFaults # 0
      PROVE  orderFaults' # 0
  BY <1>8, SaveLogDoes
<1>9. QED
  BY <1>1, <1>2, <1>3, <1>4, <1>5, <1>6, <1>7, <1>8
     DEF OrderNext, OrderContinue, Reads

LEMMA CopyStep ==
    ASSUME OrderTypeOK, CopyInv, [OrderNext]_orderVars
    PROVE  CopyInv'
<1>1. ASSUME NEW c \in OrderCalls, Reads(c)
      PROVE  CopyInv'
  <2>1. Len(logs) \in Nat
    BY DEF OrderTypeOK
  <2>2. QED
    BY <1>1, <2>1, ReadsLeave DEF CopyInv
<1>2. ASSUME NEW c \in OrderCalls, SaveOrder(c)
      PROVE  CopyInv'
  BY <1>2, SaveDoes DEF CopyInv, orderLocals
<1>3. ASSUME NEW c \in OrderCalls, SaveLog(c)
      PROVE  CopyInv'
  <2>1. Len(logs) \in Nat /\ \A d \in OrderCalls : orderCopy[d].logs \in Nat
    BY DEF OrderTypeOK
  <2>2. QED
    BY <1>3, <2>1, SaveLogDoes DEF CopyInv
<1>4. ASSUME NEW c \in OrderCalls, OrderCallFails(c)
      PROVE  CopyInv'
  <2>1. /\ orderFaults' # 0 /\ orderPc'[c] = "idle"
        /\ \A d \in OrderCalls : d # c => /\ orderPc'[d] = orderPc[d]
                                          /\ target'[d] = target[d]
                                          /\ orderCopy'[d] = orderCopy[d]
    BY <1>4 DEF OrderCallFails, OrderReturn, OrderGoto, OrderTypeOK
  <2>2. QED
    BY <2>1 DEF CopyInv
<1>5. CASE OrderCrash
  BY <1>5 DEF OrderCrash, CopyInv
<1>6. CASE UNCHANGED orderVars
  BY <1>6 DEF orderVars, CopyInv
<1>7. QED
  BY <1>1, <1>2, <1>3, <1>4, <1>5, <1>6 DEF OrderNext, OrderContinue, Reads

\* However many calls overlap: when all are answered and none has failed, the
\* status of the order is a logged one (updateStatus).
THEOREM FinalStatusIsLogged ==
    ASSUME OrderStatusAssumption
    PROVE  OrderSpec => []StatusIsLogged
<1>1. OrderInit => OrderTypeOK /\ LoggedInv
  <2>1. OrderInit => LoggedInv
    BY DEF OrderInit, LoggedInv
  <2>2. QED
    BY <2>1, InitTypes
<1>2. OrderTypeOK /\ LoggedInv /\ [OrderNext]_orderVars => (OrderTypeOK /\ LoggedInv)'
  BY StepTypes, LoggedStep
<1>3. OrderTypeOK /\ LoggedInv => StatusIsLogged
  <2> SUFFICES ASSUME OrderTypeOK, LoggedInv, Idle, orderFaults = 0, Len(logs) > 1
               PROVE  \E i \in 2..Len(logs) : logs[i].newStatus = order.status
    BY DEF StatusIsLogged
  <2>1. ~ \E c \in OrderCalls : orderPc[c] = "log"
    BY DEF Idle
  <2>2. Len(logs) # 1
    <3>1. Len(logs) \in Nat
      BY DEF OrderTypeOK
    <3>2. \A n \in Nat : n > 1 => n # 1
      OBVIOUS
    <3>3. QED
      BY <3>1, <3>2
  <2>3. QED
    BY <2>1, <2>2 DEF LoggedInv
<1>4. QED
  BY <1>1, <1>2, <1>3, PTL DEF OrderSpec

\* However many calls overlap: an order that has settled stays as it is, once
\* no call is between the comparison of its save and its log: the logs that
\* the save compares refuse every older copy (updateStatus).
THEOREM SettledOrdersStay ==
    ASSUME OrderStatusAssumption
    PROVE  OrderSpec => SettledStays
<1>1. OrderInit => OrderTypeOK /\ CopyInv
  <2>1. OrderInit => CopyInv
    BY DEF OrderInit, CopyInv
  <2>2. QED
    BY <2>1, InitTypes
<1>2. OrderTypeOK /\ CopyInv /\ [OrderNext]_orderVars => (OrderTypeOK /\ CopyInv)'
  BY StepTypes, CopyStep
<1>3. OrderTypeOK /\ CopyInv /\ [OrderNext]_orderVars
        => [(InFinalStatus /\ orderFaults = 0) => (InFinalStatus' /\ order' = order)]_orderVars
  <2> SUFFICES ASSUME OrderTypeOK, CopyInv, OrderNext, InFinalStatus, orderFaults = 0
               PROVE  InFinalStatus' /\ order' = order
    OBVIOUS
  <2>1. ASSUME NEW c \in OrderCalls, Reads(c)
        PROVE  InFinalStatus' /\ order' = order
    <3>1. /\ UNCHANGED order
          /\ orderPc'[c] # "log"
          /\ \A d \in OrderCalls : d # c => orderPc'[d] = orderPc[d]
      BY <2>1, ReadsLeave
    <3>2. orderPc'[c] # "update"
      <4>1. SUFFICES ASSUME orderPc'[c] = "update"
                     PROVE  FALSE
        OBVIOUS
      <4>2. orderPc[c] = "save" /\ orderCopy[c].logs = Len(logs)
        BY <2>1, <4>1, ReadsLeave DEF LogsAsRead
      <4>3. orderCopy[c].order.status = order.status
        BY <4>2 DEF CopyInv, InFinalStatus
      <4>4. QED
        BY <4>2, <4>3 DEF CopyInv, InFinalStatus
    <3>3. QED
      BY <3>1, <3>2 DEF InFinalStatus
  <2>2. ASSUME NEW c \in OrderCalls
        PROVE  ~SaveOrder(c) /\ ~SaveLog(c)
    BY DEF SaveOrder, SaveLog, InFinalStatus
  <2>3. ASSUME NEW c \in OrderCalls, OrderCallFails(c)
        PROVE  InFinalStatus' /\ order' = order
    BY <2>3 DEF OrderCallFails, OrderReturn, OrderGoto, OrderTypeOK, InFinalStatus
  <2>4. CASE OrderCrash
    BY <2>4 DEF OrderCrash, InFinalStatus
  <2>5. QED
    BY <2>1, <2>2, <2>3, <2>4 DEF OrderNext, OrderContinue, Reads
<1>4. QED
  BY <1>1, <1>2, <1>3, PTL DEF OrderSpec, SettledStays

-----------------------------------------------------------------------------
(* Calls that do not overlap: the logs.                                    *)

\* A log of a change from p would not start where the last one ended.
OpenAt(p) == /\ p # logs[Len(logs)].newStatus
             /\ ~(Len(logs) = 1 /\ p \in Initial)

\* No more breaks than failed statements, and one in reserve for the break
\* that the next log makes; every status logged, or about to be, is stamped.
Journal(p) == /\ Cardinality(Breaks) <= orderFaults
              /\ OpenAt(p) => Cardinality(Breaks) + 1 <= orderFaults

StampInv ==
    \A i \in 1..Len(logs) :
        logs[i].newStatus \in Stamped => logs[i].newStatus \in order.stamps

JournalInv ==
    /\ StampInv
    /\ (\A c \in OrderCalls : orderPc[c] # "log") => Journal(order.status)
    /\ \A c \in OrderCalls : orderPc[c] = "log" =>
         /\ Journal(orderCopy[c].order.status)
         /\ order.status = target[c]
         /\ target[c] \in Stamped => target[c] \in order.stamps

LEMMA BreaksFinite ==
    ASSUME OrderTypeOK
    PROVE  IsFiniteSet(Breaks) /\ Cardinality(Breaks) \in Nat
<1>1. IsFiniteSet(2..Len(logs))
  BY FS_Interval DEF OrderTypeOK
<1>2. QED
  BY <1>1, FS_Subset, FS_CardinalityType DEF Breaks

\* A log adds a break only if it leaves a seam open.
LEMMA BreaksGrow ==
    ASSUME OrderTypeOK, OrderTypeOK', NEW c \in OrderCalls, SaveLog(c)
    PROVE  Breaks' \subseteq Breaks \cup
             (IF OpenAt(orderCopy[c].order.status) THEN {Len(logs) + 1} ELSE {})
<1> DEFINE new == [previousStatus |-> orderCopy[c].order.status,
                   newStatus |-> target[c], changedBy |-> caller[c]]
           n == Len(logs)
<1>1. logs' = Append(logs, new) /\ new.previousStatus = orderCopy[c].order.status
  BY DEF SaveLog
<1>2. logs \in Seq(StatusLogs) /\ n \in Nat /\ n >= 1
  BY DEF OrderTypeOK
<1> HIDE DEF new
<1>3. /\ Len(logs') = n + 1 /\ logs'[n + 1] = new
      /\ \A i \in 1..n : logs'[i] = logs[i]
  BY <1>1, <1>2
<1> SUFFICES ASSUME NEW i \in Breaks'
             PROVE  \/ i \in Breaks
                    \/ OpenAt(orderCopy[c].order.status) /\ i = n + 1
  OBVIOUS
<1>4. /\ i \in 2..(n + 1) /\ logs'[i].previousStatus # logs'[i - 1].newStatus
      /\ ~(i = 2 /\ logs'[i].previousStatus \in Initial)
  BY <1>3 DEF Breaks
<1>5. CASE i = n + 1
  BY <1>1, <1>2, <1>3, <1>4, <1>5 DEF OpenAt
<1>6. CASE i # n + 1
  <2>1. i \in 2..n /\ i \in 1..n /\ i - 1 \in 1..n
    BY <1>2, <1>4, <1>6
  <2>2. QED
    BY <1>3, <1>4, <2>1 DEF Breaks
<1>7. QED
  BY <1>5, <1>6

\* What leaves the row and its logs keeps the account of the breaks.
LEMMA JournalStays ==
    ASSUME OrderTypeOK, NEW p, Journal(p), UNCHANGED logs,
           orderFaults' \in {orderFaults, orderFaults + 1}
    PROVE  Journal(p)' /\ (orderFaults' = orderFaults + 1 => \A q : Journal(q)')
<1>1. Cardinality(Breaks) \in Nat /\ orderFaults \in Nat
  BY BreaksFinite DEF OrderTypeOK
<1>2. Breaks' = Breaks /\ \A q : OpenAt(q)' <=> OpenAt(q)
  BY DEF Breaks, OpenAt
<1>3. QED
  BY <1>1, <1>2 DEF Journal

LEMMA JournalStep ==
    ASSUME OrderTypeOK, OrderTypeOK', AloneInv, JournalInv, [OrderNext]_orderVars
    PROVE  JournalInv'
<1>1. ASSUME NEW c \in OrderCalls, Reads(c)
      PROVE  JournalInv'
  <2>1. /\ UNCHANGED <<order, logs,
                       orderFaults>> /\ orderPc[c] # "log" /\ orderPc'[c] # "log"
        /\ \A d \in OrderCalls : d # c => /\ orderPc'[d] = orderPc[d] /\ target'[d] = target[d]
                                          /\ orderCopy'[d] = orderCopy[d]
    BY <1>1, ReadsLeave
  <2>2. StampInv'
    BY <2>1 DEF JournalInv, StampInv
  <2>3. \A p : Journal(p) => Journal(p)'
    BY <2>1, JournalStays
  <2>4. QED
    BY <2>1, <2>2, <2>3 DEF JournalInv
<1>2. ASSUME NEW c \in OrderCalls, SaveOrder(c)
      PROVE  JournalInv'
  <2>1. /\ orderPc[c] = "update" /\ orderPc'[c] = "log"
        /\ UNCHANGED <<logs, target, orderCopy, orderFaults>>
        /\ \A d \in OrderCalls : d # c => orderPc'[d] = orderPc[d]
    BY <1>2, SaveDoes DEF orderLocals
  <2>2. /\ orderCopy[c].order = order /\ orderCopy[c].seen = order
        /\ \A d \in OrderCalls : d # c => orderPc[d] = "idle"
    BY <2>1 DEF AloneInv
  <2>3. /\ order'.status = target[c]
        /\ order'.stamps = order.stamps \cup ({target[c]} \cap Stamped)
    BY <1>2, <2>2 DEF SaveOrder, UpdatedOrder, Written
  <2>4. Journal(order.status)
    BY <2>1, <2>2 DEF JournalInv
  <2>5. Journal(orderCopy[c].order.status)'
    BY <2>1, <2>2, <2>4, JournalStays
  <2>6. StampInv'
    BY <2>1, <2>3 DEF JournalInv, StampInv
  <2>7. QED
    BY <2>1, <2>2, <2>3, <2>5, <2>6 DEF JournalInv
<1>3. ASSUME NEW c \in OrderCalls, SaveLog(c)
      PROVE  JournalInv'
  <2> DEFINE p == orderCopy[c].order.status
             n == Len(logs)
  <2>1. /\ orderPc[c] = "log" /\ orderPc'[c] = "idle" /\ UNCHANGED <<order, orderFaults>>
        /\ Len(logs') = n + 1 /\ logs'[n + 1].newStatus = target[c]
        /\ \A i \in 1..n : logs'[i] = logs[i]
        /\ \A d \in OrderCalls : d # c => orderPc'[d] = orderPc[d]
    BY <1>3, SaveLogDoes
  <2>2. \A d \in OrderCalls : orderPc'[d] = "idle"
    BY <2>1 DEF AloneInv
  <2>3. /\ Journal(p) /\ order.status = target[c]
        /\ target[c] \in Stamped => target[c] \in order.stamps
    BY <2>1 DEF JournalInv
  <2>4. n \in Nat /\ orderFaults \in Nat /\ n >= 1
    BY DEF OrderTypeOK
  <2>5. IsFiniteSet(Breaks) /\ Cardinality(Breaks) \in Nat
    BY BreaksFinite
  <2>6. Cardinality(Breaks') <= orderFaults
    <3>1. CASE OpenAt(p)
      <4>1. Breaks' \subseteq Breaks \cup {n + 1}
        BY <1>3, <3>1, BreaksGrow
      <4>2. /\ IsFiniteSet(Breaks \cup {n + 1})
            /\ Cardinality(Breaks \cup {n + 1}) <= Cardinality(Breaks) + 1
        <5>1. /\ IsFiniteSet(Breaks \cup {n + 1})
              /\ \/ Cardinality(Breaks \cup {n + 1}) = Cardinality(Breaks)
                 \/ Cardinality(Breaks \cup {n + 1}) = Cardinality(Breaks) + 1
          <6> HIDE DEF n
          <6> QED BY <2>5, FS_AddElement
        <5>2. QED
          BY <2>5, <5>1
      <4>3. /\ Cardinality(Breaks') <= Cardinality(Breaks \cup {n + 1})
            /\ Cardinality(Breaks') \in Nat
        BY <4>1, <4>2, FS_Subset, FS_CardinalityType
      <4>4. Cardinality(Breaks \cup {n + 1}) \in Nat
        BY <4>2, FS_CardinalityType
      <4>5. QED
        BY <2>3, <2>4, <2>5, <3>1, <4>2, <4>3, <4>4 DEF Journal
    <3>2. CASE ~OpenAt(p)
      <4>1. Breaks' \subseteq Breaks
        BY <1>3, <3>2, BreaksGrow
      <4>2. /\ Cardinality(Breaks') <= Cardinality(Breaks)
            /\ Cardinality(Breaks') \in Nat
        BY <2>5, <4>1, FS_Subset, FS_CardinalityType
      <4>3. QED
        BY <2>3, <2>4, <2>5, <4>2 DEF Journal
    <3>3. QED
      BY <3>1, <3>2
  <2>7. ~OpenAt(order.status)'
    BY <2>1, <2>3 DEF OpenAt
  <2>8. StampInv'
    <3> SUFFICES ASSUME NEW i \in 1..Len(logs'), logs'[i].newStatus \in Stamped
                 PROVE  logs'[i].newStatus \in order'.stamps
      BY DEF StampInv
    <3>1. CASE i = n + 1
      BY <2>1, <2>3, <3>1
    <3>2. CASE i # n + 1
      <4>1. i \in 1..n
        BY <2>1, <2>4, <3>2
      <4>2. QED
        BY <2>1, <4>1 DEF JournalInv, StampInv
    <3>3. QED
      BY <3>1, <3>2
  <2>9. Journal(order.status)'
    BY <2>1, <2>6, <2>7 DEF Journal
  <2>10. QED
    BY <2>2, <2>8, <2>9 DEF JournalInv
<1>4. ASSUME UNCHANGED <<order, logs>>, orderFaults' = orderFaults + 1,
             \A c \in OrderCalls : orderPc'[c] = "log" =>
                 orderPc[c] = "log" /\ target'[c] = target[c] /\ orderCopy'[c] = orderCopy[c]
      PROVE  JournalInv'
  <2>1. \E p : Journal(p)
    BY DEF JournalInv
  <2>2. \A p : Journal(p)'
    BY <1>4, <2>1, JournalStays
  <2>3. StampInv'
    BY <1>4 DEF JournalInv, StampInv
  <2>4. QED
    BY <1>4, <2>2, <2>3 DEF JournalInv
<1>5. ASSUME NEW c \in OrderCalls, OrderCallFails(c)
      PROVE  JournalInv'
  BY <1>4, <1>5 DEF OrderCallFails, OrderReturn, OrderGoto, OrderTypeOK
<1>6. CASE OrderCrash
  BY <1>4, <1>6 DEF OrderCrash
<1>7. CASE UNCHANGED orderVars
  BY <1>7 DEF orderVars, JournalInv, StampInv, Journal, OpenAt, Breaks
<1>8. QED
  BY <1>1, <1>2, <1>3, <1>5, <1>6, <1>7 DEF OrderNext, OrderContinue, Reads

LEMMA JournalInit ==
    ASSUME OrderStatusAssumption, OrderInit
    PROVE  JournalInv
<1>1. Len(logs) = 1 /\ logs[1].newStatus = "PENDING" /\ orderFaults = 0
  BY DEF OrderInit
<1>2. order.status \in Initial
  BY DEF OrderInit
<1>3. Breaks = {}
  BY <1>1 DEF Breaks
<1>4. Cardinality(Breaks) = 0
  BY <1>3, FS_EmptySet
<1>5. Journal(order.status)
  BY <1>1, <1>2, <1>4 DEF Journal, OpenAt
<1>6. StampInv
  BY <1>1 DEF StampInv, Stamped
<1>7. QED
  BY <1>5, <1>6 DEF JournalInv, OrderInit

\* The logs of calls that do not overlap tell the order's story: between one
\* and the next nothing is missing except once for each statement that failed,
\* and every status they name has its timestamp (updateStatus).
THEOREM LoneCallsKeepTheJournal ==
    ASSUME OrderStatusAssumption, MaxOrderCalls <= 1
    PROVE  OrderSpec => []JournalTellsTheStory
<1>1. OrderInit => OrderTypeOK /\ AloneInv /\ JournalInv
  <2>1. OrderInit => AloneInv
    BY DEF OrderInit, AloneInv
  <2>2. QED
    BY <2>1, InitTypes, JournalInit
<1>2. OrderTypeOK /\ AloneInv /\ JournalInv /\ [OrderNext]_orderVars
        => (OrderTypeOK /\ AloneInv /\ JournalInv)'
  BY StepTypes, AloneStep, JournalStep
<1>3. JournalInv => JournalTellsTheStory
  BY DEF JournalInv, StampInv, Journal, JournalTellsTheStory
<1>4. QED
  BY <1>1, <1>2, <1>3, PTL DEF OrderSpec
==============================================================================
