----------------------------- MODULE OrderStatus -----------------------------
(***************************************************************************)
(* OrdersService.updateStatus and cancelOrder on one order.                *)
(*                                                                         *)
(* updateStatus reads the order, checks the transition against what it     *)
(* read, saves the order and then inserts a status log.  No transaction    *)
(* and no lock spans these statements.  The save is two of them: a SELECT  *)
(* that compares the order and its status logs, which findOne has loaded,  *)
(* with the database, and an UPDATE of the columns found different.  A log *)
(* inserted between findOne and the SELECT would lose its order, which the *)
(* NOT NULL column refuses, so that such a save fails as a whole; one      *)
(* inserted after the SELECT is not noticed.                               *)
(***************************************************************************)
EXTENDS Naturals, Sequences, FiniteSets

CONSTANTS
    OrderCalls,     \* handlers that can be at work on the order
    Initial,        \* the statuses a checkout leaves an order in
    MaxOrderCalls,  \* how many of them work at the same time
    MaxLogs,        \* bound on the status logs of the order
    MaxOrderFaults  \* bound on failed statements and crashes

\* What the properties need of the constants.
OrderStatusAssumption ==
    /\ IsFiniteSet(OrderCalls)
    /\ Initial \subseteq {"PENDING", "CONFIRMED"}
    /\ MaxOrderCalls \in Nat
    /\ MaxLogs \in Nat
    /\ MaxOrderFaults \in Nat

VARIABLES
    order,          \* the row: status, cancelledBy and the timestamps set
    logs,           \* its status logs, in the order of insertion
    orderPc,        \* call -> its next awaited statement
    target,         \* call -> the new status
    caller,         \* call -> "owner" or "staff"
    orderCopy,      \* call -> the order it read, how many logs, and the
                    \* row its save compared with
    orderFaults

orderVars == <<order, logs, orderPc, target, caller, orderCopy, orderFaults>>
orderLocals == <<target, caller, orderCopy>>

Lifecycle == INSTANCE OrderLifecycle
    WITH status <- order.status, cancelledBy <- order.cancelledBy

Statuses == Lifecycle!Statuses
statusTransitions == Lifecycle!statusTransitions
userCancellableStatuses == Lifecycle!userCancellableStatuses

\* The statuses that have a timestamp of their own.
Stamped ==
    {"CONFIRMED", "PREPARING", "READY", "OUT_FOR_DELIVERY", "COMPLETED",
     "CANCELLED"}

Orders ==
    [status : Statuses, cancelledBy : {"nobody", "owner", "staff"},
     stamps : SUBSET Stamped]

OrderSteps == {"idle", "find", "save", "update", "log"}

StatusLogs ==
    [previousStatus : Statuses, newStatus : Statuses,
     changedBy : {"owner", "staff"}]

\* A row before it is read, and a call that has read nothing.
NoOrder == [status |-> "PENDING", cancelledBy |-> "nobody", stamps |-> {}]
NoOrderCopy == [order |-> NoOrder, logs |-> 0, seen |-> NoOrder]

-----------------------------------------------------------------------------
OrderInit ==
    /\ \E s \in Initial :
         order = [status |-> s, cancelledBy |-> "nobody",
                  stamps |-> {s} \cap Stamped]
    /\ logs = <<[previousStatus |-> "PENDING", newStatus |-> "PENDING",
                changedBy |-> "owner"]>>
    /\ orderPc = [c \in OrderCalls |-> "idle"]
    /\ target = [c \in OrderCalls |-> "PENDING"]
    /\ caller = [c \in OrderCalls |-> "staff"]
    /\ orderCopy = [c \in OrderCalls |-> NoOrderCopy]
    /\ orderFaults = 0

OrderArrives(c) ==
    /\ orderPc[c] = "idle"
    /\ Cardinality({d \in OrderCalls : orderPc[d] # "idle"}) < MaxOrderCalls
    /\ Len(logs) < MaxLogs

OrderGoto(c, step) == orderPc' = [orderPc EXCEPT ![c] = step]

\* The handler returns or throws; its variables are gone.
OrderReturn(c) ==
    /\ OrderGoto(c, "idle")
    /\ target' = [target EXCEPT ![c] = "PENDING"]
    /\ caller' = [caller EXCEPT ![c] = "staff"]
    /\ orderCopy' = [orderCopy EXCEPT ![c] = NoOrderCopy]

\* findOne of updateStatus, and the check of the transition.
FindAndValidate(c, newStatus) ==
    /\ newStatus \in statusTransitions[order.status]
    /\ OrderGoto(c, "save")
    /\ target' = [target EXCEPT ![c] = newStatus]
    /\ orderCopy' = [orderCopy EXCEPT ![c] = [order |-> order, logs |-> Len(logs),
                                              seen |-> NoOrder]]

\* PATCH :id/status and POST :id/confirm; a transition that the table does
\* not list is answered with an error and changes nothing.
BeginUpdate(c) ==
    /\ OrderArrives(c)
    /\ \E s \in Statuses : FindAndValidate(c, s)
    /\ caller' = [caller EXCEPT ![c] = "staff"]
    /\ UNCHANGED <<order, logs, orderFaults>>

\* Mutant: cancelOrder does not look at the status when the owner cancels.
BeginCancelAnyStatus(c, who) ==
    /\ OrderArrives(c)
    /\ order.status \notin {"COMPLETED", "CANCELLED", "REFUNDED"}
    /\ OrderGoto(c, "find")
    /\ caller' = [caller EXCEPT ![c] = who]
    /\ UNCHANGED <<order, logs, target, orderCopy, orderFaults>>

\* cancelOrder checks the status it reads and then calls updateStatus, which
\* reads the order again.
BeginCancel(c, who) ==
    /\ OrderArrives(c)
    /\ who = "owner" => order.status \in userCancellableStatuses
    /\ order.status \notin {"COMPLETED", "CANCELLED", "REFUNDED"}
    /\ OrderGoto(c, "find")
    /\ caller' = [caller EXCEPT ![c] = who]
    /\ UNCHANGED <<order, logs, target, orderCopy, orderFaults>>

FindForCancel(c) ==
    /\ orderPc[c] = "find"
    /\ \/ FindAndValidate(c, "CANCELLED") /\ UNCHANGED caller
       \/ /\ "CANCELLED" \notin statusTransitions[order.status]
          /\ OrderReturn(c)
    /\ UNCHANGED <<order, logs, orderFaults>>

\* What the handler has made of its copy when it saves it.
UpdatedOrder(c) ==
    LET read == orderCopy[c].order
    IN [status |-> target[c],
        cancelledBy |-> IF target[c] = "CANCELLED" THEN caller[c]
                                                   ELSE read.cancelledBy,
        stamps |-> read.stamps \cup ({target[c]} \cap Stamped)]

\* Mutant: findOne does not load the status logs.
LogsNotLoaded(c) == TRUE

LogsAsRead(c) == Len(logs) = orderCopy[c].logs

\* The SELECT of the save.
CompareOrder(c) ==
    /\ orderPc[c] = "save"
    /\ LogsAsRead(c)
    /\ OrderGoto(c, "update")
    /\ orderCopy' = [orderCopy EXCEPT ![c].seen = order]
    /\ UNCHANGED <<order, logs, target, caller, orderFaults>>

\* The row once the columns in which `made` differs from `seen` are written.
Written(made, seen) ==
    [status |-> IF made.status = seen.status THEN order.status ELSE made.status,
     cancelledBy |-> IF made.cancelledBy = seen.cancelledBy THEN order.cancelledBy
                                                            ELSE made.cancelledBy,
     stamps |-> (order.stamps \ (seen.stamps \ made.stamps))
                  \cup (made.stamps \ seen.stamps)]

\* Mutant: a cancellation is saved without a log.
SaveUnlogged(c) ==
    /\ orderPc[c] = "update"
    /\ order' = Written(UpdatedOrder(c), orderCopy[c].seen)
    /\ IF target[c] = "CANCELLED"
         THEN OrderReturn(c)
         ELSE OrderGoto(c, "log") /\ UNCHANGED orderLocals
    /\ UNCHANGED <<logs, orderFaults>>

\* The UPDATE of the save, whatever was committed since the SELECT.
SaveOrder(c) ==
    /\ orderPc[c] = "update"
    /\ order' = Written(UpdatedOrder(c), orderCopy[c].seen)
    /\ OrderGoto(c, "log")
    /\ UNCHANGED <<logs, orderLocals, orderFaults>>

\* The database refuses to take a log away from its order.
SaveRefused(c) ==
    /\ orderPc[c] = "save"
    /\ ~LogsAsRead(c)
    /\ OrderReturn(c)
    /\ UNCHANGED <<order, logs, orderFaults>>

\* Mutant: previousStatus is read from the order after it was changed.
SaveLogLate(c) ==
    /\ orderPc[c] = "log"
    /\ logs' = Append(logs, [previousStatus |-> target[c],
                             newStatus |-> target[c],
                             changedBy |-> caller[c]])
    /\ OrderReturn(c)
    /\ UNCHANGED <<order, orderFaults>>

SaveLog(c) ==
    /\ orderPc[c] = "log"
    /\ logs' = Append(logs, [previousStatus |-> orderCopy[c].order.status,
                             newStatus |-> target[c],
                             changedBy |-> caller[c]])
    /\ OrderReturn(c)
    /\ UNCHANGED <<order, orderFaults>>

-----------------------------------------------------------------------------
(* Failures: nothing undoes the statements that have been committed.       *)

OrderCallFails(c) ==
    /\ orderPc[c] # "idle"
    /\ orderFaults < MaxOrderFaults
    /\ orderFaults' = orderFaults + 1
    /\ OrderReturn(c)
    /\ UNCHANGED <<order, logs>>

OrderCrash ==
    /\ orderFaults < MaxOrderFaults
    /\ \E c \in OrderCalls : orderPc[c] # "idle"
    /\ orderFaults' = orderFaults + 1
    /\ orderPc' = [c \in OrderCalls |-> "idle"]
    /\ target' = [c \in OrderCalls |-> "PENDING"]
    /\ caller' = [c \in OrderCalls |-> "staff"]
    /\ orderCopy' = [c \in OrderCalls |-> NoOrderCopy]
    /\ UNCHANGED <<order, logs>>

OrderContinue(c) ==
    \/ FindForCancel(c)
    \/ CompareOrder(c) \/ SaveRefused(c)
    \/ SaveOrder(c)
    \/ SaveLog(c)

OrderNext ==
    \/ \E c \in OrderCalls :
         \/ BeginUpdate(c)
         \/ \E who \in {"owner", "staff"} : BeginCancel(c, who)
         \/ OrderContinue(c)
         \/ OrderCallFails(c)
    \/ OrderCrash

OrderSpec == OrderInit /\ [][OrderNext]_orderVars

-----------------------------------------------------------------------------
(* Properties.                                                             *)

\* Every variable has its type, and a call holds a copy of a real order.
OrderTypeOK ==
    /\ order \in Orders
    /\ logs \in Seq(StatusLogs) /\ Len(logs) >= 1
    /\ orderPc \in [OrderCalls -> OrderSteps]
    /\ target \in [OrderCalls -> Statuses]
    /\ caller \in [OrderCalls -> {"owner", "staff"}]
    /\ orderCopy \in [OrderCalls -> [order : Orders, logs : Nat, seen : Orders]]
    /\ orderFaults \in 0..MaxOrderFaults

Idle == \A c \in OrderCalls : orderPc[c] = "idle"

\* As long as calls do not overlap, the order moves along the transition
\* table and its owner cancels it only before it is prepared, whatever
\* statement fails (updateStatus, cancelOrder).
FollowsLifecycle == Lifecycle!LifeSpec

\* Logs that do not start where the log before them ended.  A cash checkout
\* confirms the order without a log, which is no break.
Breaks ==
    {i \in 2..Len(logs) :
        /\ logs[i].previousStatus # logs[i - 1].newStatus
        /\ ~(i = 2 /\ logs[i].previousStatus \in Initial)}

\* As long as calls do not overlap, the logs tell what happened: each starts
\* where the one before it ended, except once per failed statement, and the
\* row has a timestamp for every status they name.
JournalTellsTheStory ==
    /\ Cardinality(Breaks) <= orderFaults
    /\ \A i \in 1..Len(logs) :
         logs[i].newStatus \in Stamped => logs[i].newStatus \in order.stamps

\* However calls overlap: when all are answered and none has failed, the
\* status the order ended up with was written by a call that logged it.
StatusIsLogged ==
    (Idle /\ orderFaults = 0 /\ Len(logs) > 1) =>
        \E i \in 2..Len(logs) : logs[i].newStatus = order.status

\* The order has a status that the table does not leave, and no call is
\* between the comparison of its save and its log.
InFinalStatus ==
    /\ statusTransitions[order.status] = {}
    /\ \A c \in OrderCalls : orderPc[c] \notin {"update", "log"}

\* However calls overlap and whatever they have read: once the order has
\* settled and no call has already compared its copy with the row, it stays
\* as it is for good, because every call with an older copy finds a log that
\* it has not read and is refused.
SettledStays ==
    [][(InFinalStatus /\ orderFaults = 0) => (InFinalStatus' /\ order' = order)]_orderVars
=============================================================================
