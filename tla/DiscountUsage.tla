--------------------------- MODULE DiscountUsage ---------------------------
(***************************************************************************)
(* Reservation and redemption of discounts.                                *)
(*                                                                         *)
(* A discount applied to a cart is reserved: CartService.applyDiscount     *)
(* increments discounts."currentUsageCount" under a row lock, and          *)
(* removeDiscount / clearCart decrement it.  CheckoutService locks the     *)
(* same rows, checks the limits again, writes one usage log per discount   *)
(* and increments the per-user counter of user-targeted discounts.         *)
(*                                                                         *)
(* Every handler is an async function: between two awaited statements any  *)
(* other request may run.  One action stands for one awaited statement, or *)
(* for one transaction whose intermediate states nobody can observe.  A    *)
(* cart read by a handler is kept in `snapshot` and written back whole     *)
(* (TypeORM save), however old it is by then.                              *)
(***************************************************************************)
EXTENDS Integers, Sequences, FiniteSets

CONSTANTS
    Requests,          \* in-flight HTTP requests
    NoRequest,         \* owner of an unlocked discount row
    Users,
    Discounts,
    UserTargeted,      \* discounts with targetType = "user"
    Limits,            \* [total, perUser] a discount may have, 0 for none
    Caller,            \* request -> the authenticated user who sent it
    Calls,             \* request -> the endpoints it may be a call of
    StartCarts,        \* discount lists the carts may hold at the start
    CardCheckouts,     \* requests whose checkout, if they are one, pays by card
    InFlightPerUser,   \* how many requests one client keeps in flight
    MaxFaults          \* bound on failed statements and crashes

Endpoints == {"apply", "remove", "clear", "touch", "checkout",
              "edit", "assign", "unassign"}

UserEndpoints == {"apply", "remove", "clear", "touch", "checkout"}

\* A list of discounts without repetition.
DiscountLists ==
    {s \in Seq(Discounts) : \A i, j \in 1 .. Len(s) : s[i] = s[j] => i = j}

Listed(s) == {s[i] : i \in 1 .. Len(s)}

ASSUME ConstantsAssumption ==
    /\ NoRequest \notin Requests
    /\ IsFiniteSet(Users)
    /\ UserTargeted \subseteq Discounts
    /\ Limits \subseteq [total : Nat, perUser : Nat]
    /\ Caller \in [Requests -> Users]
    /\ Calls \in [Requests -> SUBSET Endpoints]
    /\ StartCarts \subseteq DiscountLists
    /\ CardCheckouts \subseteq Requests
    /\ InFlightPerUser \in Nat
    /\ MaxFaults \in Nat

VARIABLES
    currentUsageCount, \* discounts."currentUsageCount"
    limits,            \* maxUsageTotal and maxUsagePerUser of a discount
    state,             \* isActive, status, dates and deletedAt of a discount
    assigned,          \* user_discounts: the discounts assigned to a user
    usageCount,        \* user_discounts."usageCount"
    usageLogs,         \* committed discount_usage_logs rows per user, discount
    logsAtReset,       \* history: usageLogs when usageCount was last reset
    appliedDiscounts,  \* carts."appliedDiscounts"
    lock,              \* discount -> the checkout transaction locking its row
    pc,                \* request -> its next awaited statement
    target,            \* request -> the discount named in the call
    snapshot,          \* request -> appliedDiscounts as the handler read them
    next,              \* request -> position in the loop over snapshot
    countRead,         \* request -> currentUsageCount as an admin edit read it
    faults

dbVars == <<currentUsageCount, limits, state, assigned, usageCount, usageLogs,
            logsAtReset>>
localVars == <<target, snapshot, next, countRead>>
vars == <<dbVars, appliedDiscounts, lock, pc, localVars, faults>>

-----------------------------------------------------------------------------
(* The row of a discount.  applyDiscount asks for isActive and status      *)
(* "active" and ignores the dates; checkout asks for isActive and the      *)
(* dates and ignores the status.  "paused" is isActive with another        *)
(* status, "ended" is isActive and past its end date.                      *)

States == {"active", "paused", "ended", "inactive", "deleted"}

CanReserve(d) == state[d] \in {"active", "ended"}
CanRedeem(d) == state[d] \in {"active", "paused"}

\* Mutant: an off-by-one in the limit check
BelowOrAtTotalLimit(d) ==
    limits[d].total = 0 \/ currentUsageCount[d] <= limits[d].total

BelowTotalLimit(d) ==
    limits[d].total = 0 \/ currentUsageCount[d] < limits[d].total

\* The per-user check; only user-targeted discounts have one.
UserMayUse(u, d) ==
    d \in UserTargeted =>
        /\ d \in assigned[u]
        /\ limits[d].perUser = 0 \/ usageCount[u][d] < limits[d].perUser

\* Mutant: a decrement without GREATEST
ReleasedUnchecked(d) == [currentUsageCount EXCEPT ![d] = @ - 1]

\* GREATEST(0, "currentUsageCount" - 1)
Released(d) ==
    [currentUsageCount EXCEPT ![d] = IF @ > 0 THEN @ - 1 ELSE 0]

\* UPDATE and FOR UPDATE wait while another transaction locks the row.
RowFree(d) == lock[d] = NoRequest

\* A transaction that locks a discount locks its caller's user_discounts row.
AssignmentRowFree(u, d) == \A r \in Requests : lock[d] = r => Caller[r] # u

Unlocked(r) == [d \in Discounts |-> IF lock[d] = r THEN NoRequest ELSE lock[d]]

\* Mutant: the checkout reads the row without locking it
NotLocked(r, d) == lock

Locked(r, d) == [lock EXCEPT ![d] = r]

InTransaction == {"checkout_lock", "checkout_clear", "checkout_commit"}

Steps == InTransaction \cup
    {"idle", "done", "apply_reserve", "remove_save", "remove_release",
     "clear_release", "touch_save", "recalc_read", "recalc_save",
     "validate_save", "checkout_read", "edit_save"}

Goto(r, step) == pc' = [pc EXCEPT ![r] = step]

Active(r) == pc[r] \notin {"idle", "done"}

-----------------------------------------------------------------------------
Init ==
    /\ appliedDiscounts \in [Users -> StartCarts]
    /\ currentUsageCount =
         [d \in Discounts |->
            Cardinality({u \in Users : d \in Listed(appliedDiscounts[u])})]
    /\ limits \in [Discounts -> Limits]
    /\ \A d \in Discounts :
         limits[d].total # 0 => currentUsageCount[d] <= limits[d].total
    /\ state = [d \in Discounts |-> "active"]
    /\ assigned = [u \in Users |-> UserTargeted]
    /\ usageCount = [u \in Users |-> [d \in Discounts |-> 0]]
    /\ usageLogs = [u \in Users |-> [d \in Discounts |-> 0]]
    /\ logsAtReset = [u \in Users |-> [d \in Discounts |-> 0]]
    /\ lock = [d \in Discounts |-> NoRequest]
    /\ pc = [r \in Requests |-> "idle"]
    /\ target \in [Requests -> Discounts]
    /\ snapshot = [r \in Requests |-> <<>>]
    /\ next = [r \in Requests |-> 1]
    /\ countRead = [r \in Requests |-> 0]
    /\ faults = 0

\* A user's request arrives; a client keeps at most InFlightPerUser of them.
Arrives(r, endpoint) ==
    /\ pc[r] = "idle"
    /\ endpoint \in Calls[r]
    /\ endpoint \in UserEndpoints =>
         Cardinality({q \in Requests : /\ Active(q)
                                       /\ Caller[q] = Caller[r]})
           < InFlightPerUser

\* getOrCreateCart: the handler works on this copy from now on.
ReadCart(r) ==
    /\ snapshot' = [snapshot EXCEPT ![r] = appliedDiscounts[Caller[r]]]
    /\ next' = [next EXCEPT ![r] = 1]

\* cartRepository.save(cart): the copy, changed or not, replaces the row.
SaveCart(r, list) ==
    appliedDiscounts' = [appliedDiscounts EXCEPT ![Caller[r]] = list]

-----------------------------------------------------------------------------
(* POST /cart/discount : CartService.applyDiscount                         *)

\* Mutant: the search for the discount in the cart is dropped
NeverApplied(r) == FALSE

AlreadyApplied(r) == target[r] \in Listed(appliedDiscounts[Caller[r]])

BeginApply(r) ==
    /\ Arrives(r, "apply")
    /\ state[target[r]] # "deleted"
    /\ ~AlreadyApplied(r)
    /\ ReadCart(r)
    /\ Goto(r, "apply_reserve")
    /\ UNCHANGED <<dbVars, appliedDiscounts, lock, target, countRead, faults>>

\* The reserving transaction: lock, check, increment, save the cart, commit.
Reserve(r) ==
    LET d == target[r] IN
    /\ pc[r] = "apply_reserve"
    /\ RowFree(d)
    /\ CanReserve(d)
    /\ BelowTotalLimit(d)
    /\ UserMayUse(Caller[r], d)
    /\ currentUsageCount' = [currentUsageCount EXCEPT ![d] = @ + 1]
    /\ SaveCart(r, Append(snapshot[r], d))
    /\ Goto(r, "recalc_read")
    /\ UNCHANGED <<limits, state, assigned, usageCount, usageLogs, logsAtReset,
                   lock, localVars, faults>>

RejectApply(r) ==
    LET d == target[r] IN
    /\ pc[r] = "apply_reserve"
    /\ RowFree(d)
    /\ ~(CanReserve(d) /\ BelowTotalLimit(d) /\ UserMayUse(Caller[r], d))
    /\ Goto(r, "done")
    /\ UNCHANGED <<dbVars, appliedDiscounts, lock, localVars, faults>>

(* recalculateTotals: a fresh read, then a save of what was read.          *)

RecalculateRead(r) ==
    /\ pc[r] = "recalc_read"
    /\ ReadCart(r)
    /\ Goto(r, "recalc_save")
    /\ UNCHANGED <<dbVars, appliedDiscounts, lock, target, countRead, faults>>

RecalculateSave(r) ==
    /\ pc[r] = "recalc_save"
    /\ SaveCart(r, snapshot[r])
    /\ Goto(r, "done")
    /\ UNCHANGED <<dbVars, lock, localVars, faults>>

-----------------------------------------------------------------------------
(* DELETE /cart/discount/:id : CartService.removeDiscount                  *)

BeginRemove(r) ==
    /\ Arrives(r, "remove")
    /\ ReadCart(r)
    /\ Goto(r, "remove_save")
    /\ UNCHANGED <<dbVars, appliedDiscounts, lock, target, countRead, faults>>

\* The filter of removeDiscount, on a list that holds d at most once.
Without(s, d) ==
    LET at == CHOOSE i \in 1 .. Len(s) : s[i] = d
    IN  IF d \in Listed(s)
        THEN SubSeq(s, 1, at - 1) \o SubSeq(s, at + 1, Len(s))
        ELSE s

RemoveSave(r) ==
    LET wasApplied == target[r] \in Listed(snapshot[r]) IN
    /\ pc[r] = "remove_save"
    /\ SaveCart(r, Without(snapshot[r], target[r]))
    /\ Goto(r, IF wasApplied THEN "remove_release" ELSE "recalc_read")
    /\ UNCHANGED <<dbVars, lock, localVars, faults>>

RemoveRelease(r) ==
    /\ pc[r] = "remove_release"
    /\ RowFree(target[r])
    /\ currentUsageCount' = Released(target[r])
    /\ Goto(r, "recalc_read")
    /\ UNCHANGED <<limits, state, assigned, usageCount, usageLogs, logsAtReset,
                   appliedDiscounts, lock, localVars, faults>>

(* DELETE /cart : CartService.clearCart(userId, true)                      *)

BeginClear(r) ==
    /\ Arrives(r, "clear")
    /\ ReadCart(r)
    /\ Goto(r, "clear_release")
    /\ UNCHANGED <<dbVars, appliedDiscounts, lock, target, countRead, faults>>

ClearRelease(r) ==
    /\ pc[r] = "clear_release"
    /\ next[r] <= Len(snapshot[r])
    /\ RowFree(snapshot[r][next[r]])
    /\ currentUsageCount' = Released(snapshot[r][next[r]])
    /\ next' = [next EXCEPT ![r] = @ + 1]
    /\ UNCHANGED <<limits, state, assigned, usageCount, usageLogs, logsAtReset,
                   appliedDiscounts, lock, pc, target, snapshot, countRead,
                   faults>>

ClearSave(r) ==
    /\ pc[r] = "clear_release"
    /\ next[r] > Len(snapshot[r])
    /\ SaveCart(r, <<>>)
    /\ Goto(r, "done")
    /\ UNCHANGED <<dbVars, lock, localVars, faults>>

(* setOrderType, setBranch, setDeliveryAddress, setPickupTime: a cart read *)
(* and saved whole; some of them recalculate the totals afterwards.        *)

BeginTouch(r) ==
    /\ Arrives(r, "touch")
    /\ ReadCart(r)
    /\ Goto(r, "touch_save")
    /\ UNCHANGED <<dbVars, appliedDiscounts, lock, target, countRead, faults>>

TouchSave(r) ==
    /\ pc[r] = "touch_save"
    /\ SaveCart(r, snapshot[r])
    /\ \E step \in {"recalc_read", "done"} : Goto(r, step)
    /\ UNCHANGED <<dbVars, lock, localVars, faults>>

-----------------------------------------------------------------------------
(* POST /orders/checkout : CheckoutService.processCheckout.  The order and *)
(* its payment are left to the module Checkout.                            *)

\* validateCart reads the cart ...
BeginCheckout(r) ==
    /\ Arrives(r, "checkout")
    /\ ReadCart(r)
    /\ Goto(r, "validate_save")
    /\ UNCHANGED <<dbVars, appliedDiscounts, lock, target, countRead, faults>>

\* ... and saves it with lastValidatedAt; an invalid cart ends the request.
ValidateSave(r) ==
    /\ pc[r] = "validate_save"
    /\ SaveCart(r, snapshot[r])
    /\ \E step \in {"checkout_read", "done"} : Goto(r, step)
    /\ UNCHANGED <<dbVars, lock, localVars, faults>>

\* getCart, and the start of the transaction.
CheckoutRead(r) ==
    /\ pc[r] = "checkout_read"
    /\ ReadCart(r)
    /\ Goto(r, "checkout_lock")
    /\ UNCHANGED <<dbVars, appliedDiscounts, lock, target, countRead, faults>>

\* The discount the loop of validateDiscountsWithLock is at.
Pending(r) == snapshot[r][next[r]]

Redeemable(r, d) ==
    /\ CanRedeem(d)
    /\ BelowTotalLimit(d)
    /\ UserMayUse(Caller[r], d)

ValidateDiscount(r) ==
    /\ pc[r] = "checkout_lock"
    /\ next[r] <= Len(snapshot[r])
    /\ RowFree(Pending(r))
    /\ Redeemable(r, Pending(r))
    /\ lock' = Locked(r, Pending(r))
    /\ next' = [next EXCEPT ![r] = @ + 1]
    /\ UNCHANGED <<dbVars, appliedDiscounts, pc, target, snapshot, countRead,
                   faults>>

\* A failed check throws; the catch block rolls the transaction back.
RejectDiscount(r) ==
    /\ pc[r] = "checkout_lock"
    /\ next[r] <= Len(snapshot[r])
    /\ RowFree(Pending(r))
    /\ ~Redeemable(r, Pending(r))
    /\ lock' = Unlocked(r)
    /\ Goto(r, "done")
    /\ UNCHANGED <<dbVars, appliedDiscounts, localVars, faults>>

\* recordUsage(skipGlobalIncrement) for every discount: the limits are
\* checked again; the rows it writes are visible only after the commit.
RecordUsage(r) ==
    LET Allowed(d) ==
          /\ BelowTotalLimit(d)
          /\ d \in UserTargeted \cap assigned[Caller[r]] =>
               UserMayUse(Caller[r], d)
    IN
    /\ pc[r] = "checkout_lock"
    /\ next[r] > Len(snapshot[r])
    /\ IF \A d \in Listed(snapshot[r]) : Allowed(d)
       THEN lock' = lock /\ Goto(r, "checkout_clear")
       ELSE lock' = Unlocked(r) /\ Goto(r, "done")
    /\ UNCHANGED <<dbVars, appliedDiscounts, localVars, faults>>

\* Mutant: clearCart(userId), which releases the reservations as well
CheckoutClearReleasing(r) ==
    /\ pc[r] = "checkout_clear"
    /\ SaveCart(r, <<>>)
    /\ currentUsageCount' =
         [d \in Discounts |-> IF d \in Listed(snapshot[r])
                              THEN Released(d)[d] ELSE currentUsageCount[d]]
    /\ Goto(r, "checkout_commit")
    /\ UNCHANGED <<limits, state, assigned, usageCount, usageLogs, logsAtReset,
                   lock, localVars, faults>>

\* clearCart(userId, false), on a connection of its own.
CheckoutClear(r) ==
    /\ pc[r] = "checkout_clear"
    /\ SaveCart(r, <<>>)
    /\ Goto(r, "checkout_commit")
    /\ UNCHANGED <<dbVars, lock, localVars, faults>>

CheckoutCommit(r) ==
    LET u == Caller[r]
        redeemed == Listed(snapshot[r])
        counted == redeemed \cap UserTargeted \cap assigned[u]
        Bumped(f, S) == [f EXCEPT ![u] =
            [d \in Discounts |-> IF d \in S THEN f[u][d] + 1 ELSE f[u][d]]]
    IN
    /\ pc[r] = "checkout_commit"
    /\ usageLogs' = Bumped(usageLogs, redeemed)
    /\ usageCount' = Bumped(usageCount, counted)
    /\ lock' = Unlocked(r)
    /\ Goto(r, "done")
    /\ UNCHANGED <<currentUsageCount, limits, state, assigned, logsAtReset,
                   appliedDiscounts, localVars, faults>>

-----------------------------------------------------------------------------
(* The administrator's endpoints and the clock.                            *)

\* update, activateDiscount, deactivateDiscount, expireDiscount, remove:
\* findOne ...
BeginEdit(r) ==
    /\ Arrives(r, "edit")
    /\ state[target[r]] # "deleted"
    /\ countRead' = [countRead EXCEPT ![r] = currentUsageCount[target[r]]]
    /\ Goto(r, "edit_save")
    /\ UNCHANGED <<dbVars, appliedDiscounts, lock, target, snapshot, next,
                   faults>>

\* ... then save of the whole entity, in which the request may have set the
\* limits.  TypeORM compares it with the row as it is, before the UPDATE: a
\* column that differs is written as read, one that does not is left to others.
EditSave(r) ==
    LET d == target[r] IN
    /\ pc[r] = "edit_save"
    /\ RowFree(d)
    /\ \E s \in (States \ {"deleted"}) \cup {state[d]} : state' = [state EXCEPT ![d] = s]
    /\ \E l \in Limits : limits' = [limits EXCEPT ![d] = l]
    /\ \E n \in {countRead[r], currentUsageCount[d]} :
         currentUsageCount' = [currentUsageCount EXCEPT ![d] = n]
    /\ Goto(r, "done")
    /\ UNCHANGED <<assigned, usageCount, usageLogs, logsAtReset,
                   appliedDiscounts, lock, localVars, faults>>

\* ... or softDelete, which touches deletedAt alone.
SoftDelete(r) ==
    /\ pc[r] = "edit_save"
    /\ RowFree(target[r])
    /\ state' = [state EXCEPT ![target[r]] = "deleted"]
    /\ Goto(r, "done")
    /\ UNCHANGED <<currentUsageCount, limits, assigned, usageCount, usageLogs,
                   logsAtReset, appliedDiscounts, lock, localVars, faults>>

\* assignToUsers saves rows with usageCount 0, new or not.  An insert checks
\* the foreign key, so it waits for a transaction that locks the discount.
AssignToUser(r) ==
    LET d == target[r] IN
    /\ Arrives(r, "assign")
    /\ state[d] # "deleted"
    /\ d \in UserTargeted
    /\ \E u \in Users :
         /\ IF d \in assigned[u] THEN AssignmentRowFree(u, d) ELSE RowFree(d)
         /\ assigned' = [assigned EXCEPT ![u] = @ \cup {d}]
         /\ usageCount' = [usageCount EXCEPT ![u][d] = 0]
         /\ logsAtReset' = [logsAtReset EXCEPT ![u][d] = usageLogs[u][d]]
    /\ Goto(r, "done")
    /\ UNCHANGED <<currentUsageCount, limits, state, usageLogs, appliedDiscounts,
                   lock, localVars, faults>>

RemoveUserAssignment(r) ==
    LET d == target[r] IN
    /\ Arrives(r, "unassign")
    /\ \E u \in Users :
         /\ AssignmentRowFree(u, d)
         /\ assigned' = [assigned EXCEPT ![u] = @ \ {d}]
    /\ Goto(r, "done")
    /\ UNCHANGED <<currentUsageCount, limits, state, usageCount, usageLogs,
                   logsAtReset, appliedDiscounts, lock, localVars, faults>>

-----------------------------------------------------------------------------
(* Failures.                                                               *)

\* PostgreSQL aborts one member of a cycle of waiting transactions.
Waiting(r) ==
    /\ pc[r] = "checkout_lock"
    /\ next[r] <= Len(snapshot[r])
    /\ lock[Pending(r)] \in Requests \ {r}

\* Mutant: a database that does not look for cycles
NeverInDeadlock(r) == FALSE

InDeadlock(r) ==
    \E S \in SUBSET {q \in Requests : Waiting(q)} :
        /\ r \in S
        /\ {lock[Pending(q)] : q \in S} = S

DeadlockAbort(r) ==
    /\ InDeadlock(r)
    /\ lock' = Unlocked(r)
    /\ Goto(r, "done")
    /\ UNCHANGED <<dbVars, appliedDiscounts, localVars, faults>>

\* A statement fails (payment declined, connection lost, commit refused):
\* the handler throws, and a checkout in its transaction rolls back.
RequestFails(r) ==
    /\ Active(r)
    /\ pc[r] \notin {"remove_release", "clear_release"}
    /\ faults < MaxFaults
    /\ faults' = faults + 1
    /\ lock' = Unlocked(r)
    /\ Goto(r, "done")
    /\ UNCHANGED <<dbVars, appliedDiscounts, localVars>>

\* A failed decrement is logged and swallowed.
ReleaseFails(r) ==
    /\ faults < MaxFaults
    /\ faults' = faults + 1
    /\ \/ /\ pc[r] = "remove_release"
          /\ Goto(r, "recalc_read")
          /\ next' = next
       \/ /\ pc[r] = "clear_release"
          /\ next[r] <= Len(snapshot[r])
          /\ next' = [next EXCEPT ![r] = @ + 1]
          /\ pc' = pc
    /\ UNCHANGED <<dbVars, appliedDiscounts, lock, target, snapshot, countRead>>

\* The process dies: every request is lost, every transaction rolled back.
Crash ==
    /\ \E r \in Requests : Active(r)
    /\ faults < MaxFaults
    /\ faults' = faults + 1
    /\ lock' = [d \in Discounts |-> NoRequest]
    /\ pc' = [r \in Requests |-> IF Active(r) THEN "done" ELSE pc[r]]
    /\ UNCHANGED <<dbVars, appliedDiscounts, localVars>>

-----------------------------------------------------------------------------
Begin(r) ==
    \/ BeginApply(r) \/ BeginRemove(r) \/ BeginClear(r) \/ BeginTouch(r)
    \/ BeginCheckout(r) \/ BeginEdit(r) \/ AssignToUser(r)
    \/ RemoveUserAssignment(r)

CartStep(r) ==
    \/ Reserve(r) \/ RejectApply(r) \/ RecalculateRead(r) \/ RecalculateSave(r)
    \/ RemoveSave(r) \/ RemoveRelease(r) \/ ClearRelease(r) \/ ClearSave(r)
    \/ TouchSave(r)

CheckoutStep(r) ==
    \/ ValidateSave(r) \/ CheckoutRead(r) \/ ValidateDiscount(r)
    \/ RejectDiscount(r) \/ RecordUsage(r) \/ CheckoutClear(r)
    \/ CheckoutCommit(r) \/ DeadlockAbort(r)

AdminStep(r) == EditSave(r) \/ SoftDelete(r)

Continue(r) == CartStep(r) \/ CheckoutStep(r) \/ AdminStep(r)

Fail(r) == RequestFails(r) \/ ReleaseFails(r)

\* Every request has been answered, or has found nothing to do.
Quiescent == \A r \in Requests : ~Active(r)

Idle == Quiescent /\ UNCHANGED vars

Next ==
    \/ \E r \in Requests : Begin(r) \/ Continue(r) \/ Fail(r)
    \/ Crash
    \/ Idle

Spec == Init /\ [][Next]_vars

\* A card checkout that waits for its payment, in a transaction on another
\* connection, may wait for ever: see CheckoutCard.
HangsOnCard(r) == r \in CardCheckouts /\ pc[r] = "checkout_clear"

\* Otherwise the event loop resumes every handler whose statement has completed,
\* the database grants a free lock, and its detector breaks deadlocks.
FairSpec == Spec /\ \A r \in Requests : WF_vars(~HangsOnCard(r) /\ Continue(r))

-----------------------------------------------------------------------------
(* Properties.                                                             *)

\* Every variable holds a value of its column or local variable.
TypeOK ==
    /\ currentUsageCount \in [Discounts -> Nat]
    /\ limits \in [Discounts -> [total : Nat, perUser : Nat]]
    /\ state \in [Discounts -> States]
    /\ assigned \in [Users -> SUBSET Discounts]
    /\ usageCount \in [Users -> [Discounts -> Nat]]
    /\ usageLogs \in [Users -> [Discounts -> Nat]]
    /\ logsAtReset \in [Users -> [Discounts -> Nat]]
    /\ appliedDiscounts \in [Users -> Seq(Discounts)]
    /\ lock \in [Discounts -> Requests \cup {NoRequest}]
    /\ pc \in [Requests -> Steps]
    /\ target \in [Requests -> Discounts]
    /\ snapshot \in [Requests -> Seq(Discounts)]
    /\ next \in [Requests -> Nat \ {0}]
    /\ countRead \in [Requests -> Nat]
    /\ faults \in Nat

\* An order that redeems a user-targeted discount is, with it, within the
\* maxUsagePerUser of that moment, counted since the discount was (re)assigned:
\* what validateDiscountsWithLock found, the limit an administrator may lower
\* included, its row locks preserve until the usage is committed.
PerUserLimit ==
    [][\A u \in Users, d \in UserTargeted :
          usageLogs'[u][d] > usageLogs[u][d] /\ limits[d].perUser # 0 =>
              usageLogs'[u][d] - logsAtReset[u][d] <= limits[d].perUser]_vars

\* No cart lists a discount twice, so one checkout logs it once: applyDiscount
\* appends to the very copy it searched, however stale.
NoDuplicateDiscount ==
    \A u \in Users : appliedDiscounts[u] \in DiscountLists

\* A usage is never logged for a discount that an administrator has switched
\* off or deleted: their save waits for the checkout that validated it.
RedeemedWhileOffered ==
    [][\A u \in Users, d \in Discounts :
          usageLogs'[u][d] > usageLogs[u][d] =>
              state[d] \notin {"inactive", "deleted"}]_vars

\* The discount rows whose lock a statement of r waits for.
AwaitedRows(r) ==
    CASE pc[r] \in {"apply_reserve", "remove_release", "edit_save"} -> {target[r]}
      [] pc[r] \in {"clear_release", "checkout_lock"} ->
           {snapshot[r][i] : i \in {next[r]} \cap (1 .. Len(snapshot[r]))}
      [] OTHER -> {}

\* The card checkouts that hang, and who waits behind them.
Stuck ==
    {r \in Requests : \A S \in SUBSET Requests :
        /\ \A q \in Requests : HangsOnCard(q) => q \in S
        /\ \A q \in Requests : (\E d \in AwaitedRows(q) : lock[d] \in S) => q \in S
        => r \in S}

\* Every request that has started is answered, whatever deadlocks checkouts run
\* into, unless it is, or comes to wait behind, a card checkout that hangs.
RequestsFinish ==
    \A r \in Requests : Active(r) ~> (~Active(r) \/ r \in Stuck)

\* A test expects every reservation of a limited discount to be redeemable:
\* a checkout that has come to the lock of a discount its cart reserved does
\* not find the discount used up.
ReservedIsRedeemable ==
    \A r \in Requests :
        /\ pc[r] = "checkout_lock"
        /\ next[r] <= Len(snapshot[r])
        /\ RowFree(Pending(r))
        => BelowTotalLimit(Pending(r))
=============================================================================
