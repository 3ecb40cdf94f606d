------------------------ MODULE DiscountAccounting ------------------------
(***************************************************************************)
(* What currentUsageCount counts: the reservations that carts hold and the *)
(* usages that committed orders have logged.                               *)
(***************************************************************************)
EXTENDS DiscountUsage, FiniteSetsExt

\* Users whose cart holds a reservation of d.
Holders(d) == {u \in Users : d \in Listed(appliedDiscounts[u])}

LogsOf(d) == MapThenSumSet(LAMBDA u : usageLogs[u][d], Users)

\* Corrections of a handler caught between two of its writes: a removal saved
\* and not yet released, a cart cleared and its order not yet committed, a
\* release of clearCart whose cart is not yet saved.
Owed(d) ==
    Cardinality({r \in Requests :
        \/ pc[r] = "remove_release" /\ target[r] = d
        \/ pc[r] = "checkout_commit" /\ d \in Listed(snapshot[r])})
Prepaid(d) ==
    Cardinality({r \in Requests :
        /\ pc[r] = "clear_release"
        /\ \E i \in 1 .. next[r] - 1 : snapshot[r][i] = d})

\* What currentUsageCount should be.
Counted(d) == Cardinality(Holders(d)) + LogsOf(d) + Owed(d) - Prepaid(d)

\* currentUsageCount is exactly the reservations held by carts plus the usages
\* logged, corrected by what the running handlers still owe; a failed statement
\* or a crash makes it wrong by at most one for each client it hits.  It needs
\* clients that wait for each answer and no administrator's edit; the row locks
\* alone make it hold across users.
ReservationAccounting ==
    \A d \in Discounts :
        LET drift == currentUsageCount[d] - Counted(d)
            bound == faults * Cardinality(Users)
        IN  drift \in -bound .. bound

\* No more carts and orders have the use of a limited discount than its
\* maxUsageTotal allows, but for one for each client a failure has hit; under the
\* same conditions, for an administrator's save may lower the count, or the limit.
ReservedWithinLimit ==
    \A d \in Discounts :
        limits[d].total # 0 =>
            Counted(d) <= limits[d].total + faults * Cardinality(Users)

\* A test expects as many usage logs as currentUsageCount says, once every
\* cart has been checked out.
LogsMatchCount ==
    Quiescent =>
        \A d \in Discounts :
            Holders(d) = {} => LogsOf(d) = currentUsageCount[d]
=============================================================================
