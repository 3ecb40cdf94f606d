---------------------------- MODULE OrderLifecycle ----------------------------
(***************************************************************************)
(* What OrdersService promises of one order: its status moves along the    *)
(* transition table, one step at a time, and its owner can cancel it only  *)
(* before the kitchen has started.                                         *)
(***************************************************************************)
CONSTANT Initial       \* the statuses a checkout leaves an order in

VARIABLES status, cancelledBy

lifeVars == <<status, cancelledBy>>

Statuses ==
    {"PENDING", "CONFIRMED", "PREPARING", "READY", "OUT_FOR_DELIVERY",
     "COMPLETED", "CANCELLED", "REFUNDED"}

statusTransitions ==
    [PENDING          |-> {"CONFIRMED", "CANCELLED"},
     CONFIRMED        |-> {"PREPARING", "CANCELLED"},
     PREPARING        |-> {"READY", "OUT_FOR_DELIVERY", "CANCELLED"},
     READY            |-> {"COMPLETED", "CANCELLED"},
     OUT_FOR_DELIVERY |-> {"COMPLETED", "CANCELLED"},
     COMPLETED        |-> {"REFUNDED"},
     CANCELLED        |-> {},
     REFUNDED         |-> {}]

userCancellableStatuses == {"PENDING", "CONFIRMED"}

LifeInit ==
    /\ status \in Initial
    /\ cancelledBy = "nobody"

\* An administrator moves the order on.
Advance ==
    /\ status' \in statusTransitions[status]
    /\ cancelledBy' = IF status' = "CANCELLED" THEN "staff" ELSE cancelledBy

\* The customer cancels it.
OwnerCancels ==
    /\ status \in userCancellableStatuses
    /\ status' = "CANCELLED"
    /\ cancelledBy' = "owner"

LifeSpec == LifeInit /\ [][Advance \/ OwnerCancels]_lifeVars
=============================================================================
