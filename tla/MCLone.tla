------------------------------- MODULE MCLone -------------------------------
(***************************************************************************)
(* The handlers of the modules below one at a time, with failures: an      *)
(* order's status, a payment, the administrators' devices, a branch's menu *)
(* and the migrations.  No handler of one writes a row of another, so TLC  *)
(* explores them in turn: scope says which is at work, the others rest in  *)
(* their initial states.                                                   *)
(***************************************************************************)
EXTENDS OrderStatus, PaymentRefund, Notifications, BranchMenu

CONSTANTS t1, t2, device, dish1, dish2, category, zone1, zone2

VARIABLES scope, db, version

OneDevice == [t \in {t1, t2} |-> device]
OneCategory == [p \in {dish1, dish2} |-> category]

Schemas == INSTANCE Migrations
    WITH Releases <- {8, 10, 23}, Zones <- {zone1, zone2}, Fees <- {0, 2},
         Prices <- {0, 30, 34},
         Entries <- [item : {"item", "gone"}, quantity : {1, 2}]

ASSUME ConstantsAssumption ==
    /\ OrderStatusAssumption /\ PaymentAssumption /\ NotificationsAssumption
    /\ MenuAssumption /\ Schemas!MigrationsAssumption

-----------------------------------------------------------------------------
schemaVars == <<db, version>>
vars ==
    <<scope, orderVars, payVars, pushVars, menuVars, schemaVars>>

Scopes == {"order", "payment", "devices", "menu", "migrations"}

Init ==
    /\ scope \in Scopes
    /\ OrderInit /\ (scope # "order" => order.status = "PENDING")
    /\ PayInit /\ (scope # "payment" => paymentType = "CASH")
    /\ PushInit
    /\ MenuInit /\ (scope # "menu" => core = [e \in MenuEntries |-> TRUE])
    /\ IF scope = "migrations" THEN Schemas!Init ELSE db = 0 /\ version = 0

OnlyOrder ==
    scope = "order" /\ UNCHANGED <<scope, payVars, pushVars, menuVars, schemaVars>>
OnlyPayment ==
    scope = "payment" /\ UNCHANGED <<scope, orderVars, pushVars, menuVars, schemaVars>>
OnlyPushes ==
    scope = "devices" /\ UNCHANGED <<scope, orderVars, payVars, menuVars, schemaVars>>
OnlyMenu ==
    scope = "menu" /\ UNCHANGED <<scope, orderVars, payVars, pushVars, schemaVars>>
OnlySchema ==
    scope = "migrations" /\ UNCHANGED <<scope, orderVars, payVars, pushVars, menuVars>>

Next ==
    \/ OnlyOrder /\ OrderNext
    \/ OnlyPayment /\ PayNext
    \/ OnlyPushes /\ PushNext
    \/ OnlyMenu /\ MenuNext
    \/ OnlySchema /\ Schemas!Next

Spec == Init /\ [][Next]_vars

\* A payment's handler and an event's listener go on.
FairSpec ==
    /\ Spec
    /\ \A c \in PayCalls : WF_vars(OnlyPayment /\ PayContinue(c))
    /\ \A e \in Events : WF_vars(OnlyPushes /\ PushContinue(e))

-----------------------------------------------------------------------------
\* Every release can be migrated to, the newest schema is always the same and
\* fits the entities, and the rows survive (the migrations).
RunSucceeds == scope = "migrations" => Schemas!RunSucceeds
NewestIsCanonical == scope = "migrations" => Schemas!NewestIsCanonical
RowsSurvive == [][scope = "migrations" => Schemas!RowsKept]_vars
=============================================================================
