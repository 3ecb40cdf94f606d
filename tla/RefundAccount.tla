---------------------------- MODULE RefundAccount ----------------------------
(***************************************************************************)
(* What refunds promise of one payment: money goes back to the customer,   *)
(* never more than was paid, and the books record it, never more than went *)
(* back and never undoing what they have recorded.                         *)
(***************************************************************************)
EXTENDS Naturals

CONSTANT Amount

VARIABLES returned, recorded

accountVars == <<returned, recorded>>

AccountInit == returned = 0 /\ recorded = 0

Return ==
    /\ returned' \in returned..Amount
    /\ UNCHANGED recorded

Record ==
    /\ recorded' \in recorded..returned
    /\ UNCHANGED returned

AccountSpec == AccountInit /\ [][Return \/ Record]_accountVars
=============================================================================
