----------------------------- MODULE MCCheckout -----------------------------
(* Instances of Checkout for TLC: r1 and r2 are two checkouts of one       *)
(* client, the retry of each other, paid in cash; r3 is another client's,  *)
(* paid by card.                                                           *)
EXTENDS Checkout

CONSTANTS r1, r2, r3, u1, u2, k1, k2

CallerOf == [r \in Requests |-> IF r = r3 THEN u2 ELSE u1]
KeyOf == [r \in Requests |-> IF r = r3 THEN k2 ELSE k1]
CardForR3 == [r \in Requests |-> IF r = r3 THEN "CARD" ELSE "CASH"]
=============================================================================
