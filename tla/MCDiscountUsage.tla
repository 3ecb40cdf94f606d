-------------------------- MODULE MCDiscountUsage --------------------------
(* Instances of DiscountUsage for TLC.  The limits are the smallest that    *)
(* tell "reserved" from "used up": one or two uses in all and per user.     *)
EXTENDS DiscountAccounting, TLC

CONSTANTS r1, r2, r3, u1, u2, d1, d2

NoLimit == [total : {0}, perUser : {1}]
TwoInAll == [total : {2}, perUser : {1}]
OneOrTwo == [total : {1, 2}, perUser : {1, 2}]

\* The first two requests are one user's, the third another's.
TwoClients == [r \in Requests |-> IF r = r3 THEN u2 ELSE u1]
OneClient == [r \in Requests |-> u1]

AnyCall == [r \in Requests |-> Endpoints]
CartCalls == [r \in Requests |-> UserEndpoints]
ApplyOrCheckout == [r \in Requests |-> {"apply", "checkout"}]
CheckoutsAndCart ==
    [r \in Requests |-> IF r = r2 THEN UserEndpoints \ {"checkout"}
                        ELSE {"checkout"}]
CheckoutOnly == [r \in Requests |-> {"checkout"}]

EmptyCarts == {<<>>}
ReservedCarts == {<<>>, <<d1>>}
BothOrders == {<<d1, d2>>, <<d2, d1>>}

SameClient == Permutations({r1, r2})
=============================================================================
