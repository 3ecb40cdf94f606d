----------------------------- MODULE MCOverlap -----------------------------
(***************************************************************************)
(* Overlapping handlers: two at a time on an order's status, on a payment, *)
(* on an administrator's preferences, on a user's addresses and on the     *)
(* user's cards.  The cart and the zones, whose modules take one request   *)
(* at a time, are here to spare MCLone their states.  As in MCLone, scope  *)
(* says which is at work.                                                  *)
(***************************************************************************)
EXTENDS OrderStatus, PaymentRefund, Notifications, AddressBook, ShoppingCart,
        OrderRouting

CONSTANTS branch1, branch2

VARIABLE scope

NoDevices == << >>
Cheaper == {-1}

\* Two zones side by side, whose border has an upright, a level and a slanted
\* part, and a circle that reaches into both.
West ==
    <<<<0, 0>>, <<2, 0>>, <<2, 2>>, <<3, 2>>, <<2, 4>>, <<0, 4>>, <<0, 0>>>>
East == <<<<2, 0>>, <<4, 2>>, <<2, 4>>, <<3, 2>>, <<2, 2>>, <<2, 0>>>>

Rings == {West, East}

\* An edge seen from its upper end is rounded up, from its lower end down.
FromAbove == {t \in Points \X Points \X Points : t[2][2] > t[3][2]}

Middle == {[center |-> <<2, 2>>, radius |-> 1]}
PositionOfTwo == [b \in Outlets |-> IF b = branch1 THEN <<1, 2>> ELSE <<4, 2>>]
Asked == {<<1, 1>>, <<2, 1>>, <<3, 2>>, <<2, 3>>, <<4, 4>>}

\* Handlers, a cart's lines and addresses only have their names to differ in.
Alike ==
    Permutations(OrderCalls) \cup Permutations(Lines) \cup Permutations(Addresses)

ASSUME ConstantsAssumption ==
    /\ OrderStatusAssumption /\ PaymentAssumption /\ NotificationsAssumption
    /\ AddressAssumption /\ CartAssumption /\ RoutingAssumption

-----------------------------------------------------------------------------
vars ==
    <<scope, orderVars, payVars, pushVars, bookVars, cartVars, routingVars>>

Scopes ==
    {"order", "payment", "preferences", "book", "cart", "routing"}

Init ==
    /\ scope \in Scopes
    /\ OrderInit /\ (scope # "order" => order.status = "PENDING")
    /\ PayInit /\ (scope # "payment" => paymentType = "CASH")
    /\ PushInit
    /\ BookInit /\ (scope # "book" => kind = "address")
    /\ CartInit
    /\ RoutingInit

OnlyOrder ==
    /\ scope = "order"
    /\ UNCHANGED <<scope, payVars, pushVars, bookVars, cartVars, routingVars>>
OnlyPayment ==
    /\ scope = "payment"
    /\ UNCHANGED <<scope, orderVars, pushVars, bookVars, cartVars, routingVars>>
OnlyPushes ==
    /\ scope = "preferences"
    /\ UNCHANGED <<scope, orderVars, payVars, bookVars, cartVars, routingVars>>
OnlyEntries ==
    /\ scope = "book"
    /\ UNCHANGED <<scope, orderVars, payVars, pushVars, cartVars, routingVars>>
OnlyCart ==
    /\ scope = "cart"
    /\ UNCHANGED <<scope, orderVars, payVars, pushVars, bookVars, routingVars>>
OnlyRouting ==
    /\ scope = "routing"
    /\ UNCHANGED <<scope, orderVars, payVars, pushVars, bookVars, cartVars>>

Next ==
    \/ OnlyOrder /\ OrderNext
    \/ OnlyPayment /\ PayNext
    \/ OnlyPushes /\ PushNext
    \/ OnlyEntries /\ BookNext
    \/ OnlyCart /\ CartNext
    \/ OnlyRouting /\ RoutingNext

Spec == Init /\ [][Next]_vars

=============================================================================
