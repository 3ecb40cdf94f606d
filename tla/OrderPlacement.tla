---------------------------- MODULE OrderPlacement ----------------------------
(***************************************************************************)
(* What POST /orders/checkout promises a client that waits for its answers:*)
(* an attempt bills the client at most once, and ends once.  It ends with  *)
(* the whole basket as one order, paid first where that is due at once,    *)
(* or with an earlier order of the same idempotency key, or without an     *)
(* order; then the basket is gone only if the attempt had been billed.     *)
(***************************************************************************)
CONSTANTS
    Users, Items,
    Attempts,          \* calls of the endpoint; also order ids
    NoOrder,
    Owner,             \* attempt -> its user
    Key,               \* attempt -> its idempotency key
    Prepaid            \* attempts whose bill is settled before the order

VARIABLES
    offered,           \* items in no basket yet
    basket,            \* user -> items
    placed,            \* attempt -> the items of its order
    bill,              \* attempt -> "none", "sent" or "settled"
    over,              \* attempts that have ended
    reply              \* attempt -> the order its response names

placementVars == <<offered, basket, placed, bill, over, reply>>

PlacementInit ==
    /\ offered = Items
    /\ basket = [u \in Users |-> {}]
    /\ placed = [a \in Attempts |-> {}]
    /\ bill = [a \in Attempts |-> "none"]
    /\ over = {}
    /\ reply = [a \in Attempts |-> NoOrder]

\* The bill of the attempt is out, and settled where that is due at once.
Billed(a) == bill[a] = IF a \in Prepaid THEN "settled" ELSE "sent"

Put(u) ==
    /\ \E i \in offered : /\ offered' = offered \ {i}
                          /\ basket' = [basket EXCEPT ![u] = @ \cup {i}]
    /\ UNCHANGED <<placed, bill, over, reply>>

SendBill(a) ==
    /\ a \notin over
    /\ bill[a] = "none"
    /\ bill' = [bill EXCEPT ![a] = "sent"]
    /\ UNCHANGED <<offered, basket, placed, over, reply>>

Settle(a) ==
    /\ a \in Prepaid \ over
    /\ bill[a] = "sent"
    /\ bill' = [bill EXCEPT ![a] = "settled"]
    /\ UNCHANGED <<offered, basket, placed, over, reply>>

\* The basket of the owner becomes the order; its answer may not arrive.
Place(a) ==
    LET items == basket[Owner[a]] IN
    /\ a \notin over
    /\ items # {}
    /\ Billed(a)
    /\ placed' = [placed EXCEPT ![a] = items]
    /\ basket' = [basket EXCEPT ![Owner[a]] = {}]
    /\ over' = over \cup {a}
    /\ \E o \in {a, NoOrder} : reply' = [reply EXCEPT ![a] = o]
    /\ UNCHANGED <<offered, bill>>

\* A retry is answered with the order that is placed already.
Repeat(a) ==
    /\ a \notin over
    /\ \E o \in Attempts : /\ Key[o] = Key[a]
                           /\ placed[o] # {}
                           /\ reply' = [reply EXCEPT ![a] = o]
    /\ over' = over \cup {a}
    /\ UNCHANGED <<offered, basket, placed, bill>>

\* Attempts end without an order, several when the server dies; some of those
\* that were billed have emptied the basket.
GiveUp(gone) ==
    /\ gone \cap over = {}
    /\ over' = over \cup gone
    /\ \E spilt \in SUBSET {a \in gone : Billed(a)} :
         basket' = [u \in Users |->
                      IF \E a \in spilt : Owner[a] = u THEN {} ELSE basket[u]]
    /\ UNCHANGED <<offered, placed, bill, reply>>

PlacementNext ==
    \/ \E u \in Users : Put(u)
    \/ \E a \in Attempts : SendBill(a) \/ Settle(a) \/ Place(a) \/ Repeat(a)
    \/ \E gone \in SUBSET Attempts : GiveUp(gone)

PlacementSpec == PlacementInit /\ [][PlacementNext]_placementVars
=============================================================================
