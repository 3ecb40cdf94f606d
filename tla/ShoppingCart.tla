---------------------------- MODULE ShoppingCart ----------------------------
(***************************************************************************)
(* CartService, without the discounts' limits (module DiscountUsage): one  *)
(* user's cart, its lines, where it goes and what it costs, up to the      *)
(* checkout that empties it.                                               *)
(*                                                                         *)
(* One request at a time: every handler saves the whole cart it has read,  *)
(* so overlapping ones undo each other.  A request may stop after any of   *)
(* its statements.  An action is one statement that writes, with the reads *)
(* before it; the answers of BranchMenuService and routeOrder and the      *)
(* prices on the menu may be different at each of these reads.  Money is   *)
(* whole.                                                                  *)
(***************************************************************************)
EXTENDS Integers, FiniteSets, FiniteSetsExt

CONSTANTS
    Lines,          \* ids of cart lines
    Items, Bundles, \* what the menu offers
    Branches, Addresses,
    Quotes,         \* delivery fees that routeOrder may answer
    Prices,         \* unit prices of a product or variant
    Customizations, \* prices of a line's customizations; the DTO takes any
    Extras,         \* prices of a line's extras
    Reductions,     \* amounts of discount codes
    NoBranch, NoAddress,
    MaxQuantity,    \* of a request; 99 in the DTO
    MaxMerged,      \* bound on the quantity of a merged line
    MaxCartFaults   \* bound on failed statements

VARIABLES
    cart,           \* the row of carts
    lines,          \* the rows of cart_items; a deleted one is free again
    quoted,         \* the last address set, and the fee routeOrder answered
                    \* for it then                                  (history)
    cartPc,         \* the next statement of the request in progress
    cartFaults

cartVars == <<cart, lines, quoted, cartPc, cartFaults>>

Products == Items \cup Bundles

CartAssumption ==
    /\ Items \cap Bundles = {} /\ Products # {}
    /\ IsFiniteSet(Lines) /\ Lines # {}
    /\ NoBranch \notin Branches /\ NoAddress \notin Addresses
    /\ Quotes \subseteq Nat
    /\ Prices \subseteq Nat /\ Customizations \subseteq Int /\ Extras \subseteq Nat
    /\ Reductions \subseteq Nat \ {0}
    /\ MaxQuantity \in Nat /\ MaxMerged \in Nat /\ MaxCartFaults \in Nat

-----------------------------------------------------------------------------
NoLine ==
    [live |-> FALSE, product |-> CHOOSE p \in Products : TRUE, quantity |-> 0,
     unitPrice |-> 0, custom |-> 0, extras |-> 0, spelled |-> FALSE,
     totalPrice |-> 0]

EmptyCart ==
    [branch |-> NoBranch, orderType |-> "none", address |-> NoAddress,
     fee |-> 0, applied |-> 0, subtotal |-> 0, discount |-> 0, total |-> 0]

LiveLines(rows) == {l \in Lines : rows[l].live}
Charged(rows) == MapThenSumSet(LAMBDA l : rows[l].totalPrice, LiveLines(rows))
Total(subtotal, discount, fee) ==
    IF subtotal + fee > discount THEN subtotal + fee - discount ELSE 0

CartInit ==
    /\ cart = EmptyCart
    /\ lines = [l \in Lines |-> NoLine]
    /\ quoted = [address |-> NoAddress, fee |-> 0]
    /\ cartPc = "idle"
    /\ cartFaults = 0

-----------------------------------------------------------------------------
\* Save the cart (and, cascading, the lines read with it) and go on.
SaveCart(changed, next) ==
    /\ cart' = changed
    /\ cartPc' = next
    /\ UNCHANGED <<lines, quoted, cartFaults>>

\* Write the lines and go on to recalculateTotals.
SaveLines(changed) ==
    /\ lines' = changed
    /\ cartPc' = "recalculate"
    /\ UNCHANGED <<cart, quoted, cartFaults>>

RecalculateTotals ==
    /\ cartPc = "recalculate"
    /\ LET subtotal == Charged(lines) IN
         SaveCart([cart EXCEPT !.subtotal = subtotal,
                               !.discount = cart.applied,
                               !.total = Total(subtotal, cart.applied, cart.fee)],
              "idle")

\* A statement fails, or the program stops, before the request has ended.
CartFault ==
    /\ cartPc # "idle"
    /\ cartFaults < MaxCartFaults
    /\ cartFaults' = cartFaults + 1
    /\ cartPc' = "idle"
    /\ UNCHANGED <<cart, lines, quoted>>

-----------------------------------------------------------------------------
(* addItem.  A request names a product, a quantity, the prices of the      *)
(* customizations it adds and of its extras; spelled: it states a variant, *)
(* customizations and an empty list of extras, the way they are stored.    *)

AddItemBranch ==
    /\ cartPc = "idle"
    /\ \E b \in Branches \ {cart.branch} :
         SaveCart([cart EXCEPT !.branch = b], "add_line")

\* Mutant: extras do not tell two items apart.
SameIgnoresExtras(row, new) ==
    /\ row.product = new.product
    /\ row.product \in Bundles \/ row.custom = new.custom

\* The line that an added one is merged into.  What a request leaves out is
\* undefined, a stored line says null, and stored extras carry a total: an
\* item is only found again when both spell everything out.
Same(row, new) ==
    /\ row.product = new.product
    /\ \/ row.product \in Bundles
       \/ row.spelled /\ new.spelled /\ row.custom = new.custom

RequestedLine(product, quantity, base, custom, extras, spelled) ==
    [live |-> TRUE, product |-> product, quantity |-> quantity,
     unitPrice |-> base + custom, custom |-> custom, extras |-> extras,
     spelled |-> spelled, totalPrice |-> (base + custom) * quantity + extras]

Merged(row, new) ==
    [row EXCEPT !.quantity = @ + new.quantity,
                !.totalPrice = row.unitPrice * (row.quantity + new.quantity)]

AddLine(new) ==
    LET twins == {l \in LiveLines(lines) : Same(lines[l], new)} IN
    IF twins # {}
    THEN \E l \in twins :
           /\ lines[l].quantity + new.quantity <= MaxMerged
           /\ SaveLines([lines EXCEPT ![l] = Merged(@, new)])
    ELSE \E l \in Lines \ LiveLines(lines) : SaveLines([lines EXCEPT ![l] = new])

AddItem ==
    /\ cartPc \in {"idle", "add_line"}
    /\ \E product \in Products, quantity \in 1..MaxQuantity, base \in Prices,
          custom \in Customizations, extras \in Extras, spelled \in BOOLEAN :
         /\ spelled => extras = 0
         /\ AddLine(RequestedLine(product, quantity, base, custom, extras, spelled))

\* Not found, or not available at the branch: the branch stays set.
AddItemRefused ==
    /\ cartPc = "add_line"
    /\ cartPc' = "idle"
    /\ UNCHANGED <<cart, lines, quoted, cartFaults>>

\* updateItem: only a new variant changes the unit price.
ChangedLine(row, quantity, unitPrice, custom, extras, spelled) ==
    [row EXCEPT !.quantity = quantity, !.unitPrice = unitPrice,
                !.custom = custom, !.extras = extras, !.spelled = spelled,
                !.totalPrice = (unitPrice + custom) * quantity + extras]

UpdateItem ==
    /\ cartPc = "idle"
    /\ \E l \in LiveLines(lines), quantity \in 1..MaxQuantity :
       \E unitPrice \in Prices \cup {lines[l].unitPrice},
          custom \in Customizations, extras \in Extras, spelled \in BOOLEAN :
         /\ spelled => extras = 0
         /\ lines[l].spelled /\ extras = 0 => spelled
         /\ SaveLines([lines EXCEPT
              ![l] = ChangedLine(@, quantity, unitPrice, custom, extras, spelled)])

RemoveItem ==
    /\ cartPc = "idle"
    /\ \E l \in LiveLines(lines) : SaveLines([lines EXCEPT ![l] = NoLine])

-----------------------------------------------------------------------------
(* clearCart: the lines first, then the cart.  Where the cart goes stays.  *)

Cleared ==
    [cart EXCEPT !.applied = 0, !.subtotal = 0, !.discount = 0, !.fee = 0,
                 !.total = 0]

ClearLines ==
    /\ cartPc \in {"idle", "clear_lines"}
    /\ lines' = [l \in Lines |-> NoLine]
    /\ cartPc' = "clear_cart"
    /\ UNCHANGED <<cart, quoted, cartFaults>>

ClearCart == cartPc = "clear_cart" /\ SaveCart(Cleared, "idle")

-----------------------------------------------------------------------------
(* Where the cart goes.                                                    *)

\* TypeORM's save: a branch object loaded with the cart wins over a new
\* branchId, and an undefined property is not written.
SavedBranch(b) == IF cart.branch = NoBranch THEN b ELSE cart.branch
SavedAddress(a) == IF a = NoAddress THEN cart.address ELSE a

\* Mutant: the totals are not recalculated for PICKUP.
SetOrderTypeUnpriced ==
    /\ cartPc = "idle"
    /\ \/ SaveCart([cart EXCEPT !.orderType = "DELIVERY"], "recalculate")
       \/ SaveCart([cart EXCEPT !.orderType = "PICKUP", !.fee = 0], "idle")

\* Mutant: the delivery fee stays on a PICKUP cart.
SetOrderTypeKeepsFee ==
    /\ cartPc = "idle"
    /\ \E type \in {"DELIVERY", "PICKUP"} :
         SaveCart([cart EXCEPT !.orderType = type], "recalculate")

SetOrderType ==
    /\ cartPc = "idle"
    /\ \/ SaveCart([cart EXCEPT !.orderType = "DELIVERY"], "recalculate")
       \/ SaveCart([cart EXCEPT !.orderType = "PICKUP",
                                !.address = SavedAddress(NoAddress), !.fee = 0],
               "recalculate")

\* The lines were found available at b; the totals are not touched.
SetBranch ==
    /\ cartPc = "idle"
    /\ \E b \in Branches : SaveCart([cart EXCEPT !.branch = SavedBranch(b)], "idle")

\* The branch and the fee that routeOrder answers, with the coordinates the
\* address and the fee its zone have at that moment, which may change later.
SetDeliveryAddress ==
    /\ cartPc = "idle"
    /\ \E a \in Addresses, b \in Branches, fee \in Quotes :
         /\ cart' = [cart EXCEPT !.address = SavedAddress(a),
                                 !.orderType = "DELIVERY",
                                 !.branch = SavedBranch(b), !.fee = fee]
         /\ quoted' = [address |-> a, fee |-> fee]
    /\ cartPc' = "recalculate"
    /\ UNCHANGED <<lines, cartFaults>>

(* applyDiscount and removeDiscount: the amount is computed once.          *)

ApplyDiscount ==
    /\ cartPc = "idle"
    /\ cart.applied = 0
    /\ \E amount \in Reductions :
         SaveCart([cart EXCEPT !.applied = amount], "recalculate")

RemoveDiscount ==
    /\ cartPc = "idle"
    /\ SaveCart([cart EXCEPT !.applied = 0], "recalculate")

-----------------------------------------------------------------------------
(* Checkout: validateCart, the order (createFromCart copies the stored     *)
(* totals), then clearCart.                                                *)

\* What validateCart asks of the cart itself; branch and lines may fail too.
Valid ==
    /\ LiveLines(lines) # {}
    /\ cart.orderType # "none"
    /\ cart.branch # NoBranch
    /\ cart.orderType = "DELIVERY" => cart.address # NoAddress

Checkout ==
    /\ cartPc = "idle"
    /\ Valid
    /\ cartPc' = "clear_lines"
    /\ UNCHANGED <<cart, lines, quoted, cartFaults>>

CartNext ==
    \/ RecalculateTotals \/ CartFault
    \/ AddItemBranch \/ AddItem \/ AddItemRefused \/ UpdateItem \/ RemoveItem
    \/ ClearLines \/ ClearCart
    \/ SetOrderType \/ SetBranch \/ SetDeliveryAddress
    \/ ApplyDiscount \/ RemoveDiscount
    \/ Checkout

CartSpec == CartInit /\ [][CartNext]_cartVars

-----------------------------------------------------------------------------
LineType ==
    [live : BOOLEAN, product : Products, quantity : Nat, unitPrice : Int,
     custom : Int, extras : Nat, spelled : BOOLEAN, totalPrice : Int]
CartType ==
    [branch : Branches \cup {NoBranch},
     orderType : {"none", "DELIVERY", "PICKUP"},
     address : Addresses \cup {NoAddress}, fee : Nat, applied : Nat,
     subtotal : Int, discount : Nat, total : Nat]

\* Every variable keeps its type (the entities Cart and CartItem).
CartTypeOK ==
    /\ cart \in CartType
    /\ lines \in [Lines -> LineType]
    /\ quoted \in [address : Addresses \cup {NoAddress}, fee : Nat]
    /\ cartPc \in {"idle", "recalculate", "add_line", "clear_lines", "clear_cart"}
    /\ cartFaults \in 0..MaxCartFaults

\* Between requests none of which failed, the stored totals are those of the
\* lines, the discounts and the fee (recalculateTotals after every change).
\* createFromCart orders and charges them as they are stored.
TotalsAddUp ==
    cartPc = "idle" /\ cartFaults = 0 =>
        /\ cart.subtotal = Charged(lines)
        /\ cart.discount = cart.applied
        /\ cart.total = Total(cart.subtotal, cart.discount, cart.fee)

\* A cart with a fee is for delivery, and the fee is the one answered for the
\* address it has when that address was set (setOrderType, setDeliveryAddress,
\* clearCart), whatever fails.  The cart does not follow later changes of the
\* address or its zone, and an address may have lost its fee.
FeeBelongsToAddress ==
    cart.fee # 0 => /\ cart.orderType = "DELIVERY"
                    /\ cart.address \in Addresses
                    /\ quoted = [address |-> cart.address, fee |-> cart.fee]

\* The price of an item is that of its quantity and its extras: merging never
\* drops extras, because an item with extras is never found again (addItem).
\* Where updateItem priced it last, its customizations come on top of a unit
\* price that may hold them already.  The extras of a bundle are dropped.
ExtrasArePaid ==
    \A l \in LiveLines(lines) :
        lines[l].product \in Items =>
            LET line == lines[l]
            IN line.totalPrice - line.extras
                 \in {price * line.quantity :
                        price \in {line.unitPrice, line.unitPrice + line.custom}}
=============================================================================
