------------------------ MODULE ShoppingCart_proofs ------------------------
(***************************************************************************)
(* Proofs about ShoppingCart, for any products, prices and addresses: the  *)
(* fee is the one quoted for the address, the extras of an item are paid   *)
(* for whatever its customizations add or take away, and a cart            *)
(* that no request is at work on has the totals of its lines.              *)
(*                                                                         *)
(* The totals are sums over a set.  The proof needs none of the laws of    *)
(* sums: every request that changes a line goes on to add all of them up.  *)
(***************************************************************************)
EXTENDS ShoppingCart, TLAPS

-----------------------------------------------------------------------------
(* The delivery fee.                                                       *)

\* What the fee depends on; the totals may be anything.
CartShape ==
    /\ DOMAIN cart = {"branch", "orderType", "address", "fee", "applied",
                      "subtotal", "discount", "total"}
    /\ cart = [k \in DOMAIN cart |-> cart[k]]

FeeInv == CartShape /\ FeeBelongsToAddress

\* Statements that leave the fee, the address and the order type alone.
LEMMA KeepsFee ==
    ASSUME FeeInv, CartShape', UNCHANGED quoted, cart'.fee \in {0, cart.fee},
           cart'.address = cart.address,
           cart'.orderType \in {cart.orderType, "DELIVERY"}
    PROVE  FeeInv'
BY DEF FeeInv, FeeBelongsToAddress

\* Every step keeps the fee that of the address.
LEMMA FeeStep ==
    ASSUME CartAssumption, FeeInv, [CartNext]_cartVars
    PROVE  FeeInv'
<1>1. /\ DOMAIN cart = {"branch", "orderType", "address", "fee", "applied",
                        "subtotal", "discount", "total"}
      /\ cart = [k \in DOMAIN cart |-> cart[k]]
  BY DEF FeeInv, CartShape
<1>2. CASE UNCHANGED <<cart, quoted>>
  BY <1>2 DEF FeeInv, CartShape, FeeBelongsToAddress
<1>3. CASE RecalculateTotals
  <2>1. PICK subtotal, total :
          cart' = [cart EXCEPT !.subtotal = subtotal, !.discount = cart.applied,
                               !.total = total]
    BY <1>3 DEF RecalculateTotals, SaveCart
  <2>2. /\ CartShape' /\ cart'.fee = cart.fee /\ cart'.address = cart.address
        /\ cart'.orderType = cart.orderType /\ UNCHANGED quoted
    BY <1>1, <1>3, <2>1 DEF CartShape, RecalculateTotals, SaveCart
  <2>3. QED
    BY <2>2, KeepsFee
<1>4. CASE AddItemBranch
  BY <1>1, <1>4, KeepsFee DEF AddItemBranch, SaveCart, CartShape
<1>5. CASE ClearCart
  <2>1. cart' = [cart EXCEPT !.applied = 0, !.subtotal = 0, !.discount = 0,
                             !.fee = 0, !.total = 0]
    BY <1>5 DEF ClearCart, Cleared, SaveCart
  <2>2. /\ CartShape' /\ cart'.fee = 0 /\ cart'.address = cart.address
        /\ cart'.orderType = cart.orderType /\ UNCHANGED quoted
    BY <1>1, <1>5, <2>1 DEF CartShape, ClearCart, SaveCart
  <2>3. QED
    BY <2>2, KeepsFee
<1>6. CASE SetOrderType
  <2>1. CASE SaveCart([cart EXCEPT !.orderType = "DELIVERY"], "recalculate")
    BY <1>1, <2>1, KeepsFee DEF SaveCart, CartShape
  <2>2. CASE SaveCart([cart EXCEPT !.orderType = "PICKUP",
                                   !.address = SavedAddress(NoAddress), !.fee = 0],
                  "recalculate")
    BY <1>1, <2>2 DEF SaveCart, FeeInv, CartShape, FeeBelongsToAddress
  <2>3. QED
    BY <1>6, <2>1, <2>2 DEF SetOrderType
<1>7. CASE SetBranch
  BY <1>1, <1>7, KeepsFee DEF SetBranch, SaveCart, CartShape
<1>8. CASE SetDeliveryAddress
  <2>1. PICK a \in Addresses, b \in Branches, fee \in Quotes :
          /\ cart' = [cart EXCEPT !.address = SavedAddress(a), !.orderType = "DELIVERY",
                                 !.branch = SavedBranch(b), !.fee = fee]
          /\ quoted' = [address |-> a, fee |-> fee]
    BY <1>8 DEF SetDeliveryAddress
  <2>2. SavedAddress(a) = a
    BY DEF CartAssumption, SavedAddress
  <2>3. QED
    BY <1>1, <2>1, <2>2 DEF FeeInv, CartShape, FeeBelongsToAddress
<1>9. CASE ApplyDiscount
  BY <1>1, <1>9, KeepsFee DEF ApplyDiscount, SaveCart, CartShape
<1>10. CASE RemoveDiscount
  BY <1>1, <1>10, KeepsFee DEF RemoveDiscount, SaveCart, CartShape
<1>11. CASE CartFault \/ AddItem \/ AddItemRefused \/ UpdateItem \/ RemoveItem
            \/ ClearLines \/ Checkout
  <2>1. UNCHANGED <<cart, quoted>>
    BY <1>11 DEF CartFault, AddItem, AddLine, AddItemRefused, UpdateItem, RemoveItem,
       ClearLines, Checkout, SaveLines
  <2>2. QED
    BY <1>2, <2>1
<1>12. QED
  BY <1>2, <1>3, <1>4, <1>5, <1>6, <1>7, <1>8, <1>9, <1>10, <1>11 DEF CartNext, cartVars

\* Whatever requests follow one another and wherever they stop, a cart that
\* is charged a fee is to be delivered to its address for the fee that was
\* answered when that address was set (setOrderType, setDeliveryAddress,
\* clearCart).
THEOREM FeeWasQuoted ==
    ASSUME CartAssumption
    PROVE  CartSpec => []FeeBelongsToAddress
<1>1. CartInit => FeeInv
  BY DEF CartInit, EmptyCart, FeeInv, CartShape, FeeBelongsToAddress
<1>2. FeeInv /\ [CartNext]_cartVars => FeeInv'
  BY FeeStep
<1>3. FeeInv => FeeBelongsToAddress
  BY DEF FeeInv
<1>4. QED
  BY <1>1, <1>2, <1>3, PTL DEF CartSpec

-----------------------------------------------------------------------------
(* Extras.  Merging prices a line anew without its extras; what saves them *)
(* is that a line with extras is never found again.                        *)

ItemPaid(row) ==
    /\ row.spelled => row.extras = 0
    /\ row.totalPrice - row.extras \in
         {price * row.quantity : price \in {row.unitPrice, row.unitPrice + row.custom}}

LinesInv ==
    /\ lines \in [Lines -> LineType]
    /\ \A l \in LiveLines(lines) : lines[l].product \in Items => ItemPaid(lines[l])

\* A free line is typed as a line.
LEMMA NoLineType ==
    ASSUME CartAssumption
    PROVE  NoLine \in LineType /\ ~NoLine.live
<1>1. (CHOOSE p \in Products : TRUE) \in Products
  BY DEF CartAssumption
<1>2. QED
  BY <1>1 DEF NoLine, LineType

\* One line is written, and it is a line that is paid.
LEMMA WrittenLine ==
    ASSUME LinesInv, NEW l \in Lines, NEW row \in LineType,
           lines' = [lines EXCEPT ![l] = row],
           row.live /\ row.product \in Items => ItemPaid(row)
    PROVE  LinesInv'
BY DEF LinesInv, LiveLines

\* A line that is added pays for its extras,
LEMMA AddedLine ==
    ASSUME CartAssumption, NEW product \in Products, NEW quantity \in 1..MaxQuantity,
           NEW base \in Prices, NEW custom \in Customizations, NEW extras \in Extras,
           NEW spelled \in BOOLEAN, spelled => extras = 0
    PROVE  /\ RequestedLine(product, quantity, base, custom, extras, spelled) \in LineType
           /\ ItemPaid(RequestedLine(product, quantity, base, custom, extras, spelled))
<1>1. base \in Int /\ custom \in Int /\ extras \in Nat /\ quantity \in Nat
  BY DEF CartAssumption
<1>2. (base + custom) * quantity \in Int
  BY <1>1
<1> DEFINE cost == (base + custom) * quantity
           new == RequestedLine(product, quantity, base, custom, extras, spelled)
<1>3. new \in LineType
  BY <1>1, <1>2 DEF RequestedLine, LineType
<1>4. /\ new.spelled => new.extras = 0
      /\ new.extras = extras /\ new.totalPrice = cost + extras
      /\ cost = new.unitPrice * new.quantity
  BY DEF RequestedLine
<1>5. cost + extras \in Int /\ cost + extras - extras = cost
  <2> HIDE DEF cost
  <2> QED BY <1>1, <1>2 DEF cost
<1> HIDE DEF cost, new
<1>6. ItemPaid(new)
  <2>1. new.totalPrice - new.extras = cost
    BY <1>1, <1>4, <1>5
  <2>2. cost \in {price * new.quantity :
                    price \in {new.unitPrice, new.unitPrice + new.custom}}
    BY <1>4
  <2>3. QED
    BY <1>4, <2>1, <2>2 DEF ItemPaid
<1>7. QED
  BY <1>3, <1>6 DEF new

\* as does one that another is merged into, being the same,
LEMMA MergedLine ==
    ASSUME NEW row \in LineType, NEW new \in LineType, Same(row, new),
           row.product \in Items => row.product \notin Bundles /\ ItemPaid(row)
    PROVE  /\ Merged(row, new) \in LineType
           /\ row.product \in Items => ItemPaid(Merged(row, new))
<1>1. row.quantity + new.quantity \in Nat /\ row.unitPrice \in Int
  BY DEF LineType
<1>2. row.unitPrice * (row.quantity + new.quantity) \in Int
  BY <1>1
<1>3. Merged(row, new) \in LineType
  BY <1>1, <1>2 DEF Merged, LineType
<1>4. ASSUME row.product \in Items
      PROVE  ItemPaid(Merged(row, new))
  <2>1. row.spelled /\ row.extras = 0
    BY <1>4 DEF Same, ItemPaid
  <2> DEFINE line == Merged(row, new)
             cost == row.unitPrice * (row.quantity + new.quantity)
  <2>2. /\ line.extras = 0 /\ line.totalPrice = cost
        /\ cost = line.unitPrice * line.quantity
    BY <2>1 DEF Merged, LineType
  <2>3. cost - 0 = cost
    <3> HIDE DEF cost
    <3> QED BY <1>2 DEF cost
  <2> HIDE DEF line, cost
  <2>4. ItemPaid(line)
    BY <2>2, <2>3 DEF ItemPaid
  <2>5. QED
    BY <2>4 DEF line
<1>5. QED
  BY <1>3, <1>4

\* and one that is updated;
LEMMA UpdatedLine ==
    ASSUME CartAssumption, NEW row \in LineType, NEW quantity \in Nat,
           NEW unitPrice \in Int, NEW custom \in Int, NEW extras \in Nat,
           NEW spelled \in BOOLEAN, spelled => extras = 0
    PROVE  /\ ChangedLine(row, quantity, unitPrice, custom, extras, spelled) \in LineType
           /\ ItemPaid(ChangedLine(row, quantity, unitPrice, custom, extras, spelled))
<1>1. (unitPrice + custom) * quantity \in Int
  OBVIOUS
<1> DEFINE cost == (unitPrice + custom) * quantity
           line == ChangedLine(row, quantity, unitPrice, custom, extras, spelled)
<1>2. cost + extras \in Int /\ cost + extras - extras = cost
  <2> HIDE DEF cost
  <2> QED BY <1>1 DEF cost
<1>3. line \in LineType
  <2>1. \A total \in Int :
           [row EXCEPT !.quantity = quantity, !.unitPrice = unitPrice,
                       !.custom = custom, !.extras = extras,
                       !.spelled = spelled, !.totalPrice = total] \in LineType
    BY DEF LineType
  <2>2. QED
    BY <1>2, <2>1 DEF ChangedLine
<1>4. /\ line.spelled = spelled /\ line.extras = extras /\ line.custom = custom
      /\ line.totalPrice = cost + extras
      /\ cost = (line.unitPrice + line.custom) * line.quantity
  BY DEF ChangedLine, LineType
<1> HIDE DEF line, cost
<1>5. ItemPaid(line)
  BY <1>2, <1>4 DEF ItemPaid
<1>6. QED
  BY <1>3, <1>5 DEF line

\* hence every line after every step.
LEMMA LinesStep ==
    ASSUME CartAssumption, LinesInv, [CartNext]_cartVars
    PROVE  LinesInv'
<1>1. CASE UNCHANGED lines
  BY <1>1 DEF LinesInv, LiveLines
<1>2. CASE AddItem
  <2>1. PICK product \in Products, quantity \in 1..MaxQuantity, base \in Prices,
             custom \in Customizations, extras \in Extras, spelled \in BOOLEAN :
          /\ spelled => extras = 0
          /\ AddLine(RequestedLine(product, quantity, base, custom, extras, spelled))
    BY <1>2 DEF AddItem
  <2> DEFINE new == RequestedLine(product, quantity, base, custom, extras, spelled)
  <2>2. new \in LineType /\ ItemPaid(new)
    BY <2>1, AddedLine
  <2> HIDE DEF new
  <2>3. ASSUME NEW l \in LiveLines(lines), Same(lines[l], new),
               lines' = [lines EXCEPT ![l] = Merged(@, new)]
        PROVE  LinesInv'
    <3>1. lines[l] \in LineType /\ l \in Lines
      BY DEF LinesInv, LiveLines
    <3>2. lines[l].product \in Items =>
              lines[l].product \notin Bundles /\ ItemPaid(lines[l])
      BY DEF LinesInv, CartAssumption
    <3>3. /\ Merged(lines[l], new) \in LineType
          /\ lines[l].product \in Items => ItemPaid(Merged(lines[l], new))
      BY <2>2, <2>3, <3>1, <3>2, MergedLine
    <3>4. Merged(lines[l], new).product = lines[l].product
      BY <3>1 DEF Merged, LineType
    <3>5. QED
      BY <2>3, <3>1, <3>3, <3>4, WrittenLine DEF LinesInv
  <2>4. ASSUME NEW l \in Lines, lines' = [lines EXCEPT ![l] = new]
        PROVE  LinesInv'
    BY <2>2, <2>4, WrittenLine
  <2>5. QED
    BY <2>1, <2>3, <2>4 DEF AddLine, SaveLines, new
<1>3. CASE UpdateItem
  <2>1. PICK l \in LiveLines(lines), quantity \in 1..MaxQuantity :
        \E unitPrice \in Prices \cup {lines[l].unitPrice},
           custom \in Customizations, extras \in Extras, spelled \in BOOLEAN :
          /\ spelled => extras = 0
          /\ lines' = [lines EXCEPT
               ![l] = ChangedLine(@, quantity, unitPrice, custom, extras, spelled)]
    BY <1>3 DEF UpdateItem, SaveLines
  <2>2. PICK unitPrice \in Prices \cup {lines[l].unitPrice},
             custom \in Customizations, extras \in Extras, spelled \in BOOLEAN :
          /\ spelled => extras = 0
          /\ lines' = [lines EXCEPT
               ![l] = ChangedLine(@, quantity, unitPrice, custom, extras, spelled)]
    BY <2>1
  <2>3. lines[l] \in LineType /\ l \in Lines
    BY DEF LinesInv, LiveLines
  <2>4. quantity \in Nat /\ unitPrice \in Int /\ custom \in Int /\ extras \in Nat
    BY <2>3 DEF CartAssumption, LineType
  <2>5. /\ ChangedLine(lines[l], quantity, unitPrice, custom, extras, spelled) \in LineType
        /\ ItemPaid(ChangedLine(lines[l], quantity, unitPrice, custom, extras, spelled))
    BY <2>2, <2>3, <2>4, UpdatedLine
  <2>6. QED
    BY <2>2, <2>3, <2>5, WrittenLine DEF LinesInv
<1>4. CASE RemoveItem
  <2>1. PICK l \in LiveLines(lines) : lines' = [lines EXCEPT ![l] = NoLine]
    BY <1>4 DEF RemoveItem, SaveLines
  <2>2. l \in Lines
    BY DEF LiveLines
  <2>3. QED
    BY <2>1, <2>2, NoLineType, WrittenLine
<1>5. CASE ClearLines
  BY <1>5, NoLineType DEF ClearLines, LinesInv, LiveLines
<1>6. CASE \/ RecalculateTotals \/ CartFault \/ AddItemBranch \/ AddItemRefused
           \/ ClearCart \/ SetOrderType \/ SetBranch \/ SetDeliveryAddress
           \/ ApplyDiscount \/ RemoveDiscount \/ Checkout
  <2>1. UNCHANGED lines
    BY <1>6 DEF RecalculateTotals, CartFault, AddItemBranch, AddItemRefused, ClearCart,
       SetOrderType, SetBranch, SetDeliveryAddress, ApplyDiscount, RemoveDiscount,
       Checkout, SaveCart
  <2>2. QED
    BY <1>1, <2>1
<1>7. QED
  BY <1>1, <1>2, <1>3, <1>4, <1>5, <1>6 DEF CartNext, cartVars

\* No sequence of requests, complete or not, leaves an item whose price is not
\* that of its quantity and all its extras (addItem, updateItem), whatever its
\* customizations add or take away: a line with extras is never one that
\* merging could price anew.
THEOREM ExtrasAreCharged ==
    ASSUME CartAssumption
    PROVE  CartSpec => []ExtrasArePaid
<1>1. CartInit => LinesInv
  BY NoLineType DEF CartInit, LinesInv, LiveLines
<1>2. LinesInv /\ [CartNext]_cartVars => LinesInv'
  BY LinesStep
<1>3. LinesInv => ExtrasArePaid
  BY DEF LinesInv, ItemPaid, ExtrasArePaid
<1>4. QED
  BY <1>1, <1>2, <1>3, PTL DEF CartSpec
-----------------------------------------------------------------------------
(* The totals.  Every request that changes what they depend on ends with   *)
(* recalculateTotals, but for the checkout's clearCart, which empties the  *)
(* lines before it zeroes the totals.                                      *)

\* No line, nothing to charge.
LEMMA NothingCharged ==
    ASSUME NEW rows, LiveLines(rows) = {}
    PROVE  Charged(rows) = 0
<1> DEFINE pick(s) == CHOOSE l \in s : TRUE
           Step(sum) == [s \in SUBSET LiveLines(rows) |->
                           IF s = {} THEN 0
                           ELSE rows[pick(s)].totalPrice + sum[s \ {pick(s)}]]
           zero == [s \in {{}} |-> 0]
           total == CHOOSE sum : sum = Step(sum)
<1>1. Charged(rows) = total[LiveLines(rows)]
  BY DEF Charged, MapThenSumSet, MapThenFoldSet
<1>2. SUBSET LiveLines(rows) = {{}}
  OBVIOUS
<1>3. ASSUME NEW sum PROVE Step(sum) = zero
  BY <1>2
<1> HIDE DEF Step, zero
<1>4. \E sum : sum = Step(sum)
  BY <1>3
<1>5. total = Step(total)
  BY <1>4
<1>6. total = zero
  BY <1>3, <1>5
<1>7. total[{}] = 0
  BY <1>6 DEF zero
<1>8. QED
  BY <1>1, <1>7

AddUp ==
    /\ cart.subtotal = Charged(lines)
    /\ cart.discount = cart.applied
    /\ cart.total = Total(cart.subtotal, cart.discount, cart.fee)

TotalsInv ==
    /\ CartShape
    /\ cartFaults \in Nat
    /\ cartFaults = 0 =>
         /\ cartPc \in {"idle", "add_line", "clear_lines"} => AddUp
         /\ cartPc = "clear_cart" => LiveLines(lines) = {}

\* What an unfailed request leaves alone still adds up.
LEMMA SameTotals ==
    ASSUME AddUp, lines' = lines, cart'.subtotal = cart.subtotal,
           cart'.discount = cart.discount, cart'.applied = cart.applied,
           cart'.fee = cart.fee, cart'.total = cart.total
    PROVE  AddUp'
BY DEF AddUp

\* Every step that changes a line goes on to add them up.
LEMMA TotalsStep ==
    ASSUME TotalsInv, [CartNext]_cartVars
    PROVE  TotalsInv'
<1>1. /\ DOMAIN cart = {"branch", "orderType", "address", "fee", "applied",
                        "subtotal", "discount", "total"}
      /\ cart = [k \in DOMAIN cart |-> cart[k]]
  BY DEF TotalsInv, CartShape
<1>2. CASE UNCHANGED cartVars
  BY <1>2 DEF TotalsInv, CartShape, cartVars, AddUp
<1>3. CASE RecalculateTotals
  <2> DEFINE subtotal == Charged(lines)
             total == Total(subtotal, cart.applied, cart.fee)
  <2>1. /\ cart' = [cart EXCEPT !.subtotal = subtotal, !.discount = cart.applied,
                                !.total = total]
        /\ cartPc' = "idle" /\ lines' = lines /\ cartFaults' = cartFaults
    BY <1>3 DEF RecalculateTotals, SaveCart
  <2> HIDE DEF subtotal, total
  <2>2. /\ CartShape'
        /\ cart'.subtotal = subtotal /\ cart'.discount = cart.applied
        /\ cart'.applied = cart.applied /\ cart'.fee = cart.fee /\ cart'.total = total
    BY <1>1, <2>1 DEF CartShape
  <2>3. AddUp'
    BY <2>1, <2>2 DEF AddUp, subtotal, total
  <2>4. QED
    BY <2>1, <2>2, <2>3 DEF TotalsInv
<1>4. CASE CartFault
  <2>1. UNCHANGED cart /\ cartFaults' = cartFaults + 1
    BY <1>4 DEF CartFault
  <2>2. CartShape' /\ cartFaults' \in Nat /\ cartFaults' # 0
    BY <2>1 DEF TotalsInv, CartShape
  <2>3. QED
    BY <2>2 DEF TotalsInv
<1>5. CASE AddItemBranch
  <2>1. PICK b : /\ cart' = [cart EXCEPT !.branch = b] /\ cartPc = "idle"
                 /\ cartPc' = "add_line" /\ lines' = lines /\ cartFaults' = cartFaults
    BY <1>5 DEF AddItemBranch, SaveCart
  <2>2. /\ CartShape'
        /\ cart'.subtotal = cart.subtotal /\ cart'.discount = cart.discount
        /\ cart'.applied = cart.applied /\ cart'.fee = cart.fee
        /\ cart'.total = cart.total
    BY <1>1, <2>1 DEF CartShape
  <2>3. QED
    BY <2>1, <2>2, SameTotals DEF TotalsInv
<1>6. CASE AddItemRefused \/ Checkout
  BY <1>6 DEF AddItemRefused, Checkout, TotalsInv, CartShape, AddUp
<1>7. CASE AddItem \/ UpdateItem \/ RemoveItem
  <2>1. cart' = cart /\ cartPc' = "recalculate" /\ cartFaults' = cartFaults
    BY <1>7 DEF AddItem, AddLine, UpdateItem, RemoveItem, SaveLines
  <2>2. QED
    BY <2>1 DEF TotalsInv, CartShape
<1>8. CASE ClearLines
  BY <1>8 DEF ClearLines, TotalsInv, CartShape, LiveLines, NoLine
<1>9. CASE ClearCart
  <2>1. /\ cart' = [cart EXCEPT !.applied = 0, !.subtotal = 0, !.discount = 0,
                                !.fee = 0, !.total = 0]
        /\ cartPc = "clear_cart" /\ cartPc' = "idle" /\ lines' = lines
        /\ cartFaults' = cartFaults
    BY <1>9 DEF ClearCart, Cleared, SaveCart
  <2>2. /\ CartShape'
        /\ cart'.subtotal = 0 /\ cart'.discount = 0 /\ cart'.applied = 0
        /\ cart'.fee = 0 /\ cart'.total = 0
    BY <1>1, <2>1 DEF CartShape
  <2>3. Total(0, 0, 0) = 0
    BY DEF Total
  <2>4. cartFaults = 0 => Charged(lines) = 0
    BY <2>1, NothingCharged DEF TotalsInv
  <2>5. cartFaults = 0 => AddUp'
    BY <2>1, <2>2, <2>3, <2>4 DEF AddUp
  <2>6. QED
    BY <2>1, <2>2, <2>5 DEF TotalsInv
<1>10. CASE SetBranch
  <2>1. PICK b : /\ cart' = [cart EXCEPT !.branch = b] /\ cartPc = "idle"
                 /\ cartPc' = "idle" /\ lines' = lines /\ cartFaults' = cartFaults
    BY <1>10 DEF SetBranch, SaveCart
  <2>2. /\ CartShape'
        /\ cart'.subtotal = cart.subtotal /\ cart'.discount = cart.discount
        /\ cart'.applied = cart.applied /\ cart'.fee = cart.fee
        /\ cart'.total = cart.total
    BY <1>1, <2>1 DEF CartShape
  <2>3. QED
    BY <2>1, <2>2, SameTotals DEF TotalsInv
<1>11. CASE SetOrderType \/ SetDeliveryAddress \/ ApplyDiscount \/ RemoveDiscount
  <2>1. CartShape' /\ cartPc' = "recalculate" /\ cartFaults' = cartFaults
    BY <1>1, <1>11 DEF SetOrderType, SetDeliveryAddress, ApplyDiscount, RemoveDiscount,
       SaveCart, CartShape
  <2>2. QED
    BY <2>1 DEF TotalsInv
<1>12. QED
  BY <1>2, <1>3, <1>4, <1>5, <1>6, <1>7, <1>8, <1>9, <1>10, <1>11 DEF CartNext

\* Whatever requests follow one another, as long as none has failed: between
\* requests the totals that createFromCart will order and charge are those of
\* the lines, the discounts and the fee (recalculateTotals after each change).
THEOREM TotalsAreTheLines ==
    CartSpec => []TotalsAddUp
<1>1. CartInit => TotalsInv
  <2> SUFFICES ASSUME CartInit
               PROVE  TotalsInv
    OBVIOUS
  <2>1. LiveLines(lines) = {}
    BY DEF CartInit, LiveLines, NoLine
  <2>2. Charged(lines) = 0
    BY <2>1, NothingCharged
  <2>3. CartShape /\ cart.subtotal = 0 /\ cart.discount = cart.applied
        /\ cart.total = Total(cart.subtotal, cart.discount, cart.fee)
    BY DEF CartInit, EmptyCart, CartShape, Total
  <2>4. QED
    BY <2>2, <2>3 DEF CartInit, TotalsInv, AddUp
<1>2. TotalsInv /\ [CartNext]_cartVars => TotalsInv'
  BY TotalsStep
<1>3. TotalsInv => TotalsAddUp
  BY DEF TotalsInv, AddUp, TotalsAddUp
<1>4. QED
  BY <1>1, <1>2, <1>3, PTL DEF CartSpec
=============================================================================
