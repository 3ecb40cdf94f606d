------------------------ MODULE DiscountUsage_proofs ------------------------
(***************************************************************************)
(* Proofs about DiscountUsage, for any number of requests, users and       *)
(* discounts and any limits: type correctness, the per-user limit, the     *)
(* absence of duplicates in a cart, and that currentUsageCount accounts    *)
(* for the discounts carts hold and the uses logged, and so limits them.   *)
(* Sums and cardinalities change with one member at a time, which *)
(* follows by well-founded induction on the subsets of a finite set.       *)
(***************************************************************************)
EXTENDS DiscountAccounting, FiniteSetTheorems, SequenceTheorems,
        WellFoundedInduction, TLAPS

-----------------------------------------------------------------------------
(* Lists without repetition.                                               *)

\* Appending a discount that a list does not hold keeps it free of repetition.
LEMMA AppendNew ==
    ASSUME NEW s \in DiscountLists, NEW d \in Discounts, d \notin Listed(s)
    PROVE  Append(s, d) \in DiscountLists
<1>1. /\ Append(s, d) \in Seq(Discounts)
      /\ Len(Append(s, d)) = Len(s) + 1
      /\ Len(s) \in Nat
      /\ \A i \in 1 .. Len(s) + 1 :
           Append(s, d)[i] = IF i = Len(s) + 1 THEN d ELSE s[i]
  BY DEF DiscountLists
<1>2. \A i, j \in 1 .. Len(s) + 1 :
        Append(s, d)[i] = Append(s, d)[j] => i = j
  BY <1>1 DEF DiscountLists, Listed
<1>3. QED
  BY <1>1, <1>2 DEF DiscountLists

\* What the filter of removeDiscount does to a list that holds d.
LEMMA WithoutElements ==
    ASSUME NEW s \in DiscountLists, NEW d, d \in Listed(s)
    PROVE  \E at \in 1 .. Len(s) :
             /\ s[at] = d
             /\ Without(s, d) \in Seq(Discounts) /\ Len(Without(s, d)) = Len(s) - 1
             /\ \A i \in 1 .. Len(s) - 1 :
                  Without(s, d)[i] = IF i < at THEN s[i] ELSE s[i + 1]
<1> DEFINE at == CHOOSE i \in 1 .. Len(s) : s[i] = d
           a == SubSeq(s, 1, at - 1)
           b == SubSeq(s, at + 1, Len(s))
<1>1. at \in 1 .. Len(s) /\ s[at] = d
  BY DEF Listed
<1>2. Without(s, d) = a \o b
  BY DEF Without
<1> HIDE DEF at
<1>3. s \in Seq(Discounts) /\ Len(s) \in Nat
  BY DEF DiscountLists
<1>4. /\ a \in Seq(Discounts) /\ Len(a) = at - 1
      /\ \A i \in 1 .. at - 1 : a[i] = s[i]
  BY <1>1, <1>3
<1>5. /\ b \in Seq(Discounts) /\ Len(b) = Len(s) - at
      /\ \A i \in 1 .. Len(s) - at : b[i] = s[i + at]
  BY <1>1, <1>3
<1> HIDE DEF a, b
<1>6. /\ a \o b \in Seq(Discounts) /\ Len(a \o b) = Len(s) - 1
      /\ \A i \in 1 .. Len(s) - 1 :
           (a \o b)[i] = IF i <= at - 1 THEN a[i] ELSE b[i - (at - 1)]
  <2>1. Len(a) + Len(b) = Len(s) - 1
    BY <1>1, <1>3, <1>4, <1>5
  <2>2. QED
    BY <1>4, <1>5, <2>1, ConcatProperties
<1>7. \A i \in 1 .. Len(s) - 1 : (a \o b)[i] = IF i < at THEN s[i] ELSE s[i + 1]
  BY <1>1, <1>3, <1>4, <1>5, <1>6
<1>8. QED
  BY <1>1, <1>2, <1>6, <1>7

\* The filter of removeDiscount returns a list without repetition ...
LEMMA WithoutIsList ==
    ASSUME NEW s \in DiscountLists, NEW d
    PROVE  Without(s, d) \in DiscountLists
<1>1. CASE d \notin Listed(s)
  BY <1>1 DEF Without
<1>2. CASE d \in Listed(s)
  <2> DEFINE t == Without(s, d)
  <2>1. PICK at \in 1 .. Len(s) :
          /\ t \in Seq(Discounts) /\ Len(t) = Len(s) - 1
          /\ \A i \in 1 .. Len(s) - 1 : t[i] = IF i < at THEN s[i] ELSE s[i + 1]
    BY <1>2, WithoutElements
  <2> HIDE DEF t
  <2>2. \A i, j \in 1 .. Len(s) : s[i] = s[j] => i = j
    BY DEF DiscountLists
  <2>3. \A i, j \in 1 .. Len(t) : t[i] = t[j] => i = j
    BY <2>1, <2>2 DEF DiscountLists
  <2>4. t \in DiscountLists
    BY <2>1, <2>3 DEF DiscountLists
  <2>5. QED
    BY <2>4 DEF t
<1>3. QED
  BY <1>1, <1>2

\* ... which lists the others and no longer d.
LEMMA ListedWithout ==
    ASSUME NEW s \in DiscountLists, NEW d
    PROVE  Listed(Without(s, d)) = Listed(s) \ {d}
<1>1. CASE d \notin Listed(s)
  BY <1>1 DEF Without
<1>2. CASE d \in Listed(s)
  <2> DEFINE t == Without(s, d)
  <2>1. PICK at \in 1 .. Len(s) :
          /\ s[at] = d /\ t \in Seq(Discounts) /\ Len(t) = Len(s) - 1
          /\ \A i \in 1 .. Len(s) - 1 : t[i] = IF i < at THEN s[i] ELSE s[i + 1]
    BY <1>2, WithoutElements
  <2> HIDE DEF t
  <2>2. /\ Len(s) \in Nat
        /\ \A i, j \in 1 .. Len(s) : s[i] = s[j] => i = j
    BY DEF DiscountLists
  <2>3. ASSUME NEW x \in Listed(t)
        PROVE  x \in Listed(s) /\ x # d
    <3>1. PICK i \in 1 .. Len(s) - 1 : x = t[i]
      BY <2>1, <2>3 DEF Listed
    <3>2. PICK j \in 1 .. Len(s) : x = s[j] /\ j # at
      BY <2>1, <2>2, <3>1
    <3>3. QED
      BY <2>1, <2>2, <3>2 DEF Listed
  <2>4. ASSUME NEW x \in Listed(s), x # d
        PROVE  x \in Listed(t)
    <3>1. PICK j \in 1 .. Len(s) : x = s[j]
      BY DEF Listed
    <3>2. j # at
      BY <2>1, <2>4, <3>1
    <3>3. CASE j < at
      <4>1. j \in 1 .. Len(s) - 1 /\ t[j] = x
        BY <2>1, <2>2, <3>1, <3>3
      <4>2. QED
        BY <2>1, <4>1 DEF Listed
    <3>4. CASE j > at
      <4>1. j - 1 \in 1 .. Len(s) - 1 /\ t[j - 1] = x
        BY <2>1, <2>2, <3>1, <3>4
      <4>2. QED
        BY <2>1, <4>1 DEF Listed
    <3>5. QED
      BY <2>2, <3>2, <3>3, <3>4
  <2>5. Listed(t) = Listed(s) \ {d}
    BY <2>3, <2>4
  <2>6. QED
    BY <2>5 DEF t
<1>3. QED
  BY <1>1, <1>2

\* The empty list is a list without repetition.
LEMMA EmptyIsList == <<>> \in DiscountLists
BY DEF DiscountLists

-----------------------------------------------------------------------------
(* Type correctness and carts without duplicates.                          *)

\* The carts and every copy of a cart are free of repetition, and a handler
\* about to reserve a discount holds a copy without it.
CartInv ==
    /\ appliedDiscounts \in [Users -> DiscountLists]
    /\ snapshot \in [Requests -> DiscountLists]
    /\ \A r \in Requests :
         pc[r] = "apply_reserve" => target[r] \notin Listed(snapshot[r])

\* The discounts' initial counts are cardinalities of finite sets.
LEMMA InitType == Init => TypeOK /\ CartInv
<1> SUFFICES ASSUME Init PROVE TypeOK /\ CartInv
  OBVIOUS
<1>1. \A d \in Discounts :
        Cardinality({u \in Users : d \in Listed(appliedDiscounts[u])}) \in Nat
  <2> SUFFICES ASSUME NEW d \in Discounts
               PROVE  Cardinality({u \in Users : d \in Listed(appliedDiscounts[u])}) \in Nat
    OBVIOUS
  <2> DEFINE H == {u \in Users : d \in Listed(appliedDiscounts[u])}
  <2>1. H \subseteq Users
    OBVIOUS
  <2>2. QED
    BY <2>1, ConstantsAssumption, FS_Subset, FS_CardinalityType
<1>2. TypeOK
  BY <1>1, ConstantsAssumption
  DEF Init, TypeOK, States, Steps, DiscountLists
<1>3. CartInv
  BY ConstantsAssumption, EmptyIsList DEF Init, CartInv
<1>4. QED
  BY <1>2, <1>3

\* Counts per user and discount, those of user u for the discounts in S raised.
Raised(f, u, S) ==
    [f EXCEPT ![u] = [d \in Discounts |-> IF d \in S THEN f[u][d] + 1 ELSE f[u][d]]]

\* They are counts again.
LEMMA RaisedCounts ==
    ASSUME NEW f \in [Users -> [Discounts -> Nat]], NEW u \in Users, NEW S
    PROVE  Raised(f, u, S) \in [Users -> [Discounts -> Nat]]
<1>1. f[u] \in [Discounts -> Nat]
  OBVIOUS
<1>2. [d \in Discounts |-> IF d \in S THEN f[u][d] + 1 ELSE f[u][d]]
        \in [Discounts -> Nat]
  BY <1>1
<1>3. QED
  BY <1>2 DEF Raised

\* A release takes no count below zero.
LEMMA ReleasedCounts ==
    ASSUME currentUsageCount \in [Discounts -> Nat]
    PROVE  \A d \in Discounts : Released(d) \in [Discounts -> Nat]
BY DEF Released

\* Every step keeps the variables in their types.
LEMMA TypeStep == TypeOK /\ CartInv /\ [Next]_vars => TypeOK' /\ CartInv'
<1> SUFFICES ASSUME TypeOK, CartInv, [Next]_vars
             PROVE  TypeOK' /\ CartInv'
  OBVIOUS
<1> USE ConstantsAssumption DEF TypeOK, CartInv, Steps, InTransaction, Goto,
        dbVars, localVars
<1>0. DiscountLists \subseteq Seq(Discounts)
  BY DEF DiscountLists
<1>1. ASSUME NEW r \in Requests, BeginApply(r) PROVE TypeOK' /\ CartInv'
  <2>1. TypeOK'
    BY <1>0, <1>1 DEF BeginApply, Arrives, ReadCart, AlreadyApplied
  <2>2. CartInv'
    BY <1>0, <1>1 DEF BeginApply, Arrives, ReadCart, AlreadyApplied
  <2>3. QED
    BY <2>1, <2>2
<1>2. ASSUME NEW r \in Requests, Reserve(r) PROVE TypeOK' /\ CartInv'
  <2>1. TypeOK'
    <3>1. currentUsageCount' \in [Discounts -> Nat]
      BY <1>2 DEF Reserve
    <3>2. appliedDiscounts' \in [Users -> Seq(Discounts)]
      BY <1>0, <1>2 DEF Reserve, SaveCart
    <3>3. pc' \in [Requests -> Steps]
      BY <1>2 DEF Reserve
    <3>4. QED
      BY <3>1, <3>2, <3>3, <1>2 DEF Reserve
  <2>2. CartInv'
    BY <1>0, <1>2, AppendNew DEF Reserve, SaveCart
  <2>3. QED
    BY <2>1, <2>2
<1>3. ASSUME NEW r \in Requests, RejectApply(r) PROVE TypeOK' /\ CartInv'
  <2>1. TypeOK'
    BY <1>0, <1>3 DEF RejectApply
  <2>2. CartInv'
    BY <1>0, <1>3 DEF RejectApply
  <2>3. QED
    BY <2>1, <2>2
<1>4. ASSUME NEW r \in Requests, RecalculateRead(r) PROVE TypeOK' /\ CartInv'
  <2>1. TypeOK'
    BY <1>0, <1>4 DEF RecalculateRead, ReadCart
  <2>2. CartInv'
    BY <1>0, <1>4 DEF RecalculateRead, ReadCart
  <2>3. QED
    BY <2>1, <2>2
<1>5. ASSUME NEW r \in Requests, RecalculateSave(r) PROVE TypeOK' /\ CartInv'
  <2>1. TypeOK'
    BY <1>0, <1>5 DEF RecalculateSave, SaveCart
  <2>2. CartInv'
    BY <1>0, <1>5 DEF RecalculateSave, SaveCart
  <2>3. QED
    BY <2>1, <2>2
<1>6. ASSUME NEW r \in Requests, BeginRemove(r) PROVE TypeOK' /\ CartInv'
  <2>1. TypeOK'
    BY <1>0, <1>6 DEF BeginRemove, Arrives, ReadCart
  <2>2. CartInv'
    BY <1>0, <1>6 DEF BeginRemove, Arrives, ReadCart
  <2>3. QED
    BY <2>1, <2>2
<1>7. ASSUME NEW r \in Requests, RemoveSave(r) PROVE TypeOK' /\ CartInv'
  <2>1. TypeOK'
    BY <1>0, <1>7, WithoutIsList DEF RemoveSave, SaveCart
  <2>2. CartInv'
    BY <1>0, <1>7, WithoutIsList DEF RemoveSave, SaveCart
  <2>3. QED
    BY <2>1, <2>2
<1>8. ASSUME NEW r \in Requests, RemoveRelease(r) PROVE TypeOK' /\ CartInv'
  <2>1. TypeOK'
    <3>1. currentUsageCount' \in [Discounts -> Nat]
      <4>1. currentUsageCount' = Released(target[r]) /\ target[r] \in Discounts
        BY <1>8 DEF RemoveRelease
      <4>2. QED
        BY <4>1, ReleasedCounts
    <3>2. pc' \in [Requests -> Steps]
      BY <1>8 DEF RemoveRelease
    <3>3. QED
      BY <3>1, <3>2, <1>8 DEF RemoveRelease
  <2>2. CartInv'
    BY <1>0, <1>8 DEF RemoveRelease, Released
  <2>3. QED
    BY <2>1, <2>2
<1>9. ASSUME NEW r \in Requests, BeginClear(r) PROVE TypeOK' /\ CartInv'
  <2>1. TypeOK'
    BY <1>0, <1>9 DEF BeginClear, Arrives, ReadCart
  <2>2. CartInv'
    BY <1>0, <1>9 DEF BeginClear, Arrives, ReadCart
  <2>3. QED
    BY <2>1, <2>2
<1>10. ASSUME NEW r \in Requests, ClearRelease(r) PROVE TypeOK' /\ CartInv'
  <2>1. TypeOK'
    <3>1. currentUsageCount' \in [Discounts -> Nat]
      <4>1. snapshot[r][next[r]] \in Discounts
        BY <1>0, <1>10 DEF ClearRelease
      <4>2. PICK d \in Discounts : currentUsageCount' = Released(d)
        BY <4>1, <1>10 DEF ClearRelease
      <4>3. QED
        BY <4>2, ReleasedCounts
    <3>2. next' \in [Requests -> Nat \ {0}]
      <4>1. next' = [next EXCEPT ![r] = next[r] + 1]
        BY <1>10 DEF ClearRelease
      <4>2. QED
        BY <4>1
    <3>3. QED
      BY <3>1, <3>2, <1>10 DEF ClearRelease
  <2>2. CartInv'
    BY <1>0, <1>10 DEF ClearRelease, Released
  <2>3. QED
    BY <2>1, <2>2
<1>11. ASSUME NEW r \in Requests, ClearSave(r) PROVE TypeOK' /\ CartInv'
  <2>1. TypeOK'
    BY <1>0, <1>11, EmptyIsList DEF ClearSave, SaveCart
  <2>2. CartInv'
    BY <1>0, <1>11, EmptyIsList DEF ClearSave, SaveCart
  <2>3. QED
    BY <2>1, <2>2
<1>12. ASSUME NEW r \in Requests, BeginTouch(r) PROVE TypeOK' /\ CartInv'
  <2>1. TypeOK'
    BY <1>0, <1>12 DEF BeginTouch, Arrives, ReadCart
  <2>2. CartInv'
    BY <1>0, <1>12 DEF BeginTouch, Arrives, ReadCart
  <2>3. QED
    BY <2>1, <2>2
<1>13. ASSUME NEW r \in Requests, TouchSave(r) PROVE TypeOK' /\ CartInv'
  <2>1. TypeOK'
    BY <1>0, <1>13 DEF TouchSave, SaveCart
  <2>2. CartInv'
    BY <1>0, <1>13 DEF TouchSave, SaveCart
  <2>3. QED
    BY <2>1, <2>2
<1>14. ASSUME NEW r \in Requests, BeginCheckout(r) PROVE TypeOK' /\ CartInv'
  <2>1. TypeOK'
    BY <1>0, <1>14 DEF BeginCheckout, Arrives, ReadCart
  <2>2. CartInv'
    BY <1>0, <1>14 DEF BeginCheckout, Arrives, ReadCart
  <2>3. QED
    BY <2>1, <2>2
<1>15. ASSUME NEW r \in Requests, ValidateSave(r) PROVE TypeOK' /\ CartInv'
  <2>1. TypeOK'
    BY <1>0, <1>15 DEF ValidateSave, SaveCart
  <2>2. CartInv'
    BY <1>0, <1>15 DEF ValidateSave, SaveCart
  <2>3. QED
    BY <2>1, <2>2
<1>16. ASSUME NEW r \in Requests, CheckoutRead(r) PROVE TypeOK' /\ CartInv'
  <2>1. TypeOK'
    BY <1>0, <1>16 DEF CheckoutRead, ReadCart
  <2>2. CartInv'
    BY <1>0, <1>16 DEF CheckoutRead, ReadCart
  <2>3. QED
    BY <2>1, <2>2
<1>17. ASSUME NEW r \in Requests, ValidateDiscount(r) PROVE TypeOK' /\ CartInv'
  <2>1. TypeOK'
    <3>1. lock' \in [Discounts -> Requests \cup {NoRequest}]
      BY <1>17 DEF ValidateDiscount, Locked
    <3>2. next' \in [Requests -> Nat \ {0}]
      BY <1>17 DEF ValidateDiscount
    <3>3. QED
      BY <3>1, <3>2, <1>17 DEF ValidateDiscount
  <2>2. CartInv'
    BY <1>0, <1>17 DEF ValidateDiscount, Locked, Pending
  <2>3. QED
    BY <2>1, <2>2
<1>18. ASSUME NEW r \in Requests, RejectDiscount(r) PROVE TypeOK' /\ CartInv'
  <2>1. TypeOK'
    BY <1>0, <1>18 DEF RejectDiscount, Unlocked
  <2>2. CartInv'
    BY <1>0, <1>18 DEF RejectDiscount, Unlocked
  <2>3. QED
    BY <2>1, <2>2
<1>19. ASSUME NEW r \in Requests, RecordUsage(r) PROVE TypeOK' /\ CartInv'
  <2>1. TypeOK'
    <3>1. lock' \in [Discounts -> Requests \cup {NoRequest}]
      BY <1>19 DEF RecordUsage, Unlocked
    <3>2. pc' \in [Requests -> Steps]
      BY <1>19 DEF RecordUsage
    <3>3. QED
      BY <3>1, <3>2, <1>19 DEF RecordUsage
  <2>2. CartInv'
    BY <1>0, <1>19 DEF RecordUsage, Unlocked
  <2>3. QED
    BY <2>1, <2>2
<1>20. ASSUME NEW r \in Requests, CheckoutClear(r) PROVE TypeOK' /\ CartInv'
  <2>1. TypeOK'
    BY <1>0, <1>20, EmptyIsList DEF CheckoutClear, SaveCart
  <2>2. CartInv'
    BY <1>0, <1>20, EmptyIsList DEF CheckoutClear, SaveCart
  <2>3. QED
    BY <2>1, <2>2
<1>21. ASSUME NEW r \in Requests, CheckoutCommit(r) PROVE TypeOK' /\ CartInv'
  <2>1. TypeOK'
    <3>1. lock' \in [Discounts -> Requests \cup {NoRequest}]
      BY <1>21 DEF CheckoutCommit, Unlocked
    <3>2. pc' \in [Requests -> Steps]
      BY <1>21 DEF CheckoutCommit
    <3> DEFINE u == Caller[r]
               redeemed == Listed(snapshot[r])
               counted == redeemed \cap UserTargeted \cap assigned[u]
    <3>3. /\ usageLogs' = Raised(usageLogs, u, redeemed)
          /\ usageCount' = Raised(usageCount, u, counted)
      BY <1>21 DEF CheckoutCommit, Raised
    <3>4. /\ u \in Users
          /\ usageLogs \in [Users -> [Discounts -> Nat]]
          /\ usageCount \in [Users -> [Discounts -> Nat]]
      OBVIOUS
    <3> HIDE DEF u, redeemed, counted
    <3>5. /\ Raised(usageLogs, u, redeemed) \in [Users -> [Discounts -> Nat]]
          /\ Raised(usageCount, u, counted) \in [Users -> [Discounts -> Nat]]
      BY <3>4, RaisedCounts, Zenon
    <3>6. /\ usageLogs' \in [Users -> [Discounts -> Nat]]
          /\ usageCount' \in [Users -> [Discounts -> Nat]]
      BY <3>3, <3>5, Zenon
    <3>7. QED
      BY <3>1, <3>2, <3>6, <1>21 DEF CheckoutCommit
  <2>2. CartInv'
    BY <1>0, <1>21 DEF CheckoutCommit, Unlocked
  <2>3. QED
    BY <2>1, <2>2
<1>22. ASSUME NEW r \in Requests, BeginEdit(r) PROVE TypeOK' /\ CartInv'
  <2>1. TypeOK'
    BY <1>0, <1>22 DEF BeginEdit, Arrives
  <2>2. CartInv'
    BY <1>0, <1>22 DEF BeginEdit, Arrives
  <2>3. QED
    BY <2>1, <2>2
<1>23. ASSUME NEW r \in Requests, EditSave(r) PROVE TypeOK' /\ CartInv'
  <2>1. TypeOK'
    <3>1. currentUsageCount' \in [Discounts -> Nat]
      BY <1>23 DEF EditSave
    <3>2. pc' \in [Requests -> Steps]
      BY <1>23 DEF EditSave
    <3>3. state' \in [Discounts -> States]
      BY <1>23 DEF EditSave, States
    <3>4. limits' \in [Discounts -> [total : Nat, perUser : Nat]]
      BY <1>23 DEF EditSave
    <3>5. QED
      BY <3>1, <3>2, <3>3, <3>4, <1>23 DEF EditSave
  <2>2. CartInv'
    BY <1>0, <1>23 DEF EditSave, States
  <2>3. QED
    BY <2>1, <2>2
<1>24. ASSUME NEW r \in Requests, SoftDelete(r) PROVE TypeOK' /\ CartInv'
  <2>1. TypeOK'
    BY <1>0, <1>24 DEF SoftDelete, States
  <2>2. CartInv'
    BY <1>0, <1>24 DEF SoftDelete, States
  <2>3. QED
    BY <2>1, <2>2
<1>25. ASSUME NEW r \in Requests, AssignToUser(r) PROVE TypeOK' /\ CartInv'
  <2>1. TypeOK'
    <3>1. assigned' \in [Users -> SUBSET Discounts]
      <4> PICK u \in Users :
            assigned' = [assigned EXCEPT ![u] = @ \cup {target[r]}]
        BY <1>25 DEF AssignToUser
      <4> QED
        OBVIOUS
    <3> PICK u \in Users :
          /\ usageCount' = [usageCount EXCEPT ![u][target[r]] = 0]
          /\ logsAtReset' =
               [logsAtReset EXCEPT ![u][target[r]] = usageLogs[u][target[r]]]
      BY <1>25 DEF AssignToUser
    <3>2. usageCount' \in [Users -> [Discounts -> Nat]]
      OBVIOUS
    <3>3. logsAtReset' \in [Users -> [Discounts -> Nat]]
      OBVIOUS
    <3>4. pc' \in [Requests -> Steps]
      BY <1>25 DEF AssignToUser
    <3>5. QED
      BY <3>1, <3>2, <3>3, <3>4, <1>25 DEF AssignToUser
  <2>2. CartInv'
    BY <1>0, <1>25 DEF AssignToUser, Arrives
  <2>3. QED
    BY <2>1, <2>2
<1>26. ASSUME NEW r \in Requests, RemoveUserAssignment(r) PROVE TypeOK' /\ CartInv'
  <2>1. TypeOK'
    <3>1. assigned' \in [Users -> SUBSET Discounts]
      <4> PICK u \in Users : assigned' = [assigned EXCEPT ![u] = @ \ {target[r]}]
        BY <1>26 DEF RemoveUserAssignment
      <4> QED
        OBVIOUS
    <3>2. pc' \in [Requests -> Steps]
      BY <1>26 DEF RemoveUserAssignment
    <3>3. QED
      BY <3>1, <3>2, <1>26 DEF RemoveUserAssignment
  <2>2. CartInv'
    BY <1>0, <1>26 DEF RemoveUserAssignment, Arrives
  <2>3. QED
    BY <2>1, <2>2
<1>27. ASSUME NEW r \in Requests, DeadlockAbort(r) PROVE TypeOK' /\ CartInv'
  <2>1. TypeOK'
    BY <1>0, <1>27 DEF DeadlockAbort, Unlocked
  <2>2. CartInv'
    BY <1>0, <1>27 DEF DeadlockAbort, Unlocked
  <2>3. QED
    BY <2>1, <2>2
<1>28. ASSUME NEW r \in Requests, RequestFails(r) PROVE TypeOK' /\ CartInv'
  <2>1. TypeOK'
    BY <1>0, <1>28 DEF RequestFails, Unlocked, Active
  <2>2. CartInv'
    BY <1>0, <1>28 DEF RequestFails, Unlocked, Active
  <2>3. QED
    BY <2>1, <2>2
<1>29. ASSUME NEW r \in Requests, ReleaseFails(r) PROVE TypeOK' /\ CartInv'
  <2>1. TypeOK'
    <3>1. next' \in [Requests -> Nat \ {0}]
      <4>1. \/ next' = next
            \/ next' = [next EXCEPT ![r] = next[r] + 1]
        BY <1>29 DEF ReleaseFails
      <4>2. CASE next' = next
        BY <4>2
      <4>3. CASE next' = [next EXCEPT ![r] = next[r] + 1]
        BY <4>3
      <4>4. QED
        BY <4>1, <4>2, <4>3
    <3>2. pc' \in [Requests -> Steps]
      BY <1>29 DEF ReleaseFails
    <3>3. faults' \in Nat
      BY <1>29 DEF ReleaseFails
    <3>4. UNCHANGED <<dbVars, appliedDiscounts, lock, target, snapshot, countRead>>
      BY <1>29 DEF ReleaseFails
    <3>5. QED
      BY <3>1, <3>2, <3>3, <3>4
  <2>2. CartInv'
    BY <1>0, <1>29 DEF ReleaseFails
  <2>3. QED
    BY <2>1, <2>2
<1>30. CASE Crash
  <2>1. pc' \in [Requests -> Steps]
    BY <1>30 DEF Crash
  <2>2. lock' \in [Discounts -> Requests \cup {NoRequest}]
    BY <1>30 DEF Crash
  <2>3. TypeOK'
    BY <2>1, <2>2, <1>30 DEF Crash
  <2>4. CartInv'
    BY <1>30 DEF Crash
  <2>5. QED
    BY <2>3, <2>4
<1>31. CASE UNCHANGED vars
  BY <1>31 DEF vars
<1>32. QED
  BY <1>1, <1>2, <1>3, <1>4, <1>5, <1>6, <1>7, <1>8, <1>9, <1>10, <1>11, <1>12, <1>13, <1>14, <1>15, <1>16, <1>17, <1>18, <1>19, <1>20, <1>21, <1>22, <1>23, <1>24, <1>25, <1>26, <1>27, <1>28, <1>29, <1>30, <1>31
  DEF Next, Begin, Continue, CartStep, CheckoutStep, AdminStep, Fail, Idle

\* Every variable keeps its type in every behaviour.
THEOREM TypeCorrect == Spec => []TypeOK
<1>1. QED
  BY InitType, TypeStep, PTL DEF Spec

\* No cart ever lists a discount twice (CartService.applyDiscount).
THEOREM CartsHoldNoDuplicate == Spec => []NoDuplicateDiscount
<1>1. CartInv => NoDuplicateDiscount
  BY DEF CartInv, NoDuplicateDiscount
<1>2. QED
  BY <1>1, InitType, TypeStep, PTL DEF Spec

-----------------------------------------------------------------------------
(* The per-user limit.                                                     *)

\* A checkout in its transaction locks the discounts it has come past, and
\* nobody else locks anything.
LockInv ==
    \A r \in Requests :
        /\ \A d \in Discounts : lock[d] = r => pc[r] \in InTransaction
        /\ pc[r] \in InTransaction =>
             \A i \in 1 .. Len(snapshot[r]) :
                 i < next[r] => lock[snapshot[r][i]] = r
        /\ pc[r] \in {"checkout_clear", "checkout_commit"} =>
             next[r] > Len(snapshot[r])

\* What a checkout found out about its caller holds while it holds the lock.
CheckedInv ==
    \A d \in UserTargeted :
        lock[d] \in Requests => UserMayUse(Caller[lock[d]], d)

\* usageCount counts the redemptions since the (last) assignment.
CountInv ==
    \A u \in Users, d \in UserTargeted :
        d \in assigned[u] =>
            usageCount[u][d] = usageLogs[u][d] - logsAtReset[u][d]

PerUserInv == LockInv /\ CheckedInv /\ CountInv

\* What the checkout that commits has locked, it may count.
LEMMA CommitChecked ==
    ASSUME TypeOK, PerUserInv, NEW r \in Requests, pc[r] = "checkout_commit",
           NEW d \in UserTargeted, d \in Listed(snapshot[r])
    PROVE  lock[d] = r /\ UserMayUse(Caller[r], d)
<1>1. PICK i \in 1 .. Len(snapshot[r]) : d = snapshot[r][i]
  BY DEF Listed
<1>2. i < next[r]
  BY <1>1 DEF PerUserInv, LockInv, TypeOK
<1>3. lock[d] = r
  BY <1>1, <1>2 DEF PerUserInv, LockInv, InTransaction
<1>4. QED
  BY <1>3 DEF PerUserInv, CheckedInv

\* A checkout holds the locks of exactly the discounts it has validated.
LEMMA LockStep == TypeOK /\ LockInv /\ [Next]_vars => LockInv'
<1> SUFFICES ASSUME TypeOK, LockInv, [Next]_vars PROVE LockInv'
  OBVIOUS
<1> USE ConstantsAssumption DEF LockInv, Goto, dbVars, localVars, InTransaction
<1>0. /\ lock \in [Discounts -> Requests \cup {NoRequest}]
      /\ pc \in [Requests -> Steps]
      /\ snapshot \in [Requests -> Seq(Discounts)]
      /\ next \in [Requests -> Nat \ {0}]
  BY DEF TypeOK
\* A step of a request outside a transaction, which stays outside.
<1> DEFINE Outside(r) ==
        /\ pc[r] \notin InTransaction
        /\ \E step : pc' = [pc EXCEPT ![r] = step] /\ step \notin InTransaction
        /\ lock' = lock
        /\ \A q \in Requests \ {r} :
             snapshot'[q] = snapshot[q] /\ next'[q] = next[q]
<1>1. ASSUME NEW r \in Requests, Outside(r) PROVE LockInv'
  BY <1>0, <1>1
\* A step that ends a request and frees its locks.
<1> DEFINE Ends(r) == /\ pc' = [pc EXCEPT ![r] = "done"]
                      /\ lock' = Unlocked(r)
                      /\ UNCHANGED <<snapshot, next>>
<1>2. ASSUME NEW r \in Requests, Ends(r) PROVE LockInv'
  <2>1. /\ pc'[r] = "done" /\ \A q \in Requests \ {r} : pc'[q] = pc[q]
        /\ \A d \in Discounts :
             lock'[d] = IF lock[d] = r THEN NoRequest ELSE lock[d]
        /\ snapshot' = snapshot /\ next' = next
    BY <1>0, <1>2 DEF Unlocked
  <2>2. ASSUME NEW q \in Requests, NEW d \in Discounts, lock'[d] = q
        PROVE  pc'[q] \in InTransaction
    <3>1. lock[d] # r /\ lock[d] = q
      BY <2>1, <2>2
    <3>2. QED
      BY <2>1, <3>1
  <2>3. ASSUME NEW q \in Requests, pc'[q] \in InTransaction,
               NEW i \in 1 .. Len(snapshot'[q]), i < next'[q]
        PROVE  lock'[snapshot'[q][i]] = q
    <3>1. q # r /\ lock[snapshot[q][i]] = q /\ snapshot[q][i] \in Discounts
      BY <1>0, <2>1, <2>3
    <3>2. QED
      BY <2>1, <3>1
  <2>4. \A q \in Requests : pc'[q] \in {"checkout_clear", "checkout_commit"}
          => next'[q] > Len(snapshot'[q])
    BY <1>0, <2>1
  <2>5. QED
    BY <2>2, <2>3, <2>4
<1>3. ASSUME NEW r \in Requests, Begin(r) PROVE LockInv'
  <2>1. Outside(r)
    BY <1>0, <1>3 DEF Begin, BeginApply, BeginRemove, BeginClear, BeginTouch,
            BeginCheckout, BeginEdit, AssignToUser, RemoveUserAssignment,
            Arrives, ReadCart
  <2>2. QED
    BY <1>1, <2>1
<1>4. ASSUME NEW r \in Requests, CartStep(r) \/ AdminStep(r) PROVE LockInv'
  <2>1. CASE ClearRelease(r)
    BY <1>0, <2>1 DEF ClearRelease
  <2>2. CASE ~ClearRelease(r)
    <3>1. Outside(r)
      BY <1>0, <1>4, <2>2
      DEF CartStep, Reserve, RejectApply, RecalculateRead, RecalculateSave,
          RemoveSave, RemoveRelease, ClearSave, TouchSave, ReadCart, AdminStep,
          EditSave, SoftDelete
    <3>2. QED
      BY <1>1, <3>1
  <2>3. QED
    BY <2>1, <2>2
<1>5. ASSUME NEW r \in Requests, ValidateSave(r) PROVE LockInv'
  BY <1>0, <1>5 DEF ValidateSave
<1>6. ASSUME NEW r \in Requests, CheckoutRead(r) PROVE LockInv'
  BY <1>0, <1>6 DEF CheckoutRead, ReadCart
<1>7. ASSUME NEW r \in Requests, ValidateDiscount(r) PROVE LockInv'
  <2> DEFINE d == snapshot[r][next[r]]
  <2>1. /\ d \in Discounts /\ lock[d] = NoRequest
        /\ lock' = [lock EXCEPT ![d] = r]
        /\ next' = [next EXCEPT ![r] = next[r] + 1]
        /\ pc' = pc /\ snapshot' = snapshot /\ pc[r] = "checkout_lock"
    BY <1>0, <1>7 DEF ValidateDiscount, Locked, Pending, RowFree
  <2>2. lock'[d] = r /\ \A e \in Discounts : e # d => lock'[e] = lock[e]
    BY <1>0, <2>1
  <2>3. \A q \in Requests, e \in Discounts :
          lock'[e] = q => pc'[q] \in InTransaction
    BY <1>0, <2>1, <2>2
  <2>4. ASSUME NEW q \in Requests, pc'[q] \in InTransaction,
               NEW i \in 1 .. Len(snapshot'[q]), i < next'[q]
        PROVE  lock'[snapshot'[q][i]] = q
    <3>1. snapshot[q][i] \in Discounts
      BY <1>0, <2>1, <2>4
    <3>2. CASE q = r /\ i = next[r]
      BY <2>1, <2>2, <3>2
    <3>3. CASE ~(q = r /\ i = next[r])
      <4>1. i < next[q]
        BY <1>0, <2>1, <2>4, <3>3
      <4>2. lock[snapshot[q][i]] = q
        BY <2>1, <2>4, <4>1
      <4>3. QED
        BY <2>1, <2>2, <3>1, <4>2
    <3>4. QED
      BY <3>2, <3>3
  <2>5. \A q \in Requests : pc'[q] \in {"checkout_clear", "checkout_commit"}
          => next'[q] > Len(snapshot'[q])
    BY <1>0, <2>1
  <2>6. QED
    BY <2>3, <2>4, <2>5
<1>8. ASSUME NEW r \in Requests, RecordUsage(r) PROVE LockInv'
  <2>1. CASE lock' = lock /\ pc' = [pc EXCEPT ![r] = "checkout_clear"]
    <3>1. /\ pc[r] = "checkout_lock" /\ next[r] > Len(snapshot[r])
          /\ snapshot' = snapshot /\ next' = next
      BY <1>8 DEF RecordUsage
    <3>2. pc'[r] = "checkout_clear" /\ \A q \in Requests \ {r} : pc'[q] = pc[q]
      BY <1>0, <2>1
    <3>3. \A q \in Requests : pc'[q] \in InTransaction <=> pc[q] \in InTransaction
      BY <3>1, <3>2
    <3>4. QED
      BY <2>1, <3>1, <3>2, <3>3
  <2>2. CASE Ends(r)
    BY <1>2, <2>2
  <2>3. QED
    BY <1>8, <2>1, <2>2 DEF RecordUsage
<1>9. ASSUME NEW r \in Requests, CheckoutClear(r) PROVE LockInv'
  BY <1>0, <1>9 DEF CheckoutClear
<1>10. ASSUME NEW r \in Requests,
              \/ RejectDiscount(r) \/ CheckoutCommit(r) \/ DeadlockAbort(r)
              \/ RequestFails(r)
       PROVE  LockInv'
  <2>1. Ends(r)
    BY <1>10 DEF RejectDiscount, CheckoutCommit, DeadlockAbort, RequestFails
  <2>2. QED
    BY <1>2, <2>1
<1>11. ASSUME NEW r \in Requests, ReleaseFails(r) PROVE LockInv'
  BY <1>0, <1>11 DEF ReleaseFails
<1>12. CASE Crash
  BY <1>0, <1>12 DEF Crash, Active
<1>13. CASE UNCHANGED vars
  BY <1>13 DEF vars
<1>14. QED
  BY <1>3, <1>4, <1>5, <1>6, <1>7, <1>8, <1>9, <1>10, <1>11, <1>12, <1>13
  DEF Next, Continue, CheckoutStep, Fail, Idle

\* The redemptions a user may still make are not taken away while they are
\* being checked: nobody else writes what a checkout's locks protect.
LEMMA PerUserStep ==
    TypeOK /\ PerUserInv /\ [Next]_vars =>
        CheckedInv' /\ CountInv'
<1> SUFFICES ASSUME TypeOK, PerUserInv, [Next]_vars
             PROVE  CheckedInv' /\ CountInv'
  OBVIOUS
<1> USE ConstantsAssumption DEF CheckedInv, CountInv, UserMayUse,
        dbVars, localVars
<1>0. /\ lock \in [Discounts -> Requests \cup {NoRequest}]
      /\ assigned \in [Users -> SUBSET Discounts]
      /\ usageCount \in [Users -> [Discounts -> Nat]]
      /\ usageLogs \in [Users -> [Discounts -> Nat]]
      /\ logsAtReset \in [Users -> [Discounts -> Nat]]
      /\ CheckedInv /\ CountInv
  BY DEF TypeOK, PerUserInv
<1> DEFINE Counters == <<limits, assigned, usageCount, usageLogs, logsAtReset>>
\* A step that leaves the counters alone and locks no further row.
<1> DEFINE Frees == /\ UNCHANGED Counters
                    /\ \A d \in Discounts :
                         lock'[d] = lock[d] \/ lock'[d] \notin Requests
<1>1. Frees => CheckedInv' /\ CountInv'
  BY <1>0
<1>2. ASSUME NEW r \in Requests, AssignToUser(r)
      PROVE  CheckedInv' /\ CountInv'
  <2> DEFINE d == target[r]
  <2>1. PICK u \in Users :
          /\ \A q \in Requests : lock[d] = q => Caller[q] # u
          /\ assigned' = [assigned EXCEPT ![u] = @ \cup {d}]
          /\ usageCount' = [usageCount EXCEPT ![u][d] = 0]
          /\ logsAtReset' = [logsAtReset EXCEPT ![u][d] = usageLogs[u][d]]
    <3>1. PICK u \in Users :
            /\ IF d \in assigned[u] THEN AssignmentRowFree(u, d) ELSE RowFree(d)
            /\ assigned' = [assigned EXCEPT ![u] = @ \cup {d}]
            /\ usageCount' = [usageCount EXCEPT ![u][d] = 0]
            /\ logsAtReset' = [logsAtReset EXCEPT ![u][d] = usageLogs[u][d]]
      BY <1>2 DEF AssignToUser
    <3>2. \A q \in Requests : lock[d] = q => Caller[q] # u
      BY <3>1 DEF AssignmentRowFree, RowFree
    <3>3. QED
      BY <3>1, <3>2
  <2>2. /\ lock' = lock /\ usageLogs' = usageLogs /\ limits' = limits /\ d \in Discounts
    BY <1>2 DEF AssignToUser, TypeOK
  <2>3. CheckedInv'
    BY <1>0, <2>1, <2>2
  <2>4. CountInv'
    BY <1>0, <2>1, <2>2
  <2>5. QED
    BY <2>3, <2>4
<1>3. ASSUME NEW r \in Requests, RemoveUserAssignment(r)
      PROVE  CheckedInv' /\ CountInv'
  <2> DEFINE d == target[r]
  <2>1. PICK u \in Users :
          /\ \A q \in Requests : lock[d] = q => Caller[q] # u
          /\ assigned' = [assigned EXCEPT ![u] = @ \ {d}]
    BY <1>3 DEF RemoveUserAssignment, AssignmentRowFree
  <2>2. UNCHANGED <<lock, limits, usageLogs, usageCount, logsAtReset>>
    BY <1>3 DEF RemoveUserAssignment
  <2>3. CheckedInv'
    BY <1>0, <2>1, <2>2
  <2>4. CountInv'
    BY <1>0, <2>1, <2>2
  <2>5. QED
    BY <2>3, <2>4
<1>4. ASSUME NEW r \in Requests, ValidateDiscount(r)
      PROVE  CheckedInv' /\ CountInv'
  <2>1. /\ Pending(r) \in Discounts
        /\ lock' = [lock EXCEPT ![Pending(r)] = r]
        /\ UserMayUse(Caller[r], Pending(r))
        /\ UNCHANGED Counters
    BY <1>4 DEF ValidateDiscount, Locked, Pending, Redeemable, TypeOK
  <2>2. CheckedInv'
    BY <1>0, <2>1
  <2>3. CountInv'
    BY <1>0, <2>1
  <2>4. QED
    BY <2>2, <2>3
<1>5. ASSUME NEW r \in Requests, CheckoutCommit(r)
      PROVE  CheckedInv' /\ CountInv'
  <2> DEFINE u == Caller[r]
             redeemed == Listed(snapshot[r])
             counted == redeemed \cap UserTargeted \cap assigned[u]
  <2>1. /\ u \in Users
        /\ assigned' = assigned /\ logsAtReset' = logsAtReset /\ limits' = limits
        /\ \A v \in Users, d \in Discounts :
             /\ usageLogs'[v][d] = IF v = u /\ d \in redeemed
                                   THEN usageLogs[v][d] + 1
                                   ELSE usageLogs[v][d]
             /\ usageCount'[v][d] = IF v = u /\ d \in counted
                                    THEN usageCount[v][d] + 1
                                    ELSE usageCount[v][d]
    BY <1>0, <1>5 DEF CheckoutCommit
  <2>2. \A d \in UserTargeted : d \in redeemed =>
          /\ lock[d] = r /\ d \in assigned[u] /\ d \in counted
    BY <1>5, CommitChecked DEF CheckoutCommit
  <2>3. \A d \in Discounts :
          /\ lock'[d] = IF lock[d] = r THEN NoRequest ELSE lock[d]
          /\ lock'[d] \in Requests => lock[d] = lock'[d] /\ lock[d] # r
    BY <1>0, <1>5 DEF CheckoutCommit, Unlocked
  <2> HIDE DEF u, redeemed, counted
  <2>4. CheckedInv'
    BY <1>0, <2>1, <2>2, <2>3 DEF counted
  <2>5. CountInv'
    BY <1>0, <2>1, <2>2 DEF counted
  <2>6. QED
    BY <2>4, <2>5
<1>6. ASSUME NEW r \in Requests,
             \/ BeginApply(r) \/ BeginRemove(r) \/ BeginClear(r)
             \/ BeginTouch(r) \/ BeginCheckout(r) \/ BeginEdit(r)
             \/ CartStep(r) \/ SoftDelete(r)
      PROVE  Frees
  BY <1>6
  DEF BeginApply, BeginRemove, BeginClear, BeginTouch, BeginCheckout, BeginEdit,
      CartStep, Reserve, RejectApply, RecalculateRead, RecalculateSave,
      RemoveSave, RemoveRelease, ClearRelease, ClearSave, TouchSave, SoftDelete
<1>7. ASSUME NEW r \in Requests,
             \/ ValidateSave(r) \/ CheckoutRead(r) \/ RejectDiscount(r)
             \/ RecordUsage(r) \/ CheckoutClear(r) \/ DeadlockAbort(r)
             \/ Fail(r)
      PROVE  Frees
  BY <1>0, <1>7
  DEF ValidateSave, CheckoutRead, RejectDiscount, RecordUsage, CheckoutClear,
      DeadlockAbort, Fail, RequestFails, ReleaseFails, Unlocked
<1>8. ASSUME NEW r \in Requests, EditSave(r)
      PROVE  CheckedInv' /\ CountInv'
  <2>1. /\ lock' = lock /\ lock[target[r]] = NoRequest
        /\ \A d \in Discounts : d # target[r] => limits'[d] = limits[d]
        /\ UNCHANGED <<assigned, usageCount, usageLogs, logsAtReset>>
    BY <1>8 DEF EditSave, RowFree, TypeOK
  <2>2. QED
    BY <1>0, <2>1
<1>9. CASE Crash
  BY <1>0, <1>1, <1>9 DEF Crash
<1>10. CASE UNCHANGED vars
  BY <1>0, <1>1, <1>10 DEF vars
<1>11. QED
  BY <1>1, <1>2, <1>3, <1>4, <1>5, <1>6, <1>7, <1>8, <1>9, <1>10
  DEF Next, Begin, Continue, CheckoutStep, AdminStep, Idle

\* Usage logs grow only when a checkout commits.
LEMMA OnlyCommitLogs ==
    ASSUME [Next]_vars
    PROVE  usageLogs' = usageLogs \/ \E r \in Requests : CheckoutCommit(r)
BY DEF Next, Begin, BeginApply, BeginRemove, BeginClear, BeginTouch,
       BeginCheckout, BeginEdit, AssignToUser, RemoveUserAssignment, Continue,
       CartStep, Reserve, RejectApply, RecalculateRead, RecalculateSave,
       RemoveSave, RemoveRelease, ClearRelease, ClearSave, TouchSave,
       CheckoutStep, ValidateSave, CheckoutRead, ValidateDiscount,
       RejectDiscount, RecordUsage, CheckoutClear, DeadlockAbort, AdminStep,
       EditSave, SoftDelete, Fail, RequestFails, ReleaseFails, Crash, Idle,
       vars, dbVars

\* A log of a discount is written by a checkout that lists it, for its caller,
\* and one at a time.
LEMMA LoggedByCommit ==
    ASSUME TypeOK, [Next]_vars, NEW u \in Users, NEW d \in Discounts,
           usageLogs'[u][d] > usageLogs[u][d]
    PROVE  \E r \in Requests :
             /\ CheckoutCommit(r) /\ u = Caller[r] /\ d \in Listed(snapshot[r])
             /\ usageLogs'[u][d] = usageLogs[u][d] + 1
<1>1. usageLogs[u][d] \in Nat
  BY DEF TypeOK
<1>2. PICK r \in Requests : CheckoutCommit(r)
  BY <1>1, OnlyCommitLogs
<1>3. Caller[r] \in Users
  BY ConstantsAssumption
<1>4. usageLogs' =
        [usageLogs EXCEPT ![Caller[r]] =
           [e \in Discounts |-> IF e \in Listed(snapshot[r])
                                THEN usageLogs[Caller[r]][e] + 1
                                ELSE usageLogs[Caller[r]][e]]]
  BY <1>2 DEF CheckoutCommit
<1>5. CASE u = Caller[r]
  <2>1. usageLogs'[u][d] = IF d \in Listed(snapshot[r]) THEN usageLogs[u][d] + 1
                                                       ELSE usageLogs[u][d]
    BY <1>3, <1>4, <1>5 DEF TypeOK
  <2>2. d \in Listed(snapshot[r])
    BY <1>1, <2>1
  <2>3. QED
    BY <1>2, <1>5, <2>1, <2>2
<1>6. CASE u # Caller[r]
  BY <1>1, <1>3, <1>4, <1>6 DEF TypeOK
<1>7. QED
  BY <1>5, <1>6

\* Every order that redeems a user-targeted discount is within its
\* maxUsagePerUser, whatever administrators make of that limit meanwhile and
\* however many checkouts of the user run at once.
THEOREM UsersStayWithinLimit == Spec => PerUserLimit
<1> DEFINE Within ==
      \A u \in Users, d \in UserTargeted :
          usageLogs'[u][d] > usageLogs[u][d] /\ limits[d].perUser # 0 =>
              usageLogs'[u][d] - logsAtReset[u][d] <= limits[d].perUser
<1>1. Init => PerUserInv
  BY ConstantsAssumption
  DEF Init, PerUserInv, LockInv, CheckedInv, CountInv, InTransaction
<1>2. TypeOK /\ PerUserInv /\ [Next]_vars => PerUserInv'
  BY LockStep, PerUserStep DEF PerUserInv
<1>3. TypeOK /\ PerUserInv /\ [Next]_vars => [Within]_vars
  <2> SUFFICES ASSUME TypeOK, PerUserInv, [Next]_vars,
                      NEW u \in Users, NEW d \in UserTargeted,
                      usageLogs'[u][d] > usageLogs[u][d], limits[d].perUser # 0
               PROVE  usageLogs'[u][d] - logsAtReset[u][d] <= limits[d].perUser
    OBVIOUS
  <2>1. /\ d \in Discounts /\ limits[d].perUser \in Nat
        /\ usageLogs[u][d] \in Nat /\ logsAtReset[u][d] \in Nat
    BY ConstantsAssumption DEF TypeOK
  <2>2. PICK r \in Requests :
          /\ CheckoutCommit(r) /\ u = Caller[r] /\ d \in Listed(snapshot[r])
          /\ usageLogs'[u][d] = usageLogs[u][d] + 1
    BY <2>1, LoggedByCommit
  <2>3. d \in assigned[u] /\ usageCount[u][d] < limits[d].perUser
    BY <2>2, CommitChecked DEF CheckoutCommit, UserMayUse
  <2>4. usageCount[u][d] = usageLogs[u][d] - logsAtReset[u][d]
    BY <2>3 DEF PerUserInv, CountInv
  <2>5. QED
    BY <2>1, <2>2, <2>3, <2>4
<1>4. QED
  BY <1>1, <1>2, <1>3, TypeCorrect, PTL DEF Spec, PerUserLimit

-----------------------------------------------------------------------------
(* Discounts that are switched off.                                        *)

\* While a checkout locks a discount, no administrator switches it off.
OfferedInv ==
    \A d \in Discounts : lock[d] \in Requests => CanRedeem(d)

\* A locked discount stays offered: every save of its row waits for the lock.
LEMMA OfferedStep == TypeOK /\ OfferedInv /\ [Next]_vars => OfferedInv'
<1> SUFFICES ASSUME TypeOK, OfferedInv, [Next]_vars PROVE OfferedInv'
  OBVIOUS
<1> USE ConstantsAssumption DEF OfferedInv, CanRedeem, dbVars, localVars
<1>0. /\ lock \in [Discounts -> Requests \cup {NoRequest}]
      /\ state \in [Discounts -> States]
  BY DEF TypeOK
<1> DEFINE Frees == /\ UNCHANGED state
                    /\ \A d \in Discounts :
                         lock'[d] = lock[d] \/ lock'[d] \notin Requests
<1>1. Frees => OfferedInv'
  BY <1>0
<1>2. ASSUME NEW r \in Requests, AdminStep(r) PROVE OfferedInv'
  <2>1. /\ lock' = lock /\ lock[target[r]] = NoRequest
        /\ \A d \in Discounts : d # target[r] => state'[d] = state[d]
    BY <1>0, <1>2 DEF AdminStep, EditSave, SoftDelete, RowFree
  <2>2. QED
    BY <1>0, <2>1
<1>3. ASSUME NEW r \in Requests, ValidateDiscount(r) PROVE OfferedInv'
  <2>1. /\ lock' = [lock EXCEPT ![Pending(r)] = r]
        /\ CanRedeem(Pending(r)) /\ state' = state
    BY <1>3 DEF ValidateDiscount, Locked, Redeemable
  <2>2. QED
    BY <1>0, <2>1
<1>4. ASSUME NEW r \in Requests, Begin(r) \/ CartStep(r) PROVE Frees
  BY <1>4
  DEF Begin, BeginApply, BeginRemove, BeginClear, BeginTouch, BeginCheckout,
      BeginEdit, AssignToUser, RemoveUserAssignment, CartStep, Reserve,
      RejectApply, RecalculateRead, RecalculateSave, RemoveSave, RemoveRelease,
      ClearRelease, ClearSave, TouchSave
<1>5. ASSUME NEW r \in Requests,
             \/ ValidateSave(r) \/ CheckoutRead(r) \/ RejectDiscount(r)
             \/ RecordUsage(r) \/ CheckoutClear(r) \/ CheckoutCommit(r)
             \/ DeadlockAbort(r) \/ Fail(r)
      PROVE  Frees
  BY <1>0, <1>5
  DEF ValidateSave, CheckoutRead, RejectDiscount, RecordUsage, CheckoutClear,
      CheckoutCommit, DeadlockAbort, Fail, RequestFails, ReleaseFails, Unlocked
<1>6. CASE Crash
  BY <1>0, <1>1, <1>6 DEF Crash
<1>7. CASE UNCHANGED vars
  BY <1>0, <1>1, <1>7 DEF vars
<1>8. QED
  BY <1>1, <1>2, <1>3, <1>4, <1>5, <1>6, <1>7
  DEF Next, Continue, CheckoutStep, Idle

\* A discount that an administrator has switched off or deleted is redeemed
\* by no order committed afterwards.
THEOREM RedemptionsAreOffered == Spec => RedeemedWhileOffered
<1> DEFINE Offered ==
      \A u \in Users, d \in Discounts :
          usageLogs'[u][d] > usageLogs[u][d] =>
              state[d] \notin {"inactive", "deleted"}
<1>1. Init => OfferedInv /\ PerUserInv
  BY ConstantsAssumption
  DEF Init, OfferedInv, PerUserInv, LockInv, CheckedInv, CountInv,
      InTransaction
<1>2. TypeOK /\ PerUserInv /\ OfferedInv /\ [Next]_vars =>
        PerUserInv' /\ OfferedInv'
  BY LockStep, PerUserStep, OfferedStep DEF PerUserInv
<1>3. TypeOK /\ PerUserInv /\ OfferedInv /\ [Next]_vars => [Offered]_vars
  <2> SUFFICES ASSUME TypeOK, PerUserInv, OfferedInv, [Next]_vars,
                      NEW u \in Users, NEW d \in Discounts,
                      usageLogs'[u][d] > usageLogs[u][d]
               PROVE  state[d] \notin {"inactive", "deleted"}
    OBVIOUS
  <2>1. PICK r \in Requests : CheckoutCommit(r) /\ d \in Listed(snapshot[r])
    BY LoggedByCommit
  <2>2. PICK i \in 1 .. Len(snapshot[r]) : d = snapshot[r][i]
    BY <2>1 DEF Listed
  <2>3. lock[d] = r
    BY <2>1, <2>2 DEF CheckoutCommit, PerUserInv, LockInv, InTransaction, TypeOK
  <2>4. QED
    BY <2>3 DEF OfferedInv, CanRedeem
<1>4. QED
  BY <1>1, <1>2, <1>3, TypeCorrect, PTL DEF Spec, RedeemedWhileOffered

-----------------------------------------------------------------------------
(* Sums over finite sets.  MapThenSumSet chooses a function on the subsets *)
(* that satisfies a recursive equation; on a finite set there is one.      *)

\* A non-empty family of subsets of a finite set has a least member.
LEMMA LeastSubset ==
    ASSUME NEW S, IsFiniteSet(S), NEW Family, Family \subseteq SUBSET S, Family # {}
    PROVE  \E s \in Family : \A t \in Family : ~(t \subseteq s /\ t # s)
<1>1. IsWellFoundedOn(StrictSubsetOrdering(S), SUBSET S)
  BY FS_StrictSubsetOrderingWellFounded, FS_FiniteSubsetsOfFinite
<1>2. PICK s \in Family : \A t \in Family : ~(<<t, s>> \in StrictSubsetOrdering(S))
  BY <1>1, WFMin
<1>3. QED
  BY <1>2 DEF StrictSubsetOrdering

Any(s) == CHOOSE u \in s : TRUE

\* f is the table of the sums of L[u][d] over the sets of users within S.
Sums(L, d, S, f) ==
    f = [s \in SUBSET S |->
           IF s = {} THEN 0 ELSE L[Any(s)][d] + f[s \ {Any(s)}]]

\* What Any chooses from a set is in it.
LEMMA AnyIsOne == ASSUME NEW s, s # {} PROVE Any(s) \in s
BY DEF Any

\* Two such tables agree where both are defined.
LEMMA SumsAgree ==
    ASSUME NEW L, NEW d, NEW S, IsFiniteSet(S), NEW T, NEW f, NEW g,
           Sums(L, d, S, f), Sums(L, d, T, g), NEW s \in SUBSET S, s \subseteq T
    PROVE  f[s] = g[s]
<1> DEFINE Family == {t \in SUBSET S : t \subseteq T /\ f[t] # g[t]}
<1>1. SUFFICES ASSUME Family # {} PROVE FALSE
  OBVIOUS
<1>2. PICK t \in Family : \A w \in Family : ~(w \subseteq t /\ w # t)
  <2>1. Family \subseteq SUBSET S
    OBVIOUS
  <2> HIDE DEF Family
  <2>2. QED
    BY <1>1, <2>1, LeastSubset
<1>3. f[t] = IF t = {} THEN 0 ELSE L[Any(t)][d] + f[t \ {Any(t)}]
  BY DEF Sums
<1>4. g[t] = IF t = {} THEN 0 ELSE L[Any(t)][d] + g[t \ {Any(t)}]
  BY DEF Sums
<1>5. CASE t = {}
  BY <1>3, <1>4, <1>5
<1>6. CASE t # {}
  <2>1. Any(t) \in t
    BY <1>6, AnyIsOne
  <2>2. f[t \ {Any(t)}] = g[t \ {Any(t)}]
    BY <1>2, <2>1
  <2>3. QED
    BY <1>3, <1>4, <1>6, <2>2
<1>7. QED
  BY <1>5, <1>6

\* There is such a table for every finite set.
LEMMA SumsExist ==
    ASSUME NEW L, NEW d, NEW S, IsFiniteSet(S)
    PROVE  \E f : Sums(L, d, S, f)
<1> DEFINE Family == {s \in SUBSET S : ~ \E f : Sums(L, d, s, f)}
<1>1. SUFFICES ASSUME Family # {} PROVE FALSE
  OBVIOUS
<1>2. PICK T \in Family : \A t \in Family : ~(t \subseteq T /\ t # T)
  <2>1. Family \subseteq SUBSET S
    OBVIOUS
  <2> HIDE DEF Family
  <2>2. QED
    BY <1>1, <2>1, LeastSubset
<1> DEFINE F(t) == CHOOSE f : Sums(L, d, t, f)
           h == [t \in SUBSET T |->
                   IF t = {} THEN 0
                   ELSE L[Any(t)][d] + F(t \ {Any(t)})[t \ {Any(t)}]]
<1>3. ASSUME NEW t \in SUBSET T, t # T
      PROVE  Sums(L, d, t, F(t))
  <2>1. \E f : Sums(L, d, t, f)
    BY <1>2, <1>3
  <2>2. QED
    BY <2>1
<1>4. ASSUME NEW w \in SUBSET T, w # T
      PROVE  h[w] = F(w)[w]
  <2>1. F(w)[w] = IF w = {} THEN 0 ELSE L[Any(w)][d] + F(w)[w \ {Any(w)}]
    <3>1. Sums(L, d, w, F(w))
      BY <1>3, <1>4
    <3> HIDE DEF F
    <3>2. QED
      BY <3>1 DEF Sums
  <2>2. CASE w = {}
    BY <2>1, <2>2
  <2>3. CASE w # {}
    <3> DEFINE v == w \ {Any(w)}
    <3>1. v \in SUBSET T /\ v \subseteq w /\ v # T /\ v # w
      BY <1>4, <2>3, AnyIsOne
    <3>2. Sums(L, d, v, F(v)) /\ Sums(L, d, w, F(w)) /\ IsFiniteSet(v)
      BY <1>2, <1>3, <1>4, <3>1, FS_Subset
    <3>3. F(v)[v] = F(w)[v]
      <4> HIDE DEF F
      <4>1. QED
        BY <3>1, <3>2, SumsAgree
    <3>4. h[w] = L[Any(w)][d] + F(v)[v]
      BY <2>3
    <3>5. QED
      BY <2>1, <2>3, <3>3, <3>4
  <2>4. QED
    BY <2>2, <2>3
<1>5. ASSUME NEW t \in SUBSET T, t # {}
      PROVE  h[t] = L[Any(t)][d] + h[t \ {Any(t)}]
  <2>1. t \ {Any(t)} \in SUBSET T /\ t \ {Any(t)} # T
    BY <1>5, AnyIsOne
  <2>2. QED
    BY <1>4, <1>5, <2>1
<1>6. Sums(L, d, T, h)
  <2>1. \A t \in SUBSET T : h[t] = IF t = {} THEN 0 ELSE L[Any(t)][d] + h[t \ {Any(t)}]
    <3>1. h[{}] = 0
      OBVIOUS
    <3> HIDE DEF h
    <3>2. QED
      BY <1>5, <3>1
  <2>2. h = [t \in SUBSET T |-> h[t]]
    OBVIOUS
  <2> HIDE DEF h
  <2>3. QED
    BY <2>1, <2>2 DEF Sums
<1>7. QED
  BY <1>2, <1>6

Counts == [Users -> [Discounts -> Nat]]

\* The sums of counts are counts.
LEMMA SumsAreCounts ==
    ASSUME NEW L \in Counts, NEW d \in Discounts, NEW f, Sums(L, d, Users, f),
           NEW s \in SUBSET Users
    PROVE  f[s] \in Nat
<1> DEFINE Family == {t \in SUBSET Users : f[t] \notin Nat}
<1>1. SUFFICES ASSUME Family # {} PROVE FALSE
  OBVIOUS
<1>2. PICK t \in Family : \A w \in Family : ~(w \subseteq t /\ w # t)
  <2>1. Family \subseteq SUBSET Users
    OBVIOUS
  <2> HIDE DEF Family
  <2>2. QED
    BY <1>1, <2>1, LeastSubset, ConstantsAssumption
<1>3. f[t] = IF t = {} THEN 0 ELSE L[Any(t)][d] + f[t \ {Any(t)}]
  BY DEF Sums
<1>4. CASE t # {}
  <2>1. Any(t) \in t
    BY <1>4, AnyIsOne
  <2>2. f[t \ {Any(t)}] \in Nat
    BY <1>2, <2>1
  <2>3. L[Any(t)][d] \in Nat
    BY <2>1 DEF Counts
  <2>4. QED
    BY <1>3, <1>4, <2>2, <2>3
<1>5. QED
  BY <1>3, <1>4

\* When one user's count moves, so does the sum, by as much.
LEMMA SumsMove ==
    ASSUME NEW L \in Counts, NEW M \in Counts, NEW d \in Discounts, NEW u \in Users,
           \A v \in Users : v # u => M[v][d] = L[v][d],
           NEW f, Sums(L, d, Users, f), NEW g, Sums(M, d, Users, g)
    PROVE  g[Users] = f[Users] + (M[u][d] - L[u][d])
<1> DEFINE Expected(s) == f[s] + (IF u \in s THEN M[u][d] - L[u][d] ELSE 0)
           Family == {t \in SUBSET Users : g[t] # Expected(t)}
<1>0. SUFFICES g[Users] = Expected(Users)
  OBVIOUS
<1>1. SUFFICES ASSUME Family # {} PROVE FALSE
  OBVIOUS
<1>2. PICK t \in Family : \A w \in Family : ~(w \subseteq t /\ w # t)
  <2>1. Family \subseteq SUBSET Users
    OBVIOUS
  <2> HIDE DEF Family
  <2>2. QED
    BY <1>1, <2>1, LeastSubset, ConstantsAssumption
<1>3. /\ f[t] = IF t = {} THEN 0 ELSE L[Any(t)][d] + f[t \ {Any(t)}]
      /\ g[t] = IF t = {} THEN 0 ELSE M[Any(t)][d] + g[t \ {Any(t)}]
  BY DEF Sums
<1>4. CASE t = {}
  BY <1>3, <1>4
<1>5. CASE t # {}
  <2> DEFINE x == Any(t)
             w == t \ {x}
  <2>1. x \in t /\ w \in SUBSET Users /\ w \subseteq t /\ w # t
    BY <1>5, AnyIsOne
  <2>2. g[w] = Expected(w)
    BY <1>2, <2>1
  <2>3. f[w] \in Nat /\ L[x][d] \in Nat /\ M[x][d] \in Nat
    BY <2>1, SumsAreCounts DEF Counts
  <2>3a. L[u][d] \in Nat /\ M[u][d] \in Nat
    BY DEF Counts
  <2>4. f[t] = L[x][d] + f[w] /\ g[t] = M[x][d] + g[w]
    BY <1>3, <1>5
  <2>5. u \in t <=> x = u \/ u \in w
    BY <2>1
  <2>5a. x = u => u \notin w
    OBVIOUS
  <2>5b. x # u => M[x][d] = L[x][d]
    BY <2>1
  <2> HIDE DEF x, w
  <2>6. g[t] = Expected(t)
    <3>1. CASE x = u
      BY <2>2, <2>3, <2>3a, <2>4, <2>5, <2>5a, <3>1
    <3>2. CASE x # u
      BY <2>2, <2>3, <2>3a, <2>4, <2>5, <2>5b, <3>2
    <3>3. QED
      BY <3>1, <3>2
  <2>7. QED
    BY <2>6
<1>6. QED
  BY <1>4, <1>5

LogTotal(L, d) == MapThenSumSet(LAMBDA u : L[u][d], Users)

\* LogsOf is the sum of such a table.
LEMMA LogTotalIsSum ==
    ASSUME NEW L, NEW d
    PROVE  \E f : Sums(L, d, Users, f) /\ LogTotal(L, d) = f[Users]
<1> DEFINE it == CHOOSE iter : Sums(L, d, Users, iter)
<1>1. Sums(L, d, Users, it)
  BY SumsExist, ConstantsAssumption
<1>2. LogTotal(L, d) = it[Users]
  BY DEF LogTotal, MapThenSumSet, MapThenFoldSet, Sums, Any
<1> HIDE DEF it
<1>3. QED
  BY <1>1, <1>2

\* The logs of a discount are a count, and move with one user's.
LEMMA LogTotalCounts ==
    ASSUME NEW L \in Counts, NEW d \in Discounts
    PROVE  LogTotal(L, d) \in Nat
BY LogTotalIsSum, SumsAreCounts

\* Changing one user's logs of a discount moves its total by that much.
LEMMA LogTotalMoves ==
    ASSUME NEW L \in Counts, NEW M \in Counts, NEW d \in Discounts, NEW u \in Users,
           \A v \in Users : v # u => M[v][d] = L[v][d]
    PROVE  LogTotal(M, d) = LogTotal(L, d) + (M[u][d] - L[u][d])
<1>1. PICK f : Sums(L, d, Users, f) /\ LogTotal(L, d) = f[Users]
  BY LogTotalIsSum
<1>2. PICK g : Sums(M, d, Users, g) /\ LogTotal(M, d) = g[Users]
  BY LogTotalIsSum
<1>3. QED
  BY <1>1, <1>2, SumsMove

\* Nothing logged, nothing counted.
LEMMA NoLogs ==
    ASSUME NEW L \in Counts, NEW d \in Discounts, \A u \in Users : L[u][d] = 0
    PROVE  LogTotal(L, d) = 0
<1>1. PICK f : Sums(L, d, Users, f) /\ LogTotal(L, d) = f[Users]
  BY LogTotalIsSum
<1> DEFINE Family == {t \in SUBSET Users : f[t] # 0}
<1>2. SUFFICES ASSUME Family # {} PROVE FALSE
  BY <1>1
<1>3. PICK t \in Family : \A w \in Family : ~(w \subseteq t /\ w # t)
  <2>1. Family \subseteq SUBSET Users
    OBVIOUS
  <2> HIDE DEF Family
  <2>2. QED
    BY <1>2, <2>1, LeastSubset, ConstantsAssumption
<1>4. f[t] = IF t = {} THEN 0 ELSE L[Any(t)][d] + f[t \ {Any(t)}]
  BY <1>1 DEF Sums
<1>5. CASE t # {}
  <2>1. Any(t) \in t
    BY <1>5, AnyIsOne
  <2>2. f[t \ {Any(t)}] = 0 /\ L[Any(t)][d] = 0
    BY <1>3, <2>1
  <2>3. QED
    BY <1>4, <1>5, <2>2
<1>6. QED
  BY <1>4, <1>5

-----------------------------------------------------------------------------
(* The accounts of one request and its user.                               *)

Bit(b) == IF b THEN 1 ELSE 0

Owes(r, d) ==
    \/ pc[r] = "remove_release" /\ target[r] = d
    \/ pc[r] = "checkout_commit" /\ d \in Listed(snapshot[r])

Prepays(r, d) ==
    pc[r] = "clear_release" /\ \E i \in 1 .. next[r] - 1 : snapshot[r][i] = d

Share(r, d) ==
    Bit(d \in Listed(appliedDiscounts[Caller[r]])) + usageLogs[Caller[r]][d]
      + Bit(Owes(r, d)) - Bit(Prepays(r, d))

\* A client waits for each answer.
OneEach ==
    \A q, r \in Requests :
        Active(q) /\ Active(r) /\ Caller[q] = Caller[r] => q = r

\* What a handler has read of its user's cart is what is stored: no other
\* handler saves it, until the checkout empties it.
Fresh(r) ==
    /\ pc[r] \in {"apply_reserve", "remove_save", "clear_release", "touch_save",
                  "recalc_save", "validate_save", "checkout_lock", "checkout_clear"}
         => snapshot[r] = appliedDiscounts[Caller[r]]
    /\ pc[r] = "checkout_commit" => appliedDiscounts[Caller[r]] = <<>>
    /\ pc[r] = "clear_release" => next[r] <= Len(snapshot[r]) + 1
    /\ pc[r] # "edit_save"

AccountInv ==
    /\ OneEach
    /\ \A r \in Requests : Fresh(r)
    /\ ReservationAccounting

\* Sets that differ in one element at most.
LEMMA BitMove ==
    ASSUME NEW A, IsFiniteSet(A), NEW B, NEW x, \A y : y # x => (y \in A <=> y \in B)
    PROVE  /\ IsFiniteSet(B) /\ Cardinality(B) \in Nat /\ Cardinality(A) \in Nat
           /\ Cardinality(B) = Cardinality(A) + Bit(x \in B) - Bit(x \in A)
<1>1. Cardinality(A) \in Nat
  BY FS_CardinalityType
<1>2. CASE x \in A <=> x \in B
  <2>1. A = B
    BY <1>2
  <2>2. QED
    BY <1>1, <2>1 DEF Bit
<1>3. CASE x \in A /\ x \notin B
  <2>1. B = A \ {x}
    BY <1>3
  <2>2. IsFiniteSet(B) /\ Cardinality(B) = Cardinality(A) - 1
    BY <1>3, <2>1, FS_RemoveElement
  <2>3. Cardinality(B) \in Nat
    BY <2>2, FS_CardinalityType
  <2>4. QED
    BY <1>1, <1>3, <2>2, <2>3 DEF Bit
<1>4. CASE x \notin A /\ x \in B
  <2>1. B = A \cup {x}
    BY <1>4
  <2>2. IsFiniteSet(B) /\ Cardinality(B) = Cardinality(A) + 1
    BY <1>4, <2>1, FS_AddElement
  <2>3. QED
    BY <1>1, <1>4, <2>2 DEF Bit
<1>5. QED
  BY <1>2, <1>3, <1>4

\* There are no more active requests than users.
LEMMA ActiveRequests ==
    ASSUME TypeOK, OneEach, NEW A, NEW H, H \subseteq Users,
           \A r \in A : r \in Requests /\ Active(r) /\ Caller[r] \in H
    PROVE  /\ IsFiniteSet(A) /\ Cardinality(A) \in Nat /\ Cardinality(H) \in Nat
           /\ IsFiniteSet(H) /\ Cardinality(A) <= Cardinality(H)
<1>1. IsFiniteSet(H)
  BY ConstantsAssumption, FS_Subset
<1>2. [r \in A |-> Caller[r]] \in Injection(A, H)
  <2>1. \A q, r \in A : Caller[q] = Caller[r] => q = r
    BY DEF OneEach
  <2>2. QED
    BY <2>1 DEF Injection, IsInjective
<1>3. IsFiniteSet(A) /\ Cardinality(A) <= Cardinality(H)
  BY <1>1, <1>2, FS_Injection
<1>4. QED
  BY <1>1, <1>3, FS_CardinalityType

OwedBy(d) == {r \in Requests : Owes(r, d)}
PrepaidBy(d) == {r \in Requests : Prepays(r, d)}

\* The counts of DiscountAccounting, in terms of sets and sums.
LEMMA OwedAreSets == ASSUME NEW d
                     PROVE  /\ Owed(d) = Cardinality(OwedBy(d))
                            /\ Prepaid(d) = Cardinality(PrepaidBy(d))
                            /\ LogsOf(d) = LogTotal(usageLogs, d)
BY DEF Owed, OwedBy, Owes, Prepaid, PrepaidBy, Prepays, LogsOf, LogTotal

\* What a discount's account is made of is finite, and counted by numbers.
LEMMA AccountsAreCounts ==
    ASSUME TypeOK, OneEach, NEW d \in Discounts
    PROVE  /\ IsFiniteSet(Holders(d)) /\ Cardinality(Holders(d)) \in Nat
           /\ IsFiniteSet(OwedBy(d)) /\ Cardinality(OwedBy(d)) \in Nat
           /\ IsFiniteSet(PrepaidBy(d)) /\ Cardinality(PrepaidBy(d)) \in Nat
           /\ Cardinality(OwedBy(d)) <= Cardinality(Users)
           /\ Cardinality(PrepaidBy(d)) <= Cardinality(Users)
           /\ Cardinality(Users) \in Nat
           /\ LogTotal(usageLogs, d) \in Nat
           /\ Counted(d) = Cardinality(Holders(d)) + LogTotal(usageLogs, d)
                             + Cardinality(OwedBy(d)) - Cardinality(PrepaidBy(d))
           /\ Counted(d) \in Int /\ currentUsageCount[d] \in Nat
<1>1. Holders(d) \subseteq Users
  BY DEF Holders
<1>2. IsFiniteSet(Holders(d)) /\ Cardinality(Holders(d)) \in Nat
  BY <1>1, ConstantsAssumption, FS_Subset, FS_CardinalityType
<1>3. \A r \in OwedBy(d) : r \in Requests /\ Active(r) /\ Caller[r] \in Users
  BY ConstantsAssumption DEF OwedBy, Owes, Active
<1>4. \A r \in PrepaidBy(d) : r \in Requests /\ Active(r) /\ Caller[r] \in Users
  BY ConstantsAssumption DEF PrepaidBy, Prepays, Active
<1>5. /\ IsFiniteSet(OwedBy(d)) /\ Cardinality(OwedBy(d)) \in Nat
      /\ Cardinality(OwedBy(d)) <= Cardinality(Users) /\ Cardinality(Users) \in Nat
  BY <1>3, ActiveRequests
<1>6. /\ IsFiniteSet(PrepaidBy(d)) /\ Cardinality(PrepaidBy(d)) \in Nat
      /\ Cardinality(PrepaidBy(d)) <= Cardinality(Users)
  BY <1>4, ActiveRequests
<1>7. LogTotal(usageLogs, d) \in Nat
  BY LogTotalCounts DEF TypeOK, Counts
<1>8. Counted(d) = Cardinality(Holders(d)) + LogTotal(usageLogs, d)
                     + Cardinality(OwedBy(d)) - Cardinality(PrepaidBy(d))
  BY OwedAreSets DEF Counted
<1>9. QED
  BY <1>2, <1>5, <1>6, <1>7, <1>8 DEF TypeOK

\* A step of request r leaves the other requests and the other users alone.
LocalTo(r) ==
    /\ \A q \in Requests : q # r =>
         /\ pc'[q] = pc[q] /\ target'[q] = target[q]
         /\ snapshot'[q] = snapshot[q] /\ next'[q] = next[q]
    /\ \A u \in Users : u # Caller[r] =>
         appliedDiscounts'[u] = appliedDiscounts[u] /\ usageLogs'[u] = usageLogs[u]

\* So it moves the accounts by what it moves its own share.
LEMMA LocalStep ==
    ASSUME TypeOK, TypeOK', OneEach, NEW r \in Requests, LocalTo(r), NEW d \in Discounts
    PROVE  Counted(d)' = Counted(d) + (Share(r, d)' - Share(r, d))
<1> DEFINE u == Caller[r]
<1>1. u \in Users
  BY ConstantsAssumption
<1>2. \A v : v # u => (v \in Holders(d) <=> v \in Holders(d)')
  BY DEF Holders, LocalTo
<1>3. \A q : q # r => (q \in OwedBy(d) <=> q \in OwedBy(d)')
  BY DEF OwedBy, Owes, LocalTo
<1>4. \A q : q # r => (q \in PrepaidBy(d) <=> q \in PrepaidBy(d)')
  BY DEF PrepaidBy, Prepays, LocalTo
<1>5. LogTotal(usageLogs', d) =
        LogTotal(usageLogs, d) + (usageLogs'[u][d] - usageLogs[u][d])
  <2>1. \A v \in Users : v # u => usageLogs'[v][d] = usageLogs[v][d]
    BY DEF LocalTo
  <2>2. usageLogs \in Counts /\ usageLogs' \in Counts
    BY DEF TypeOK, Counts
  <2>3. QED
    BY <1>1, <2>1, <2>2, LogTotalMoves
<1>6. /\ usageLogs[u][d] \in Nat /\ usageLogs'[u][d] \in Nat
  <2>1. /\ usageLogs \in [Users -> [Discounts -> Nat]]
        /\ usageLogs' \in [Users -> [Discounts -> Nat]]
    BY DEF TypeOK
  <2>2. QED
    BY <1>1, <2>1
<1>7. /\ Cardinality(Holders(d)') \in Nat
      /\ Cardinality(Holders(d)') =
           Cardinality(Holders(d)) + Bit(u \in Holders(d)') - Bit(u \in Holders(d))
  BY <1>2, AccountsAreCounts, BitMove
<1>8. /\ Cardinality(OwedBy(d)') \in Nat
      /\ Cardinality(OwedBy(d)') =
           Cardinality(OwedBy(d)) + Bit(r \in OwedBy(d)') - Bit(r \in OwedBy(d))
  BY <1>3, AccountsAreCounts, BitMove
<1>9. /\ Cardinality(PrepaidBy(d)') \in Nat
      /\ Cardinality(PrepaidBy(d)') =
           Cardinality(PrepaidBy(d)) + Bit(r \in PrepaidBy(d)') - Bit(r \in PrepaidBy(d))
  BY <1>4, AccountsAreCounts, BitMove
<1>10. Counted(d)' = Cardinality(Holders(d)') + LogTotal(usageLogs', d)
                      + Cardinality(OwedBy(d)') - Cardinality(PrepaidBy(d)')
  <2>1. Owed(d)' = Cardinality(OwedBy(d)')
    BY DEF Owed, OwedBy, Owes
  <2>2. Prepaid(d)' = Cardinality(PrepaidBy(d)')
    BY DEF Prepaid, PrepaidBy, Prepays
  <2>3. LogsOf(d)' = LogTotal(usageLogs', d)
    BY DEF LogsOf, LogTotal, MapThenSumSet, MapThenFoldSet
  <2>4. QED
    BY <2>1, <2>2, <2>3 DEF Counted
<1>11. /\ Share(r, d) = Bit(u \in Holders(d)) + usageLogs[u][d]
                          + Bit(r \in OwedBy(d)) - Bit(r \in PrepaidBy(d))
       /\ Share(r, d)' = Bit(u \in Holders(d)') + usageLogs'[u][d]
                          + Bit(r \in OwedBy(d)') - Bit(r \in PrepaidBy(d)')
  <2>1. /\ u \in Holders(d) <=> d \in Listed(appliedDiscounts[u])
        /\ u \in Holders(d)' <=> d \in Listed(appliedDiscounts'[u])
        /\ r \in OwedBy(d) <=> Owes(r, d)
        /\ r \in OwedBy(d)' <=> Owes(r, d)'
        /\ r \in PrepaidBy(d) <=> Prepays(r, d)
        /\ r \in PrepaidBy(d)' <=> Prepays(r, d)'
    BY <1>1 DEF Holders, OwedBy, PrepaidBy
  <2>2. QED
    BY <2>1 DEF Share, Bit
<1>12. /\ Bit(u \in Holders(d)) \in Int /\ Bit(u \in Holders(d)') \in Int
       /\ Bit(r \in OwedBy(d)) \in Int /\ Bit(r \in OwedBy(d)') \in Int
       /\ Bit(r \in PrepaidBy(d)) \in Int /\ Bit(r \in PrepaidBy(d)') \in Int
  BY DEF Bit
<1>13. /\ Cardinality(Holders(d)) \in Nat /\ LogTotal(usageLogs, d) \in Nat
       /\ Cardinality(OwedBy(d)) \in Nat /\ Cardinality(PrepaidBy(d)) \in Nat
       /\ Counted(d) = Cardinality(Holders(d)) + LogTotal(usageLogs, d)
                         + Cardinality(OwedBy(d)) - Cardinality(PrepaidBy(d))
  BY AccountsAreCounts
<1> DEFINE h == Cardinality(Holders(d))
           h0 == Bit(u \in Holders(d))
           h1 == Bit(u \in Holders(d)')
           l == LogTotal(usageLogs, d)
           l0 == usageLogs[u][d]
           l1 == usageLogs'[u][d]
           o == Cardinality(OwedBy(d))
           o0 == Bit(r \in OwedBy(d))
           o1 == Bit(r \in OwedBy(d)')
           p == Cardinality(PrepaidBy(d))
           p0 == Bit(r \in PrepaidBy(d))
           p1 == Bit(r \in PrepaidBy(d)')
<1>14. Counted(d)' = (h + h1 - h0) + (l + (l1 - l0)) + (o + o1 - o0) - (p + p1 - p0)
  BY <1>5, <1>7, <1>8, <1>9, <1>10, Zenon
<1>15. /\ Share(r, d) = h0 + l0 + o0 - p0
       /\ Share(r, d)' = h1 + l1 + o1 - p1
       /\ Counted(d) = h + l + o - p
  BY <1>11, <1>13
<1>16. /\ h \in Int /\ h0 \in Int /\ h1 \in Int /\ l \in Int /\ l0 \in Int /\ l1 \in Int
       /\ o \in Int /\ o0 \in Int /\ o1 \in Int /\ p \in Int /\ p0 \in Int /\ p1 \in Int
  BY <1>6, <1>12, <1>13
<1> HIDE DEF h, h0, h1, l, l0, l1, o, o0, o1, p, p0, p1
<1>17. QED
  BY <1>14, <1>15, <1>16

\* The other handlers' copies stay fresh.
LEMMA OthersFresh ==
    ASSUME OneEach, \A q \in Requests : Fresh(q), NEW r \in Requests, LocalTo(r),
           Active(r) \/ appliedDiscounts' = appliedDiscounts, Fresh(r)'
    PROVE  \A q \in Requests : Fresh(q)'
<1> SUFFICES ASSUME NEW q \in Requests, q # r
             PROVE  Fresh(q)'
  OBVIOUS
<1>1. /\ pc'[q] = pc[q] /\ snapshot'[q] = snapshot[q] /\ next'[q] = next[q]
      /\ Fresh(q) /\ Caller[q] \in Users
  BY ConstantsAssumption DEF LocalTo
<1>2. Active(q) => appliedDiscounts'[Caller[q]] = appliedDiscounts[Caller[q]]
  BY <1>1 DEF LocalTo, OneEach
<1>3. pc[q] \notin {"idle", "done"} <=> Active(q)
  BY DEF Active
<1>4. QED
  BY <1>1, <1>2, <1>3 DEF Fresh

\* A client that waits still waits.
LEMMA StillOne ==
    ASSUME OneEach, NEW r \in Requests, LocalTo(r), Active(r)' => Active(r)
    PROVE  OneEach'
<1>1. \A q \in Requests : Active(q)' => Active(q)
  BY DEF LocalTo, Active
<1>2. QED
  BY <1>1 DEF OneEach

\* A user's request that arrives is the only one of the user.
LEMMA ArrivesAlone ==
    ASSUME TypeOK, OneEach, InFlightPerUser <= 1, NEW r \in Requests, LocalTo(r),
           NEW endpoint \in UserEndpoints, Arrives(r, endpoint)
    PROVE  OneEach'
<1> DEFINE A == {q \in Requests : Active(q) /\ Caller[q] = Caller[r]}
<1>1. Cardinality(A) \in Nat /\ IsFiniteSet(A)
  <2>1. \A q \in A : q \in Requests /\ Active(q) /\ Caller[q] \in Users
    BY ConstantsAssumption
  <2> HIDE DEF A
  <2>2. QED
    BY <2>1, ActiveRequests
<1>2. Cardinality(A) < InFlightPerUser
  BY DEF Arrives
<1>3. A = {}
  <2>1. Cardinality(A) = 0
    BY <1>1, <1>2, ConstantsAssumption
  <2> HIDE DEF A
  <2>2. QED
    BY <1>1, <2>1, FS_EmptySet
<1>4. \A q \in Requests : q # r => (Active(q)' <=> Active(q))
  BY DEF LocalTo, Active
<1>5. QED
  BY <1>3, <1>4 DEF OneEach

\* The bound on the drift grows with every fault.
LEMMA Slack ==
    ASSUME NEW f \in Nat, NEW n \in Nat, NEW k \in {0, 1}
    PROVE  f * n \in Nat /\ (f + k) * n = f * n + k * n /\ k * n \in Nat
OBVIOUS

\* What request r adds to the count, it adds to its share, but for a fault;
\* and what is released at zero was missing from the count before.
LEMMA AccountStep ==
    ASSUME TypeOK, TypeOK', OneEach, OneEach', ReservationAccounting,
           NEW r \in Requests, LocalTo(r), NEW k \in {0, 1}, faults' = faults + k,
           \A d \in Discounts :
             \/ \E e \in -k .. k : currentUsageCount'[d] =
                  currentUsageCount[d] + (Share(r, d)' - Share(r, d)) + e
             \/ /\ Share(r, d)' - Share(r, d) = -1 /\ Counted(d) >= 1
                /\ currentUsageCount'[d] = Released(d)[d]
    PROVE  ReservationAccounting'
<1> SUFFICES ASSUME NEW d \in Discounts
             PROVE  (currentUsageCount[d] - Counted(d)
                       \in -(faults * Cardinality(Users)) .. faults * Cardinality(Users))'
  BY DEF ReservationAccounting
<1> DEFINE n == Cardinality(Users)
           bound == faults * n
           c == currentUsageCount[d]
           c1 == currentUsageCount'[d]
           t == Counted(d)
           t1 == Counted(d)'
           m == Share(r, d)' - Share(r, d)
<1>1. n \in Nat /\ n >= 1
  <2>1. Caller[r] \in Users /\ IsFiniteSet(Users)
    BY ConstantsAssumption
  <2>2. QED
    BY <2>1, FS_CardinalityType, FS_EmptySet
<1>2. faults \in Nat
  BY DEF TypeOK
<1>3. /\ bound \in Nat /\ k * n \in Nat /\ k * n >= k
      /\ (faults' * Cardinality(Users)) = bound + k * n
  <2> HIDE DEF n
  <2>1. (faults + k) * n = bound + k * n /\ bound \in Nat /\ k * n \in Nat
    BY <1>1, <1>2, Slack
  <2>2. k * n >= k
    <3>1. CASE k = 0
      BY <1>1, <3>1
    <3>2. CASE k = 1
      BY <1>1, <3>2
    <3>3. QED
      BY <3>1, <3>2
  <2>3. QED
    BY <2>1, <2>2 DEF n
<1>4. c \in Nat /\ c1 \in Nat /\ t \in Int /\ t1 \in Int
  <2>1. c \in Nat /\ t \in Int
    BY AccountsAreCounts
  <2>2. c1 \in Nat
    BY DEF TypeOK
  <2>3. m \in Int
    <3>1. /\ usageLogs[Caller[r]][d] \in Nat /\ usageLogs'[Caller[r]][d] \in Nat
      BY ConstantsAssumption DEF TypeOK
    <3>2. QED
      BY <3>1 DEF Share, Bit
  <2>4. t1 = t + m
    BY LocalStep
  <2> HIDE DEF t, t1, m
  <2>5. QED
    BY <2>1, <2>2, <2>3, <2>4
<1>5. t1 = t + m
  BY LocalStep
<1>6. m \in Int
  <2>1. /\ usageLogs[Caller[r]][d] \in Nat /\ usageLogs'[Caller[r]][d] \in Nat
    BY ConstantsAssumption DEF TypeOK
  <2>2. QED
    BY <2>1 DEF Share, Bit
<1>7. c - t >= -bound /\ c - t <= bound
  <2>1. c - t \in -bound .. bound
    BY DEF ReservationAccounting
  <2> HIDE DEF c, t, bound
  <2>2. QED
    BY <1>3, <1>4, <2>1
<1>8. \/ \E e \in -k .. k : c1 = c + m + e
      \/ m = -1 /\ t >= 1 /\ c1 = IF c > 0 THEN c - 1 ELSE 0
  <2>1. Released(d)[d] = IF c > 0 THEN c - 1 ELSE 0
    <3>1. currentUsageCount \in [Discounts -> Nat]
      BY DEF TypeOK
    <3>2. QED
      BY <3>1 DEF Released
  <2>2. CASE \E e \in -k .. k :
               currentUsageCount'[d] = currentUsageCount[d] + (Share(r, d)' - Share(r, d)) + e
    BY <2>2
  <2>3. CASE /\ Share(r, d)' - Share(r, d) = -1 /\ Counted(d) >= 1
             /\ currentUsageCount'[d] = Released(d)[d]
    BY <2>1, <2>3
  <2>4. QED
    BY <2>2, <2>3
<1> HIDE DEF c, c1, t, t1, m, bound, n
<1>9. c1 - t1 >= -(bound + k * n) /\ c1 - t1 <= bound + k * n
  <2>1. CASE \E e \in -k .. k : c1 = c + m + e
    BY <1>1, <1>3, <1>4, <1>5, <1>6, <1>7, <2>1
  <2>2. CASE m = -1 /\ t >= 1 /\ c1 = IF c > 0 THEN c - 1 ELSE 0
    BY <1>1, <1>3, <1>4, <1>5, <1>6, <1>7, <2>2
  <2>3. QED
    BY <1>8, <2>1, <2>2
<1>10. c1 - t1 \in -(bound + k * n) .. bound + k * n
  BY <1>3, <1>4, <1>9
<1>11. QED
  BY <1>3, <1>10 DEF c1, t1

\* A step that moves neither counts, carts nor logs keeps the account, unless
\* it owes or prepays a use.
LEMMA QuietStep ==
    ASSUME TypeOK, TypeOK', AccountInv, OneEach', NEW r \in Requests, LocalTo(r),
           UNCHANGED <<currentUsageCount, appliedDiscounts, usageLogs, faults>>,
           Fresh(r)',
           pc[r] \notin {"remove_release", "checkout_commit", "clear_release"},
           pc'[r] \notin {"remove_release", "checkout_commit"},
           pc'[r] = "clear_release" => next'[r] = 1
    PROVE  AccountInv'
<1>1. \A q \in Requests : Fresh(q)'
  BY OthersFresh DEF AccountInv
<1>2. ASSUME NEW d \in Discounts
      PROVE  Share(r, d)' = Share(r, d) /\ Share(r, d) \in Int
  <2>1. ~Owes(r, d) /\ ~Owes(r, d)' /\ ~Prepays(r, d) /\ ~Prepays(r, d)'
    BY DEF Owes, Prepays
  <2>2. usageLogs[Caller[r]][d] \in Nat
    BY ConstantsAssumption DEF TypeOK
  <2>3. QED
    BY <2>1, <2>2 DEF Share, Bit
<1>3. /\ faults' = faults + 0
      /\ \A d \in Discounts : \E e \in -0 .. 0 : currentUsageCount'[d] =
           currentUsageCount[d] + (Share(r, d)' - Share(r, d)) + e
  <2>1. \A d \in Discounts : currentUsageCount'[d] =
           currentUsageCount[d] + (Share(r, d)' - Share(r, d)) + 0
    BY <1>2 DEF TypeOK
  <2>2. 0 \in -0 .. 0
    OBVIOUS
  <2>3. QED
    BY <2>1, <2>2 DEF TypeOK
<1>4. ReservationAccounting'
  BY <1>3, AccountStep DEF AccountInv
<1>5. QED
  BY <1>1, <1>4 DEF AccountInv

\* Requests that arrive keep the account.
LEMMA BeginAccounts ==
    ASSUME TypeOK, TypeOK', AccountInv, InFlightPerUser <= 1, NEW r \in Requests,
           "edit" \notin Calls[r], Begin(r)
    PROVE  AccountInv'
<1> USE DEF dbVars, localVars, Goto
<1>1. CASE BeginApply(r) \/ BeginRemove(r) \/ BeginClear(r) \/ BeginTouch(r)
             \/ BeginCheckout(r)
  <2>1. PICK endpoint \in UserEndpoints : Arrives(r, endpoint)
    BY <1>1 DEF BeginApply, BeginRemove, BeginClear, BeginTouch, BeginCheckout,
       UserEndpoints
  <2>2. PICK step \in {"apply_reserve", "remove_save", "clear_release", "touch_save",
                       "validate_save"} : pc' = [pc EXCEPT ![r] = step]
    BY <1>1 DEF BeginApply, BeginRemove, BeginClear, BeginTouch, BeginCheckout
  <2>3. /\ UNCHANGED <<currentUsageCount, appliedDiscounts, usageLogs, faults, target>>
        /\ ReadCart(r)
    BY <1>1 DEF BeginApply, BeginRemove, BeginClear, BeginTouch, BeginCheckout
  <2>4. LocalTo(r)
    BY <2>2, <2>3 DEF LocalTo, ReadCart, TypeOK
  <2>5. /\ pc'[r] = step /\ pc[r] = "idle" /\ next'[r] = 1
        /\ snapshot'[r] = appliedDiscounts[Caller[r]]
    BY <2>1, <2>2, <2>3 DEF TypeOK, ReadCart, Arrives
  <2>6. Fresh(r)'
    <3>1. Len(snapshot'[r]) \in Nat
      BY DEF TypeOK
    <3>2. QED
      BY <2>3, <2>5, <3>1 DEF Fresh
  <2>7. OneEach'
    BY <2>1, <2>4, ArrivesAlone DEF AccountInv
  <2>8. QED
    BY <2>3, <2>4, <2>5, <2>6, <2>7, QuietStep
<1>2. CASE AssignToUser(r) \/ RemoveUserAssignment(r)
  <2>1. /\ pc[r] = "idle" /\ pc' = [pc EXCEPT ![r] = "done"]
        /\ UNCHANGED <<currentUsageCount, appliedDiscounts, usageLogs, faults, target,
                       snapshot, next>>
    BY <1>2 DEF AssignToUser, RemoveUserAssignment, Arrives
  <2>2. LocalTo(r) /\ pc'[r] = "done"
    BY <2>1 DEF LocalTo, TypeOK
  <2>3. OneEach' /\ Fresh(r)'
    BY <2>2, StillOne DEF AccountInv, Active, Fresh
  <2>4. QED
    BY <2>1, <2>2, <2>3, QuietStep
<1>3. ~BeginEdit(r)
  BY DEF BeginEdit, Arrives
<1>4. QED
  BY <1>1, <1>2, <1>3 DEF Begin

\* The steps that move neither a reservation nor the count.
LEMMA QuietSteps ==
    ASSUME TypeOK, TypeOK', AccountInv, NEW r \in Requests,
           \/ RejectApply(r) \/ RecalculateRead(r) \/ RecalculateSave(r) \/ TouchSave(r)
           \/ ValidateSave(r) \/ CheckoutRead(r) \/ ValidateDiscount(r)
           \/ RejectDiscount(r) \/ RecordUsage(r) \/ DeadlockAbort(r)
    PROVE  AccountInv'
<1> USE DEF dbVars, localVars, Goto
<1>0. /\ Caller[r] \in Users /\ appliedDiscounts \in [Users -> Seq(Discounts)]
      /\ Fresh(r) /\ pc \in [Requests -> Steps]
  BY ConstantsAssumption DEF TypeOK, AccountInv
<1>1. CASE RecalculateSave(r) \/ TouchSave(r) \/ ValidateSave(r)
  <2>1. PICK step \in {"done", "recalc_read", "checkout_read"} :
          pc' = [pc EXCEPT ![r] = step]
    BY <1>1 DEF RecalculateSave, TouchSave, ValidateSave
  <2>2. /\ pc[r] \in {"recalc_save", "touch_save", "validate_save"}
        /\ SaveCart(r, snapshot[r])
        /\ UNCHANGED <<currentUsageCount, usageLogs, faults, target, snapshot, next>>
    BY <1>1 DEF RecalculateSave, TouchSave, ValidateSave
  <2>3. appliedDiscounts' = appliedDiscounts
    BY <1>0, <2>2 DEF SaveCart, Fresh
  <2>4. LocalTo(r) /\ pc'[r] = step
    BY <1>0, <2>1, <2>2, <2>3 DEF LocalTo
  <2>5. OneEach' /\ Fresh(r)'
    BY <2>2, <2>4, StillOne DEF AccountInv, Active, Fresh
  <2>6. QED
    BY <2>2, <2>3, <2>4, <2>5, QuietStep
<1>2. CASE RecalculateRead(r) \/ CheckoutRead(r)
  <2>1. PICK step \in {"recalc_save", "checkout_lock"} : pc' = [pc EXCEPT ![r] = step]
    BY <1>2 DEF RecalculateRead, CheckoutRead
  <2>2. /\ pc[r] \in {"recalc_read", "checkout_read"} /\ ReadCart(r)
        /\ UNCHANGED <<currentUsageCount, appliedDiscounts, usageLogs, faults, target>>
    BY <1>2 DEF RecalculateRead, CheckoutRead
  <2>3. /\ LocalTo(r) /\ pc'[r] = step
        /\ snapshot'[r] = appliedDiscounts[Caller[r]]
    BY <1>0, <2>1, <2>2 DEF LocalTo, ReadCart, TypeOK
  <2>4. OneEach' /\ Fresh(r)'
    BY <2>2, <2>3, StillOne DEF AccountInv, Active, Fresh
  <2>5. QED
    BY <2>2, <2>3, <2>4, QuietStep
<1>3. CASE \/ RejectApply(r) \/ ValidateDiscount(r) \/ RejectDiscount(r) \/ RecordUsage(r)
           \/ DeadlockAbort(r)
  <2>1. /\ pc[r] \in {"apply_reserve", "checkout_lock"}
        /\ UNCHANGED <<currentUsageCount, appliedDiscounts, usageLogs, faults, target,
                       snapshot>>
    <3>1. DeadlockAbort(r) => pc[r] = "checkout_lock"
      BY DEF DeadlockAbort, InDeadlock, Waiting
    <3>2. QED
      BY <1>3, <3>1 DEF RejectApply, ValidateDiscount, RejectDiscount, RecordUsage,
         DeadlockAbort
  <2>2. \E step \in {"done", "checkout_clear", "checkout_lock"} :
          pc' = [pc EXCEPT ![r] = step] /\ (step \in {"checkout_clear", "checkout_lock"}
                                            => pc[r] = "checkout_lock")
    BY <1>0, <1>3 DEF RejectApply, ValidateDiscount, RejectDiscount, RecordUsage,
       DeadlockAbort
  <2>3. next' = next \/ next' = [next EXCEPT ![r] = @ + 1]
    BY <1>3 DEF RejectApply, ValidateDiscount, RejectDiscount, RecordUsage, DeadlockAbort
  <2>4. PICK step \in {"done", "checkout_clear", "checkout_lock"} :
          pc' = [pc EXCEPT ![r] = step] /\ (step \in {"checkout_clear", "checkout_lock"}
                                            => pc[r] = "checkout_lock")
    BY <2>2
  <2>5. LocalTo(r) /\ pc'[r] = step
    BY <1>0, <2>1, <2>3, <2>4 DEF LocalTo, TypeOK
  <2>6. OneEach' /\ Fresh(r)'
    BY <1>0, <2>1, <2>4, <2>5, StillOne DEF AccountInv, Active, Fresh
  <2>7. QED
    BY <2>1, <2>5, <2>6, QuietStep
<1>4. QED
  BY <1>1, <1>2, <1>3

\* A step that moves the count by what the acting request's user accounts
\* for, give or take one for a new fault, keeps the account.
LEMMA MoveStep ==
    ASSUME TypeOK, TypeOK', AccountInv, NEW r \in Requests, LocalTo(r), Active(r),
           Fresh(r)', NEW k \in {0, 1}, faults' = faults + k,
           \A d \in Discounts :
             \/ \E e \in -k .. k : currentUsageCount'[d] =
                  currentUsageCount[d] + (Share(r, d)' - Share(r, d)) + e
             \/ /\ Share(r, d)' - Share(r, d) = -1 /\ Counted(d) >= 1
                /\ currentUsageCount'[d] = Released(d)[d]
    PROVE  AccountInv'
<1>1. OneEach /\ OneEach'
  BY StillOne DEF AccountInv
<1>2. \A q \in Requests : Fresh(q)'
  BY OthersFresh DEF AccountInv
<1>3. ReservationAccounting'
  BY <1>1, AccountStep DEF AccountInv
<1>4. QED
  BY <1>1, <1>2, <1>3 DEF AccountInv

\* What is left to release was counted: every user that a clearing request
\* has released a discount for still holds it, and that user's own request
\* is the only one.
LEMMA SomeCounted ==
    ASSUME TypeOK, AccountInv, NEW d \in Discounts, NEW r \in Requests,
           \/ Owes(r, d)
           \/ pc[r] = "clear_release" /\ d \in Listed(snapshot[r]) /\ ~Prepays(r, d)
    PROVE  Counted(d) >= 1
<1>1. ASSUME NEW q \in Requests, pc[q] = "clear_release",
             Prepays(q, d) \/ d \in Listed(snapshot[q])
      PROVE  Caller[q] \in Holders(d) /\ Active(q)
  <2>1. /\ snapshot[q] = appliedDiscounts[Caller[q]] /\ next[q] <= Len(snapshot[q]) + 1
        /\ Caller[q] \in Users /\ Len(snapshot[q]) \in Nat /\ next[q] \in Nat
    BY <1>1, ConstantsAssumption DEF AccountInv, Fresh, TypeOK
  <2>2. d \in Listed(snapshot[q])
    BY <1>1, <2>1 DEF Prepays, Listed
  <2>3. QED
    BY <1>1, <2>1, <2>2 DEF Holders, Active
<1>2. Holders(d) \subseteq Users /\ OneEach
  BY DEF Holders, AccountInv
<1>3. /\ IsFiniteSet(PrepaidBy(d)) /\ IsFiniteSet(OwedBy(d))
      /\ Cardinality(PrepaidBy(d)) \in Nat /\ Cardinality(OwedBy(d)) \in Nat
      /\ Cardinality(Holders(d)) \in Nat /\ LogTotal(usageLogs, d) \in Nat
      /\ Counted(d) = Cardinality(Holders(d)) + LogTotal(usageLogs, d)
                        + Cardinality(OwedBy(d)) - Cardinality(PrepaidBy(d))
  BY <1>2, AccountsAreCounts
<1>4. CASE Owes(r, d)
  <2>1. Cardinality(PrepaidBy(d)) <= Cardinality(Holders(d))
    <3>1. \A q \in PrepaidBy(d) : q \in Requests /\ Active(q) /\ Caller[q] \in Holders(d)
      BY <1>1 DEF PrepaidBy, Prepays
    <3>2. QED
      BY <1>2, <3>1, ActiveRequests
  <2>2. Cardinality(OwedBy(d)) # 0
    BY <1>3, <1>4, FS_EmptySet DEF OwedBy
  <2>3. QED
    BY <1>3, <2>1, <2>2
<1>5. CASE pc[r] = "clear_release" /\ d \in Listed(snapshot[r]) /\ ~Prepays(r, d)
  <2> DEFINE A == PrepaidBy(d) \cup {r}
  <2>1. Cardinality(A) = Cardinality(PrepaidBy(d)) + 1
    BY <1>3, <1>5, FS_AddElement DEF PrepaidBy
  <2>2. \A q \in A : q \in Requests /\ Active(q) /\ Caller[q] \in Holders(d)
    BY <1>1, <1>5 DEF PrepaidBy, Prepays
  <2> HIDE DEF A
  <2>3. Cardinality(A) <= Cardinality(Holders(d))
    BY <1>2, <2>2, ActiveRequests
  <2>4. QED
    BY <1>3, <2>1, <2>3
<1>6. QED
  BY <1>4, <1>5

\* What a list holds once a discount is appended.
LEMMA ListedAppend ==
    ASSUME NEW s \in Seq(Discounts), NEW d \in Discounts
    PROVE  Listed(Append(s, d)) = Listed(s) \cup {d}
<1>1. /\ Len(s) \in Nat /\ Len(Append(s, d)) = Len(s) + 1
      /\ \A i \in 1 .. Len(s) + 1 : Append(s, d)[i] = IF i = Len(s) + 1 THEN d ELSE s[i]
  OBVIOUS
<1>2. QED
  BY <1>1 DEF Listed

\* The empty list holds nothing.
LEMMA ListedEmpty == Listed(<<>>) = {}
BY DEF Listed

\* The user's logs are a count, before and after.
LEMMA OwnLogs ==
    ASSUME TypeOK, TypeOK', NEW r \in Requests, NEW d \in Discounts
    PROVE  /\ usageLogs[Caller[r]][d] \in Nat /\ usageLogs'[Caller[r]][d] \in Nat
           /\ currentUsageCount[d] \in Nat /\ currentUsageCount'[d] \in Nat
BY ConstantsAssumption DEF TypeOK

\* Applying a discount counts the use that the cart then holds.
LEMMA ReserveAccounts ==
    ASSUME TypeOK, TypeOK', CartInv, AccountInv, NEW r \in Requests, Reserve(r)
    PROVE  AccountInv'
<1>1. /\ pc[r] = "apply_reserve" /\ pc' = [pc EXCEPT ![r] = "recalc_read"]
      /\ currentUsageCount' = [currentUsageCount EXCEPT ![target[r]] = @ + 1]
      /\ SaveCart(r, Append(snapshot[r], target[r]))
      /\ UNCHANGED <<usageLogs, faults, target, snapshot, next>>
  BY DEF Reserve, Goto, localVars
<1>2. /\ Caller[r] \in Users /\ target[r] \in Discounts /\ snapshot[r] \in Seq(Discounts)
      /\ snapshot[r] = appliedDiscounts[Caller[r]] /\ target[r] \notin Listed(snapshot[r])
  BY <1>1, ConstantsAssumption DEF TypeOK, CartInv, AccountInv, Fresh
<1>3. /\ pc'[r] = "recalc_read"
      /\ appliedDiscounts'[Caller[r]] = Append(snapshot[r], target[r])
  BY <1>1, <1>2 DEF TypeOK, SaveCart
<1>4. LocalTo(r) /\ Active(r) /\ Fresh(r)'
  BY <1>1, <1>2, <1>3 DEF LocalTo, TypeOK, SaveCart, Active, Fresh
<1>5. ASSUME NEW d \in Discounts
      PROVE  currentUsageCount'[d] =
               currentUsageCount[d] + (Share(r, d)' - Share(r, d)) + 0
  <2>1. /\ d \in Listed(appliedDiscounts'[Caller[r]])
             <=> d \in Listed(appliedDiscounts[Caller[r]]) \/ d = target[r]
        /\ d \in Listed(appliedDiscounts[Caller[r]]) => d # target[r]
    BY <1>2, <1>3, ListedAppend
  <2>2. ~Owes(r, d) /\ ~Owes(r, d)' /\ ~Prepays(r, d) /\ ~Prepays(r, d)'
    BY <1>1, <1>3 DEF Owes, Prepays
  <2>3. currentUsageCount'[d] = currentUsageCount[d] + Bit(d = target[r])
    <3>1. currentUsageCount'[d] = IF d = target[r] THEN currentUsageCount[d] + 1
                                                   ELSE currentUsageCount[d]
      BY <1>1 DEF TypeOK
    <3>2. QED
      BY <3>1, OwnLogs DEF Bit
  <2>4. Share(r, d)' - Share(r, d) = Bit(d = target[r])
    BY <1>1, <2>1, <2>2, OwnLogs DEF Share, Bit
  <2>5. QED
    BY <2>3, <2>4, OwnLogs DEF Bit
<1>6. faults' = faults + 0 /\ 0 \in -0 .. 0
  BY <1>1 DEF TypeOK
<1>7. QED
  BY <1>4, <1>5, <1>6, MoveStep

\* Saving the cart without a discount owes its release.
LEMMA RemoveSaveAccounts ==
    ASSUME TypeOK, TypeOK', CartInv, AccountInv, NEW r \in Requests, RemoveSave(r)
    PROVE  AccountInv'
<1> DEFINE wasApplied == target[r] \in Listed(snapshot[r])
           step == IF wasApplied THEN "remove_release" ELSE "recalc_read"
<1>1. /\ pc[r] = "remove_save" /\ pc' = [pc EXCEPT ![r] = step]
      /\ SaveCart(r, Without(snapshot[r], target[r]))
      /\ UNCHANGED <<currentUsageCount, usageLogs, faults, target, snapshot, next>>
  BY DEF RemoveSave, Goto, localVars, dbVars
<1>2. /\ Caller[r] \in Users /\ target[r] \in Discounts /\ snapshot[r] \in DiscountLists
      /\ snapshot[r] = appliedDiscounts[Caller[r]]
  BY <1>1, ConstantsAssumption DEF TypeOK, CartInv, AccountInv, Fresh
<1>3. /\ pc'[r] = step
      /\ appliedDiscounts'[Caller[r]] = Without(snapshot[r], target[r])
  BY <1>1, <1>2 DEF TypeOK, SaveCart
<1>4. LocalTo(r) /\ Active(r) /\ Fresh(r)'
  BY <1>1, <1>2, <1>3 DEF LocalTo, TypeOK, SaveCart, Active, Fresh
<1>5. ASSUME NEW d \in Discounts
      PROVE  currentUsageCount'[d] =
               currentUsageCount[d] + (Share(r, d)' - Share(r, d)) + 0
  <2>1. d \in Listed(appliedDiscounts'[Caller[r]])
          <=> d \in Listed(appliedDiscounts[Caller[r]]) /\ d # target[r]
    BY <1>2, <1>3, ListedWithout
  <2>2. /\ ~Owes(r, d) /\ ~Prepays(r, d) /\ ~Prepays(r, d)'
        /\ Owes(r, d)' <=> wasApplied /\ d = target[r]
    BY <1>1, <1>3 DEF Owes, Prepays
  <2>3. wasApplied /\ d = target[r] <=> d \in Listed(appliedDiscounts[Caller[r]]) /\ d = target[r]
    BY <1>2
  <2>4. Share(r, d)' - Share(r, d) = 0
    BY <1>1, <2>1, <2>2, <2>3, OwnLogs DEF Share, Bit
  <2>5. QED
    BY <1>1, <2>4, OwnLogs
<1>6. faults' = faults + 0 /\ 0 \in -0 .. 0
  BY <1>1 DEF TypeOK
<1>7. QED
  BY <1>4, <1>5, <1>6, MoveStep

\* Releasing what was removed pays that debt.
LEMMA RemoveReleaseAccounts ==
    ASSUME TypeOK, TypeOK', AccountInv, NEW r \in Requests, RemoveRelease(r)
    PROVE  AccountInv'
<1>1. /\ pc[r] = "remove_release" /\ pc' = [pc EXCEPT ![r] = "recalc_read"]
      /\ currentUsageCount' = Released(target[r])
      /\ UNCHANGED <<appliedDiscounts, usageLogs, faults, target, snapshot, next>>
  BY DEF RemoveRelease, Goto, localVars
<1>2. pc'[r] = "recalc_read" /\ LocalTo(r) /\ Active(r) /\ Fresh(r)'
  BY <1>1 DEF LocalTo, TypeOK, Active, Fresh
<1>3. ASSUME NEW d \in Discounts
      PROVE  \/ currentUsageCount'[d] =
                  currentUsageCount[d] + (Share(r, d)' - Share(r, d)) + 0
             \/ /\ Share(r, d)' - Share(r, d) = -1 /\ Counted(d) >= 1
                /\ currentUsageCount'[d] = Released(d)[d]
  <2>1. /\ ~Owes(r, d)' /\ ~Prepays(r, d) /\ ~Prepays(r, d)'
        /\ Owes(r, d) <=> d = target[r]
    BY <1>1, <1>2 DEF Owes, Prepays
  <2>2. Share(r, d)' - Share(r, d) = IF d = target[r] THEN -1 ELSE 0
    BY <1>1, <2>1, OwnLogs DEF Share, Bit
  <2>3. CASE d = target[r]
    BY <1>1, <2>1, <2>2, <2>3, SomeCounted
  <2>4. CASE d # target[r]
    <3>1. currentUsageCount'[d] = currentUsageCount[d]
      BY <1>1, <2>4 DEF Released, TypeOK
    <3>2. QED
      BY <2>2, <2>4, <3>1, OwnLogs
  <2>5. QED
    BY <2>3, <2>4
<1>4. faults' = faults + 0 /\ 0 \in -0 .. 0
  BY <1>1 DEF TypeOK
<1>5. QED
  BY <1>2, <1>3, <1>4, MoveStep

\* Clearing a cart releases its discounts one after the other.
LEMMA ClearReleaseAccounts ==
    ASSUME TypeOK, TypeOK', CartInv, AccountInv, NEW r \in Requests,
           NEW k \in {0, 1}, faults' = faults + k, pc[r] = "clear_release",
           next[r] <= Len(snapshot[r]), next' = [next EXCEPT ![r] = @ + 1],
           UNCHANGED <<appliedDiscounts, usageLogs, pc, target, snapshot>>,
           \/ k = 0 /\ currentUsageCount' = Released(snapshot[r][next[r]])
           \/ k = 1 /\ currentUsageCount' = currentUsageCount
    PROVE  AccountInv'
<1> DEFINE this == snapshot[r][next[r]]
<1>1. /\ next[r] \in Nat \ {0} /\ Len(snapshot[r]) \in Nat /\ next'[r] = next[r] + 1
      /\ next[r] \in 1 .. Len(snapshot[r])
      /\ \A i, j \in 1 .. Len(snapshot[r]) : snapshot[r][i] = snapshot[r][j] => i = j
  <2>1. next[r] \in Nat \ {0} /\ next'[r] = next[r] + 1
    BY DEF TypeOK
  <2>2. snapshot[r] \in DiscountLists
    BY DEF CartInv
  <2>3. /\ Len(snapshot[r]) \in Nat
        /\ \A i, j \in 1 .. Len(snapshot[r]) : snapshot[r][i] = snapshot[r][j] => i = j
    BY <2>2 DEF DiscountLists
  <2>4. QED
    BY <2>1, <2>3
<1>2. LocalTo(r) /\ Active(r)
  BY DEF LocalTo, TypeOK, Active
<1>3. Fresh(r)'
  BY <1>1 DEF Fresh, AccountInv
<1>4. ASSUME NEW d \in Discounts
      PROVE  \/ \E e \in -k .. k : currentUsageCount'[d] =
                  currentUsageCount[d] + (Share(r, d)' - Share(r, d)) + e
             \/ /\ Share(r, d)' - Share(r, d) = -1 /\ Counted(d) >= 1
                /\ currentUsageCount'[d] = Released(d)[d]
  <2>1. /\ ~Owes(r, d) /\ ~Owes(r, d)'
        /\ Prepays(r, d) => d # this
        /\ Prepays(r, d)' <=> Prepays(r, d) \/ d = this
    <3>1. /\ ~Owes(r, d) /\ ~Owes(r, d)'
          /\ Prepays(r, d) <=> \E i \in 1 .. next[r] - 1 : snapshot[r][i] = d
          /\ Prepays(r, d)' <=> \E i \in 1 .. next'[r] - 1 : snapshot[r][i] = d
      BY DEF Owes, Prepays
    <3>2. 1 .. next'[r] - 1 = (1 .. next[r] - 1) \cup {next[r]}
      BY <1>1
    <3>3. \A i \in 1 .. next[r] - 1 : i \in 1 .. Len(snapshot[r]) /\ i # next[r]
      BY <1>1
    <3>4. Prepays(r, d) => d # this
      BY <1>1, <3>1, <3>3
    <3>5. QED
      BY <3>1, <3>2, <3>4
  <2>2. Share(r, d)' - Share(r, d) = IF d = this THEN -1 ELSE 0
    BY <2>1, OwnLogs DEF Share, Bit
  <2>3. CASE k = 1
    <3>1. -1 \in -1 .. 1 /\ 0 \in -1 .. 1 /\ 1 \in -1 .. 1
      OBVIOUS
    <3>2. currentUsageCount'[d] =
            currentUsageCount[d] + (Share(r, d)' - Share(r, d))
              + (IF d = this THEN 1 ELSE 0)
      BY <2>2, <2>3, OwnLogs
    <3>3. QED
      BY <2>3, <3>1, <3>2
  <2>4. CASE k = 0 /\ d = this
    <3>1. d \in Listed(snapshot[r]) /\ ~Prepays(r, d)
      BY <1>1, <2>1, <2>4 DEF Listed
    <3>2. QED
      BY <2>2, <2>4, <3>1, SomeCounted
  <2>5. CASE k = 0 /\ d # this
    <3>1. currentUsageCount'[d] = currentUsageCount[d]
      BY <2>5 DEF Released, TypeOK
    <3>2. 0 \in -0 .. 0 /\
          currentUsageCount'[d] = currentUsageCount[d] + (Share(r, d)' - Share(r, d)) + 0
      BY <2>2, <2>5, <3>1, OwnLogs
    <3>3. QED
      BY <2>5, <3>2
  <2>6. QED
    BY <2>3, <2>4, <2>5
<1>5. QED
  BY <1>2, <1>3, <1>4, MoveStep

\* clearCart, with and without releasing: the cart is empty now.
LEMMA EmptyCartAccounts ==
    ASSUME TypeOK, TypeOK', AccountInv, NEW r \in Requests,
           ClearSave(r) \/ CheckoutClear(r)
    PROVE  AccountInv'
<1>1. /\ SaveCart(r, <<>>)
      /\ UNCHANGED <<currentUsageCount, usageLogs, faults, target, snapshot, next>>
      /\ \/ /\ pc[r] = "clear_release" /\ pc' = [pc EXCEPT ![r] = "done"]
            /\ next[r] > Len(snapshot[r])
         \/ pc[r] = "checkout_clear" /\ pc' = [pc EXCEPT ![r] = "checkout_commit"]
  BY DEF ClearSave, CheckoutClear, Goto, localVars, dbVars
<1>2. /\ Caller[r] \in Users /\ Len(snapshot[r]) \in Nat /\ next[r] \in Nat
      /\ snapshot[r] = appliedDiscounts[Caller[r]]
      /\ pc[r] = "clear_release" => next[r] = Len(snapshot[r]) + 1
  BY <1>1, ConstantsAssumption DEF TypeOK, AccountInv, Fresh
<1>3. /\ appliedDiscounts'[Caller[r]] = <<>>
      /\ \/ pc[r] = "clear_release" /\ pc'[r] = "done"
         \/ pc[r] = "checkout_clear" /\ pc'[r] = "checkout_commit"
  BY <1>1, <1>2 DEF TypeOK, SaveCart
<1>4. LocalTo(r) /\ Active(r) /\ Fresh(r)'
  BY <1>1, <1>2, <1>3 DEF LocalTo, TypeOK, SaveCart, Active, Fresh
<1>5. ASSUME NEW d \in Discounts
      PROVE  currentUsageCount'[d] =
               currentUsageCount[d] + (Share(r, d)' - Share(r, d)) + 0
  <2>1. d \notin Listed(appliedDiscounts'[Caller[r]])
    BY <1>3, ListedEmpty
  <2>2. Share(r, d)' - Share(r, d) = 0
    <3>1. CASE pc[r] = "clear_release" /\ pc'[r] = "done"
      <4>1. ~Owes(r, d) /\ ~Owes(r, d)' /\ ~Prepays(r, d)'
        BY <3>1 DEF Owes, Prepays
      <4>2. Prepays(r, d) <=> d \in Listed(appliedDiscounts[Caller[r]])
        BY <1>2, <3>1 DEF Prepays, Listed
      <4>3. QED
        BY <1>1, <2>1, <4>1, <4>2, OwnLogs DEF Share, Bit
    <3>2. CASE pc[r] = "checkout_clear" /\ pc'[r] = "checkout_commit"
      <4>1. ~Owes(r, d) /\ ~Prepays(r, d) /\ ~Prepays(r, d)'
        BY <3>2 DEF Owes, Prepays
      <4>2. Owes(r, d)' <=> d \in Listed(appliedDiscounts[Caller[r]])
        BY <1>1, <1>2, <3>2 DEF Owes
      <4>3. QED
        BY <1>1, <2>1, <4>1, <4>2, OwnLogs DEF Share, Bit
    <3>3. QED
      BY <1>3, <3>1, <3>2
  <2>3. QED
    BY <1>1, <2>2, OwnLogs
<1>6. faults' = faults + 0 /\ 0 \in -0 .. 0
  BY <1>1 DEF TypeOK
<1>7. QED
  BY <1>4, <1>5, <1>6, MoveStep

\* A checkout turns the uses a cart held into logged ones.
LEMMA CommitAccounts ==
    ASSUME TypeOK, TypeOK', AccountInv, NEW r \in Requests, CheckoutCommit(r)
    PROVE  AccountInv'
<1>1. /\ pc[r] = "checkout_commit" /\ pc' = [pc EXCEPT ![r] = "done"]
      /\ usageLogs' = Raised(usageLogs, Caller[r], Listed(snapshot[r]))
      /\ UNCHANGED <<currentUsageCount, appliedDiscounts, faults, target, snapshot, next>>
  BY DEF CheckoutCommit, Goto, localVars, Raised
<1>2. Caller[r] \in Users /\ pc'[r] = "done"
  BY <1>1, ConstantsAssumption DEF TypeOK
<1>3. LocalTo(r) /\ Active(r) /\ Fresh(r)'
  BY <1>1, <1>2 DEF LocalTo, TypeOK, Active, Fresh, Raised
<1>4. ASSUME NEW d \in Discounts
      PROVE  currentUsageCount'[d] =
               currentUsageCount[d] + (Share(r, d)' - Share(r, d)) + 0
  <2>1. /\ ~Owes(r, d)' /\ ~Prepays(r, d) /\ ~Prepays(r, d)'
        /\ Owes(r, d) <=> d \in Listed(snapshot[r])
    BY <1>1, <1>2 DEF Owes, Prepays
  <2>2. usageLogs'[Caller[r]][d] =
          usageLogs[Caller[r]][d] + Bit(d \in Listed(snapshot[r]))
    <3>1. usageLogs'[Caller[r]][d] = IF d \in Listed(snapshot[r])
                                     THEN usageLogs[Caller[r]][d] + 1
                                     ELSE usageLogs[Caller[r]][d]
      BY <1>1, <1>2 DEF Raised, TypeOK
    <3>2. QED
      BY <3>1, OwnLogs DEF Bit
  <2>3. Share(r, d)' - Share(r, d) = 0
    BY <1>1, <2>1, <2>2, OwnLogs DEF Share, Bit
  <2>4. QED
    BY <1>1, <2>3, OwnLogs
<1>5. faults' = faults + 0 /\ 0 \in -0 .. 0
  BY <1>1 DEF TypeOK
<1>6. QED
  BY <1>3, <1>4, <1>5, MoveStep

\* A failed request forgets one usage at most, of each discount.
LEMMA FailAccounts ==
    ASSUME TypeOK, TypeOK', CartInv, AccountInv, NEW r \in Requests, Fail(r)
    PROVE  AccountInv'
<1>1. CASE RequestFails(r) \/ (ReleaseFails(r) /\ pc[r] = "remove_release")
  <2>1. PICK step \in {"done", "recalc_read"} : pc' = [pc EXCEPT ![r] = step]
    BY <1>1 DEF RequestFails, ReleaseFails, Goto
  <2>2. /\ UNCHANGED <<currentUsageCount, appliedDiscounts, usageLogs, target, snapshot,
                       next>>
        /\ faults' = faults + 1 /\ Active(r) /\ pc[r] # "clear_release"
    BY <1>1 DEF RequestFails, ReleaseFails, dbVars, localVars, Active
  <2>3. pc'[r] = step /\ LocalTo(r) /\ Fresh(r)'
    BY <2>1, <2>2 DEF LocalTo, TypeOK, Fresh
  <2>4. ASSUME NEW d \in Discounts
        PROVE  \E e \in -1 .. 1 : currentUsageCount'[d] =
                 currentUsageCount[d] + (Share(r, d)' - Share(r, d)) + e
    <3>1. ~Owes(r, d)' /\ ~Prepays(r, d) /\ ~Prepays(r, d)'
      BY <2>2, <2>3 DEF Owes, Prepays
    <3>2. Share(r, d)' - Share(r, d) = -Bit(Owes(r, d))
      BY <2>2, <3>1, OwnLogs DEF Share, Bit
    <3>3. Bit(Owes(r, d)) \in -1 .. 1
      BY DEF Bit
    <3>4. currentUsageCount'[d] = currentUsageCount[d] + (Share(r, d)' - Share(r, d))
                                    + Bit(Owes(r, d))
      BY <2>2, <3>2, <3>3, OwnLogs
    <3>5. QED
      BY <3>3, <3>4
  <2>5. QED
    BY <2>2, <2>3, <2>4, MoveStep
<1>2. CASE ReleaseFails(r) /\ pc[r] # "remove_release"
  BY <1>2, ClearReleaseAccounts DEF ReleaseFails, dbVars
<1>3. QED
  BY <1>1, <1>2 DEF Fail

\* A crash forgets what every running request owed or had released.
LEMMA CrashAccounts ==
    ASSUME TypeOK, TypeOK', AccountInv, Crash
    PROVE  AccountInv'
<1>1. /\ pc' = [q \in Requests |-> IF Active(q) THEN "done" ELSE pc[q]]
      /\ UNCHANGED <<currentUsageCount, appliedDiscounts, usageLogs, target, snapshot,
                     next>>
      /\ faults' = faults + 1
      /\ OneEach
  BY DEF Crash, dbVars, localVars, AccountInv
<1>2. \A q \in Requests : pc'[q] \in {"idle", "done"}
  BY <1>1 DEF Active
<1>3. OneEach' /\ \A q \in Requests : Fresh(q)'
  BY <1>2 DEF OneEach, Active, Fresh
<1>4. ASSUME NEW d \in Discounts
      PROVE  (currentUsageCount[d] - Counted(d)
                \in -(faults * Cardinality(Users)) .. faults * Cardinality(Users))'
  <2> DEFINE n == Cardinality(Users)
             h == Cardinality(Holders(d))
             l == LogTotal(usageLogs, d)
             o == Cardinality(OwedBy(d))
             p == Cardinality(PrepaidBy(d))
             c == currentUsageCount[d]
             bound == faults * n
  <2>1. /\ n \in Nat /\ h \in Nat /\ l \in Nat /\ o \in Nat /\ p \in Nat /\ c \in Nat
        /\ o <= n /\ p <= n /\ Counted(d) = h + l + o - p
    BY <1>1, AccountsAreCounts
  <2>2. /\ Owed(d)' = Cardinality(OwedBy(d)') /\ Prepaid(d)' = Cardinality(PrepaidBy(d)')
        /\ OwedBy(d)' = {} /\ PrepaidBy(d)' = {}
    BY <1>2 DEF Owed, OwedBy, Owes, Prepaid, PrepaidBy, Prepays
  <2>3. Cardinality(Holders(d))' = h
    BY <1>1 DEF Holders
  <2>4. LogsOf(d)' = l
    <3>1. LogsOf(d)' = LogTotal(usageLogs', d)
      BY DEF LogsOf, LogTotal, MapThenSumSet, MapThenFoldSet
    <3>2. QED
      BY <1>1, <3>1
  <2>5. Counted(d)' = h + l + 0 - 0
    BY <2>2, <2>3, <2>4, FS_EmptySet DEF Counted
  <2>6. /\ bound \in Nat /\ (faults' * Cardinality(Users)) = bound + 1 * n
    <3>1. faults \in Nat
      BY DEF TypeOK
    <3> HIDE DEF n
    <3>2. QED
      BY <1>1, <2>1, <3>1, Slack DEF n
  <2>7. c - Counted(d) \in -bound .. bound
    BY DEF AccountInv, ReservationAccounting
  <2>8. currentUsageCount'[d] = c
    BY <1>1
  <2> HIDE DEF n, h, l, o, p, c, bound
  <2>9. c - (h + l + 0 - 0) \in -(bound + 1 * n) .. bound + 1 * n
    <3>1. c - (h + l + o - p) >= -bound /\ c - (h + l + o - p) <= bound
      BY <2>1, <2>6, <2>7
    <3>2. QED
      BY <2>1, <2>6, <3>1
  <2>10. QED
    BY <2>5, <2>6, <2>8, <2>9
<1>5. ReservationAccounting'
  BY <1>4 DEF ReservationAccounting
<1>6. QED
  BY <1>3, <1>5 DEF AccountInv

\* Every step keeps the account.
LEMMA AccountsStep ==
    ASSUME InFlightPerUser <= 1, \A r \in Requests : "edit" \notin Calls[r],
           TypeOK, TypeOK', CartInv, AccountInv, [Next]_vars
    PROVE  AccountInv'
<1>1. CASE UNCHANGED vars
  <2>1. \A d : LogsOf(d)' = LogsOf(d)
    BY <1>1 DEF LogsOf, MapThenSumSet, MapThenFoldSet, vars, dbVars
  <2>2. \A d : Counted(d)' = Counted(d)
    BY <1>1, <2>1 DEF Counted, Holders, Owed, Prepaid, vars, dbVars, localVars
  <2>3. QED
    BY <1>1, <2>2 DEF AccountInv, OneEach, Active, Fresh, ReservationAccounting, vars,
       dbVars, localVars
<1>2. CASE Crash
  BY <1>2, CrashAccounts
<1>3. ASSUME NEW r \in Requests, Begin(r) \/ Continue(r) \/ Fail(r)
      PROVE  AccountInv'
  <2>1. CASE Begin(r)
    BY <2>1, BeginAccounts
  <2>2. CASE Fail(r)
    BY <2>2, FailAccounts
  <2>3. CASE CartStep(r)
    <3>1. CASE ClearRelease(r)
      <4>1. /\ pc[r] = "clear_release" /\ next[r] <= Len(snapshot[r])
            /\ next' = [next EXCEPT ![r] = @ + 1] /\ faults' = faults + 0
            /\ UNCHANGED <<appliedDiscounts, usageLogs, pc, target, snapshot>>
            /\ currentUsageCount' = Released(snapshot[r][next[r]])
        BY <3>1 DEF ClearRelease, TypeOK
      <4>2. QED
        BY <4>1, ClearReleaseAccounts
    <3>2. QED
      BY <2>3, <3>1, QuietSteps, ReserveAccounts, RemoveSaveAccounts,
         RemoveReleaseAccounts, EmptyCartAccounts DEF CartStep
  <2>4. CASE CheckoutStep(r)
    BY <2>4, QuietSteps, EmptyCartAccounts, CommitAccounts DEF CheckoutStep
  <2>5. ~AdminStep(r)
    BY DEF AdminStep, EditSave, SoftDelete, AccountInv, Fresh
  <2>6. QED
    BY <1>3, <2>1, <2>2, <2>3, <2>4, <2>5 DEF Continue
<1>4. QED
  BY <1>1, <1>2, <1>3 DEF Next, Idle

\* In the beginning the account is even.
LEMMA InitAccounts == Init => AccountInv
<1> SUFFICES ASSUME Init PROVE AccountInv
  OBVIOUS
<1>1. TypeOK
  BY InitType
<1>2. OneEach /\ \A r \in Requests : Fresh(r)
  BY DEF Init, OneEach, Active, Fresh
<1>3. ASSUME NEW d \in Discounts
      PROVE  currentUsageCount[d] - Counted(d) = 0
  <2>1. OwedBy(d) = {} /\ PrepaidBy(d) = {}
    BY DEF Init, OwedBy, Owes, PrepaidBy, Prepays
  <2>2. LogTotal(usageLogs, d) = 0
    BY <1>1, NoLogs DEF Init, TypeOK, Counts
  <2>3. currentUsageCount[d] = Cardinality(Holders(d))
    BY DEF Init, Holders
  <2>4. QED
    BY <1>1, <1>2, <2>1, <2>2, <2>3, FS_EmptySet, AccountsAreCounts
<1>4. ReservationAccounting
  <2>1. faults = 0 /\ Cardinality(Users) \in Nat
    BY ConstantsAssumption, FS_CardinalityType DEF Init
  <2>2. 0 \in -(faults * Cardinality(Users)) .. faults * Cardinality(Users)
    BY <2>1
  <2>3. QED
    BY <1>3, <2>2 DEF ReservationAccounting
<1>5. QED
  BY <1>2, <1>4 DEF AccountInv

\* Whatever number of users, discounts and requests, and however their cart
\* calls, checkouts, failures and crashes interleave: while every client waits
\* for its answers and no administrator saves a discount, currentUsageCount is
\* what carts hold and orders have logged, but for one use for each client
\* that a failure has hit.
THEOREM ReservationsAreAccounted ==
    ASSUME InFlightPerUser <= 1, \A r \in Requests : "edit" \notin Calls[r]
    PROVE  Spec => []ReservationAccounting
<1> DEFINE Inv == TypeOK /\ CartInv /\ AccountInv
<1>1. Init => Inv
  BY InitType, InitAccounts
<1>2. Inv /\ [Next]_vars => Inv'
  BY TypeStep, AccountsStep
<1>3. Inv => ReservationAccounting
  BY DEF AccountInv
<1>4. QED
  BY <1>1, <1>2, <1>3, PTL DEF Spec

-----------------------------------------------------------------------------
(* The global limit.                                                       *)

\* The column stays within the limit as long as nobody saves the row.
CountWithinLimit ==
    \A d \in Discounts :
        limits[d].total # 0 => currentUsageCount[d] <= limits[d].total

\* No step takes a count past the limit.
LEMMA LimitStep ==
    ASSUME TypeOK, \A r \in Requests : pc[r] # "edit_save", CountWithinLimit, [Next]_vars
    PROVE  CountWithinLimit'
<1> USE ConstantsAssumption DEF TypeOK, CountWithinLimit, dbVars, localVars
<1> DEFINE Quiet == UNCHANGED <<currentUsageCount, limits>>
<1>1. Quiet => CountWithinLimit'
  OBVIOUS
<1>2. ASSUME NEW r \in Requests, Reserve(r) PROVE CountWithinLimit'
  BY <1>2 DEF Reserve, BelowTotalLimit
<1>3. ASSUME NEW r \in Requests, RemoveRelease(r) \/ ClearRelease(r)
      PROVE  CountWithinLimit'
  <2>1. PICK d \in Discounts : currentUsageCount' = Released(d) /\ limits' = limits
    BY <1>3 DEF RemoveRelease, ClearRelease
  <2>2. ASSUME NEW e \in Discounts, limits'[e].total # 0
        PROVE  currentUsageCount'[e] <= limits'[e].total
    <3> DEFINE c == currentUsageCount[e]
               c2 == currentUsageCount'[e]
               l == limits[e].total
    <3>1. c \in Nat /\ l \in Nat
      OBVIOUS
    <3>2. c <= l /\ limits'[e].total = l
      BY <2>1, <2>2
    <3>3. c2 = IF e = d THEN IF c > 0 THEN c - 1 ELSE 0 ELSE c
      BY <2>1 DEF Released
    <3> HIDE DEF c, c2, l
    <3>4. c2 <= l
      BY <3>1, <3>2, <3>3
    <3>5. QED
      BY <3>2, <3>4 DEF c2
  <2>3. QED
    BY <2>2
<1>4. ASSUME NEW r \in Requests, Begin(r) PROVE CountWithinLimit'
  <2>1. Quiet
    BY <1>4 DEF Begin, BeginApply, BeginRemove, BeginClear, BeginTouch,
                BeginCheckout, BeginEdit, AssignToUser, RemoveUserAssignment
  <2>2. QED
    BY <1>1, <2>1
<1>5. ASSUME NEW r \in Requests,
             \/ RejectApply(r) \/ RecalculateRead(r) \/ RecalculateSave(r)
             \/ RemoveSave(r) \/ ClearSave(r) \/ TouchSave(r)
      PROVE  CountWithinLimit'
  <2>1. Quiet
    BY <1>5 DEF RejectApply, RecalculateRead, RecalculateSave, RemoveSave,
                ClearSave, TouchSave
  <2>2. QED
    BY <1>1, <2>1
<1>6. ASSUME NEW r \in Requests, CheckoutStep(r) PROVE CountWithinLimit'
  <2>1. Quiet
    BY <1>6 DEF CheckoutStep, ValidateSave, CheckoutRead, ValidateDiscount,
                RejectDiscount, RecordUsage, CheckoutClear, CheckoutCommit,
                DeadlockAbort
  <2>2. QED
    BY <1>1, <2>1
<1>7. ASSUME NEW r \in Requests PROVE ~AdminStep(r)
  BY DEF AdminStep, EditSave, SoftDelete
<1>8. ASSUME NEW r \in Requests, Fail(r) PROVE CountWithinLimit'
  <2>1. Quiet
    BY <1>8 DEF Fail, RequestFails, ReleaseFails
  <2>2. QED
    BY <1>1, <2>1
<1>9. CASE Crash
  BY <1>1, <1>9 DEF Crash
<1>10. CASE UNCHANGED vars
  BY <1>1, <1>10 DEF vars
<1>11. QED
  BY <1>2, <1>3, <1>4, <1>5, <1>6, <1>7, <1>8, <1>9, <1>10
  DEF Next, Continue, CartStep, Idle

\* A count that is right and within the limit limits what it counts.
LEMMA CountLimitsUses ==
    ASSUME TypeOK, OneEach, ReservationAccounting, CountWithinLimit
    PROVE  ReservedWithinLimit
<1> SUFFICES ASSUME NEW d \in Discounts, limits[d].total # 0
             PROVE  Counted(d) <= limits[d].total + faults * Cardinality(Users)
  BY DEF ReservedWithinLimit
<1> DEFINE c == currentUsageCount[d]
           t == Counted(d)
           l == limits[d].total
           bound == faults * Cardinality(Users)
<1>1. c \in Nat /\ t \in Int
  BY AccountsAreCounts
<1>2. l \in Nat /\ c <= l
  BY DEF TypeOK, CountWithinLimit
<1>3. bound \in Nat
  <2>1. faults \in Nat /\ Cardinality(Users) \in Nat
    BY ConstantsAssumption, FS_CardinalityType DEF TypeOK
  <2>2. QED
    BY <2>1
<1>4. c - t \in -bound .. bound
  BY DEF ReservationAccounting
<1> HIDE DEF c, t, l, bound
<1>5. t <= l + bound
  BY <1>1, <1>2, <1>3, <1>4
<1>6. QED
  BY <1>5 DEF t, l, bound

\* Nor do more carts and orders have the use of a discount than maxUsageTotal
\* allows, but for one for each client that a failure has hit: only
\* applyDiscount raises the count, under the lock it checked the limit under,
\* and the count leaves no use out.
THEOREM ReservationsStayWithinLimit ==
    ASSUME InFlightPerUser <= 1, \A r \in Requests : "edit" \notin Calls[r]
    PROVE  Spec => []ReservedWithinLimit
<1> DEFINE Inv == TypeOK /\ CartInv /\ AccountInv /\ CountWithinLimit
<1>1. Init => Inv
  BY InitType, InitAccounts DEF Init, CountWithinLimit
<1>2. Inv /\ [Next]_vars => Inv'
  <2> SUFFICES ASSUME Inv, [Next]_vars PROVE Inv'
    OBVIOUS
  <2>1. TypeOK' /\ CartInv'
    BY TypeStep
  <2>2. AccountInv'
    BY <2>1, AccountsStep
  <2>3. \A r \in Requests : pc[r] # "edit_save"
    BY DEF AccountInv, Fresh
  <2>4. QED
    BY <2>1, <2>2, <2>3, LimitStep
<1>3. Inv => ReservedWithinLimit
  BY CountLimitsUses DEF AccountInv
<1>4. QED
  BY <1>1, <1>2, <1>3, PTL DEF Spec
=============================================================================
