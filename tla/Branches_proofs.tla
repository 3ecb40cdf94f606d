-------------------------- MODULE Branches_proofs --------------------------
(***************************************************************************)
(* Proofs about a branch: its menu (BranchMenu) and the orders it gets     *)
(* (OrderRouting).  For any core menu and any updates, what the cart       *)
(* accepts is what the menu shows, and a lone bulk update leaves, at each  *)
(* of its steps and where it fails, exactly the first updates asked for.   *)
(* For any zones, an order goes to the best of the branches that serve it, *)
(* and a location in the area of two neighbours of any shape is in one of  *)
(* them only.                                                              *)
(***************************************************************************)
EXTENDS BranchMenu, OrderRouting, FiniteSetTheorems, SequenceTheorems,
        WellFoundedInduction, TLAPS

-----------------------------------------------------------------------------
(* Type correctness.                                                       *)

AtUpdate == {"check", "find", "save", "remove"}

\* A request that is at an update has one left.
TypeInv == /\ MenuTypeOK
           /\ \A c \in MenuCalls : menuPc[c] \in AtUpdate => todo[c] # <<>>

\* A bulk update is a sequence of updates, those of categories first.
LEMMA RequestsAreSequences ==
    ASSUME NEW s \in Requests
    PROVE  s \in Seq(OverrideUpdates) /\ s # <<>> /\ CategoriesFirst(s)
<1>1. PICK n \in 1..MaxBulk : s \in [1..n -> OverrideUpdates]
  BY DEF Requests
<1>2. n \in Nat /\ n >= 1
  BY DEF Requests
<1>3. s \in Seq(OverrideUpdates) /\ Len(s) = n
  BY <1>1, <1>2
<1>4. QED
  BY <1>2, <1>3 DEF Requests

\* The first update of a request and those left after it.
LEMMA HeadTail ==
    ASSUME NEW s \in Seq(OverrideUpdates), s # <<>>
    PROVE  /\ Head(s) \in OverrideUpdates /\ Tail(s) \in Seq(OverrideUpdates)
           /\ Head(s).entry \in MenuEntries /\ Head(s).available \in BOOLEAN
           /\ Len(s) # 1 => Tail(s) # <<>>
           /\ 1 \in DOMAIN s /\ s[1] = Head(s)
           /\ \A j \in DOMAIN Tail(s) : j + 1 \in DOMAIN s /\ Tail(s)[j] = s[j + 1]
<1>1. Head(s) \in OverrideUpdates /\ Tail(s) \in Seq(OverrideUpdates) /\ Len(s) \in Nat /\ Len(s) >= 1
  OBVIOUS
<1>2. DOMAIN s = 1..Len(s) /\ Len(Tail(s)) = Len(s) - 1 /\ s[1] = Head(s)
  OBVIOUS
<1>3. DOMAIN Tail(s) = 1..Len(Tail(s))
  BY <1>1
<1>4. \A j \in DOMAIN Tail(s) : j + 1 \in DOMAIN s /\ Tail(s)[j] = s[j + 1]
  BY <1>1, <1>2, <1>3
<1>5. Len(s) # 1 => Tail(s) # <<>>
  <2>1. Len(<<>>) = 0
    OBVIOUS
  <2>2. Len(s) # 1 => Len(Tail(s)) # 0
    BY <1>1, <1>2
  <2>3. QED
    BY <2>1, <2>2
<1>6. QED
  BY <1>1, <1>2, <1>4, <1>5 DEF OverrideUpdates

\* Types hold in the beginning,
LEMMA InitTypes ==
    ASSUME MenuInit
    PROVE  TypeInv
<1>1. <<>> \in Seq(OverrideUpdates)
  OBVIOUS
<1>2. QED
  BY <1>1
     DEF MenuInit, TypeInv, MenuTypeOK, NoOverrides, OverrideRows, MenuLabels, AtUpdate

\* with each statement of a request,
LEMMA CallTypes ==
    ASSUME MenuAssumption, TypeInv, NEW c \in MenuCalls,
           \/ \E s \in Requests : BulkUpdateAvailability(c, s)
           \/ CheckCore(c) \/ FindOverride(c) \/ SaveOverride(c)
           \/ InsertRefused(c) \/ End(c)
           \/ \E e \in MenuEntries : FindForRemoval(c, e)
           \/ RemoveOverride(c)
    PROVE  TypeInv'
<1>1. /\ core \in [MenuEntries -> BOOLEAN] /\ override \in [MenuEntries -> OverrideRows]
      /\ menuPc \in [MenuCalls -> MenuLabels] /\ todo \in [MenuCalls -> Seq(OverrideUpdates)]
      /\ found \in [MenuCalls -> BOOLEAN] /\ start \in [MenuCalls -> [MenuEntries -> OverrideRows]]
      /\ asked \in [MenuCalls -> Seq(OverrideUpdates)]
      /\ \A d \in MenuCalls : menuPc[d] \in AtUpdate => todo[d] # <<>>
  BY DEF TypeInv, MenuTypeOK
<1>2. AtUpdate \cup {"idle", "done", "failed", "removed"} \subseteq MenuLabels
  BY DEF AtUpdate, MenuLabels
<1>3. /\ <<>> \in Seq(OverrideUpdates) /\ NoOverrides \in [MenuEntries -> OverrideRows]
      /\ \A b \in BOOLEAN : Row(b) \in OverrideRows
  BY DEF NoOverrides, OverrideRows, Row
<1>4. ASSUME NEW s \in Requests, BulkUpdateAvailability(c, s)
      PROVE  TypeInv'
  <2>1. s \in Seq(OverrideUpdates) /\ s # <<>>
    BY RequestsAreSequences
  <2>2. /\ menuPc' = [menuPc EXCEPT ![c] = "check"] /\ todo' = [todo EXCEPT ![c] = s]
        /\ asked' = [asked EXCEPT ![c] = s]
        /\ start' = [start EXCEPT ![c] = override]
        /\ UNCHANGED <<core, override, found>>
    BY <1>4 DEF BulkUpdateAvailability, MenuGoto, menuRows
  <2>3. QED
    BY <1>1, <2>1, <2>2 DEF TypeInv, MenuTypeOK, MenuLabels, AtUpdate
<1>5. CASE CheckCore(c)
  <2>1. PICK label \in {"find", "failed"} : menuPc' = [menuPc EXCEPT ![c] = label]
    BY <1>5 DEF CheckCore, MenuGoto
  <2>2. menuPc[c] = "check" /\ UNCHANGED <<core, override, todo, found, start, asked>>
    BY <1>5 DEF CheckCore, menuRows, menuLocals
  <2>3. QED
    BY <1>1, <2>1, <2>2 DEF TypeInv, MenuTypeOK, MenuLabels, AtUpdate
<1>6. CASE FindOverride(c)
  <2>1. /\ menuPc[c] = "find" /\ menuPc' = [menuPc EXCEPT ![c] = "save"]
        /\ found' = [found EXCEPT ![c] = IsLive(override[Head(todo[c]).entry])]
        /\ UNCHANGED <<core, override, todo, start, asked>>
    BY <1>6 DEF FindOverride, MenuGoto, menuRows
  <2>2. IsLive(override[Head(todo[c]).entry]) \in BOOLEAN
    BY DEF IsLive
  <2>3. found' \in [MenuCalls -> BOOLEAN]
    BY <1>1, <2>1, <2>2
  <2>4. QED
    BY <1>1, <2>1, <2>3 DEF TypeInv, MenuTypeOK, MenuLabels, AtUpdate
<1>7. CASE SaveOverride(c)
  <2> DEFINE u == Head(todo[c])
  <2>1. /\ menuPc[c] = "save"
        /\ override' = [override EXCEPT ![u.entry] = Row(u.available)]
        /\ todo' = [todo EXCEPT ![c] = Tail(@)]
        /\ menuPc' = [menuPc EXCEPT ![c] = IF Len(todo[c]) = 1 THEN "done" ELSE "check"]
        /\ UNCHANGED <<core, found, start, asked>>
    BY <1>7 DEF SaveOverride, MenuGoto
  <2>2. todo[c] \in Seq(OverrideUpdates) /\ todo[c] # <<>>
    BY <1>1, <2>1 DEF AtUpdate
  <2>3. /\ u \in OverrideUpdates /\ u.entry \in MenuEntries /\ Row(u.available) \in OverrideRows
        /\ Tail(todo[c]) \in Seq(OverrideUpdates)
        /\ Len(todo[c]) # 1 => Tail(todo[c]) # <<>>
    BY <1>3, <2>2, HeadTail
  <2> HIDE DEF u
  <2>4. /\ override' \in [MenuEntries -> OverrideRows]
        /\ todo' \in [MenuCalls -> Seq(OverrideUpdates)]
    BY <1>1, <2>1, <2>3
  <2>5. menuPc' \in [MenuCalls -> MenuLabels]
    BY <1>1, <1>2, <2>1 DEF AtUpdate
  <2>6. \A d \in MenuCalls : menuPc'[d] \in AtUpdate => todo'[d] # <<>>
    BY <1>1, <2>1, <2>3 DEF AtUpdate
  <2>7. QED
    BY <1>1, <2>1, <2>4, <2>5, <2>6 DEF TypeInv, MenuTypeOK
<1>8. CASE InsertRefused(c)
  <2>1. menuPc' = [menuPc EXCEPT ![c] = "failed"]
        /\ UNCHANGED <<core, override, todo, found, start, asked>>
    BY <1>8 DEF InsertRefused, MenuGoto, menuRows, menuLocals
  <2>2. QED
    BY <1>1, <2>1 DEF TypeInv, MenuTypeOK, MenuLabels, AtUpdate
<1>9. CASE End(c)
  <2>1. /\ menuPc' = [menuPc EXCEPT ![c] = "idle"] /\ todo' = [todo EXCEPT ![c] = <<>>]
        /\ found' = [found EXCEPT ![c] = FALSE]
        /\ start' = [start EXCEPT ![c] = NoOverrides]
        /\ asked' = [asked EXCEPT ![c] = <<>>]
        /\ UNCHANGED <<core, override>>
    BY <1>9 DEF End, MenuReturn, MenuGoto, menuRows
  <2>2. QED
    BY <1>1, <1>3, <2>1 DEF TypeInv, MenuTypeOK, MenuLabels, AtUpdate
<1>10. ASSUME NEW e \in MenuEntries, FindForRemoval(c, e)
       PROVE  TypeInv'
  <2> DEFINE s == <<[entry |-> e, available |-> TRUE]>>
  <2>1. s \in Seq(OverrideUpdates) /\ s # <<>>
    BY DEF OverrideUpdates
  <2> HIDE DEF s
  <2>2. /\ menuPc' = [menuPc EXCEPT ![c] = "remove"] /\ todo' = [todo EXCEPT ![c] = s]
        /\ asked' = [asked EXCEPT ![c] = s]
        /\ start' = [start EXCEPT ![c] = override]
        /\ UNCHANGED <<core, override, found>>
    BY <1>10 DEF FindForRemoval, MenuGoto, menuRows, s
  <2>3. QED
    BY <1>1, <2>1, <2>2 DEF TypeInv, MenuTypeOK, MenuLabels, AtUpdate
<1>11. CASE RemoveOverride(c)
  <2>1. /\ override' = [override EXCEPT ![Head(todo[c]).entry] = "removed"]
        /\ menuPc' = [menuPc EXCEPT ![c] = "removed"]
        /\ UNCHANGED <<core, todo, found, start, asked>>
    BY <1>11 DEF RemoveOverride, MenuGoto, menuLocals
  <2>2. override' \in [MenuEntries -> OverrideRows]
    BY <1>1, <2>1 DEF OverrideRows
  <2>3. QED
    BY <1>1, <2>1, <2>2 DEF TypeInv, MenuTypeOK, MenuLabels, AtUpdate
<1>12. QED
  BY <1>4, <1>5, <1>6, <1>7, <1>8, <1>9, <1>10, <1>11

\* hence with each step.
LEMMA TypesStep ==
    ASSUME MenuAssumption, TypeInv, [MenuNext]_menuVars
    PROVE  TypeInv'
<1>1. CASE UNCHANGED menuVars
  BY <1>1 DEF TypeInv, MenuTypeOK, menuVars, menuRows, menuLocals
<1>2. ASSUME NEW e \in MenuEntries, EditCore(e)
      PROVE  TypeInv'
  <2>1. core' \in [MenuEntries -> BOOLEAN]
    BY <1>2 DEF EditCore, TypeInv, MenuTypeOK
  <2>2. UNCHANGED <<override, menuPc, todo, found, start, asked>>
    BY <1>2 DEF EditCore, menuLocals
  <2>3. QED
    BY <2>1, <2>2 DEF TypeInv, MenuTypeOK
<1>3. QED
  BY <1>1, <1>2, CallTypes DEF MenuNext

\* Overrides, requests and what they have done keep their types, for any
\* number of requests (the override entities).
THEOREM TypeCorrect ==
    ASSUME MenuAssumption
    PROVE  MenuSpec => []MenuTypeOK
<1>1. MenuInit => TypeInv
  BY InitTypes
<1>2. TypeInv /\ [MenuNext]_menuVars => TypeInv'
  BY TypesStep
<1>3. TypeInv => MenuTypeOK
  BY DEF TypeInv
<1>4. QED
  BY <1>1, <1>2, <1>3, PTL DEF MenuSpec

-----------------------------------------------------------------------------
(* The menu and the cart.                                                  *)

\* Whatever administrators switch on and off and whoever overlaps, a product
\* is accepted by the cart exactly when the branch's menu shows it, under a
\* category the menu shows (isItemAvailable, getAvailableMenuForBranch).
THEOREM CartAcceptsTheMenu ==
    ASSUME MenuAssumption
    PROVE  MenuSpec => []CheckAgreesWithMenu
<1>1. MenuTypeOK => CheckAgreesWithMenu
  BY DEF MenuAssumption, MenuTypeOK, CheckAgreesWithMenu, AvailableProducts,
     AvailableCategories, IsProductAvailable, Offered, IsLive, OverrideRows, MenuEntries
<1>2. QED
  BY <1>1, TypeCorrect, PTL

-----------------------------------------------------------------------------
(* A request on its own.                                                   *)

Updating == {"check", "find", "save"}
Told == Updating \cup {"remove", "failed", "done"}

\* How many updates have been made, and what BulkInOrder says of them.
Done(c) == Len(asked[c]) - Len(todo[c])
Left(c) ==
    \A e \in MenuEntries : override[e] = AfterFirst(Done(c), asked[c], start[c][e], e)
Rest(c) ==
    /\ Done(c) \in Nat
    /\ \A i \in DOMAIN todo[c] : todo[c][i] = asked[c][Done(c) + i]

\* Nothing is asked for twice.
Distinct(s) == \A i, j \in DOMAIN s : i < j => s[i].entry # s[j].entry

Lone(c) ==
    /\ menuPc[c] \in Told => Left(c) /\ Rest(c)
    /\ menuPc[c] \in Updating => Distinct(asked[c])
    /\ menuPc[c] = "save" => found[c] = IsLive(override[Head(todo[c]).entry])

LoneInv ==
    /\ \A c, d \in MenuCalls : menuPc[c] # "idle" /\ menuPc[d] # "idle" => c = d
    /\ \A c \in MenuCalls : Lone(c)

\* A request that begins when at most one may be in flight begins alone.
LEMMA ArrivesAlone ==
    ASSUME IsFiniteSet(MenuCalls), MenuAssumption, MaxMenuCalls <= 1,
           NEW c \in MenuCalls, MenuArrives(c)
    PROVE  \A d \in MenuCalls : menuPc[d] = "idle"
<1> DEFINE Busy == {d \in MenuCalls : menuPc[d] # "idle"}
<1>1. IsFiniteSet(Busy)
  BY FS_Subset
<1>2. Cardinality(Busy) \in Nat /\ Cardinality(Busy) < MaxMenuCalls
  BY <1>1, FS_CardinalityType DEF MenuArrives
<1>3. Cardinality(Busy) = 0
  BY <1>2 DEF MenuAssumption
<1>4. Busy = {}
  BY <1>1, <1>3, FS_EmptySet
<1>5. QED
  BY <1>4

\* Only the request that takes the step has something to keep.
LEMMA LoneStep ==
    ASSUME NEW c \in MenuCalls, \A d \in MenuCalls : d # c => Lone(d) /\ menuPc[d] = "idle",
           \A d \in MenuCalls : d # c => menuPc'[d] = menuPc[d],
           Lone(c)'
    PROVE  LoneInv'
BY DEF LoneInv, Lone, Told, Updating

\* Each statement of a lone request, and one that arrives, keeps LoneInv.
LEMMA CallStep ==
    ASSUME IsFiniteSet(MenuCalls), MenuAssumption, MaxMenuCalls <= 1,
           TypeInv, LoneInv, NEW c \in MenuCalls,
           \/ \E s \in Requests : BulkUpdateAvailability(c, s)
           \/ CheckCore(c) \/ FindOverride(c) \/ SaveOverride(c)
           \/ InsertRefused(c) \/ End(c)
           \/ \E e \in MenuEntries : FindForRemoval(c, e)
           \/ RemoveOverride(c)
    PROVE  LoneInv'
<1>1. /\ core \in [MenuEntries -> BOOLEAN] /\ override \in [MenuEntries -> OverrideRows]
      /\ menuPc \in [MenuCalls -> MenuLabels] /\ todo \in [MenuCalls -> Seq(OverrideUpdates)]
      /\ found \in [MenuCalls -> BOOLEAN] /\ start \in [MenuCalls -> [MenuEntries -> OverrideRows]]
      /\ asked \in [MenuCalls -> Seq(OverrideUpdates)]
      /\ \A d \in MenuCalls : menuPc[d] \in AtUpdate => todo[d] # <<>>
  BY DEF TypeInv, MenuTypeOK
<1>2. Lone(c) /\ \A d \in MenuCalls : d # c => Lone(d)
  BY DEF LoneInv
<1>3. menuPc[c] # "idle" => \A d \in MenuCalls : d # c => menuPc[d] = "idle"
  BY DEF LoneInv
<1>5. ASSUME NEW s \in Seq(OverrideUpdates), NEW label \in {"check", "remove"},
             MenuArrives(c), menuPc' = [menuPc EXCEPT ![c] = label],
             todo' = [todo EXCEPT ![c] = s], asked' = [asked EXCEPT ![c] = s],
             start' = [start EXCEPT ![c] = override],
             UNCHANGED <<core, override, found>>,
             label = "check" => CategoriesFirst(s)
      PROVE  LoneInv'
  <2>1. \A d \in MenuCalls : menuPc[d] = "idle"
    BY <1>5, ArrivesAlone
  <2>2. /\ override' = override
        /\ menuPc'[c] = label /\ todo'[c] = s /\ asked'[c] = s /\ start'[c] = override
        /\ \A d \in MenuCalls : d # c => menuPc'[d] = menuPc[d]
    BY <1>1, <1>5, <2>1
  <2>3. Done(c)' = 0
    BY <2>2, LenProperties DEF Done
  <2>4. Rest(c)'
    <3>1. \A i \in DOMAIN s : i \in Nat /\ s[0 + i] = s[i]
      BY LenProperties
    <3>2. QED
      BY <2>2, <2>3, <3>1 DEF Rest
  <2>5. Left(c)'
    BY <2>2, <2>3 DEF Left, AfterFirst
  <2>6. label = "check" => Distinct(s)
    BY <1>5 DEF Distinct, CategoriesFirst
  <2>7. Lone(c)'
    BY <2>2, <2>4, <2>5, <2>6 DEF Lone, Updating
  <2>8. QED
    BY <1>2, <2>1, <2>2, <2>7, LoneStep
<1>6. ASSUME NEW s \in Requests, BulkUpdateAvailability(c, s)
      PROVE  LoneInv'
  <2>1. CategoriesFirst(s) /\ s \in Seq(OverrideUpdates)
    BY RequestsAreSequences
  <2>2. QED
    BY <1>5, <1>6, <2>1 DEF BulkUpdateAvailability, MenuGoto, menuRows
<1>7. ASSUME NEW e \in MenuEntries, FindForRemoval(c, e)
      PROVE  LoneInv'
  <2> DEFINE s == <<[entry |-> e, available |-> TRUE]>>
  <2>1. s \in Seq(OverrideUpdates)
    BY DEF OverrideUpdates
  <2> HIDE DEF s
  <2>2. /\ MenuArrives(c) /\ menuPc' = [menuPc EXCEPT ![c] = "remove"]
        /\ todo' = [todo EXCEPT ![c] = s] /\ asked' = [asked EXCEPT ![c] = s]
        /\ start' = [start EXCEPT ![c] = override]
        /\ UNCHANGED <<core, override, found>>
    BY <1>7 DEF FindForRemoval, MenuGoto, menuRows, s
  <2>3. QED
    BY <1>5, <2>1, <2>2
\* A statement that only moves the request on, or fails.
<1>8. ASSUME NEW label \in {"find", "failed"}, menuPc[c] \in Updating,
             menuPc' = [menuPc EXCEPT ![c] = label],
             UNCHANGED <<core, override, todo, found, start, asked>>
      PROVE  LoneInv'
  <2>1. menuPc'[c] = label /\ \A d \in MenuCalls : d # c => menuPc'[d] = menuPc[d]
    BY <1>1, <1>8
  <2>2. Left(c)' /\ Rest(c)' /\ Distinct(asked[c])'
    BY <1>2, <1>8 DEF Lone, Left, Rest, Done, Told
  <2>3. Lone(c)'
    BY <2>1, <2>2 DEF Lone
  <2>4. QED
    BY <1>2, <1>3, <1>8, <2>1, <2>3, LoneStep DEF Updating
<1>9. CASE CheckCore(c)
  BY <1>8, <1>9 DEF CheckCore, MenuGoto, menuRows, menuLocals, Updating
<1>10. CASE InsertRefused(c)
  BY <1>8, <1>10 DEF InsertRefused, MenuGoto, menuRows, menuLocals, Updating
<1>11. CASE FindOverride(c)
  <2>1. /\ menuPc[c] = "find" /\ menuPc' = [menuPc EXCEPT ![c] = "save"]
        /\ found' = [found EXCEPT ![c] = IsLive(override[Head(todo[c]).entry])]
        /\ UNCHANGED <<core, override, todo, start, asked>>
    BY <1>11 DEF FindOverride, MenuGoto, menuRows
  <2>2. /\ menuPc'[c] = "save" /\ \A d \in MenuCalls : d # c => menuPc'[d] = menuPc[d]
        /\ found'[c] = IsLive(override[Head(todo[c]).entry])
    BY <1>1, <2>1
  <2>3. Left(c)' /\ Rest(c)' /\ Distinct(asked[c])'
    BY <1>2, <2>1 DEF Lone, Left, Rest, Done, Told, Updating
  <2>4. Lone(c)'
    BY <2>1, <2>2, <2>3 DEF Lone
  <2>5. QED
    BY <1>2, <1>3, <2>1, <2>2, <2>4, LoneStep
<1>12. CASE SaveOverride(c)
  <2> DEFINE u == Head(todo[c])
             t == Tail(todo[c])
             s == asked[c]
             n == Done(c)
  <2>1. /\ menuPc[c] = "save"
        /\ override' = [override EXCEPT ![u.entry] = Row(u.available)]
        /\ todo' = [todo EXCEPT ![c] = t]
        /\ menuPc' = [menuPc EXCEPT ![c] = IF Len(todo[c]) = 1 THEN "done" ELSE "check"]
        /\ start' = start /\ asked' = asked
    BY <1>12 DEF SaveOverride, MenuGoto
  <2>2. todo[c] \in Seq(OverrideUpdates) /\ todo[c] # <<>>
    BY <1>1, <2>1 DEF AtUpdate
  <2>3. /\ u \in OverrideUpdates /\ u.entry \in MenuEntries /\ u.available \in BOOLEAN
        /\ 1 \in DOMAIN todo[c] /\ todo[c][1] = u
        /\ Len(t) = Len(todo[c]) - 1 /\ Len(todo[c]) \in Nat /\ Len(todo[c]) >= 1
        /\ \A j \in DOMAIN t : /\ j \in Nat /\ j + 1 \in DOMAIN todo[c]
                               /\ t[j] = todo[c][j + 1]
    <3>1. \A j \in DOMAIN t : j \in Nat
      BY <2>2, HeadTail
    <3>2. QED
      BY <2>2, <3>1, HeadTail
  <2>4. Left(c) /\ Rest(c) /\ Distinct(s)
    BY <1>2, <2>1 DEF Lone, Told, Updating
  <2>5. /\ n \in Nat /\ Len(s) \in Nat /\ n + 1 \in Nat
        /\ DOMAIN s = 1..Len(s) /\ n + 1 \in 1..Len(s)
        /\ n + 1 = Len(s) - Len(t)
        /\ s[n + 1] = u
        /\ \A i \in DOMAIN todo[c] : todo[c][i] = s[n + i]
    <3>1. s \in Seq(OverrideUpdates) /\ Len(s) \in Nat /\ DOMAIN s = 1..Len(s)
      BY <1>1, LenProperties
    <3>2. /\ n \in Nat /\ n = Len(s) - Len(todo[c])
          /\ \A i \in DOMAIN todo[c] : todo[c][i] = s[n + i]
      BY <2>4 DEF Rest, Done
    <3>3. s[n + 1] = u
      BY <2>3, <3>2
    <3>4. Len(t) = Len(todo[c]) - 1 /\ Len(todo[c]) \in Nat /\ Len(todo[c]) >= 1
      BY <2>3
    <3> HIDE DEF s, n, t, u
    <3>5. n \in Nat /\ n = Len(s) - Len(todo[c]) /\ Len(s) \in Nat
      BY <3>1, <3>2
    <3>6. n + 1 \in Nat /\ n + 1 \in 1..Len(s) /\ n + 1 = Len(s) - Len(t)
      BY <3>4, <3>5
    <3>7. QED
      BY <3>1, <3>2, <3>3, <3>5, <3>6
  <2>6. /\ todo'[c] = t /\ asked'[c] = s /\ menuPc'[c] \in {"done", "check"}
        /\ \A d \in MenuCalls : d # c => menuPc'[d] = menuPc[d]
        /\ \A e \in MenuEntries : override'[e] = IF e = u.entry THEN Row(u.available)
                                                                ELSE override[e]
    BY <1>1, <2>1
  <2>7. Done(c)' = n + 1
    BY <2>5, <2>6 DEF Done
  <2>8. \A i \in 1..n : s[i].entry # u.entry
    <3>1. ASSUME NEW i \in 1..n
          PROVE  s[i].entry # s[n + 1].entry
      <4> HIDE DEF s, n
      <4>1. i \in 1..Len(s) /\ n + 1 \in 1..Len(s) /\ i < n + 1
        BY <2>5
      <4>2. QED
        BY <2>4, <2>5, <4>1 DEF Distinct
    <3>2. QED
      BY <2>5, <3>1
  <2> HIDE DEF u, t, s, n
  <2>9. \A i : i \in 1..(n + 1) <=> i \in 1..n \/ i = n + 1
    BY <2>5
  <2>10. ASSUME NEW e \in MenuEntries
         PROVE  override'[e] = AfterFirst(n + 1, s, start[c][e], e)
    <3>1. CASE e = u.entry
      <4>1. \E i \in 1..(n + 1) : s[i].entry = e
        BY <2>5, <2>9, <3>1
      <4>2. (\E i \in 1..(n + 1) : s[i] = [entry |-> e, available |-> TRUE])
              <=> u.available
        <5>1. u.available => u = [entry |-> e, available |-> TRUE]
          BY <2>3, <3>1 DEF OverrideUpdates
        <5>2. u = [entry |-> e, available |-> TRUE] => u.available
          OBVIOUS
        <5>3. \A i \in 1..n : s[i] # [entry |-> e, available |-> TRUE]
          BY <2>8, <3>1
        <5>4. QED
          BY <2>5, <2>9, <5>1, <5>2, <5>3
      <4>3. QED
        BY <2>6, <3>1, <4>1, <4>2 DEF AfterFirst, Row
    <3>2. CASE e # u.entry
      <4>1. (\E i \in 1..(n + 1) : s[i].entry = e) <=> (\E i \in 1..n : s[i].entry = e)
        BY <2>5, <2>9, <3>2
      <4>2. u # [entry |-> e, available |-> TRUE]
        BY <3>2
      <4>3. (\E i \in 1..(n + 1) : s[i] = [entry |-> e, available |-> TRUE])
              <=> (\E i \in 1..n : s[i] = [entry |-> e, available |-> TRUE])
        BY <2>5, <2>9, <4>2
      <4>4. override'[e] = override[e]
        BY <2>6, <3>2
      <4>5. override[e] = AfterFirst(n, s, start[c][e], e)
        BY <2>4 DEF Left, s, n
      <4>6. QED
        BY <4>1, <4>3, <4>4, <4>5 DEF AfterFirst, Row
    <3>3. QED
      BY <3>1, <3>2
  <2>11. Left(c)'
    BY <2>1, <2>6, <2>7, <2>10 DEF Left
  <2>12. Rest(c)'
    <3>1. ASSUME NEW i \in DOMAIN t
          PROVE  t[i] = s[(n + 1) + i]
      <4>1. i \in Nat /\ i + 1 \in DOMAIN todo[c] /\ t[i] = todo[c][i + 1]
        BY <2>3
      <4>2. todo[c][i + 1] = s[n + (i + 1)]
        BY <2>5, <4>1, Zenon
      <4>3. n + (i + 1) = (n + 1) + i
        <5>1. n \in Nat /\ i \in Nat
          BY <2>5, <4>1
        <5>2. QED
          BY <5>1
      <4>4. QED
        BY <4>1, <4>2, <4>3, Zenon
    <3>2. n + 1 \in Nat
      BY <2>5
    <3>3. QED
      BY <2>6, <2>7, <3>1, <3>2 DEF Rest
  <2>13. Lone(c)'
    BY <2>4, <2>6, <2>11, <2>12 DEF Lone
  <2>14. QED
    BY <1>2, <1>3, <2>1, <2>6, <2>13, LoneStep
<1>13. ASSUME NEW label \in {"idle", "removed"}, menuPc[c] # "idle",
              menuPc' = [menuPc EXCEPT ![c] = label]
       PROVE  LoneInv'
  <2>1. menuPc'[c] = label /\ \A d \in MenuCalls : d # c => menuPc'[d] = menuPc[d]
    BY <1>1, <1>13
  <2>2. Lone(c)'
    BY <1>13, <2>1 DEF Lone, Told, Updating
  <2>3. QED
    BY <1>2, <1>3, <1>13, <2>1, <2>2, LoneStep
<1>14. CASE End(c)
  BY <1>13, <1>14 DEF End, MenuReturn, MenuGoto
<1>15. CASE RemoveOverride(c)
  BY <1>13, <1>15 DEF RemoveOverride, MenuGoto
<1>16. QED
  BY <1>6, <1>7, <1>9, <1>10, <1>11, <1>12, <1>14, <1>15

\* So does every step,
LEMMA LoneNext ==
    ASSUME IsFiniteSet(MenuCalls), MenuAssumption, MaxMenuCalls <= 1,
           TypeInv, LoneInv, [MenuNext]_menuVars
    PROVE  LoneInv'
<1>1. CASE (\E e \in MenuEntries : EditCore(e)) \/ UNCHANGED menuVars
  <2>1. UNCHANGED <<override, menuPc, todo, found, start, asked>>
    BY <1>1 DEF EditCore, menuVars, menuRows, menuLocals
  <2>2. QED
    BY <2>1 DEF LoneInv, Lone, Left, Rest, Done
<1>2. QED
  BY <1>1, CallStep DEF MenuNext

\* and it holds in the beginning.
LEMMA LoneInit ==
    ASSUME MenuInit
    PROVE  LoneInv
BY DEF MenuInit, LoneInv, Lone, Told, Updating

\* A bulk update on its own, of any length: wherever it is and where it
\* fails, what is left to do is the end of the request, and the overrides are
\* those it found but for the updates before (bulkUpdateAvailability).  Nothing
\* of it is skipped, and nothing undone.
THEOREM BulkGoesInOrder ==
    ASSUME IsFiniteSet(MenuCalls), MenuAssumption, MaxMenuCalls <= 1
    PROVE  MenuSpec => []BulkInOrder
<1>1. MenuInit => TypeInv /\ LoneInv
  BY InitTypes, LoneInit
<1>2. TypeInv /\ LoneInv /\ [MenuNext]_menuVars => TypeInv' /\ LoneInv'
  BY TypesStep, LoneNext
<1>3. TypeInv /\ LoneInv => BulkInOrder
  <2> SUFFICES ASSUME TypeInv, LoneInv, NEW c \in MenuCalls,
                      menuPc[c] \notin {"idle", "removed"}
               PROVE  /\ Done(c) >= 0
                      /\ \A i \in DOMAIN todo[c] : todo[c][i] = asked[c][Done(c) + i]
                      /\ \A e \in MenuEntries :
                            override[e] = AfterFirst(Done(c), asked[c], start[c][e], e)
    BY Zenon DEF BulkInOrder, Done
  <2>1. menuPc[c] \in Told
    BY DEF TypeInv, MenuTypeOK, MenuLabels, Told, Updating
  <2>2. Left(c) /\ Rest(c)
    BY <2>1 DEF LoneInv, Lone
  <2>3. QED
    BY <2>2 DEF Left, Rest
<1>4. QED
  BY <1>1, <1>2, <1>3, PTL DEF MenuSpec

\* On its own, an update the database refuses is one of an override that was
\* removed: the row is soft deleted and still has the unique key.
THEOREM OnlyRemovedAreRefused ==
    ASSUME IsFiniteSet(MenuCalls), MenuAssumption, MaxMenuCalls <= 1
    PROVE  MenuSpec => RefusedWasRemoved
<1>1. MenuInit => TypeInv /\ LoneInv
  BY InitTypes, LoneInit
<1>2. TypeInv /\ LoneInv /\ [MenuNext]_menuVars => TypeInv' /\ LoneInv'
  BY TypesStep, LoneNext
<1>3. TypeInv /\ LoneInv /\ [MenuNext]_menuVars =>
        [\A c \in MenuCalls : Fails(c) => override[Head(todo[c]).entry] = "removed"]_menuVars
  <2> SUFFICES ASSUME TypeInv, LoneInv, MenuNext, NEW c \in MenuCalls, Fails(c)
               PROVE  override[Head(todo[c]).entry] = "removed"
    BY DEF Fails
  <2>1. InsertRefused(c)
    BY DEF MenuNext, Fails, TypeInv, MenuTypeOK, MenuGoto, MenuReturn, MenuArrives,
       BulkUpdateAvailability, CheckCore, FindOverride, SaveOverride, InsertRefused,
       End, FindForRemoval, RemoveOverride, EditCore
  <2>2. /\ menuPc[c] = "save" /\ ~found[c] /\ override[Head(todo[c]).entry] # "none"
    BY <2>1 DEF InsertRefused
  <2>3. ~IsLive(override[Head(todo[c]).entry])
    BY <2>2 DEF LoneInv, Lone
  <2>4. Head(todo[c]).entry \in MenuEntries
    BY <2>2, HeadTail DEF TypeInv, MenuTypeOK, AtUpdate
  <2>5. override[Head(todo[c]).entry] \in OverrideRows
    BY <2>4 DEF TypeInv, MenuTypeOK
  <2>6. QED
    BY <2>2, <2>3, <2>5 DEF IsLive, OverrideRows
<1>4. QED
  BY <1>1, <1>2, <1>3, PTL DEF MenuSpec, RefusedWasRemoved

-----------------------------------------------------------------------------
(* Sorting a finite set.                                                   *)

\* A non-empty family of subsets of a finite set has a least member.
LEMMA LeastSubset ==
    ASSUME NEW S, IsFiniteSet(S), NEW Family, Family \subseteq SUBSET S, Family # {}
    PROVE  \E s \in Family : \A t \in Family : ~(t \subseteq s /\ t # s)
<1>1. IsWellFoundedOn(StrictSubsetOrdering(S), SUBSET S)
  BY FS_StrictSubsetOrderingWellFounded, FS_FiniteSubsetsOfFinite
<1>2. PICK s \in Family : \A t \in Family : ~(<<t, s>> \in StrictSubsetOrdering(S))
  BY <1>1, WFMin
<1>3. QED
  BY <1>2 DEF StrictSubsetOrdering

IsStrictOrder(R, S) ==
    /\ \A x \in S : <<x, x>> \notin R
    /\ \A x, y, z \in S : <<x, y>> \in R /\ <<y, z>> \in R => <<x, z>> \in R
    /\ \A x, y \in S : x = y \/ <<x, y>> \in R \/ <<y, x>> \in R

\* A finite ordered set has a last element.
LEMMA LastExists ==
    ASSUME NEW S, IsFiniteSet(S), S # {}, NEW R, IsStrictOrder(R, S)
    PROVE  \E x \in S : \A y \in S : y # x => <<y, x>> \in R
<1> DEFINE Beyond(x) == {y \in S : <<x, y>> \in R}
           Family == {Beyond(x) : x \in S}
<1>1. PICK B \in Family : \A C \in Family : ~(C \subseteq B /\ C # B)
  <2>1. Family \subseteq SUBSET S /\ Family # {}
    OBVIOUS
  <2> HIDE DEF Family
  <2>2. QED
    BY <2>1, LeastSubset
<1>2. PICK x \in S : B = Beyond(x)
  BY <1>1
<1>3. ASSUME NEW y \in S, <<x, y>> \in R
      PROVE  FALSE
  <2>1. Beyond(y) \subseteq Beyond(x)
    BY <1>3 DEF IsStrictOrder
  <2>2. y \in Beyond(x) /\ y \notin Beyond(y)
    BY <1>3 DEF IsStrictOrder
  <2>3. Beyond(y) \in Family /\ Beyond(y) # B
    BY <1>2, <2>2
  <2>4. QED
    BY <1>1, <1>2, <2>1, <2>3
<1>4. \A y \in S : y # x => <<y, x>> \in R
  BY <1>3 DEF IsStrictOrder
<1>5. QED
  BY <1>4

Sorted(t, R) == \A i, j \in DOMAIN t : i < j => <<t[i], t[j]>> \in R

\* Its elements can be put into a sequence in that order.
LEMMA SortedExists ==
    ASSUME NEW S, IsFiniteSet(S), NEW R, IsStrictOrder(R, S)
    PROVE  \E t \in SetToSeqs(S) : Sorted(t, R)
<1> DEFINE Family == {T \in SUBSET S : ~ \E t \in SetToSeqs(T) : Sorted(t, R)}
<1>1. SUFFICES ASSUME Family # {} PROVE FALSE
  OBVIOUS
<1>2. PICK T \in Family : \A U \in Family : ~(U \subseteq T /\ U # T)
  <2>1. Family \subseteq SUBSET S
    OBVIOUS
  <2> HIDE DEF Family
  <2>2. QED
    BY <1>1, <2>1, LeastSubset
<1>3. IsFiniteSet(T) /\ Cardinality(T) \in Nat
  BY <1>2, FS_Subset, FS_CardinalityType
<1>4. CASE T = {}
  <2>1. Cardinality({}) = 0
    BY FS_EmptySet
  <2>2. [i \in 1..0 |-> {}] \in SetToSeqs({})
    BY <2>1 DEF SetToSeqs
  <2>3. Sorted([i \in 1..0 |-> {}], R)
    BY DEF Sorted
  <2>4. QED
    BY <1>2, <1>4, <2>2, <2>3
<1>5. CASE T # {}
  <2>1. PICK x \in T : \A y \in T : y # x => <<y, x>> \in R
    <3>1. IsStrictOrder(R, T)
      BY <1>2 DEF IsStrictOrder
    <3>2. QED
      BY <1>3, <1>5, <3>1, LastExists
  <2> DEFINE n == Cardinality(T)
             U == T \ {x}
  <2>2. Cardinality(U) = n - 1 /\ n \in Nat /\ n >= 1
    <3>1. Cardinality(U) = n - 1 /\ IsFiniteSet(U)
      BY <1>3, <2>1, FS_RemoveElement
    <3>2. Cardinality(U) \in Nat
      BY <3>1, FS_CardinalityType
    <3>3. QED
      BY <1>3, <3>1, <3>2
  <2>3. PICK t \in SetToSeqs(U) : Sorted(t, R)
    <3>1. U \in SUBSET S /\ U \subseteq T /\ U # T
      BY <1>2
    <3>2. U \notin Family
      BY <1>2, <3>1
    <3>3. QED
      BY <3>1, <3>2
  <2>4. /\ t \in [1..(n - 1) -> U]
        /\ \A i, j \in 1..(n - 1) : i # j => t[i] # t[j]
    BY <2>2 DEF SetToSeqs
  <2> DEFINE v == [i \in 1..n |-> IF i = n THEN x ELSE t[i]]
  <2> HIDE DEF n
  <2>5. \A i \in 1..n : i = n \/ i \in 1..(n - 1)
    BY <2>2
  <2>6. v \in [1..n -> T]
    BY <2>4, <2>5
  <2>7. \A i, j \in 1..n : i # j => v[i] # v[j]
    BY <2>4, <2>5
  <2>8. v \in SetToSeqs(T)
    BY <2>6, <2>7 DEF SetToSeqs, n
  <2>9. Sorted(v, R)
    <3> SUFFICES ASSUME NEW i \in 1..n, NEW j \in 1..n, i < j
                 PROVE  <<v[i], v[j]>> \in R
      BY DEF Sorted
    <3>1. i \in 1..(n - 1) /\ v[i] = t[i] /\ t[i] \in U
      BY <2>2, <2>4
    <3>2. CASE j = n
      BY <2>1, <3>1, <3>2
    <3>3. CASE j # n
      <4>1. j \in 1..(n - 1) /\ v[j] = t[j]
        BY <2>5, <3>3
      <4>2. QED
        BY <2>3, <2>4, <3>1, <4>1 DEF Sorted
    <3>4. QED
      BY <3>2, <3>3
  <2>10. QED
    BY <1>2, <2>8, <2>9
<1>6. QED
  BY <1>4, <1>5

\* Such a sequence leaves no element out.
LEMMA SeqsCover ==
    ASSUME NEW S, IsFiniteSet(S), NEW t \in SetToSeqs(S)
    PROVE  /\ Cardinality(S) \in Nat /\ DOMAIN t = 1..Cardinality(S)
           /\ t \in [1..Cardinality(S) -> S]
           /\ \A i, j \in DOMAIN t : t[i] = t[j] => i = j
           /\ \A x \in S : \E i \in DOMAIN t : t[i] = x
<1> DEFINE D == 1..Cardinality(S)
<1>1. Cardinality(S) \in Nat
  BY FS_CardinalityType
<1>2. t \in [D -> S] /\ \A i, j \in D : i # j => t[i] # t[j]
  BY DEF SetToSeqs
<1>3. IsFiniteSet(D) /\ Cardinality(D) = Cardinality(S)
  BY <1>1, FS_Interval
<1>4. t \in Injection(D, S)
  BY <1>2 DEF Injection, IsInjective
<1>5. t \in Surjection(D, S)
  BY <1>3, <1>4, FS_Injection
<1>6. \A x \in S : \E i \in D : t[i] = x
  BY <1>5 DEF Surjection
<1>7. QED
  BY <1>1, <1>2, <1>6

-----------------------------------------------------------------------------
(* Type correctness.                                                       *)

\* A zone that exists has the columns of the entity.
LEMMA RowsOfZones ==
    ASSUME RoutingTypeOK
    PROVE  /\ Existing \subseteq Zones
           /\ \A z \in Existing : zones[z] \in Zone
           /\ \A z \in Zones \ Existing : zones[z] = NoZone
<1>1. NoZone.exists = FALSE
  BY DEF NoZone
<1>2. \A row \in Zone : row.exists = TRUE
  BY DEF Zone
<1>3. QED
  BY <1>1, <1>2 DEF RoutingTypeOK, Existing

\* What an administrator makes of a zone has the columns of the entity.
LEMMA ZoneTypes ==
    ASSUME RoutingTypeOK, NEW z \in Zones,
           \/ CreateZone(z) \/ UpdatePolygon(z) \/ UpdateZone(z)
           \/ ToggleZone(z) \/ RemoveZone(z)
    PROVE  RoutingTypeOK'
<1>1. zones \in [Zones -> Zone \cup {NoZone}] /\ branches' = branches
  BY DEF RoutingTypeOK, CreateZone, UpdatePolygon, UpdateZone, ToggleZone, RemoveZone
<1>2. PICK row \in Zone \cup {NoZone} : zones' = [zones EXCEPT ![z] = row]
  <2>1. CASE CreateZone(z)
    BY <2>1 DEF CreateZone
  <2>2. CASE RemoveZone(z)
    BY <2>2 DEF RemoveZone
  <2>3. CASE UpdatePolygon(z)
    <3>1. PICK ring \in Polygons, b \in Outlets :
            zones' = [zones EXCEPT ![z].polygon = ring, ![z].branch = b]
      BY <2>3 DEF UpdatePolygon
    <3>2. [zones[z] EXCEPT !.polygon = ring, !.branch = b] \in Zone
      BY <2>3, RowsOfZones DEF UpdatePolygon, Zone
    <3>3. zones' = [zones EXCEPT ![z] = [zones[z] EXCEPT !.polygon = ring, !.branch = b]]
      BY <1>1, <3>1
    <3>4. QED
      BY <3>2, <3>3
  <2>4. CASE UpdateZone(z)
    <3>1. zones[z] \in Zone
      BY <2>4, RowsOfZones DEF UpdateZone
    <3>2. CASE \E c \in Circles : zones' = [zones EXCEPT ![z].circle = c]
      BY <1>1, <3>1, <3>2 DEF Zone
    <3>3. CASE \E n \in Priorities : zones' = [zones EXCEPT ![z].priority = n]
      BY <1>1, <3>1, <3>3 DEF Zone
    <3>4. CASE \E n \in Fees : zones' = [zones EXCEPT ![z].fee = n]
      BY <1>1, <3>1, <3>4 DEF Zone
    <3>5. CASE \E v \in BOOLEAN : zones' = [zones EXCEPT ![z].active = v]
      BY <1>1, <3>1, <3>5 DEF Zone
    <3>6. QED
      BY <2>4, <3>2, <3>3, <3>4, <3>5 DEF UpdateZone
  <2>5. CASE ToggleZone(z)
    <3>1. zones[z] \in Zone /\ zones' = [zones EXCEPT ![z].active = ~@]
      BY <2>5, RowsOfZones DEF ToggleZone
    <3>2. [zones[z] EXCEPT !.active = ~@] \in Zone
      BY <3>1 DEF Zone
    <3>3. zones' = [zones EXCEPT ![z] = [zones[z] EXCEPT !.active = ~@]]
      BY <1>1, <3>1
    <3>4. QED
      BY <3>2, <3>3
  <2>6. QED
    BY <2>1, <2>2, <2>3, <2>4, <2>5
<1>3. QED
  BY <1>1, <1>2 DEF RoutingTypeOK

\* Every step keeps the columns.
LEMMA RoutingTypesStep == RoutingTypeOK /\ [RoutingNext]_routingVars => RoutingTypeOK'
<1> SUFFICES ASSUME RoutingTypeOK, [RoutingNext]_routingVars PROVE RoutingTypeOK'
  OBVIOUS
<1>1. CASE UNCHANGED routingVars
  BY <1>1 DEF routingVars, RoutingTypeOK
<1>2. ASSUME NEW b \in Outlets, ToggleBranch(b)
      PROVE  RoutingTypeOK'
  <2>1. branches[b] \in [isActive : BOOLEAN, isOpen : BOOLEAN]
    BY DEF RoutingTypeOK
  <2>2. CASE branches' = [branches EXCEPT ![b].isActive = ~@]
    <3>1. branches' = [branches EXCEPT ![b] = [branches[b] EXCEPT !.isActive = ~branches[b].isActive]]
      BY <2>2
    <3>2. [branches[b] EXCEPT !.isActive = ~branches[b].isActive] \in [isActive : BOOLEAN, isOpen : BOOLEAN]
      BY <2>1
    <3>3. QED
      BY <1>2, <3>1, <3>2 DEF ToggleBranch, RoutingTypeOK
  <2>3. CASE branches' = [branches EXCEPT ![b].isOpen = ~@]
    <3>1. branches' = [branches EXCEPT ![b] = [branches[b] EXCEPT !.isOpen = ~branches[b].isOpen]]
      BY <2>3
    <3>2. [branches[b] EXCEPT !.isOpen = ~branches[b].isOpen] \in [isActive : BOOLEAN, isOpen : BOOLEAN]
      BY <2>1
    <3>3. QED
      BY <1>2, <3>1, <3>2 DEF ToggleBranch, RoutingTypeOK
  <2>4. QED
    BY <1>2, <2>2, <2>3 DEF ToggleBranch
<1>3. QED
  BY <1>1, <1>2, ZoneTypes DEF RoutingNext

\* Zones and branches keep their columns, whatever administrators do.
THEOREM RoutingTypes == RoutingSpec => []RoutingTypeOK
<1>1. RoutingInit => RoutingTypeOK
  BY DEF RoutingInit, RoutingTypeOK
<1>2. QED
  BY <1>1, RoutingTypesStep, PTL DEF RoutingSpec

-----------------------------------------------------------------------------
(* The best branch.                                                        *)

\* What zones are compared by are numbers.
LEMMA DistancesAreNumbers ==
    ASSUME RoutingAssumption, RoutingTypeOK, NEW p \in Points, NEW z \in Existing
    PROVE  /\ DistanceTo(p, z) \in Int /\ zones[z].priority \in Nat
           /\ zones[z].branch \in Outlets /\ zones[z].priority \in Priorities
<1>1. zones[z].branch \in Outlets /\ zones[z].priority \in Priorities
  BY RowsOfZones DEF Zone
<1>2. Position[zones[z].branch] \in Points
  BY <1>1 DEF RoutingAssumption
<1>3. \A q \in Points : q[1] \in Int /\ q[2] \in Int
  BY DEF Points, RoutingAssumption
<1>4. \A a, b \in Int : (a - b) * (a - b) \in Int
  OBVIOUS
<1>5. DistanceTo(p, z) \in Int
  BY <1>2, <1>3, <1>4 DEF DistanceTo, Distance
<1>6. QED
  BY <1>1, <1>5 DEF RoutingAssumption

\* Whatever the database returns among equals, the sort has one result: no
\* two matching zones are alike to it.
LEMMA BeforeIsOrder ==
    ASSUME RoutingAssumption, RoutingTypeOK, NEW p \in Points, NEW s \in Fetched
    PROVE  IsStrictOrder({o \in Matching(p) \X Matching(p) : Before(p, s, o[1], o[2])},
                         Matching(p))
<1> DEFINE M == Matching(p)
           Later(y, z) == \E i, j \in DOMAIN s : i < j /\ s[i] = y /\ s[j] = z
<1>1. /\ \A i, j \in DOMAIN s : s[i] = s[j] => i = j
      /\ \A z \in M : \E i \in DOMAIN s : s[i] = z
      /\ DOMAIN s \subseteq Int
  <2> DEFINE A == {z \in Existing : zones[z].active}
  <2>1. IsFiniteSet(A)
    BY FS_Subset DEF RoutingAssumption, Existing
  <2>2. s \in SetToSeqs(A) /\ M \subseteq A
    BY DEF Fetched, Matching
  <2> HIDE DEF A
  <2>3. QED
    BY <2>1, <2>2, SeqsCover
<1>2. /\ \A z \in M : ~Later(z, z)
      /\ \A x, y, z \in M : Later(x, y) /\ Later(y, z) => Later(x, z)
      /\ \A y, z \in M : y = z \/ Later(y, z) \/ Later(z, y)
  <2>1. \A z \in M : ~Later(z, z)
    BY <1>1
  <2>2. ASSUME NEW x \in M, NEW y \in M, NEW z \in M, Later(x, y), Later(y, z)
        PROVE  Later(x, z)
    BY <1>1, <2>2
  <2>3. ASSUME NEW y \in M, NEW z \in M, y # z
        PROVE  Later(y, z) \/ Later(z, y)
    <3>1. PICK i \in DOMAIN s, j \in DOMAIN s : s[i] = y /\ s[j] = z
      BY <1>1
    <3>2. i < j \/ j < i
      BY <1>1, <2>3, <3>1
    <3>3. QED
      BY <3>1, <3>2
  <2>4. QED
    BY <2>1, <2>2, <2>3
<1>3. \A z \in M : DistanceTo(p, z) \in Int /\ zones[z].priority \in Nat
  BY DistancesAreNumbers DEF Matching
<1>4. \A y, z : Before(p, s, y, z) <=>
        \/ zones[y].priority > zones[z].priority
        \/ /\ zones[y].priority = zones[z].priority
           /\ \/ DistanceTo(p, y) < DistanceTo(p, z)
              \/ DistanceTo(p, y) = DistanceTo(p, z) /\ Later(y, z)
  BY DEF Before
<1> HIDE DEF M, Later
<1>5. \A z \in M : ~Before(p, s, z, z)
  BY <1>2, <1>3, <1>4
<1>6. ASSUME NEW x \in M, NEW y \in M, NEW z \in M, Before(p, s, x, y), Before(p, s, y, z)
      PROVE  Before(p, s, x, z)
  BY <1>2, <1>3, <1>4, <1>6
<1>7. ASSUME NEW y \in M, NEW z \in M, y # z
      PROVE  Before(p, s, y, z) \/ Before(p, s, z, y)
  BY <1>2, <1>3, <1>4, <1>7
<1>8. QED
  BY <1>5, <1>6, <1>7 DEF IsStrictOrder, M

\* The matching branches are all the matching zones, in that order.
LEMMA MatchingIsSorted ==
    ASSUME RoutingAssumption, RoutingTypeOK, NEW p \in Points, NEW s \in Fetched
    PROVE  LET t == MatchingBranches(p, s) IN
           /\ IsFiniteSet(Matching(p)) /\ t \in SetToSeqs(Matching(p))
           /\ \A i, j \in DOMAIN t : i < j => Before(p, s, t[i], t[j])
<1> DEFINE R == {o \in Matching(p) \X Matching(p) : Before(p, s, o[1], o[2])}
<1>1. IsFiniteSet(Matching(p))
  BY FS_Subset DEF RoutingAssumption, Existing, Matching
<1>2. IsStrictOrder(R, Matching(p))
  BY BeforeIsOrder
<1>3. \A y, z : <<y, z>> \in R => Before(p, s, y, z)
  OBVIOUS
<1> HIDE DEF R
<1>4. PICK t \in SetToSeqs(Matching(p)) : Sorted(t, R)
  BY <1>1, <1>2, SortedExists
<1>5. \A i, j \in DOMAIN t : i < j => Before(p, s, t[i], t[j])
  BY <1>3, <1>4 DEF Sorted
<1>6. QED
  BY <1>1, <1>5 DEF MatchingBranches

\* The first of the sorted zones is that of the best branch.
LEMMA BestIsFirst ==
    ASSUME RoutingAssumption, RoutingTypeOK
    PROVE  RoutedToTheBest
<1> SUFFICES ASSUME NEW p \in Locations, NEW s \in Fetched
             PROVE  LET route == RouteOrder(p, s)
                        Offers == {o \in Outlets \X Priorities :
                                     Serves(o[1], p, o[2], Distance(p, Position[o[1]]))}
                    IN IF route.canDeliver
                       THEN \E n \in Priorities :
                              /\ <<route.branch, n>> \in Offers
                              /\ \A o \in Offers :
                                   \/ o[2] < n
                                   \/ /\ o[2] = n
                                      /\ Distance(p, Position[o[1]])
                                            >= Distance(p, Position[route.branch])
                       ELSE Offers = {}
  BY DEF RoutedToTheBest
<1> DEFINE route == RouteOrder(p, s)
           Offers == {o \in Outlets \X Priorities :
                        Serves(o[1], p, o[2], Distance(p, Position[o[1]]))}
           t == MatchingBranches(p, s)
           M == Matching(p)
<1>1. p \in Points
  BY DEF RoutingAssumption
<1>2. /\ Cardinality(M) \in Nat /\ DOMAIN t = 1..Cardinality(M)
      /\ t \in [1..Cardinality(M) -> M]
      /\ \A z \in M : \E i \in DOMAIN t : t[i] = z
      /\ \A i, j \in DOMAIN t : i < j => Before(p, s, t[i], t[j])
  BY <1>1, MatchingIsSorted, SeqsCover
<1>3. ASSUME NEW o \in Offers
      PROVE  \E z \in M : /\ zones[z].branch = o[1] /\ zones[z].priority = o[2]
                          /\ DistanceTo(p, z) = Distance(p, Position[o[1]])
  BY <1>3 DEF Serves, Matching, Takes, DistanceTo
<1>4. CASE M = {}
  <2>1. Offers = {}
    BY <1>3, <1>4
  <2>2. t = <<>>
    <3>1. Cardinality(M) = 0
      BY <1>4, FS_EmptySet
    <3>2. QED
      BY <1>2, <3>1
  <2>3. ~route.canDeliver
    BY <2>2 DEF RouteOrder, NoRoute
  <2>4. QED
    BY <2>1, <2>3
<1>5. CASE M # {}
  <2>1. 1 \in DOMAIN t /\ t[1] \in M /\ t # <<>>
    <3>1. PICK i \in DOMAIN t : TRUE
      BY <1>2, <1>5
    <3>2. 1 \in DOMAIN t
      BY <1>2, <3>1
    <3>3. QED
      BY <1>2, <3>2
  <2> DEFINE best == t[1]
             n == zones[best].priority
  <2>2. route.canDeliver /\ route.branch = zones[best].branch
    BY <2>1 DEF RouteOrder
  <2>3. ASSUME NEW z \in M
        PROVE  z = best \/ Before(p, s, best, z)
    <3>1. PICK i \in DOMAIN t : t[i] = z
      BY <1>2
    <3>2. i = 1 \/ 1 < i
      BY <1>2
    <3>3. QED
      BY <1>2, <2>1, <3>1, <3>2
  <2>4. \A z \in M : /\ DistanceTo(p, z) \in Int /\ zones[z].priority \in Nat
                     /\ zones[z].branch \in Outlets /\ zones[z].priority \in Priorities
    BY <1>1, DistancesAreNumbers DEF Matching
  <2>5. <<route.branch, n>> \in Offers /\ n \in Priorities
    <3>1. Serves(zones[best].branch, p, n, Distance(p, Position[zones[best].branch]))
      BY <2>1 DEF Serves, Matching, Takes
    <3>2. QED
      BY <2>1, <2>2, <2>4, <3>1
  <2>6. ASSUME NEW o \in Offers
        PROVE  \/ o[2] < n
               \/ /\ o[2] = n
                  /\ Distance(p, Position[o[1]]) >= Distance(p, Position[route.branch])
    <3>1. PICK z \in M : /\ zones[z].branch = o[1] /\ zones[z].priority = o[2]
                         /\ DistanceTo(p, z) = Distance(p, Position[o[1]])
      BY <1>3
    <3>2. DistanceTo(p, best) = Distance(p, Position[route.branch])
      BY <2>2 DEF DistanceTo
    <3>3. \/ zones[z].priority < n
          \/ zones[z].priority = n /\ DistanceTo(p, z) >= DistanceTo(p, best)
      <4>1. CASE z = best
        BY <2>1, <2>4, <4>1
      <4>2. CASE Before(p, s, best, z)
        BY <2>1, <2>4, <4>2 DEF Before
      <4>3. QED
        BY <2>3, <4>1, <4>2
    <3>4. QED
      BY <3>1, <3>2, <3>3
  <2>7. QED
    BY <2>2, <2>5, <2>6
<1>6. QED
  BY <1>4, <1>5

\* For any zones and branches, whatever administrators have made of them, and
\* in whatever order the database returns equals: an order goes to a branch
\* that takes orders and serves the location, the nearest of the highest
\* priority, and nowhere only if there is none (routeOrder).
THEOREM OrdersGoToTheBest ==
    ASSUME RoutingAssumption
    PROVE  RoutingSpec => []RoutedToTheBest
<1>1. RoutingTypeOK => RoutedToTheBest
  BY BestIsFirst
<1>2. QED
  BY <1>1, RoutingTypes, PTL

-----------------------------------------------------------------------------
(* Borders.                                                                *)

\* Crossings and zones as they would be without rounding.
CrossesExactly(p, a, b) ==
    /\ Reaches(p, a, b)
    /\ IF Height(a, b) > 0 THEN Cross(p, a, b) > 0 ELSE Cross(p, a, b) < 0

IsInExactly(p, ring) ==
    Cardinality({i \in DOMAIN ring :
        CrossesExactly(p, ring[i], PreviousPoint(ring, i))}) % 2 = 1

\* Off the slanted edges of a ring nothing is rounded.
LEMMA RoundingOnSlants ==
    ASSUME NEW p, NEW ring, ~OnSlantOf(p, ring)
    PROVE  PointInPolygon(p, ring) <=> IsInExactly(p, ring)
<1>1. \A i \in DOMAIN ring :
        Crosses(p, ring[i], PreviousPoint(ring, i))
          <=> CrossesExactly(p, ring[i], PreviousPoint(ring, i))
  <2> SUFFICES ASSUME NEW i \in DOMAIN ring
               PROVE  Crosses(p, ring[i], PreviousPoint(ring, i))
                        <=> CrossesExactly(p, ring[i], PreviousPoint(ring, i))
    OBVIOUS
  <2>1. ~OnSlanted(p, ring[i], PreviousPoint(ring, i))
    BY DEF OnSlantOf
  <2>2. QED
    BY <2>1 DEF Crosses, CrossesExactly
<1>2. {i \in DOMAIN ring : Crosses(p, ring[i], PreviousPoint(ring, i))}
        = {i \in DOMAIN ring : CrossesExactly(p, ring[i], PreviousPoint(ring, i))}
  BY <1>1
<1>3. QED
  BY <1>2 DEF PointInPolygon, IsInExactly

\* Without rounding a border has one side: the ray from a point crosses an edge
\* seen from one zone exactly if it crosses it seen from the neighbour, which
\* lists the same corners the other way round (pointInPolygon).
THEOREM EdgeHasOneSide ==
    ASSUME NEW p \in Int \X Int, NEW a \in Int \X Int, NEW b \in Int \X Int
    PROVE  CrossesExactly(p, a, b) <=> CrossesExactly(p, b, a)
<1> DEFINE cross(x, y) == (y[1] - x[1]) * (p[2] - x[2]) - (p[1] - x[1]) * (y[2] - x[2])
<1>1. /\ p[1] \in Int /\ p[2] \in Int /\ a[1] \in Int /\ a[2] \in Int
      /\ b[1] \in Int /\ b[2] \in Int
  OBVIOUS
<1>2. cross(a, b) \in Int /\ cross(b, a) \in Int /\ cross(b, a) = -cross(a, b)
  BY <1>1
<1>3. /\ CrossesExactly(p, a, b) <=> /\ (a[2] > p[2]) # (b[2] > p[2])
                              /\ IF b[2] - a[2] > 0 THEN cross(a, b) > 0 ELSE cross(a, b) < 0
      /\ CrossesExactly(p, b, a) <=> /\ (b[2] > p[2]) # (a[2] > p[2])
                              /\ IF a[2] - b[2] > 0 THEN cross(b, a) > 0 ELSE cross(b, a) < 0
  BY DEF CrossesExactly, Reaches, Height, Cross
<1> HIDE DEF cross
<1>4. QED
  BY <1>1, <1>2, <1>3


\* Paths, and those between the same two corners.
Paths == {s \in Seq(Int \X Int) : Len(s) >= 2}
SameEnds(X, Y) == X[1] = Y[1] /\ X[Len(X)] = Y[Len(Y)]

\* The corners of a path.
LEMMA PathHasCorners ==
    ASSUME NEW X \in Paths
    PROVE  /\ Len(X) \in Nat /\ Len(X) >= 2
           /\ DOMAIN X = 1 .. Len(X)
           /\ \A k \in 1 .. Len(X) : X[k] \in Int \X Int
<1> DEFINE Plane == Int \X Int
<1>1. X \in Seq(Plane) /\ Len(X) >= 2
  BY DEF Paths
<1> HIDE DEF Plane
<1>2. Len(X) \in Nat /\ DOMAIN X = 1 .. Len(X) /\ \A k \in 1 .. Len(X) : X[k] \in Plane
  BY <1>1
<1>3. QED
  BY <1>1, <1>2 DEF Plane

\* The edges of a path that the ray from p crosses.
Crossed(p, X) == {k \in 2 .. Len(X) : CrossesExactly(p, X[k], X[k - 1])}

\* A path has finitely many of them.
LEMMA CrossedAreFinite ==
    ASSUME NEW p, NEW X \in Paths
    PROVE  IsFiniteSet(Crossed(p, X)) /\ Cardinality(Crossed(p, X)) \in Nat
<1>1. Len(X) \in Nat
  BY DEF Paths
<1>2. IsFiniteSet(2 .. Len(X)) /\ Crossed(p, X) \subseteq 2 .. Len(X)
  BY <1>1, FS_Interval DEF Crossed
<1>3. QED
  BY <1>2, FS_Subset, FS_CardinalityType

\* The ray crosses the ring where it crosses the two paths.
LEMMA AroundCrossesBoth ==
    ASSUME NEW p \in Int \X Int, NEW X \in Paths, NEW Y \in Paths, SameEnds(X, Y)
    PROVE  IsInExactly(p, Around(X, Y)) <=>
             (Cardinality(Crossed(p, X)) + Cardinality(Crossed(p, Y))) % 2 = 1
<1> DEFINE m == Len(X)
           n == Len(Y)
           ring == Around(X, Y)
           Edge(k) == CrossesExactly(p, ring[k], PreviousPoint(ring, k))
           Back == {k \in (m + 1) .. (m + n - 1) : (m + n + 1) - k \in Crossed(p, Y)}
<1>1. /\ m \in Nat /\ n \in Nat /\ m >= 2 /\ n >= 2
      /\ \A k \in 1 .. m : X[k] \in Int \X Int
      /\ \A k \in 1 .. n : Y[k] \in Int \X Int
  BY PathHasCorners
<1>2. /\ DOMAIN ring = 1 .. (m + n - 1) /\ Len(ring) = m + n - 1
      /\ \A k \in 1 .. (m + n - 1) : ring[k] = IF k <= m THEN X[k] ELSE Y[m + n - k]
  <2>1. ring = [k \in 1 .. (m + n - 1) |-> IF k <= m THEN X[k] ELSE Y[m + n - k]]
    BY DEF Around
  <2>2. m + n - 1 \in Nat
    BY <1>1
  <2>3. QED
    BY <2>1, <2>2
<1>3. ~Edge(1)
  <2>1. ring[1] = X[1] /\ PreviousPoint(ring, 1) = Y[1]
    <3>1. PreviousPoint(ring, 1) = ring[m + n - 1]
      BY <1>2 DEF PreviousPoint
    <3> HIDE DEF ring
    <3>2. 1 \in 1 .. (m + n - 1) /\ 1 <= m
      BY <1>1
    <3>3. m + n - 1 \in 1 .. (m + n - 1) /\ ~(m + n - 1 <= m) /\ m + n - (m + n - 1) = 1
      BY <1>1
    <3>4. ring[m + n - 1] = Y[m + n - (m + n - 1)]
      BY <1>2, <3>3
    <3>5. QED
      BY <1>2, <3>1, <3>2, <3>3, <3>4
  <2>2. PreviousPoint(ring, 1) = ring[1]
    BY <2>1 DEF SameEnds
  <2>3. QED
    BY <2>2 DEF CrossesExactly, Reaches
<1>4. ASSUME NEW k \in 2 .. m
      PROVE  Edge(k) <=> k \in Crossed(p, X)
  <2>1. ring[k] = X[k] /\ PreviousPoint(ring, k) = X[k - 1]
    BY <1>1, <1>2 DEF PreviousPoint
  <2>2. QED
    BY <2>1 DEF Crossed
<1>5. ASSUME NEW k \in (m + 1) .. (m + n - 1)
      PROVE  Edge(k) <=> k \in Back
  <2> DEFINE q == (m + n + 1) - k
  <2>1. q \in 2 .. n /\ q - 1 \in 1 .. n /\ q - 1 = m + n - k
    BY <1>1
  <2>2. ring[k] = Y[q - 1] /\ PreviousPoint(ring, k) = ring[k - 1]
    BY <1>1, <1>2, <2>1 DEF PreviousPoint
  <2>3. ring[k - 1] = Y[q]
    <3>1. CASE k = m + 1
      <4>1. q = n /\ ring[k - 1] = X[m]
        BY <1>1, <1>2, <3>1
      <4>2. QED
        BY <4>1 DEF SameEnds
    <3>2. CASE k # m + 1
      <4> HIDE DEF ring
      <4>1. k - 1 \in 1 .. (m + n - 1) /\ ~(k - 1 <= m) /\ m + n - (k - 1) = q
        BY <1>1, <3>2
      <4>2. QED
        BY <1>2, <4>1
    <3>3. QED
      BY <3>1, <3>2
  <2>4. Y[q] \in Int \X Int /\ Y[q - 1] \in Int \X Int
    BY <1>1, <2>1
  <2> HIDE DEF q
  <2>5. Edge(k) <=> CrossesExactly(p, Y[q], Y[q - 1])
    BY <2>2, <2>3, <2>4, EdgeHasOneSide
  <2>6. Edge(k) <=> q \in Crossed(p, Y)
    BY <2>1, <2>5 DEF Crossed
  <2>7. QED
    BY <2>6 DEF q
<1>6. {k \in DOMAIN ring : Edge(k)} = Crossed(p, X) \cup Back
  <2>1. \A k \in DOMAIN ring : k = 1 \/ k \in 2 .. m \/ k \in (m + 1) .. (m + n - 1)
    BY <1>1, <1>2
  <2>2. Crossed(p, X) \subseteq 2 .. m /\ Back \subseteq (m + 1) .. (m + n - 1)
    BY DEF Crossed
  <2>3. 2 .. m \subseteq DOMAIN ring /\ (m + 1) .. (m + n - 1) \subseteq DOMAIN ring
    BY <1>1, <1>2
  <2>4. \A k \in 2 .. m : k \notin Back
    BY <1>1, <2>2
  <2>5. \A k \in (m + 1) .. (m + n - 1) : k \notin Crossed(p, X)
    BY <1>1, <2>2
  <2>6. 1 \notin Crossed(p, X) /\ 1 \notin Back
    BY <1>1, <2>2
  <2> HIDE DEF Edge, Back, ring
  <2>7. QED
    BY <1>3, <1>4, <1>5, <2>1, <2>2, <2>3, <2>4, <2>5, <2>6
<1>7. IsFiniteSet(Back) /\ Cardinality(Back) = Cardinality(Crossed(p, Y))
  <2> DEFINE turn == [q \in Crossed(p, Y) |-> (m + n + 1) - q]
  <2>1. \A q \in Crossed(p, Y) : q \in 2 .. n
    BY DEF Crossed
  <2>2. \A q \in Crossed(p, Y) : turn[q] \in Back
    <3>1. SUFFICES ASSUME NEW q \in Crossed(p, Y) PROVE (m + n + 1) - q \in Back
      OBVIOUS
    <3>2. (m + n + 1) - q \in (m + 1) .. (m + n - 1)
      BY <1>1, <2>1
    <3>3. (m + n + 1) - ((m + n + 1) - q) = q
      BY <1>1, <2>1
    <3>4. QED
      BY <3>2, <3>3
  <2>3. \A k \in Back : (m + n + 1) - k \in Crossed(p, Y) /\ turn[(m + n + 1) - k] = k
    BY <1>1
  <2>4. \A q, r \in Crossed(p, Y) : turn[q] = turn[r] => q = r
    BY <1>1, <2>1
  <2> HIDE DEF Back
  <2>5. turn \in Bijection(Crossed(p, Y), Back)
    <3>1. turn \in [Crossed(p, Y) -> Back]
      BY <2>2
    <3>2. turn \in Injection(Crossed(p, Y), Back)
      BY <2>4, <3>1 DEF Injection, IsInjective
    <3>3. turn \in Surjection(Crossed(p, Y), Back)
      BY <2>3, <3>1 DEF Surjection
    <3>4. QED
      BY <3>2, <3>3 DEF Bijection
  <2>6. ExistsBijection(Crossed(p, Y), Back)
    BY <2>5 DEF ExistsBijection
  <2>7. QED
    BY <2>6, CrossedAreFinite, FS_Bijection
<1>8. Crossed(p, X) \cap Back = {}
  <2>1. \A k \in Crossed(p, X) : k \in 2 .. m
    BY DEF Crossed
  <2>2. \A k \in Back : k \in (m + 1) .. (m + n - 1)
    OBVIOUS
  <2> HIDE DEF Back
  <2>3. QED
    BY <1>1, <2>1, <2>2
<1>9. Cardinality(Crossed(p, X) \cup Back)
        = Cardinality(Crossed(p, X)) + Cardinality(Crossed(p, Y))
  <2> HIDE DEF Back
  <2>1. Cardinality(Crossed(p, X) \cap Back) = 0
    BY <1>8, FS_EmptySet
  <2>2. Cardinality(Crossed(p, X)) \in Nat /\ Cardinality(Crossed(p, Y)) \in Nat
    BY CrossedAreFinite
  <2>3. Cardinality(Crossed(p, X) \cup Back)
          = Cardinality(Crossed(p, X)) + Cardinality(Back) - Cardinality(Crossed(p, X) \cap Back)
    BY <1>7, CrossedAreFinite, FS_Union
  <2>4. QED
    BY <1>7, <2>1, <2>2, <2>3
<1>10. IsInExactly(p, ring) <=> Cardinality({k \in DOMAIN ring : Edge(k)}) % 2 = 1
  BY DEF IsInExactly
<1> HIDE DEF Edge, Back, ring
<1>11. IsInExactly(p, ring) <=>
         (Cardinality(Crossed(p, X)) + Cardinality(Crossed(p, Y))) % 2 = 1
  BY <1>6, <1>9, <1>10
<1>12. QED
  BY <1>11 DEF ring

\* The ray from p crosses the edge of X that ends at its k-th corner.
EdgeAt(p, X, k) == CrossesExactly(p, X[k], X[k - 1])

\* What is made of at least two corners is a path.
LEMMA CornersMakePath ==
    ASSUME NEW n \in Nat, n >= 2, NEW X,
           X = [k \in 1 .. n |-> X[k]], \A k \in 1 .. n : X[k] \in Int \X Int
    PROVE  X \in Paths /\ Len(X) = n
<1> DEFINE Plane == Int \X Int
<1> HIDE DEF Plane
<1>1. \A k \in 1 .. n : X[k] \in Plane
  BY DEF Plane
<1>2. X \in Seq(Plane) /\ Len(X) = n
  BY <1>1
<1>3. QED
  BY <1>2 DEF Paths, Plane

\* A walk that takes the edges S, each once, of which the ray crosses H, crosses
\* the ray as often as H has edges.
LEMMA WalkCrosses ==
    ASSUME NEW p, NEW X \in Paths, NEW S, NEW H, H \subseteq S,
           NEW step \in Bijection(2 .. Len(X), S),
           \A k \in 2 .. Len(X) : EdgeAt(p, X, k) <=> step[k] \in H
    PROVE  IsFiniteSet(H) /\ Cardinality(Crossed(p, X)) = Cardinality(H)
<1> DEFINE walk == [k \in Crossed(p, X) |-> step[k]]
<1>1. /\ step \in [2 .. Len(X) -> S]
      /\ \A j, k \in 2 .. Len(X) : step[j] = step[k] => j = k
      /\ \A s \in S : \E k \in 2 .. Len(X) : step[k] = s
  BY DEF Bijection, Injection, Surjection, IsInjective
<1>2. \A k \in 2 .. Len(X) : k \in Crossed(p, X) <=> EdgeAt(p, X, k)
  BY DEF Crossed, EdgeAt
<1>3. Crossed(p, X) \subseteq 2 .. Len(X)
  BY DEF Crossed
<1>4. walk \in [Crossed(p, X) -> H]
  BY <1>1, <1>2, <1>3
<1>5. walk \in Injection(Crossed(p, X), H)
  BY <1>1, <1>3, <1>4 DEF Injection, IsInjective
<1>6. \A s \in H : \E k \in Crossed(p, X) : walk[k] = s
  BY <1>1, <1>2
<1>7. walk \in Surjection(Crossed(p, X), H)
  BY <1>4, <1>6 DEF Surjection
<1>8. ExistsBijection(Crossed(p, X), H)
  BY <1>5, <1>7 DEF Bijection, ExistsBijection
<1>9. QED
  BY <1>8, CrossedAreFinite, FS_Bijection

\* A path crosses the ray as often back as there.
LEMMA BackCrossesAsOften ==
    ASSUME NEW p \in Int \X Int, NEW X \in Paths
    PROVE  /\ Reverse(X) \in Paths
           /\ Reverse(X)[1] = X[Len(X)] /\ Reverse(X)[Len(Reverse(X))] = X[1]
           /\ Cardinality(Crossed(p, Reverse(X))) = Cardinality(Crossed(p, X))
<1> DEFINE m == Len(X)
           back == Reverse(X)
           step == [k \in 2 .. m |-> (m + 2) - k]
<1>1. m \in Nat /\ m >= 2 /\ \A k \in 1 .. m : X[k] \in Int \X Int
  BY PathHasCorners
<1>2. back = [k \in 1 .. m |-> X[(m - k) + 1]]
  BY DEF Reverse
<1>3. \A k \in 1 .. m : (m - k) + 1 \in 1 .. m
  BY <1>1
<1> HIDE DEF back
<1>4. \A k \in 1 .. m : back[k] = X[(m - k) + 1]
  BY <1>2
<1>5. back = [k \in 1 .. m |-> back[k]]
  BY <1>2
<1>6. \A k \in 1 .. m : back[k] \in Int \X Int
  BY <1>1, <1>3, <1>4
<1>7. back \in Paths /\ Len(back) = m
  BY <1>1, <1>5, <1>6, CornersMakePath
<1>8. back[1] = X[m] /\ back[m] = X[1]
  <2>1. 1 \in 1 .. m /\ m \in 1 .. m /\ (m - 1) + 1 = m /\ (m - m) + 1 = 1
    BY <1>1
  <2>2. QED
    BY <1>4, <2>1
<1>9. \A k \in 2 .. m : step[k] \in 2 .. m /\ step[step[k]] = k
  BY <1>1
<1>10. step \in Bijection(2 .. m, 2 .. m)
  <2>1. step \in [2 .. m -> 2 .. m]
    BY <1>9
  <2>2. \A j, k \in 2 .. m : step[j] = step[k] => j = k
    BY <1>9
  <2>3. \A s \in 2 .. m : \E k \in 2 .. m : step[k] = s
    BY <1>9
  <2> HIDE DEF step
  <2>4. QED
    BY <2>1, <2>2, <2>3 DEF Bijection, Injection, Surjection, IsInjective
<1>11. ASSUME NEW k \in 2 .. m
       PROVE  EdgeAt(p, back, k) <=> EdgeAt(p, X, step[k])
  <2>1. /\ k \in 1 .. m /\ k - 1 \in 1 .. m
        /\ (m - k) + 1 = step[k] - 1 /\ (m - (k - 1)) + 1 = step[k]
        /\ step[k] \in 1 .. m /\ step[k] - 1 \in 1 .. m
    BY <1>1
  <2> HIDE DEF step
  <2>2. back[k] = X[step[k] - 1] /\ back[k - 1] = X[step[k]]
    BY <1>4, <2>1
  <2>3. X[step[k]] \in Int \X Int /\ X[step[k] - 1] \in Int \X Int
    BY <1>1, <2>1
  <2>4. QED
    BY <2>2, <2>3, EdgeHasOneSide DEF EdgeAt
<1>12. Crossed(p, X) \subseteq 2 .. m /\ \A k \in 2 .. m : k \in Crossed(p, X) <=> EdgeAt(p, X, k)
  BY DEF Crossed, EdgeAt
<1>13. \A k \in 2 .. Len(back) : EdgeAt(p, back, k) <=> step[k] \in Crossed(p, X)
  BY <1>7, <1>9, <1>11, <1>12
<1> HIDE DEF step
<1>14. Cardinality(Crossed(p, back)) = Cardinality(Crossed(p, X))
  <2>1. step \in Bijection(2 .. Len(back), 2 .. m)
    BY <1>7, <1>10
  <2>2. QED
    BY <1>7, <1>12, <1>13, <2>1, WalkCrosses
<1>15. QED
  BY <1>7, <1>8, <1>14 DEF back

\* The corners of a closed ring.
IsRing(r) == r \in Seq(Int \X Int) /\ Len(r) >= 4 /\ r[1] = r[Len(r)]

\* The edges on the way along a ring of n corners from its i-th to its j-th,
\* each by the corner at its end.
Passed(n, i, j) == IF i < j THEN (i + 1) .. j ELSE ((i + 1) .. n) \cup (2 .. j)

\* Those of them that the ray crosses.
Hits(p, r, i, j) == {k \in Passed(Len(r), i, j) : EdgeAt(p, r, k)}

\* Where along the ring the way is at its k-th corner.
PlaceOf(n, i, j, k) == IF i < j \/ k <= (n - i) + 1 THEN (k + i) - 1 ELSE k - (n - i)
WayLength(n, i, j) == IF i < j THEN (j - i) + 1 ELSE (n - i) + j

\* The way, corner by corner.
LEMMA WayCorners ==
    ASSUME NEW r, IsRing(r), NEW i \in 1 .. (Len(r) - 1), NEW j \in 1 .. (Len(r) - 1), i # j
    PROVE  LET n == Len(r)
               m == WayLength(n, i, j)
           IN /\ n \in Nat /\ m \in Nat /\ m >= 2
              /\ Way(r, i, j) \in Paths /\ Len(Way(r, i, j)) = m
              /\ \A k \in 1 .. m : PlaceOf(n, i, j, k) \in 1 .. n
              /\ \A k \in 1 .. m : Way(r, i, j)[k] = r[PlaceOf(n, i, j, k)]
<1> DEFINE n == Len(r)
           m == WayLength(n, i, j)
           Plane == Int \X Int
           way == Way(r, i, j)
<1>1. r \in Seq(Plane) /\ n >= 4
  BY DEF IsRing
<1> HIDE DEF Plane
<1>2. n \in Nat /\ \A k \in 1 .. n : r[k] \in Plane
  BY <1>1
<1>3. m \in Nat /\ m >= 2
  BY <1>1, <1>2 DEF WayLength
<1>4. \A k \in 1 .. m : PlaceOf(n, i, j, k) \in 1 .. n
  BY <1>1, <1>2 DEF WayLength, PlaceOf
<1>5. way \in Seq(Plane) /\ Len(way) = m /\ \A k \in 1 .. m : way[k] = r[PlaceOf(n, i, j, k)]
  <2>1. CASE i < j
    <3>1. way = SubSeq(r, i, j)
      BY <2>1 DEF Way
    <3>2. i \in Int /\ j \in Int /\ 1 <= i /\ j <= n
      BY <1>2
    <3>3. way \in Seq(Plane) /\ Len(way) = (j - i) + 1
      BY <1>1, <1>2, <2>1, <3>1, <3>2
    <3>4. \A k \in 1 .. ((j - i) + 1) : way[k] = r[(i + k) - 1]
      BY <1>1, <1>2, <2>1, <3>1, <3>2
    <3>5. m = (j - i) + 1 /\ \A k \in 1 .. m : PlaceOf(n, i, j, k) = (i + k) - 1
      BY <1>2, <2>1 DEF WayLength, PlaceOf
    <3>6. QED
      BY <3>3, <3>4, <3>5
  <2>2. CASE i > j
    <3> DEFINE A == SubSeq(r, i, n)
               B == SubSeq(r, 2, j)
    <3>1. way = A \o B
      <4>1. ~(i < j)
        BY <2>2
      <4>2. QED
        BY <4>1 DEF Way
    <3>2. A \in Seq(Plane) /\ Len(A) = (n - i) + 1 /\ \A k \in 1 .. ((n - i) + 1) : A[k] = r[(i + k) - 1]
      BY <1>1, <1>2
    <3>3. B \in Seq(Plane) /\ Len(B) = j - 1 /\ \A k \in 1 .. (j - 1) : B[k] = r[k + 1]
      BY <1>1, <1>2
    <3> HIDE DEF A, B
    <3>4. /\ way \in Seq(Plane) /\ Len(way) = Len(A) + Len(B)
          /\ \A k \in 1 .. (Len(A) + Len(B)) :
                way[k] = IF k <= Len(A) THEN A[k] ELSE B[k - Len(A)]
      <4>1. A \in Seq(Plane) /\ B \in Seq(Plane)
        BY <3>2, <3>3
      <4>2. QED
        BY <3>1, <4>1, ConcatProperties
    <3>5. m = Len(A) + Len(B)
      BY <1>2, <2>2, <3>2, <3>3 DEF WayLength
    <3>6. ASSUME NEW k \in 1 .. m
          PROVE  way[k] = r[PlaceOf(n, i, j, k)]
      <4>1. CASE k <= (n - i) + 1
        <5>1. PlaceOf(n, i, j, k) = (i + k) - 1 /\ k \in 1 .. ((n - i) + 1)
          BY <1>2, <2>2, <4>1 DEF PlaceOf
        <5>2. QED
          BY <3>2, <3>4, <3>5, <4>1, <5>1
      <4>2. CASE ~(k <= (n - i) + 1)
        <5>1. PlaceOf(n, i, j, k) = k - (n - i)
          BY <2>2, <4>2 DEF PlaceOf
        <5>2. /\ k - (n - i) = (k - Len(A)) + 1
              /\ k - Len(A) \in 1 .. (j - 1) /\ ~(k <= Len(A))
          <6>1. Len(A) = (n - i) + 1 /\ m = (n - i) + j
            BY <1>2, <3>2, <3>3, <3>5
          <6>2. k \in Int /\ k <= m /\ n \in Int
            BY <1>2, <1>3
          <6> HIDE DEF n, m, A
          <6>3. QED
            BY <4>2, <6>1, <6>2
        <5>3. QED
          BY <3>3, <3>4, <3>5, <5>1, <5>2
      <4>3. QED
        BY <4>1, <4>2
    <3>7. QED
      BY <3>4, <3>5, <3>6
  <2>3. QED
    BY <2>1, <2>2
<1>6. way \in Paths
  BY <1>3, <1>5 DEF Paths, Plane
<1>7. QED
  BY <1>2, <1>3, <1>4, <1>5, <1>6

\* The way goes from the one corner to the other and crosses the ray where the
\* ring does on the way.
CrossesOnTheWay(p, r, i, j) ==
    LET way == Way(r, i, j)
        hits == Hits(p, r, i, j)
    IN /\ way \in Paths
       /\ way[1] = r[i] /\ way[Len(way)] = r[j]
       /\ IsFiniteSet(hits)
       /\ Cardinality(Crossed(p, way)) = Cardinality(hits)

\* Any way does.
LEMMA WayCrosses ==
    ASSUME NEW p \in Int \X Int, NEW r, IsRing(r),
           NEW i \in 1 .. (Len(r) - 1), NEW j \in 1 .. (Len(r) - 1), i # j
    PROVE  CrossesOnTheWay(p, r, i, j)
<1> DEFINE n == Len(r)
           m == WayLength(n, i, j)
           way == Way(r, i, j)
           S == Passed(n, i, j)
           Place(k) == PlaceOf(n, i, j, k)
           step == [k \in 2 .. m |-> Place(k)]
<1>1. /\ n \in Nat /\ m \in Nat /\ m >= 2
      /\ way \in Paths /\ Len(way) = m
      /\ \A k \in 1 .. m : Place(k) \in 1 .. n
      /\ \A k \in 1 .. m : way[k] = r[Place(k)]
  BY WayCorners
<1>2. n >= 4 /\ r[1] = r[n]
  BY DEF IsRing
<1>3. i \in Nat /\ j \in Nat /\ 1 <= i /\ i < n /\ 1 <= j /\ j < n /\ i # j
  BY <1>1
<1>4. ASSUME i < j
      PROVE  /\ m = (j - i) + 1
             /\ \A k \in 1 .. m : Place(k) = (k + i) - 1
             /\ \A s : s \in S <=> s \in (i + 1) .. j
  BY <1>4 DEF WayLength, PlaceOf, Passed
<1>5. ASSUME ~(i < j)
       PROVE  /\ m = (n - i) + j
              /\ \A k \in 1 .. m : k <= (n - i) + 1 => Place(k) = (k + i) - 1
              /\ \A k \in 1 .. m : ~(k <= (n - i) + 1) => Place(k) = k - (n - i)
              /\ \A s : s \in S <=> s \in (i + 1) .. n \/ s \in 2 .. j
  <2>1. S = ((i + 1) .. n) \cup (2 .. j)
    BY <1>5 DEF Passed
  <2>2. \A s : s \in S <=> s \in (i + 1) .. n \/ s \in 2 .. j
    BY <2>1
  <2>3. m = (n - i) + j
    BY <1>5 DEF WayLength
  <2>4. \A k : Place(k) = IF k <= (n - i) + 1 THEN (k + i) - 1 ELSE k - (n - i)
    BY <1>5 DEF PlaceOf
  <2> HIDE DEF S, m, Place
  <2>5. QED
    BY <2>2, <2>3, <2>4
<1> HIDE DEF n, m, S, Place
<1>6. way[1] = r[i] /\ way[m] = r[j]
  <2>1. 1 \in 1 .. m /\ m \in 1 .. m
    BY <1>1
  <2>2. CASE i < j
    <3>1. Place(1) = i /\ Place(m) = j
      BY <1>1, <1>3, <1>4, <2>1, <2>2
    <3>2. QED
      BY <1>1, <2>1, <3>1
  <2>3. CASE ~(i < j)
    <3>1. Place(1) = i
      <4>1. 1 <= (n - i) + 1 /\ (1 + i) - 1 = i
        BY <1>1, <1>3
      <4>2. QED
        BY <1>5, <2>1, <2>3, <4>1
    <3>2. m = (n - i) + j
      BY <1>5, <2>3
    <3>3. CASE j = 1
      <4>1. m <= (n - i) + 1 /\ (m + i) - 1 = n
        BY <1>1, <1>3, <3>2, <3>3
      <4>2. Place(m) = n
        BY <1>5, <2>1, <2>3, <4>1
      <4>3. QED
        BY <1>1, <1>2, <2>1, <3>1, <3>3, <4>2
    <3>4. CASE j # 1
      <4>1. ~(m <= (n - i) + 1) /\ m - (n - i) = j
        BY <1>1, <1>3, <3>2, <3>4
      <4>2. Place(m) = j
        BY <1>5, <2>1, <2>3, <4>1
      <4>3. QED
        BY <1>1, <2>1, <3>1, <4>2
    <3>5. QED
      BY <3>3, <3>4
  <2>4. QED
    BY <2>2, <2>3
<1>7. \A k \in 2 .. m : step[k] \in S
  <2>1. SUFFICES ASSUME NEW k \in 2 .. m PROVE Place(k) \in S
    OBVIOUS
  <2>2. k \in 1 .. m
    BY <1>1
  <2>3. CASE i < j
    <3>1. Place(k) = (k + i) - 1 /\ (k + i) - 1 \in (i + 1) .. j
      BY <1>1, <1>3, <1>4, <2>2, <2>3
    <3>2. QED
      BY <1>4, <2>3, <3>1
  <2>4. CASE ~(i < j) /\ k <= (n - i) + 1
    <3>1. Place(k) = (k + i) - 1 /\ (k + i) - 1 \in (i + 1) .. n
      BY <1>1, <1>3, <1>5, <2>2, <2>4
    <3>2. QED
      BY <1>5, <2>4, <3>1
  <2>5. CASE ~(i < j) /\ ~(k <= (n - i) + 1)
    <3>1. Place(k) = k - (n - i) /\ k - (n - i) \in 2 .. j
      BY <1>1, <1>3, <1>5, <2>2, <2>5
    <3>2. QED
      BY <1>5, <2>5, <3>1
  <2>6. QED
    BY <2>3, <2>4, <2>5
<1>8. \A k, l \in 2 .. m : step[k] = step[l] => k = l
  <2>1. SUFFICES ASSUME NEW k \in 2 .. m, NEW l \in 2 .. m, Place(k) = Place(l) PROVE k = l
    OBVIOUS
  <2>2. k \in 1 .. m /\ l \in 1 .. m
    BY <1>1
  <2>3. CASE i < j
    <3>1. Place(k) = (k + i) - 1 /\ Place(l) = (l + i) - 1
      BY <1>4, <2>2, <2>3
    <3>2. (k + i) - 1 = (l + i) - 1
      BY <2>1, <3>1
    <3>3. QED
      BY <1>3, <3>2
  <2>4. CASE ~(i < j)
    <3>1. \A h \in 2 .. m :
            \/ h <= (n - i) + 1 /\ Place(h) = (h + i) - 1
            \/ h > (n - i) + 1 /\ Place(h) = h - (n - i)
      BY <1>1, <1>3, <1>5, <2>4
    <3>2. m = (n - i) + j
      BY <1>5, <2>4
    <3>3. \A h \in 2 .. m :
            \/ h <= (n - i) + 1 /\ Place(h) > i
            \/ h > (n - i) + 1 /\ Place(h) <= j
      <4>1. SUFFICES ASSUME NEW h \in 2 .. m
                     PROVE  \/ h <= (n - i) + 1 /\ Place(h) > i
                            \/ h > (n - i) + 1 /\ Place(h) <= j
        OBVIOUS
      <4>2. CASE h <= (n - i) + 1 /\ Place(h) = (h + i) - 1
        BY <1>1, <1>3, <4>2
      <4>3. CASE h > (n - i) + 1 /\ Place(h) = h - (n - i)
        BY <1>1, <1>3, <3>2, <4>3
      <4>4. QED
        BY <3>1, <4>2, <4>3
    <3>4. i > j
      BY <1>3, <2>4
    <3>5. /\ Place(k) = (k + i) - 1 \/ Place(k) = k - (n - i)
          /\ Place(l) = (l + i) - 1 \/ Place(l) = l - (n - i)
      BY <3>1
    <3>6. Place(k) \in Int /\ Place(l) \in Int
      BY <1>1, <1>3, <3>5
    <3>7. k <= (n - i) + 1 <=> l <= (n - i) + 1
      BY <1>1, <1>3, <2>1, <3>3, <3>4, <3>6
    <3>8. CASE k <= (n - i) + 1
      <4>1. Place(k) = (k + i) - 1 /\ Place(l) = (l + i) - 1
        BY <1>1, <1>3, <3>1, <3>7, <3>8
      <4>2. (k + i) - 1 = (l + i) - 1
        BY <2>1, <4>1
      <4>3. QED
        BY <1>3, <4>2
    <3>9. CASE ~(k <= (n - i) + 1)
      <4>1. Place(k) = k - (n - i) /\ Place(l) = l - (n - i)
        BY <1>1, <1>3, <3>1, <3>7, <3>9
      <4>2. k - (n - i) = l - (n - i)
        BY <2>1, <4>1
      <4>3. n \in Int
        BY <1>1
      <4>4. QED
        BY <1>3, <4>2, <4>3
    <3>10. QED
      BY <3>8, <3>9
  <2>5. QED
    BY <2>3, <2>4
<1>9. \A s \in S : \E k \in 2 .. m : step[k] = s
  <2>1. SUFFICES ASSUME NEW s \in S PROVE \E k \in 2 .. m : Place(k) = s
    OBVIOUS
  <2>2. CASE i < j
    <3>1. s \in (i + 1) .. j
      BY <1>4, <2>2
    <3>2. (s - i) + 1 \in 2 .. m /\ (s - i) + 1 \in 1 .. m
      BY <1>1, <1>3, <1>4, <2>2, <3>1
    <3>3. Place((s - i) + 1) = s
      BY <1>1, <1>3, <1>4, <2>2, <3>1, <3>2
    <3>4. QED
      BY <3>2, <3>3
  <2>3. CASE ~(i < j) /\ s \in (i + 1) .. n
    <3>1. m = (n - i) + j
      BY <1>5, <2>3
    <3>2. /\ (s - i) + 1 \in 2 .. m /\ (s - i) + 1 \in 1 .. m
          /\ (s - i) + 1 <= (n - i) + 1 /\ (((s - i) + 1) + i) - 1 = s
      BY <1>1, <1>3, <2>3, <3>1
    <3>3. Place((s - i) + 1) = (((s - i) + 1) + i) - 1
      BY <1>5, <2>3, <3>2
    <3>4. QED
      BY <3>2, <3>3
  <2>4. CASE ~(i < j) /\ s \in 2 .. j
    <3>1. m = (n - i) + j
      BY <1>5, <2>4
    <3>2. /\ s + (n - i) \in 2 .. m /\ s + (n - i) \in 1 .. m
          /\ ~(s + (n - i) <= (n - i) + 1) /\ (s + (n - i)) - (n - i) = s
      BY <1>1, <1>3, <2>4, <3>1
    <3>3. Place(s + (n - i)) = (s + (n - i)) - (n - i)
      BY <1>5, <2>4, <3>2
    <3>4. QED
      BY <3>2, <3>3
  <2>5. QED
    BY <1>5, <2>1, <2>2, <2>3, <2>4
<1>10. step \in Bijection(2 .. m, S)
  <2>1. step \in [2 .. m -> S]
    BY <1>7
  <2> HIDE DEF step
  <2>2. QED
    BY <1>8, <1>9, <2>1 DEF Bijection, Injection, Surjection, IsInjective
<1>11. ASSUME NEW k \in 2 .. m
      PROVE  EdgeAt(p, way, k) <=> EdgeAt(p, r, step[k])
  <2>1. k \in 1 .. m /\ k - 1 \in 1 .. m
    BY <1>1
  <2>2. way[k] = r[Place(k)] /\ way[k - 1] = r[Place(k - 1)]
    BY <1>1, <2>1
  <2>3. \/ Place(k - 1) = Place(k) - 1
        \/ Place(k) = 2 /\ Place(k - 1) = n
    <3>1. CASE i < j
      BY <1>1, <1>3, <1>4, <2>1, <3>1
    <3>2. CASE ~(i < j)
      <4>1. CASE k <= (n - i) + 1
        BY <1>1, <1>3, <1>5, <2>1, <3>2, <4>1
      <4>2. CASE k = (n - i) + 2
        <5>1. ~(k <= (n - i) + 1) /\ k - 1 <= (n - i) + 1
          BY <1>1, <1>3, <4>2
        <5>2. Place(k) = k - (n - i) /\ Place(k - 1) = ((k - 1) + i) - 1
          BY <1>5, <2>1, <3>2, <5>1
        <5>3. QED
          BY <1>1, <1>3, <4>2, <5>2
      <4>3. CASE k > (n - i) + 2
        <5>1. ~(k <= (n - i) + 1) /\ ~(k - 1 <= (n - i) + 1)
          BY <1>1, <1>3, <4>3
        <5>2. Place(k) = k - (n - i) /\ Place(k - 1) = (k - 1) - (n - i)
          BY <1>5, <2>1, <3>2, <5>1
        <5>3. QED
          BY <1>1, <1>3, <4>3, <5>2
      <4>4. QED
        BY <1>1, <1>3, <4>1, <4>2, <4>3
    <3>3. QED
      BY <3>1, <3>2
  <2>4. r[Place(k - 1)] = r[Place(k) - 1]
    <3>1. CASE Place(k - 1) = Place(k) - 1
      BY <3>1
    <3>2. CASE Place(k) = 2 /\ Place(k - 1) = n
      BY <1>2, <3>2
    <3>3. QED
      BY <2>3, <3>1, <3>2
  <2>5. step[k] = Place(k)
    OBVIOUS
  <2> HIDE DEF step
  <2>6. QED
    BY <2>2, <2>4, <2>5 DEF EdgeAt
<1> DEFINE H == {k \in S : EdgeAt(p, r, k)}
<1>12. IsFiniteSet(H) /\ Cardinality(Crossed(p, way)) = Cardinality(H)
  <2>1. step \in Bijection(2 .. Len(way), S)
    BY <1>1, <1>10
  <2>2. H \subseteq S
    OBVIOUS
  <2>3. \A k \in 2 .. Len(way) : EdgeAt(p, way, k) <=> step[k] \in H
    <3> HIDE DEF step
    <3>1. QED
      BY <1>1, <1>7, <1>11
  <2>4. way \in Paths
    BY <1>1
  <2> HIDE DEF way, H, step
  <2>5. QED
    BY <2>1, <2>2, <2>3, <2>4, WalkCrosses
<1>13. way \in Paths /\ way[1] = r[i] /\ way[Len(way)] = r[j]
  BY <1>1, <1>6
<1> HIDE DEF way, H
<1>14. QED
  BY <1>12, <1>13 DEF CrossesOnTheWay, Hits, H, S, n, way

\* Two corners divide a ring: the ray crosses it where it crosses the two paths.
LEMMA WaysDivideRing ==
    ASSUME NEW p \in Int \X Int, NEW r, IsRing(r),
           NEW i \in 1 .. (Len(r) - 1), NEW j \in 1 .. (Len(r) - 1), i # j
    PROVE  LET way == Way(r, i, j)
               other == Reverse(Way(r, j, i))
           IN /\ way \in Paths /\ other \in Paths /\ SameEnds(way, other)
              /\ IsInExactly(p, r) <=>
                   (Cardinality(Crossed(p, way)) + Cardinality(Crossed(p, other))) % 2 = 1
<1> DEFINE n == Len(r)
           way == Way(r, i, j)
           back == Way(r, j, i)
           other == Reverse(back)
           H == Hits(p, r, i, j)
           G == Hits(p, r, j, i)
<1>1. n \in Nat /\ n >= 4 /\ DOMAIN r = 1 .. n /\ r[1] = r[n]
  <2> DEFINE Plane == Int \X Int
  <2>1. r \in Seq(Plane) /\ n >= 4 /\ r[1] = r[n]
    BY DEF IsRing
  <2> HIDE DEF Plane
  <2>2. QED
    BY <2>1
<1>2. /\ way \in Paths /\ way[1] = r[i] /\ way[Len(way)] = r[j]
      /\ IsFiniteSet(H) /\ Cardinality(Crossed(p, way)) = Cardinality(H)
  <2>1. CrossesOnTheWay(p, r, i, j)
    BY WayCrosses
  <2>2. QED
    BY <2>1 DEF CrossesOnTheWay
<1>3. /\ back \in Paths /\ back[1] = r[j] /\ back[Len(back)] = r[i]
      /\ IsFiniteSet(G) /\ Cardinality(Crossed(p, back)) = Cardinality(G)
  <2>1. CrossesOnTheWay(p, r, j, i)
    BY WayCrosses
  <2>2. QED
    BY <2>1 DEF CrossesOnTheWay
<1> HIDE DEF way, back
<1>4. /\ other \in Paths /\ other[1] = r[i] /\ other[Len(other)] = r[j]
      /\ Cardinality(Crossed(p, other)) = Cardinality(G)
  BY <1>3, BackCrossesAsOften
<1> HIDE DEF other
<1>5. SameEnds(way, other)
  BY <1>2, <1>4 DEF SameEnds
<1>6. /\ \A k \in 2 .. n : ~(k \in Passed(n, i, j) <=> k \in Passed(n, j, i))
      /\ Passed(n, i, j) \subseteq 2 .. n /\ Passed(n, j, i) \subseteq 2 .. n
  <2>1. CASE i < j
    <3>1. Passed(n, i, j) = (i + 1) .. j /\ Passed(n, j, i) = ((j + 1) .. n) \cup (2 .. i)
      BY <2>1 DEF Passed
    <3>2. QED
      BY <1>1, <2>1, <3>1
  <2>2. CASE j < i
    <3>1. Passed(n, j, i) = (j + 1) .. i /\ Passed(n, i, j) = ((i + 1) .. n) \cup (2 .. j)
      BY <2>2 DEF Passed
    <3>2. QED
      BY <1>1, <2>2, <3>1
  <2>3. QED
    BY <2>1, <2>2
<1>7. {k \in DOMAIN r : CrossesExactly(p, r[k], PreviousPoint(r, k))} = H \cup G
  <2>1. ~CrossesExactly(p, r[1], PreviousPoint(r, 1))
    BY <1>1 DEF CrossesExactly, Reaches, PreviousPoint
  <2>2. \A k \in 2 .. n : CrossesExactly(p, r[k], PreviousPoint(r, k)) <=> EdgeAt(p, r, k)
    BY <1>1 DEF EdgeAt, PreviousPoint
  <2>3. \A k \in DOMAIN r : k = 1 \/ k \in 2 .. n
    BY <1>1
  <2>4. 2 .. n \subseteq DOMAIN r /\ 1 \notin 2 .. n
    BY <1>1
  <2>5. QED
    BY <1>6, <2>1, <2>2, <2>3, <2>4 DEF Hits
<1>8. H \cap G = {}
  BY <1>6 DEF Hits
<1> HIDE DEF H, G
<1>9. Cardinality(H \cup G) = Cardinality(H) + Cardinality(G)
  <2>1. Cardinality(H \cap G) = 0
    BY <1>8, FS_EmptySet
  <2>2. Cardinality(H) \in Nat /\ Cardinality(G) \in Nat
    BY <1>2, <1>3, FS_CardinalityType
  <2>3. Cardinality(H \cup G) = Cardinality(H) + Cardinality(G) - Cardinality(H \cap G)
    BY <1>2, <1>3, FS_Union
  <2>4. QED
    BY <2>1, <2>2, <2>3
<1>10. IsInExactly(p, r) <=> Cardinality(H \cup G) % 2 = 1
  BY <1>7 DEF IsInExactly
<1>11. IsInExactly(p, r) <=>
         (Cardinality(Crossed(p, way)) + Cardinality(Crossed(p, other))) % 2 = 1
  BY <1>2, <1>4, <1>9, <1>10
<1>12. QED
  BY <1>2, <1>4, <1>5, <1>11 DEF way, other, back

\* The same of every cut of a ring.
LEMMA CutsDivideRing ==
    ASSUME NEW p \in Int \X Int, NEW r, IsRing(r), NEW c \in Cuts(r)
    PROVE  /\ c[1] \in Paths /\ c[2] \in Paths /\ SameEnds(c[1], c[2])
           /\ IsInExactly(p, r) <=>
                (Cardinality(Crossed(p, c[1])) + Cardinality(Crossed(p, c[2]))) % 2 = 1
<1> DEFINE corners == 1 .. (Len(r) - 1)
<1>1. PICK i \in corners, j \in corners :
        /\ i # j
        /\ \/ c = <<Way(r, i, j), Reverse(Way(r, j, i))>>
           \/ c = <<Reverse(Way(r, j, i)), Way(r, i, j)>>
  BY DEF Cuts
<1> DEFINE way == Way(r, i, j)
           other == Reverse(Way(r, j, i))
<1>2. /\ way \in Paths /\ other \in Paths /\ SameEnds(way, other)
      /\ IsInExactly(p, r) <=>
           (Cardinality(Crossed(p, way)) + Cardinality(Crossed(p, other))) % 2 = 1
  BY <1>1, WaysDivideRing
<1>3. c = <<way, other>> \/ c = <<other, way>>
  BY <1>1
<1> HIDE DEF way, other
<1>4. Cardinality(Crossed(p, way)) \in Nat /\ Cardinality(Crossed(p, other)) \in Nat
  BY <1>2, CrossedAreFinite
<1>5. CASE c = <<way, other>>
  BY <1>2, <1>5
<1>6. CASE c = <<other, way>>
  <2>1. c[1] = other /\ c[2] = way
    BY <1>6
  <2>2. SameEnds(other, way)
    BY <1>2 DEF SameEnds
  <2>3. Cardinality(Crossed(p, other)) + Cardinality(Crossed(p, way))
          = Cardinality(Crossed(p, way)) + Cardinality(Crossed(p, other))
    BY <1>4
  <2>4. QED
    BY <1>2, <2>1, <2>2, <2>3
<1>7. QED
  BY <1>3, <1>5, <1>6

\* Whatever zones administrators draw: two with a common border, of any length
\* and in either direction, divide the area within their outline, the border
\* included except for its slanted edges (pointInPolygon).
THEOREM BordersHaveOneSide ==
    ASSUME RoutingAssumption
    PROVE  RoutingSpec => []BorderHasOneSide
<1>1. ASSUME NEW r \in Polygons
      PROVE  IsRing(r)
  <2>1. Points \subseteq Int \X Int
    BY DEF RoutingAssumption, Points
  <2>2. r \in Seq(Points) /\ Len(r) >= 4 /\ r[1] = r[Len(r)]
    BY DEF RoutingAssumption, IsValidPolygon
  <2>3. r \in Seq(Int \X Int)
    <3> DEFINE Plane == Int \X Int
    <3>1. Points \subseteq Plane
      BY <2>1
    <3> HIDE DEF Plane
    <3>2. r \in Seq(Plane)
      BY <2>2, <3>1
    <3>3. QED
      BY <3>2 DEF Plane
  <2>4. QED
    BY <2>2, <2>3 DEF IsRing
<1>2. ASSUME NEW x \in Polygons, NEW y \in Polygons, NEW outline \in Outlines[x][y],
             NEW p \in Points
      PROVE  IsInExactly(p, outline) <=> (IsInExactly(p, x) # IsInExactly(p, y))
  <2>1. p \in Int \X Int
    BY DEF RoutingAssumption, Points
  <2>2. PICK c \in Cuts(x), d \in Cuts(y) : c[1] = d[1] /\ outline = Around(c[2], d[2])
    BY DEF Outlines
  <2> DEFINE a == Cardinality(Crossed(p, c[2]))
             b == Cardinality(Crossed(p, c[1]))
             e == Cardinality(Crossed(p, d[2]))
  <2>3. /\ c[1] \in Paths /\ c[2] \in Paths /\ SameEnds(c[1], c[2])
        /\ IsInExactly(p, x) <=> (b + a) % 2 = 1
    BY <1>1, <2>1, CutsDivideRing
  <2>4. /\ d[1] \in Paths /\ d[2] \in Paths /\ SameEnds(d[1], d[2])
        /\ IsInExactly(p, y) <=> (b + e) % 2 = 1
    BY <1>1, <2>1, <2>2, CutsDivideRing
  <2>5. SameEnds(c[2], d[2])
    BY <2>2, <2>3, <2>4 DEF SameEnds
  <2>6. IsInExactly(p, outline) <=> (a + e) % 2 = 1
    BY <2>1, <2>2, <2>3, <2>4, <2>5, AroundCrossesBoth
  <2>7. a \in Nat /\ b \in Nat /\ e \in Nat
    BY <2>3, <2>4, CrossedAreFinite
  <2> HIDE DEF a, b, e
  <2>8. (a + e) % 2 = 1 <=> ~((b + a) % 2 = 1 <=> (b + e) % 2 = 1)
    BY <2>7
  <2>9. QED
    BY <2>3, <2>4, <2>6, <2>8 DEF IsInExactly
<1>3. ASSUME NEW x \in Polygons, NEW y \in Polygons
      PROVE  Divided[x][y]
  <2> SUFFICES ASSUME NEW p \in Points, NEW outline \in Outlines[x][y],
                      \A ring \in {x, y, outline} : ~OnSlantOf(p, ring)
               PROVE  PointInPolygon(p, outline)
                        <=> (PointInPolygon(p, x) # PointInPolygon(p, y))
    BY DEF Divided
  <2>1. IsInExactly(p, outline) <=> (IsInExactly(p, x) # IsInExactly(p, y))
    BY <1>2
  <2>2. /\ PointInPolygon(p, outline) <=> IsInExactly(p, outline)
        /\ PointInPolygon(p, x) <=> IsInExactly(p, x)
        /\ PointInPolygon(p, y) <=> IsInExactly(p, y)
    BY RoundingOnSlants
  <2>3. QED
    BY <2>1, <2>2 DEF PointInPolygon, IsInExactly
<1>4. RoutingTypeOK => BorderHasOneSide
  <2> SUFFICES ASSUME RoutingTypeOK, NEW y \in Existing, NEW z \in Existing
               PROVE  Divided[zones[y].polygon][zones[z].polygon]
    BY DEF BorderHasOneSide
  <2>1. zones[y].polygon \in Polygons /\ zones[z].polygon \in Polygons
    BY RowsOfZones DEF Zone
  <2>2. QED
    BY <1>3, <2>1
<1>5. QED
  BY <1>4, RoutingTypes, PTL
=============================================================================
