----------------------------- MODULE BranchMenu -----------------------------
(***************************************************************************)
(* BranchMenuService for one branch: overrides that switch a category, an  *)
(* item or a bundle of the core menu on or off, one at a time or in bulk,  *)
(* and what a customer of the branch is offered.                           *)
(*                                                                         *)
(* The three kinds of override are handled alike; an entry is a category   *)
(* or a product (item or bundle) of the core menu.  One action is one      *)
(* awaited statement.  A removed override is soft deleted: its row stays,  *)
(* and the unique key over branch and entry covers it.                     *)
(***************************************************************************)
EXTENDS Naturals, Sequences, FiniteSets

CONSTANTS
    MenuCalls,      \* requests in flight
    Categories, MenuProducts,
    CategoryOf,     \* product -> its category
    MaxMenuCalls,   \* requests at a time
    MaxBulk         \* updates of a bulk request

MenuEntries == Categories \cup MenuProducts
OverrideUpdates == [entry : MenuEntries, available : BOOLEAN]

VARIABLES
    core,           \* entry -> isActive of the category, ACTIVE of the product
    override,       \* entry -> the row of its override
    menuPc,         \* call -> its next statement
    todo,           \* call -> updates it still has to make
    found,          \* call -> whether it has read a live override
    start,          \* call -> the overrides when it began      (history)
    asked           \* call -> the updates it was asked for     (history)

menuRows == <<core, override>>
menuLocals == <<todo, found, start, asked>>
menuVars == <<menuRows, menuPc, menuLocals>>

MenuAssumption ==
    /\ Categories \cap MenuProducts = {} /\ MenuEntries # {}
    /\ CategoryOf \in [MenuProducts -> Categories]
    /\ MaxMenuCalls \in Nat /\ MaxBulk \in Nat

-----------------------------------------------------------------------------
\* The row of an override: none, live with isAvailable, or soft deleted.
OverrideRows == {"none", "on", "off", "removed"}
IsLive(row) == row \in {"on", "off"}
Row(available) == IF available THEN "on" ELSE "off"

NoOverrides == [e \in MenuEntries |-> "none"]

MenuInit ==
    /\ core \in [MenuEntries -> BOOLEAN]
    /\ override = NoOverrides
    /\ menuPc = [c \in MenuCalls |-> "idle"]
    /\ todo = [c \in MenuCalls |-> <<>>]
    /\ found = [c \in MenuCalls |-> FALSE]
    /\ start = [c \in MenuCalls |-> NoOverrides]
    /\ asked = [c \in MenuCalls |-> <<>>]

-----------------------------------------------------------------------------
(* What a customer of the branch is offered.                               *)

\* The customer queries: (override is null or available), core is active.
Offered(e) == override[e] \in {"none", "removed", "on"}
AvailableCategories == {k \in Categories : core[k] /\ Offered(k)}
AvailableProducts ==
    {p \in MenuProducts : /\ core[p] /\ core[CategoryOf[p]]
                          /\ Offered(CategoryOf[p]) /\ Offered(p)}

\* Mutant: the override of the category is not asked.
CheckWithoutCategory(p) ==
    /\ core[p] /\ core[CategoryOf[p]]
    /\ ~(IsLive(override[p]) /\ override[p] = "off")

\* isItemAvailable, isBundleAvailable, which the cart asks.
IsProductAvailable(p) ==
    /\ core[p]
    /\ core[CategoryOf[p]]
    /\ ~(IsLive(override[CategoryOf[p]]) /\ override[CategoryOf[p]] = "off")
    /\ ~(IsLive(override[p]) /\ override[p] = "off")

-----------------------------------------------------------------------------
MenuArrives(c) ==
    /\ menuPc[c] = "idle"
    /\ Cardinality({d \in MenuCalls : menuPc[d] # "idle"}) < MaxMenuCalls

MenuGoto(c, label) == menuPc' = [menuPc EXCEPT ![c] = label]

MenuReturn(c) ==
    /\ MenuGoto(c, "idle")
    /\ todo' = [todo EXCEPT ![c] = <<>>]
    /\ found' = [found EXCEPT ![c] = FALSE]
    /\ start' = [start EXCEPT ![c] = NoOverrides]
    /\ asked' = [asked EXCEPT ![c] = <<>>]
    /\ UNCHANGED menuRows

\* A bulk update does its categories first; a single set is a bulk of one.
\* Bound: it names an entry once.
CategoriesFirst(s) ==
    \A i, j \in DOMAIN s :
        i < j => /\ s[j].entry \in Categories => s[i].entry \in Categories
                 /\ s[i].entry # s[j].entry
Requests ==
    {s \in UNION {[1..n -> OverrideUpdates] : n \in 1..MaxBulk} :
        CategoriesFirst(s)}

BulkUpdateAvailability(c, s) ==
    /\ MenuArrives(c)
    /\ MenuGoto(c, "check")
    /\ todo' = [todo EXCEPT ![c] = s]
    /\ asked' = [asked EXCEPT ![c] = s]
    /\ start' = [start EXCEPT ![c] = override]
    /\ UNCHANGED <<menuRows, found>>

\* Cannot enable what the core menu has inactive.
MayEnable(e) == core[e] /\ (e \in MenuProducts => core[CategoryOf[e]])

\* Mutant: an update that is refused is skipped.
CheckCoreOrSkip(c) ==
    /\ menuPc[c] = "check"
    /\ LET u == Head(todo[c])
           refused == u.available /\ ~MayEnable(u.entry)
       IN /\ todo' = [todo EXCEPT ![c] = IF refused THEN Tail(@) ELSE @]
          /\ MenuGoto(c, IF ~refused THEN "find"
                         ELSE IF Len(todo[c]) = 1 THEN "done" ELSE "check")
    /\ UNCHANGED <<menuRows, found, start, asked>>

CheckCore(c) ==
    /\ menuPc[c] = "check"
    /\ LET u == Head(todo[c]) IN
         MenuGoto(c, IF u.available /\ ~MayEnable(u.entry) THEN "failed" ELSE "find")
    /\ UNCHANGED <<menuRows, menuLocals>>

FindOverride(c) ==
    /\ menuPc[c] = "find"
    /\ found' = [found EXCEPT ![c] = IsLive(override[Head(todo[c]).entry])]
    /\ MenuGoto(c, "save")
    /\ UNCHANGED <<menuRows, todo, start, asked>>

\* An override that was found is updated, and restored if removed since;
\* otherwise one is inserted, unless the unique key has a row already.
SaveOverride(c) ==
    /\ menuPc[c] = "save"
    /\ LET u == Head(todo[c]) IN
         /\ found[c] \/ override[u.entry] = "none"
         /\ override' = [override EXCEPT ![u.entry] = Row(u.available)]
    /\ todo' = [todo EXCEPT ![c] = Tail(@)]
    /\ MenuGoto(c, IF Len(todo[c]) = 1 THEN "done" ELSE "check")
    /\ UNCHANGED <<core, found, start, asked>>

InsertRefused(c) ==
    /\ menuPc[c] = "save"
    /\ ~found[c] /\ override[Head(todo[c]).entry] # "none"
    /\ MenuGoto(c, "failed")
    /\ UNCHANGED <<menuRows, menuLocals>>

End(c) == menuPc[c] \in {"done", "failed", "removed"} /\ MenuReturn(c)

\* removeCategoryOverride, removeItemOverride, removeBundleOverride.
FindForRemoval(c, e) ==
    /\ MenuArrives(c)
    /\ IsLive(override[e])
    /\ LET request == <<[entry |-> e, available |-> TRUE]>> IN
         /\ todo' = [todo EXCEPT ![c] = request]
         /\ asked' = [asked EXCEPT ![c] = request]
    /\ start' = [start EXCEPT ![c] = override]
    /\ MenuGoto(c, "remove")
    /\ UNCHANGED <<menuRows, found>>

RemoveOverride(c) ==
    /\ menuPc[c] = "remove"
    /\ override' = [override EXCEPT ![Head(todo[c]).entry] = "removed"]
    /\ MenuGoto(c, "removed")
    /\ UNCHANGED <<core, menuLocals>>

\* Administrators of the core menu.
EditCore(e) ==
    /\ core' = [core EXCEPT ![e] = ~@]
    /\ UNCHANGED <<override, menuPc, menuLocals>>

MenuNext ==
    \/ \E c \in MenuCalls :
        \/ \E s \in Requests : BulkUpdateAvailability(c, s)
        \/ CheckCore(c) \/ FindOverride(c) \/ SaveOverride(c)
        \/ InsertRefused(c) \/ End(c)
        \/ \E e \in MenuEntries : FindForRemoval(c, e)
        \/ RemoveOverride(c)
    \/ \E e \in MenuEntries : EditCore(e)

MenuSpec == MenuInit /\ [][MenuNext]_menuVars

-----------------------------------------------------------------------------
MenuLabels ==
    {"idle", "check", "find", "save", "remove", "done", "failed", "removed"}

\* Every variable keeps its type (the override entities).
MenuTypeOK ==
    /\ core \in [MenuEntries -> BOOLEAN]
    /\ override \in [MenuEntries -> OverrideRows]
    /\ menuPc \in [MenuCalls -> MenuLabels]
    /\ todo \in [MenuCalls -> Seq(OverrideUpdates)]
    /\ found \in [MenuCalls -> BOOLEAN]
    /\ start \in [MenuCalls -> [MenuEntries -> OverrideRows]]
    /\ asked \in [MenuCalls -> Seq(OverrideUpdates)]

\* What the cart accepts is what the menu shows: the checks statement by
\* statement and the joins of the customer queries agree, and a product is
\* shown under a category that is shown (getAvailableMenuForBranch).
CheckAgreesWithMenu ==
    /\ AvailableProducts = {p \in MenuProducts : IsProductAvailable(p)}
    /\ \A p \in AvailableProducts : CategoryOf[p] \in AvailableCategories

\* What the first n updates of a request s make of the override of e.
AfterFirst(n, s, old, e) ==
    IF \E i \in 1..n : s[i].entry = e
    THEN Row(\E i \in 1..n : s[i] = [entry |-> e, available |-> TRUE])
    ELSE old

\* A request on its own, wherever it is and where it fails: what it has still to
\* do is the end of what it was asked for, and the overrides are those it found
\* but for the updates before that, none of them skipped or done out of turn
\* (bulkUpdateAvailability).
BulkInOrder ==
    \A c \in MenuCalls : menuPc[c] \notin {"idle", "removed"} =>
        LET n == Len(asked[c]) - Len(todo[c]) IN
        /\ n >= 0
        /\ \A i \in DOMAIN todo[c] : todo[c][i] = asked[c][n + i]
        /\ \A e \in MenuEntries :
              override[e] = AfterFirst(n, asked[c], start[c][e], e)

\* On its own, an update is refused by the database only for an override that
\* was removed before (the unique key of the override entities).
Fails(c) == menuPc[c] = "save" /\ menuPc'[c] = "failed"
RefusedWasRemoved ==
    [][\A c \in MenuCalls : Fails(c) =>
         override[Head(todo[c]).entry] = "removed"]_menuVars

\* "Use transaction to ensure all or nothing" (branch-menu.service.ts:522).
BulkIsAllOrNothing ==
    \A c \in MenuCalls : menuPc[c] = "failed" => override = start[c]
=============================================================================
