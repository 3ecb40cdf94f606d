---------------------------- MODULE AddressBook ----------------------------
(***************************************************************************)
(* The default among a user's addresses (AddressesService) and among the   *)
(* user's saved cards (PaymentMethodsService).  Both take the default away *)
(* from every entry in one statement and give it to one in another.        *)
(*                                                                         *)
(* One action is one awaited statement.  A handler saves the whole entry   *)
(* it has read; what was deleted since is thereby brought back.  Entries   *)
(* are numbered in the order of their creation.                            *)
(***************************************************************************)
EXTENDS Naturals, FiniteSets

CONSTANTS
    BookCalls,      \* requests in flight
    MaxEntries,     \* bound on the entries a user makes
    MaxBookCalls,   \* requests at a time
    MaxBookFaults   \* bound on failed statements

Entries == 1..MaxEntries
None == 0

VARIABLES
    kind,           \* the book's service: "address" or "card"
    state,          \* entry -> "none", "live" or "deleted" (or inactive)
    isDefault,      \* entry -> its flag
    bookPc,         \* call -> its next statement
    entry,          \* call -> the entry it works on
    flag,           \* call -> the flag it will save with it
    heir,           \* call -> the address that succeeds a removed default
    bookFaults,
    bookAlone,      \* no request has met another one in flight    (history)
    tidy            \* requests since the last lone setDefault neither
                    \* overlapped nor failed                       (history)

bookRows == <<state, isDefault>>
bookLocals == <<entry, flag, heir>>
bookVars == <<kind, bookRows, bookPc, bookLocals, bookFaults, bookAlone, tidy>>

AddressAssumption ==
    MaxEntries \in Nat /\ MaxBookCalls \in Nat /\ MaxBookFaults \in Nat

BookInit ==
    /\ kind \in {"address", "card"}
    /\ state = [e \in Entries |-> "none"]
    /\ isDefault = [e \in Entries |-> FALSE]
    /\ bookPc = [c \in BookCalls |-> "idle"]
    /\ entry = [c \in BookCalls |-> None]
    /\ flag = [c \in BookCalls |-> FALSE]
    /\ heir = [c \in BookCalls |-> None]
    /\ bookFaults = 0
    /\ bookAlone = TRUE
    /\ tidy = TRUE

-----------------------------------------------------------------------------
Live == {e \in Entries : state[e] = "live"}
Defaults == {e \in Live : isDefault[e]}
Newest == {e \in Live : \A d \in Live : d <= e}
BookRequests == {c \in BookCalls : bookPc[c] # "idle"}

\* A request starts at `label', about entry e; f is the flag it would save.
BookStart(c, label, e, f) ==
    /\ bookPc[c] = "idle"
    /\ Cardinality(BookRequests) < MaxBookCalls
    /\ bookPc' = [bookPc EXCEPT ![c] = label]
    /\ entry' = [entry EXCEPT ![c] = e]
    /\ flag' = [flag EXCEPT ![c] = f]
    /\ bookAlone' = (BookRequests = {})
    /\ tidy' = (tidy /\ BookRequests = {})
    /\ UNCHANGED <<bookRows, heir, bookFaults>>

\* findOne is the read that starts a request about an entry.
StartFound(c, label, e, f) == e \in Live /\ BookStart(c, label, e, f)

BookGoto(c, label) ==
    /\ bookPc' = [bookPc EXCEPT ![c] = label]
    /\ UNCHANGED <<bookLocals, bookFaults, bookAlone>>

BookReturn(c) ==
    /\ bookPc' = [bookPc EXCEPT ![c] = "idle"]
    /\ entry' = [entry EXCEPT ![c] = None]
    /\ flag' = [flag EXCEPT ![c] = FALSE]
    /\ heir' = [heir EXCEPT ![c] = None]
    /\ UNCHANGED <<bookFaults, bookAlone>>

Write(e, f) ==
    /\ state' = [state EXCEPT ![e] = "live"]
    /\ isDefault' = [isDefault EXCEPT ![e] = f]

-----------------------------------------------------------------------------
\* clearDefaultAddress; the same statement for cards.
ClearDefault(c) ==
    /\ bookPc[c] \in {"clear_new", "clear_update", "clear_default"}
    /\ isDefault' = [e \in Entries |-> FALSE]
    /\ BookGoto(c, CASE bookPc[c] = "clear_new" -> "new"
                     [] bookPc[c] = "clear_update" -> "update"
                     [] bookPc[c] = "clear_default" -> "set_default")
    /\ UNCHANGED <<state, tidy>>

\* Mutant: a new default without clearDefaultAddress.
CreateWithoutClear(c) == \E f \in BOOLEAN : BookStart(c, "new", None, f)

\* create: the first address is the default.  savePaymentMethod: as asked.
Create(c) ==
    \/ BookStart(c, "clear_new", None, TRUE)
    \/ BookStart(c, "new", None, FALSE)

Count(c) ==
    /\ kind = "address"
    /\ bookPc[c] = "new"
    /\ flag' = [flag EXCEPT ![c] = @ \/ Live = {}]
    /\ bookPc' = [bookPc EXCEPT ![c] = "insert"]
    /\ UNCHANGED <<bookRows, entry, heir, bookFaults, bookAlone, tidy>>

Insert(c) ==
    /\ bookPc[c] = IF kind = "address" THEN "insert" ELSE "new"
    /\ \E e \in Entries :
         /\ \A d \in Entries : state[d] = "none" <=> d >= e
         /\ Write(e, flag[c])
    /\ BookReturn(c)
    /\ UNCHANGED tidy

\* update: the flag of the DTO, or the one read; revalidateAddress saves what
\* it has read with a new branch and fee.
Update(c, e) ==
    /\ kind = "address"
    /\ \/ StartFound(c, "clear_update", e, TRUE)
       \/ \E f \in {FALSE, isDefault[e]} : StartFound(c, "update", e, f)

SaveUpdate(c) ==
    /\ bookPc[c] = "update"
    /\ Write(entry[c], flag[c])
    /\ BookReturn(c)
    /\ UNCHANGED tidy

SetDefault(c, e) == StartFound(c, "clear_default", e, TRUE)

SaveDefault(c) ==
    /\ bookPc[c] = "set_default"
    /\ Write(entry[c], TRUE)
    /\ BookReturn(c)
    /\ tidy' = (tidy \/ bookAlone)

\* Mutant: no other address succeeds a removed default.
RemoveWithoutSuccessor(c, e) == StartFound(c, "delete", e, isDefault[e])

\* remove: the newest address succeeds a default one, if it is another.
RemoveEntry(c, e) ==
    StartFound(c, IF kind = "address" /\ isDefault[e] THEN "successor"
                                                      ELSE "delete",
               e, isDefault[e])

FindSuccessor(c) ==
    /\ bookPc[c] = "successor"
    /\ \/ \E e \in Newest \ {entry[c]} :
            /\ heir' = [heir EXCEPT ![c] = e]
            /\ bookPc' = [bookPc EXCEPT ![c] = "succeed"]
       \/ /\ Newest \subseteq {entry[c]}
          /\ bookPc' = [bookPc EXCEPT ![c] = "delete"]
          /\ UNCHANGED heir
    /\ UNCHANGED <<bookRows, entry, flag, bookFaults, bookAlone, tidy>>

SaveSuccessor(c) ==
    /\ bookPc[c] = "succeed"
    /\ Write(heir[c], TRUE)
    /\ BookGoto(c, "delete")
    /\ UNCHANGED tidy

\* softDelete of an address; a card is saved whole, with isActive false.
Delete(c) ==
    /\ bookPc[c] = "delete"
    /\ state' = [state EXCEPT ![entry[c]] = "deleted"]
    /\ isDefault' = IF kind = "card"
                    THEN [isDefault EXCEPT ![entry[c]] = flag[c]] ELSE isDefault
    /\ BookReturn(c)
    /\ UNCHANGED tidy

\* A statement fails, and the request with it.
BookFault(c) ==
    /\ bookPc[c] # "idle"
    /\ bookFaults < MaxBookFaults
    /\ bookPc' = [bookPc EXCEPT ![c] = "idle"]
    /\ entry' = [entry EXCEPT ![c] = None]
    /\ flag' = [flag EXCEPT ![c] = FALSE]
    /\ heir' = [heir EXCEPT ![c] = None]
    /\ bookFaults' = bookFaults + 1
    /\ tidy' = FALSE
    /\ UNCHANGED <<bookRows, bookAlone>>

BookNext ==
    /\ \E c \in BookCalls :
          \/ Create(c) \/ ClearDefault(c) \/ Count(c) \/ Insert(c)
          \/ \E e \in Entries : Update(c, e) \/ SetDefault(c, e) \/ RemoveEntry(c, e)
          \/ SaveUpdate(c) \/ SaveDefault(c)
          \/ FindSuccessor(c) \/ SaveSuccessor(c) \/ Delete(c)
          \/ BookFault(c)
    /\ UNCHANGED kind

BookSpec == BookInit /\ [][BookNext]_bookVars

-----------------------------------------------------------------------------
BookLabels ==
    {"idle", "clear_new", "clear_update", "clear_default", "new", "insert",
     "update", "set_default", "successor", "succeed", "delete"}

\* Every variable keeps its type (the entities UserAddress, PaymentMethod).
BookTypeOK ==
    /\ kind \in {"address", "card"}
    /\ state \in [Entries -> {"none", "live", "deleted"}]
    /\ isDefault \in [Entries -> BOOLEAN]
    /\ bookPc \in [BookCalls -> BookLabels]
    /\ entry \in [BookCalls -> Entries \cup {None}]
    /\ flag \in [BookCalls -> BOOLEAN]
    /\ heir \in [BookCalls -> Entries \cup {None}]
    /\ bookFaults \in Nat /\ bookAlone \in BOOLEAN /\ tidy \in BOOLEAN

\* Between requests a user has at most one default, from the start or from
\* any setDefault that ran by itself until requests overlap or one fails:
\* whatever overlapping requests leave, one setDefault repairs (setDefault).
AtMostOneDefault == tidy /\ BookRequests = {} => Cardinality(Defaults) <= 1

\* One request at a time, an address book that has a default only loses it
\* for good when an update takes it away or when the newest address, which
\* finds itself as its successor, is removed (remove).  That last case is not
\* intended: see DefaultHasSuccessor.
DefaultIsKept ==
    (/\ kind = "address" /\ tidy /\ tidy' /\ Defaults # {} /\ Defaults' = {}
     /\ \A c \in BookCalls : bookPc'[c] = "idle")
    => \E c \in BookCalls : \/ bookPc[c] = "update" /\ ~flag[c]
                            \/ bookPc[c] = "delete" /\ entry[c] \in Newest
OnlyNewestLeavesNone == [][DefaultIsKept]_bookVars

\* A comment of remove and a unit test: when the default address is deleted
\* and others are left, one of them becomes the default.  Requests that meet
\* no other and no failure do not keep this.
SuccessorIsSet ==
    \A c \in BookCalls :
        (/\ kind = "address" /\ tidy
         /\ bookPc[c] = "delete" /\ state'[entry[c]] = "deleted"
         /\ flag[c] /\ Live' # {})
        => Defaults' # {}
DefaultHasSuccessor == [][SuccessorIsSet]_bookVars
=============================================================================
