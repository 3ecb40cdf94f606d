------------------------- MODULE AddressBook_proofs -------------------------
(***************************************************************************)
(* Proofs about AddressBook, for any number of requests and entries: type  *)
(* correctness, that requests that neither overlap nor fail leave at most  *)
(* one default, as does any setDefault that ran by itself, and that they   *)
(* lose the last default in the two ways only that remove and update have. *)
(***************************************************************************)
EXTENDS AddressBook, FiniteSetTheorems, WellFoundedInduction, TLAPS

-----------------------------------------------------------------------------
(* Type correctness.                                                       *)

\* A request that is about an entry, or about an heir, has one.
AboutEntry ==
    {"clear_update", "clear_default", "update", "set_default", "successor",
     "succeed", "delete"}

WorkInv ==
    \A c \in BookCalls : /\ bookPc[c] \in AboutEntry => entry[c] \in Entries
                         /\ bookPc[c] = "succeed" => heir[c] \in Entries

TypeInv == BookTypeOK /\ WorkInv

\* Types hold in the beginning,
LEMMA InitTypes ==
    ASSUME AddressAssumption, BookInit
    PROVE  TypeInv
BY DEF AddressAssumption, BookInit, TypeInv, BookTypeOK, WorkInv, AboutEntry, BookLabels

\* for a request that starts at any of its labels,
LEMMA StartTypes ==
    ASSUME TypeInv, kind' = kind, NEW c \in BookCalls, NEW label \in BookLabels,
           NEW e \in Entries \cup {None}, NEW f \in BOOLEAN, BookStart(c, label, e, f),
           label \in AboutEntry => e \in Entries, label # "succeed"
    PROVE  TypeInv'
BY DEF TypeInv, BookTypeOK, WorkInv, BookStart, bookRows

\* thus for each that arrives;
LEMMA RequestTypes ==
    ASSUME TypeInv, kind' = kind, NEW c \in BookCalls,
           \/ Create(c)
           \/ \E e \in Entries : Update(c, e) \/ SetDefault(c, e) \/ RemoveEntry(c, e)
    PROVE  TypeInv'
<1>1. /\ {"clear_new", "new", "clear_update", "update", "clear_default",
          "successor", "delete"} \subseteq BookLabels \ {"succeed"}
      /\ {"clear_new", "new"} \cap AboutEntry = {}
  BY DEF BookLabels, AboutEntry
<1>2. isDefault \in [Entries -> BOOLEAN]
  BY DEF TypeInv, BookTypeOK
<1>3. CASE Create(c)
  BY <1>1, <1>3, StartTypes DEF Create
<1>4. ASSUME NEW e \in Entries, Update(c, e)
      PROVE  TypeInv'
  <2>1. PICK f \in BOOLEAN : \/ BookStart(c, "clear_update", e, f)
                             \/ BookStart(c, "update", e, f)
    BY <1>2, <1>4 DEF Update, StartFound
  <2>2. QED
    BY <1>1, <2>1, StartTypes
<1>5. ASSUME NEW e \in Entries, SetDefault(c, e)
      PROVE  TypeInv'
  BY <1>1, <1>5, StartTypes DEF SetDefault, StartFound
<1>6. ASSUME NEW e \in Entries, RemoveEntry(c, e)
      PROVE  TypeInv'
  BY <1>1, <1>2, <1>6, StartTypes DEF RemoveEntry, StartFound
<1>7. QED
  BY <1>3, <1>4, <1>5, <1>6

\* a row that is written keeps its columns,
LEMMA WriteTypes ==
    ASSUME TypeInv, NEW e \in Entries, NEW f \in BOOLEAN, Write(e, f)
    PROVE  /\ state' \in [Entries -> {"none", "live", "deleted"}]
           /\ isDefault' \in [Entries -> BOOLEAN]
BY DEF TypeInv, BookTypeOK, Write

\* and a request that ends leaves nothing behind.
LEMMA ReturnTypes ==
    ASSUME TypeInv, kind' = kind, NEW c \in BookCalls, BookReturn(c), tidy' \in BOOLEAN,
           state' \in [Entries -> {"none", "live", "deleted"}],
           isDefault' \in [Entries -> BOOLEAN]
    PROVE  TypeInv'
BY DEF TypeInv, BookTypeOK, WorkInv, BookReturn, BookLabels, AboutEntry

\* Each statement of a request keeps the types,
LEMMA StepTypes ==
    ASSUME TypeInv, kind' = kind, NEW c \in BookCalls,
           \/ ClearDefault(c) \/ Count(c) \/ Insert(c) \/ SaveUpdate(c)
           \/ SaveDefault(c) \/ FindSuccessor(c) \/ SaveSuccessor(c) \/ Delete(c)
           \/ BookFault(c)
    PROVE  TypeInv'
<1>1. CASE ClearDefault(c)
  <2>1. bookPc' \in [BookCalls -> BookLabels]
    BY <1>1 DEF ClearDefault, BookGoto, TypeInv, BookTypeOK, BookLabels
  <2>2. WorkInv'
    BY <1>1, <2>1
       DEF ClearDefault, BookGoto, TypeInv, BookTypeOK, WorkInv, AboutEntry, bookLocals
  <2>3. QED
    BY <1>1, <2>1, <2>2 DEF ClearDefault, BookGoto, TypeInv, BookTypeOK, bookLocals
<1>2. CASE Count(c)
  <2>1. bookPc' \in [BookCalls -> BookLabels] /\ flag' \in [BookCalls -> BOOLEAN]
    BY <1>2 DEF Count, TypeInv, BookTypeOK, BookLabels
  <2>2. QED
    BY <1>2, <2>1 DEF Count, TypeInv, BookTypeOK, WorkInv, AboutEntry, bookRows
<1>3. CASE Insert(c)
  <2>1. flag[c] \in BOOLEAN /\ tidy \in BOOLEAN
    BY DEF TypeInv, BookTypeOK
  <2>2. QED
    BY <1>3, <2>1, WriteTypes, ReturnTypes DEF Insert
<1>4. CASE SaveUpdate(c)
  <2>1. flag[c] \in BOOLEAN /\ tidy \in BOOLEAN /\ entry[c] \in Entries
    BY <1>4 DEF SaveUpdate, TypeInv, BookTypeOK, WorkInv, AboutEntry
  <2>2. QED
    BY <1>4, <2>1, WriteTypes, ReturnTypes DEF SaveUpdate
<1>5. CASE SaveDefault(c)
  <2>1. entry[c] \in Entries /\ tidy' \in BOOLEAN
    BY <1>5 DEF SaveDefault, TypeInv, BookTypeOK, WorkInv, AboutEntry
  <2>2. QED
    BY <1>5, <2>1, WriteTypes, ReturnTypes DEF SaveDefault
<1>6. CASE FindSuccessor(c)
  <2>1. Newest \subseteq Entries
    BY DEF Newest, Live
  <2>2. bookPc' \in [BookCalls -> BookLabels] /\ heir' \in [BookCalls -> Entries \cup {None}]
    BY <1>6, <2>1 DEF FindSuccessor, TypeInv, BookTypeOK, BookLabels
  <2>3. WorkInv'
    BY <1>6, <2>1 DEF FindSuccessor, TypeInv, BookTypeOK, WorkInv, AboutEntry
  <2>4. QED
    BY <1>6, <2>2, <2>3 DEF FindSuccessor, TypeInv, BookTypeOK, bookRows
<1>7. CASE SaveSuccessor(c)
  <2>1. heir[c] \in Entries
    BY <1>7 DEF SaveSuccessor, TypeInv, WorkInv
  <2>2. /\ state' \in [Entries -> {"none", "live", "deleted"}]
        /\ isDefault' \in [Entries -> BOOLEAN]
    BY <1>7, <2>1, WriteTypes DEF SaveSuccessor
  <2>3. QED
    BY <1>7, <2>2 DEF SaveSuccessor, BookGoto, bookLocals, TypeInv, BookTypeOK, WorkInv,
       AboutEntry, BookLabels
<1>8. CASE Delete(c)
  <2>1. /\ tidy' \in BOOLEAN
        /\ state' \in [Entries -> {"none", "live", "deleted"}]
        /\ isDefault' \in [Entries -> BOOLEAN]
    BY <1>8 DEF Delete, TypeInv, BookTypeOK
  <2>2. QED
    BY <1>8, <2>1, ReturnTypes DEF Delete
<1>9. CASE BookFault(c)
  <2>1. /\ bookPc' \in [BookCalls -> BookLabels]
        /\ entry' \in [BookCalls -> Entries \cup {None}]
        /\ flag' \in [BookCalls -> BOOLEAN]
        /\ heir' \in [BookCalls -> Entries \cup {None}]
    BY <1>9 DEF BookFault, TypeInv, BookTypeOK, BookLabels
  <2>2. bookFaults' \in Nat /\ bookAlone' \in BOOLEAN /\ tidy' \in BOOLEAN
    <3>1. bookFaults' = bookFaults + 1 /\ tidy' = FALSE /\ bookAlone' = bookAlone
      BY <1>9 DEF BookFault
    <3>2. bookFaults \in Nat /\ bookAlone \in BOOLEAN
      BY DEF TypeInv, BookTypeOK
    <3>3. bookFaults' \in Nat
      BY <3>1, <3>2
    <3>4. QED
      BY <3>1, <3>2, <3>3, Zenon
  <2>3. WorkInv'
    BY <1>9 DEF BookFault, TypeInv, BookTypeOK, WorkInv, AboutEntry
  <2>4. QED
    BY <1>9, <2>1, <2>2, <2>3 DEF BookFault, TypeInv, BookTypeOK, bookRows
<1>10. QED
  BY <1>1, <1>2, <1>3, <1>4, <1>5, <1>6, <1>7, <1>8, <1>9

\* hence each step.
LEMMA TypesStep ==
    ASSUME TypeInv, [BookNext]_bookVars
    PROVE  TypeInv'
<1>1. CASE UNCHANGED bookVars
  BY <1>1 DEF TypeInv, BookTypeOK, WorkInv, bookVars, bookRows, bookLocals
<1>2. CASE BookNext
  BY <1>2, RequestTypes, StepTypes DEF BookNext
<1>3. QED
  BY <1>1, <1>2

\* The rows of the entities and what each request has read keep their types,
\* for any number of requests (AddressesService, PaymentMethodsService).
THEOREM TypeCorrect ==
    ASSUME AddressAssumption
    PROVE  BookSpec => []BookTypeOK
<1>1. BookInit => TypeInv
  BY InitTypes
<1>2. TypeInv /\ [BookNext]_bookVars => TypeInv'
  BY TypesStep
<1>3. TypeInv => BookTypeOK
  BY DEF TypeInv
<1>4. QED
  BY <1>1, <1>2, <1>3, PTL DEF BookSpec
-----------------------------------------------------------------------------
(* Requests that neither overlap nor fail leave at most one default.  Each *)
(* label has its own account of what is left of the defaults when its      *)
(* statement is about to run.                                              *)

One(S) == \A d, e \in S : d = e

OneInFlight ==
    tidy \/ bookAlone => \A c, d \in BookCalls : bookPc[c] # "idle" /\ bookPc[d] # "idle" => c = d

ClearedInv ==
    bookAlone => \A c \in BookCalls : bookPc[c] = "set_default" =>
                 \A e \in Entries : ~isDefault[e]

Prepared(c) ==
    /\ bookPc[c] \in {"new", "insert"} => IF flag[c] THEN Defaults = {} ELSE One(Defaults)
    /\ bookPc[c] = "update" =>
         IF flag[c] THEN Defaults \subseteq {entry[c]} ELSE One(Defaults)
    /\ bookPc[c] = "set_default" => Defaults = {}
    /\ bookPc[c] \in {"successor", "succeed"} => Defaults \subseteq {entry[c]}
    /\ bookPc[c] = "delete" => One(Defaults \ {entry[c]})

TidyInv == tidy => /\ BookRequests = {} => One(Defaults)
                   /\ \A c \in BookCalls : Prepared(c)

DefaultInv == OneInFlight /\ ClearedInv /\ TidyInv

\* DefaultInv holds in the beginning,
LEMMA InitDefaults ==
    ASSUME BookInit
    PROVE  DefaultInv
BY DEF BookInit, DefaultInv, OneInFlight, ClearedInv, TidyInv, Prepared, One,
   BookRequests, Defaults, Live

\* Only the requests in flight have to be prepared.
LEMMA OnlyOthersIdle ==
    ASSUME TypeInv, NEW c \in BookCalls, tidy' => Prepared(c)', bookPc'[c] # "idle",
           (tidy' \/ bookAlone') => \A d \in BookCalls : d # c => bookPc'[d] = "idle"
    PROVE  OneInFlight' /\ TidyInv'
<1>1. BookRequests' # {}
  BY DEF BookRequests
<1>2. ASSUME NEW d \in BookCalls, tidy'
      PROVE  Prepared(d)'
  <2>1. CASE d = c
    BY <1>2, <2>1
  <2>2. CASE d # c
    BY <1>2, <2>2 DEF Prepared
  <2>3. QED
    BY <2>1, <2>2
<1>3. QED
  BY <1>1, <1>2 DEF OneInFlight, TidyInv

\* A request that starts alone finds at most one default.
LEMMA StartDefaults ==
    ASSUME TypeInv, DefaultInv, NEW c \in BookCalls, NEW label, label # "idle",
           label # "set_default", NEW e \in Entries \cup {None}, NEW f \in BOOLEAN,
           BookStart(c, label, e, f),
           tidy /\ BookRequests = {} => Prepared(c)'
    PROVE  DefaultInv'
<1>1. /\ bookPc' = [bookPc EXCEPT ![c] = label]
      /\ bookAlone' = (BookRequests = {}) /\ tidy' = (tidy /\ BookRequests = {})
      /\ bookPc \in [BookCalls -> BookLabels]
  BY DEF BookStart, TypeInv, BookTypeOK
<1>2. bookPc'[c] = label /\ \A d \in BookCalls : d # c => bookPc'[d] = bookPc[d]
  BY <1>1
<1>3. tidy' \/ bookAlone' => \A d \in BookCalls : d # c => bookPc'[d] = "idle"
  BY <1>1, <1>2 DEF BookRequests
<1>4. OneInFlight' /\ TidyInv'
  BY <1>1, <1>2, <1>3, OnlyOthersIdle
<1>5. ClearedInv'
  BY <1>2, <1>3 DEF ClearedInv
<1>6. QED
  BY <1>4, <1>5 DEF DefaultInv

\* when a request arrives,
LEMMA RequestDefaults ==
    ASSUME TypeInv, DefaultInv, NEW c \in BookCalls,
           \/ Create(c)
           \/ \E e \in Entries : Update(c, e) \/ SetDefault(c, e) \/ RemoveEntry(c, e)
    PROVE  DefaultInv'
<1>1. ASSUME NEW label, NEW e \in Entries \cup {None}, NEW f \in BOOLEAN,
             BookStart(c, label, e, f)
      PROVE  /\ bookPc'[c] = label /\ entry'[c] = e /\ flag'[c] = f
             /\ Defaults' = Defaults /\ Live' = Live
  BY <1>1 DEF BookStart, bookRows, TypeInv, BookTypeOK, Defaults, Live
<1>2. tidy /\ BookRequests = {} => One(Defaults)
  BY DEF DefaultInv, TidyInv
<1>3. isDefault \in [Entries -> BOOLEAN] /\ TRUE \in BOOLEAN /\ FALSE \in BOOLEAN
  BY DEF TypeInv, BookTypeOK
<1>4. ASSUME BookStart(c, "clear_new", None, TRUE)
      PROVE  DefaultInv'
  <2>1. bookPc'[c] = "clear_new"
    BY <1>1, <1>3, <1>4
  <2>2. QED
    BY <1>3, <1>4, <2>1, StartDefaults DEF Prepared
<1>5. ASSUME BookStart(c, "new", None, FALSE)
      PROVE  DefaultInv'
  <2>1. bookPc'[c] = "new" /\ flag'[c] = FALSE /\ Defaults' = Defaults
    BY <1>1, <1>3, <1>5
  <2>2. tidy /\ BookRequests = {} => Prepared(c)'
    BY <1>2, <2>1 DEF Prepared, One
  <2>3. QED
    BY <1>3, <1>5, <2>2, StartDefaults
<1>6. ASSUME NEW e \in Entries, e \in Live,
             \/ BookStart(c, "clear_update", e, TRUE)
             \/ BookStart(c, "clear_default", e, TRUE)
      PROVE  DefaultInv'
  <2>1. bookPc'[c] \in {"clear_update", "clear_default"}
    BY <1>1, <1>3, <1>6
  <2>2. QED
    BY <1>3, <1>6, <2>1, StartDefaults DEF Prepared
<1>7. ASSUME NEW e \in Entries, e \in Live, NEW f \in {FALSE, isDefault[e]},
             BookStart(c, "update", e, f)
      PROVE  DefaultInv'
  <2>1. f \in BOOLEAN
    BY <1>3
  <2>2. bookPc'[c] = "update" /\ entry'[c] = e /\ flag'[c] = f /\ Defaults' = Defaults
    BY <1>1, <1>7, <2>1
  <2>3. f => e \in Defaults
    BY <1>7 DEF Defaults
  <2>4. tidy /\ BookRequests = {} => Prepared(c)'
    BY <1>2, <2>2, <2>3 DEF Prepared, One
  <2>5. QED
    BY <1>7, <2>1, <2>4, StartDefaults
<1>8. ASSUME NEW e \in Entries, e \in Live, BookStart(c, "delete", e, isDefault[e])
      PROVE  DefaultInv'
  <2>1. isDefault[e] \in BOOLEAN
    BY <1>3
  <2>2. bookPc'[c] = "delete" /\ Defaults' = Defaults
    BY <1>1, <1>8, <2>1
  <2>3. tidy /\ BookRequests = {} => Prepared(c)'
    BY <1>2, <2>2 DEF Prepared, One
  <2>4. QED
    BY <1>8, <2>1, <2>3, StartDefaults
<1>9. ASSUME NEW e \in Entries, e \in Live, isDefault[e],
             BookStart(c, "successor", e, isDefault[e])
      PROVE  DefaultInv'
  <2>1. isDefault[e] \in BOOLEAN
    BY <1>3
  <2>2. bookPc'[c] = "successor" /\ entry'[c] = e /\ Defaults' = Defaults
    BY <1>1, <1>9, <2>1
  <2>3. e \in Defaults
    BY <1>9 DEF Defaults
  <2>4. tidy /\ BookRequests = {} => Prepared(c)'
    BY <1>2, <2>2, <2>3 DEF Prepared, One
  <2>5. QED
    BY <1>9, <2>1, <2>4, StartDefaults
<1>10. CASE Create(c)
  BY <1>4, <1>5, <1>10 DEF Create
<1>11. ASSUME NEW e \in Entries, Update(c, e) \/ SetDefault(c, e) \/ RemoveEntry(c, e)
       PROVE  DefaultInv'
  <2>1. CASE Update(c, e)
    BY <1>6, <1>7, <2>1 DEF Update, StartFound
  <2>2. CASE SetDefault(c, e)
    BY <1>6, <2>2 DEF SetDefault, StartFound
  <2>3. CASE RemoveEntry(c, e)
    BY <1>8, <1>9, <2>3 DEF RemoveEntry, StartFound
  <2>4. QED
    BY <1>11, <2>1, <2>2, <2>3
<1>12. QED
  BY <1>10, <1>11

\* What a request in flight excludes, and what its statement leaves.
LEMMA Alone ==
    ASSUME TypeInv, DefaultInv, NEW c \in BookCalls, bookPc[c] # "idle", tidy \/ bookAlone
    PROVE  \A d \in BookCalls : d # c => bookPc[d] = "idle"
BY DEF DefaultInv, OneInFlight

\* A statement that is not the last prepares the one that follows.
LEMMA GotoDefaults ==
    ASSUME TypeInv, DefaultInv, NEW c \in BookCalls, NEW label, label # "idle",
           bookPc[c] # "idle", bookPc' = [bookPc EXCEPT ![c] = label],
           bookAlone' = bookAlone, tidy' = tidy, tidy => Prepared(c)',
           label = "set_default" => \A e \in Entries : ~isDefault'[e]
    PROVE  DefaultInv'
<1>1. bookPc'[c] = label /\ \A d \in BookCalls : d # c => bookPc'[d] = bookPc[d]
  BY DEF TypeInv, BookTypeOK
<1>2. tidy' \/ bookAlone' => \A d \in BookCalls : d # c => bookPc'[d] = "idle"
  BY <1>1, Alone
<1>3. OneInFlight' /\ TidyInv'
  BY <1>1, <1>2, OnlyOthersIdle
<1>4. ClearedInv'
  BY <1>1, <1>2 DEF ClearedInv
<1>5. QED
  BY <1>3, <1>4 DEF DefaultInv

\* The last statement of a request leaves at most one default.
LEMMA ReturnDefaults ==
    ASSUME TypeInv, DefaultInv, NEW c \in BookCalls, BookReturn(c), bookPc[c] # "idle",
           tidy' => (tidy \/ bookAlone) /\ One(Defaults)'
    PROVE  DefaultInv'
<1>1. bookPc' = [bookPc EXCEPT ![c] = "idle"] /\ bookAlone' = bookAlone /\ bookPc \in [BookCalls -> BookLabels]
  BY DEF BookReturn, TypeInv, BookTypeOK
<1>2. tidy' \/ bookAlone' => \A d \in BookCalls : bookPc'[d] = "idle"
  BY <1>1, Alone
<1>3. QED
  BY <1>1, <1>2 DEF DefaultInv, OneInFlight, ClearedInv, TidyInv, Prepared

\* A row that is written joins the defaults or leaves them.
LEMMA WriteDefaults ==
    ASSUME TypeInv, NEW e \in Entries, NEW f \in BOOLEAN, Write(e, f)
    PROVE  Defaults' = IF f THEN Defaults \cup {e} ELSE Defaults \ {e}
BY DEF TypeInv, BookTypeOK, Write, Defaults, Live

\* with each statement of a request,
LEMMA StepDefaults ==
    ASSUME TypeInv, DefaultInv, NEW c \in BookCalls,
           \/ ClearDefault(c) \/ Count(c) \/ Insert(c) \/ SaveUpdate(c)
           \/ SaveDefault(c) \/ FindSuccessor(c) \/ SaveSuccessor(c) \/ Delete(c)
           \/ BookFault(c)
    PROVE  DefaultInv'
<1> DEFINE Ready == tidy => Prepared(c)
<1>1. /\ Ready /\ bookPc \in [BookCalls -> BookLabels] /\ flag \in [BookCalls -> BOOLEAN]
      /\ entry \in [BookCalls -> Entries \cup {None}]
      /\ isDefault \in [Entries -> BOOLEAN]
  BY DEF DefaultInv, TidyInv, TypeInv, BookTypeOK
<1>2. CASE ClearDefault(c)
  <2>1. PICK label \in {"new", "update", "set_default"} :
             bookPc' = [bookPc EXCEPT ![c] = label]
    BY <1>2 DEF ClearDefault, BookGoto
  <2>2. (\A e \in Entries : ~isDefault'[e]) /\ Defaults' = {}
    BY <1>2 DEF ClearDefault, Defaults, Live
  <2>3. Prepared(c)'
    BY <1>1, <2>1, <2>2 DEF Prepared, One
  <2>4. bookPc[c] # "idle" /\ bookAlone' = bookAlone /\ tidy' = tidy
    BY <1>2 DEF ClearDefault, BookGoto
  <2>5. QED
    BY <2>1, <2>2, <2>3, <2>4, GotoDefaults
<1>3. CASE Count(c)
  <2>1. /\ bookPc[c] = "new" /\ bookPc' = [bookPc EXCEPT ![c] = "insert"]
        /\ bookAlone' = bookAlone /\ tidy' = tidy
    BY <1>3 DEF Count
  <2>2. flag'[c] = (flag[c] \/ Live = {}) /\ Defaults' = Defaults
    BY <1>1, <1>3 DEF Count, bookRows, Defaults, Live
  <2>3. Live = {} => Defaults = {}
    BY DEF Defaults
  <2>4. tidy => Prepared(c)'
    <3>1. bookPc'[c] = "insert"
      BY <1>1, <2>1
    <3>2. tidy => IF flag[c] THEN Defaults = {} ELSE One(Defaults)
      BY <1>1, <2>1 DEF Prepared
    <3>3. QED
      BY <2>2, <2>3, <3>1, <3>2 DEF Prepared
  <2>5. QED
    BY <2>1, <2>4, GotoDefaults
<1>4. CASE Insert(c)
  <2>1. bookPc[c] \in {"new", "insert"} /\ BookReturn(c) /\ tidy' = tidy
    BY <1>4 DEF Insert
  <2>2. PICK e \in Entries : Write(e, flag[c])
    BY <1>4 DEF Insert
  <2>3. flag[c] \in BOOLEAN
    BY <1>1
  <2>4. Defaults' = IF flag[c] THEN Defaults \cup {e} ELSE Defaults \ {e}
    BY <2>2, <2>3, WriteDefaults
  <2>5. tidy => One(Defaults)'
    BY <1>1, <2>1, <2>4 DEF Prepared, One
  <2>6. QED
    BY <2>1, <2>5, ReturnDefaults
<1>5. CASE SaveUpdate(c)
  <2>1. bookPc[c] = "update" /\ BookReturn(c) /\ tidy' = tidy /\ Write(entry[c], flag[c])
    BY <1>5 DEF SaveUpdate
  <2>2. flag[c] \in BOOLEAN /\ entry[c] \in Entries
    BY <1>1, <2>1 DEF TypeInv, WorkInv, AboutEntry
  <2>3. Defaults' = IF flag[c] THEN Defaults \cup {entry[c]} ELSE Defaults \ {entry[c]}
    BY <2>1, <2>2, WriteDefaults
  <2>4. tidy => One(Defaults)'
    BY <1>1, <2>1, <2>3 DEF Prepared, One
  <2>5. QED
    BY <2>1, <2>4, ReturnDefaults
<1>6. CASE SaveDefault(c)
  <2>1. /\ bookPc[c] = "set_default" /\ BookReturn(c) /\ tidy' = (tidy \/ bookAlone)
        /\ Write(entry[c], TRUE)
    BY <1>6 DEF SaveDefault
  <2>2. entry[c] \in Entries
    BY <2>1 DEF TypeInv, WorkInv, AboutEntry
  <2>3. Defaults' = Defaults \cup {entry[c]}
    BY <2>1, <2>2, WriteDefaults
  <2>4. bookAlone => Defaults = {}
    BY <2>1 DEF DefaultInv, ClearedInv, Defaults, Live
  <2>5. tidy => Defaults = {}
    BY <1>1, <2>1 DEF Prepared
  <2>6. tidy' => One(Defaults)'
    BY <2>1, <2>3, <2>4, <2>5 DEF One
  <2>7. QED
    BY <2>1, <2>6, ReturnDefaults
<1>7. CASE FindSuccessor(c)
  <2>1. /\ bookPc[c] = "successor" /\ bookAlone' = bookAlone /\ tidy' = tidy
        /\ entry' = entry /\ Defaults' = Defaults
    BY <1>7 DEF FindSuccessor, bookRows, Defaults, Live
  <2>2. PICK label \in {"succeed", "delete"} : bookPc' = [bookPc EXCEPT ![c] = label]
    BY <1>7 DEF FindSuccessor
  <2>3. tidy => Prepared(c)'
    BY <1>1, <2>1, <2>2 DEF Prepared, One
  <2>4. QED
    BY <2>1, <2>2, <2>3, GotoDefaults
<1>8. CASE SaveSuccessor(c)
  <2>1. /\ bookPc[c] = "succeed" /\ bookAlone' = bookAlone /\ tidy' = tidy /\ entry' = entry
        /\ bookPc' = [bookPc EXCEPT ![c] = "delete"] /\ Write(heir[c], TRUE)
    BY <1>8 DEF SaveSuccessor, BookGoto, bookLocals
  <2>2. heir[c] \in Entries
    BY <2>1 DEF TypeInv, WorkInv
  <2>3. Defaults' = Defaults \cup {heir[c]}
    BY <2>1, <2>2, WriteDefaults
  <2>4. tidy => Prepared(c)'
    BY <1>1, <2>1, <2>3 DEF Prepared, One
  <2>5. QED
    BY <2>1, <2>4, GotoDefaults
<1>9. CASE Delete(c)
  <2>1. bookPc[c] = "delete" /\ BookReturn(c) /\ tidy' = tidy
    BY <1>9 DEF Delete
  <2>2. Defaults' = Defaults \ {entry[c]}
    BY <1>1, <1>9 DEF Delete, Defaults, Live, TypeInv, BookTypeOK
  <2>3. tidy => One(Defaults)'
    BY <1>1, <2>1, <2>2 DEF Prepared, One
  <2>4. QED
    BY <2>1, <2>3, ReturnDefaults
<1>10. CASE BookFault(c)
  <2>1. /\ bookPc[c] # "idle" /\ bookPc' = [bookPc EXCEPT ![c] = "idle"] /\ ~tidy'
        /\ bookAlone' = bookAlone
    BY <1>10 DEF BookFault
  <2>2. bookAlone => \A d \in BookCalls : d # c => bookPc[d] = "idle"
    BY <2>1, Alone
  <2>3. QED
    BY <1>1, <2>1, <2>2 DEF DefaultInv, OneInFlight, ClearedInv, TidyInv
<1>11. QED
  BY <1>2, <1>3, <1>4, <1>5, <1>6, <1>7, <1>8, <1>9, <1>10

\* hence with each step.
LEMMA DefaultsStep ==
    ASSUME TypeInv, DefaultInv, [BookNext]_bookVars
    PROVE  DefaultInv'
<1>1. CASE UNCHANGED bookVars
  BY <1>1 DEF DefaultInv, OneInFlight, ClearedInv, TidyInv, Prepared, One,
     BookRequests, Defaults, Live, bookVars, bookRows, bookLocals
<1>2. CASE BookNext
  BY <1>2, RequestDefaults, StepDefaults DEF BookNext
<1>3. QED
  BY <1>1, <1>2

\* A set whose members are all equal has at most one.
LEMMA OneIsAtMostOne ==
    ASSUME NEW S, One(S)
    PROVE  Cardinality(S) <= 1
<1>1. CASE S = {}
  BY <1>1, FS_EmptySet
<1>2. ASSUME NEW d \in S
      PROVE  Cardinality(S) <= 1
  <2>1. S = {d}
    BY <1>2 DEF One
  <2>2. QED
    BY <2>1, FS_Singleton
<1>3. QED
  BY <1>1, <1>2

\* A user's requests, one at a time, leave at most one default address and
\* one default card, whatever number of entries and in whatever order; once
\* requests have overlapped or failed, one setDefault by itself repairs it.
THEOREM LoneRequestsKeepOneDefault ==
    ASSUME AddressAssumption
    PROVE  BookSpec => []AtMostOneDefault
<1>1. BookInit => TypeInv /\ DefaultInv
  BY InitTypes, InitDefaults
<1>2. TypeInv /\ DefaultInv /\ [BookNext]_bookVars => TypeInv' /\ DefaultInv'
  BY TypesStep, DefaultsStep
<1>3. DefaultInv => AtMostOneDefault
  BY OneIsAtMostOne DEF DefaultInv, TidyInv, AtMostOneDefault
<1>4. QED
  BY <1>1, <1>2, <1>3, PTL DEF BookSpec
-----------------------------------------------------------------------------
(* One request at a time, a default is not lost for good but in the two    *)
(* ways that DefaultIsKept names.                                          *)

\* A user with an address has a newest one: the entries are well-founded.
LEMMA NewestExists ==
    ASSUME AddressAssumption, NEW e \in Live
    PROVE  Newest # {}
<1> DEFINE Since(d) == {x \in Live : x >= d}
           Tails == {Since(d) : d \in Live}
<1>1. IsFiniteSet(Live) /\ Live \subseteq Nat
  <2>1. IsFiniteSet(Entries)
    BY FS_Interval DEF Entries, AddressAssumption
  <2>2. Live \in SUBSET Entries /\ Entries \subseteq Nat
    BY DEF Live, Entries, AddressAssumption
  <2>3. QED
    BY <2>1, <2>2, FS_Subset
<1>2. IsWellFoundedOn(StrictSubsetOrdering(Live), SUBSET Live)
  BY <1>1, FS_StrictSubsetOrderingWellFounded, FS_FiniteSubsetsOfFinite
<1>3. Tails \subseteq SUBSET Live /\ Tails # {}
  OBVIOUS
<1>4. PICK T \in Tails : \A U \in Tails : ~(<<U, T>> \in StrictSubsetOrdering(Live))
  <2> HIDE DEF Tails
  <2>1. QED
    BY <1>2, <1>3, WFMin
<1>5. PICK d \in Live : T = Since(d)
  BY <1>4
<1>6. ASSUME NEW x \in Live, x > d
      PROVE  FALSE
  <2>1. Since(x) \subseteq Since(d) /\ d \in Since(d) /\ d \notin Since(x)
    <3>1. x \in Nat /\ d \in Nat /\ d \in Live /\ \A y \in Live : y \in Nat
      BY <1>1
    <3>2. \A y \in Live : y >= x => y >= d
      BY <1>6, <3>1
    <3>3. d >= d /\ ~(d >= x)
      BY <1>6, <3>1
    <3>4. Since(x) \subseteq Since(d)
      BY <3>2
    <3>5. d \in Since(d) /\ d \notin Since(x)
      BY <3>1, <3>3
    <3>6. QED
      BY <3>4, <3>5
  <2>2. Since(x) \in Tails /\ Since(x) # Since(d)
    BY <2>1
  <2>3. <<Since(x), T>> \in StrictSubsetOrdering(Live)
    BY <1>5, <2>1, <2>2 DEF StrictSubsetOrdering
  <2>4. QED
    BY <1>4, <2>2, <2>3
<1>7. \A x \in Live : x <= d
  BY <1>1, <1>6
<1>8. QED
  BY <1>7 DEF Newest

\* What remove has prepared: its address is there, another one succeeds it,
\* and when it is deleted it was no default, was the newest, or is succeeded.
HeirReady(c) ==
    /\ bookPc[c] = "succeed" => heir[c] # entry[c]
    /\ tidy /\ bookPc[c] = "successor" => entry[c] \in Live
    /\ tidy /\ bookPc[c] = "delete" /\ entry[c] \in Defaults =>
         entry[c] \in Newest \/ Defaults # {entry[c]}

HeirInv == kind = "address" => \A c \in BookCalls : HeirReady(c)

\* The other requests are past or before all this while one is alone.
LEMMA OthersReady ==
    ASSUME NEW c \in BookCalls, TypeInv, HeirInv, kind' = kind,
           kind = "address" => HeirReady(c)',
           \A d \in BookCalls : d # c => /\ bookPc'[d] = bookPc[d]
                                         /\ heir'[d] = heir[d] /\ entry'[d] = entry[d],
           tidy' => \A d \in BookCalls : d # c => bookPc'[d] = "idle"
    PROVE  HeirInv'
<1> SUFFICES ASSUME kind = "address", NEW d \in BookCalls, d # c
             PROVE  HeirReady(d)'
  BY DEF HeirInv
<1>1. tidy' => bookPc'[d] = "idle"
  OBVIOUS
<1>2. bookPc'[d] = "succeed" => heir'[d] # entry'[d]
  BY DEF HeirInv, HeirReady
<1>3. QED
  BY <1>1, <1>2 DEF HeirReady

\* A request that arrives by itself has what it needs of an heir.
LEMMA StartHeirs ==
    ASSUME TypeInv, HeirInv, kind' = kind, NEW c \in BookCalls, NEW label, label # "succeed",
           NEW e \in Entries \cup {None}, NEW f, BookStart(c, label, e, f),
           label = "successor" => e \in Live,
           kind = "address" /\ label = "delete" => e \notin Defaults
    PROVE  HeirInv'
<1>1. /\ bookPc' = [bookPc EXCEPT ![c] = label] /\ entry' = [entry EXCEPT ![c] = e]
      /\ heir' = heir /\ tidy' = (tidy /\ BookRequests = {})
      /\ bookPc \in [BookCalls -> BookLabels]
      /\ entry \in [BookCalls -> Entries \cup {None}]
      /\ Live' = Live /\ Defaults' = Defaults
  BY DEF BookStart, bookRows, TypeInv, BookTypeOK, Live, Defaults
<1>2. HeirReady(c)' \/ kind # "address"
  BY <1>1 DEF HeirReady
<1>3. tidy' => \A d \in BookCalls : d # c => bookPc'[d] = "idle"
  BY <1>1 DEF BookRequests
<1>4. QED
  BY <1>1, <1>2, <1>3, OthersReady

\* Every step leaves the heir of a request that is alone ready.
LEMMA HeirStep ==
    ASSUME AddressAssumption, TypeInv, DefaultInv, HeirInv, [BookNext]_bookVars
    PROVE  HeirInv'
<1> SUFFICES ASSUME kind' = kind PROVE HeirInv'
  BY DEF BookNext, bookVars
<1>1. /\ isDefault \in [Entries -> BOOLEAN] /\ bookPc \in [BookCalls -> BookLabels]
      /\ heir \in [BookCalls -> Entries \cup {None}]
      /\ entry \in [BookCalls -> Entries \cup {None}]
  BY DEF TypeInv, BookTypeOK
<1>2. CASE UNCHANGED bookVars
  BY <1>2 DEF HeirInv, HeirReady, Live, Defaults, Newest, bookVars, bookRows, bookLocals
<1>3. ASSUME NEW c \in BookCalls, Create(c)
      PROVE  HeirInv'
  BY <1>3, StartHeirs DEF Create, None
<1>4. ASSUME NEW c \in BookCalls, NEW e \in Entries,
             Update(c, e) \/ SetDefault(c, e) \/ RemoveEntry(c, e)
      PROVE  HeirInv'
  <2>1. e \in Defaults <=> e \in Live /\ isDefault[e]
    BY DEF Defaults
  <2>2. CASE Update(c, e)
    BY <2>2, StartHeirs DEF Update, StartFound
  <2>3. CASE SetDefault(c, e)
    BY <2>3, StartHeirs DEF SetDefault, StartFound
  <2>4. CASE RemoveEntry(c, e)
    BY <2>1, <2>4, StartHeirs DEF RemoveEntry, StartFound
  <2>5. QED
    BY <1>4, <2>2, <2>3, <2>4
<1>5. ASSUME NEW c \in BookCalls, NEW label, bookPc[c] # "idle",
             bookPc' = [bookPc EXCEPT ![c] = label],
             tidy' => tidy /\ (kind = "address" => HeirReady(c)'),
             label # "succeed" \/ (heir'[c] # entry'[c]),
             \A d \in BookCalls : d # c => heir'[d] = heir[d] /\ entry'[d] = entry[d]
      PROVE  HeirInv'
  <2>1. bookPc'[c] = label /\ \A d \in BookCalls : d # c => bookPc'[d] = bookPc[d]
    BY <1>1, <1>5
  <2>2. tidy' => \A d \in BookCalls : d # c => bookPc'[d] = "idle"
    BY <1>5, <2>1, Alone
  <2>3. ~tidy' => HeirReady(c)'
    BY <1>5, <2>1 DEF HeirReady
  <2>4. QED
    BY <1>5, <2>1, <2>2, <2>3, OthersReady
<1>6. ASSUME NEW c \in BookCalls, NEW label, label \notin {"succeed", "successor", "delete"},
             bookPc[c] # "idle", bookPc' = [bookPc EXCEPT ![c] = label], tidy' => tidy \/ bookAlone,
             \A d \in BookCalls : d # c => heir'[d] = heir[d] /\ entry'[d] = entry[d]
      PROVE  HeirInv'
  <2>1. bookPc'[c] = label /\ \A d \in BookCalls : d # c => bookPc'[d] = bookPc[d]
    BY <1>1, <1>6
  <2>2. tidy' => \A d \in BookCalls : d # c => bookPc'[d] = "idle"
    BY <1>6, <2>1, Alone
  <2>3. HeirReady(c)'
    BY <1>6, <2>1 DEF HeirReady
  <2>4. QED
    BY <1>6, <2>1, <2>2, <2>3, OthersReady
<1>7. ASSUME NEW c \in BookCalls,
             \/ ClearDefault(c) \/ Count(c) \/ Insert(c) \/ SaveUpdate(c)
             \/ SaveDefault(c) \/ Delete(c) \/ BookFault(c)
      PROVE  HeirInv'
  <2>1. bookPc[c] # "idle"
    BY <1>7 DEF ClearDefault, Count, Insert, SaveUpdate, SaveDefault, Delete, BookFault
  <2>2. PICK label \in {"new", "update", "set_default", "insert", "idle"} :
          bookPc' = [bookPc EXCEPT ![c] = label]
    BY <1>7 DEF ClearDefault, BookGoto, Count, Insert, SaveUpdate, SaveDefault, Delete,
       BookFault, BookReturn
  <2>3. /\ \A d \in BookCalls : d # c => heir'[d] = heir[d] /\ entry'[d] = entry[d]
        /\ tidy' => tidy \/ bookAlone
    <3>1. ASSUME BookReturn(c)
          PROVE  \A d \in BookCalls : d # c => heir'[d] = heir[d] /\ entry'[d] = entry[d]
      BY <1>1, <3>1 DEF BookReturn
    <3>2. CASE ClearDefault(c)
      BY <3>2 DEF ClearDefault, BookGoto, bookLocals
    <3>3. CASE Count(c) \/ BookFault(c)
      BY <1>1, <3>3 DEF Count, BookFault
    <3>4. CASE Insert(c) \/ SaveUpdate(c) \/ Delete(c)
      BY <3>1, <3>4 DEF Insert, SaveUpdate, Delete
    <3>5. CASE SaveDefault(c)
      BY <3>1, <3>5 DEF SaveDefault
    <3>6. QED
      BY <1>7, <3>2, <3>3, <3>4, <3>5
  <2>4. QED
    BY <1>6, <2>1, <2>2, <2>3
<1>8. ASSUME NEW c \in BookCalls, FindSuccessor(c)
      PROVE  HeirInv'
  <2>1. /\ bookPc[c] = "successor" /\ tidy' = tidy /\ entry' = entry
        /\ Live' = Live /\ Defaults' = Defaults /\ Newest' = Newest
    BY <1>8 DEF FindSuccessor, bookRows, Live, Defaults, Newest
  <2>2. CASE bookPc' = [bookPc EXCEPT ![c] = "delete"] /\ heir' = heir
             /\ Newest \subseteq {entry[c]}
    <3>1. kind = "address" /\ tidy => entry[c] \in Newest
      BY <2>1, <2>2, NewestExists DEF HeirInv, HeirReady
    <3>2. bookPc'[c] = "delete"
      BY <1>1, <2>2
    <3>3. kind = "address" /\ tidy' => HeirReady(c)'
      BY <2>1, <3>1, <3>2 DEF HeirReady
    <3>4. QED
      BY <1>5, <2>1, <2>2, <3>3
  <2>3. ASSUME NEW e \in Newest \ {entry[c]}, heir' = [heir EXCEPT ![c] = e],
               bookPc' = [bookPc EXCEPT ![c] = "succeed"]
        PROVE  HeirInv'
    <3>1. heir'[c] # entry'[c] /\ \A d \in BookCalls : d # c => heir'[d] = heir[d]
      BY <1>1, <2>1, <2>3
    <3>2. bookPc'[c] = "succeed"
      BY <1>1, <2>3
    <3>3. HeirReady(c)'
      BY <3>1, <3>2 DEF HeirReady
    <3>4. QED
      BY <1>5, <2>1, <2>3, <3>1, <3>3
  <2>4. QED
    BY <1>8, <2>2, <2>3 DEF FindSuccessor
<1>9. ASSUME NEW c \in BookCalls, SaveSuccessor(c)
      PROVE  HeirInv'
  <2>1. /\ bookPc[c] = "succeed" /\ tidy' = tidy /\ entry' = entry /\ heir' = heir
        /\ bookPc' = [bookPc EXCEPT ![c] = "delete"] /\ Write(heir[c], TRUE)
    BY <1>9 DEF SaveSuccessor, BookGoto, bookLocals
  <2>2. Defaults' = Defaults \cup {heir[c]}
    BY <2>1, WriteDefaults DEF TypeInv, WorkInv
  <2>3. kind = "address" => heir[c] # entry[c]
    BY <2>1 DEF HeirInv, HeirReady
  <2>4. bookPc'[c] = "delete"
    BY <1>1, <2>1
  <2>5. kind = "address" => HeirReady(c)'
    BY <2>1, <2>2, <2>3, <2>4 DEF HeirReady
  <2>6. QED
    BY <1>5, <2>1, <2>5
<1>10. QED
  BY <1>2, <1>3, <1>4, <1>7, <1>8, <1>9 DEF BookNext

\* With an heir that is ready, no step loses the default but those named.
LEMMA KeptStep ==
    ASSUME TypeInv, DefaultInv, HeirInv, [BookNext]_bookVars
    PROVE  DefaultIsKept
<1> SUFFICES ASSUME kind = "address", tidy, tidy', Defaults # {}, Defaults' = {},
                    \A c \in BookCalls : bookPc'[c] = "idle"
             PROVE  \E c \in BookCalls : \/ bookPc[c] = "update" /\ ~flag[c]
                                         \/ bookPc[c] = "delete" /\ entry[c] \in Newest
  BY DEF DefaultIsKept
<1>1. /\ isDefault \in [Entries -> BOOLEAN] /\ bookPc \in [BookCalls -> BookLabels]
      /\ flag \in [BookCalls -> BOOLEAN]
  BY DEF TypeInv, BookTypeOK
<1>2. PICK c \in BookCalls :
        \/ Insert(c) \/ SaveUpdate(c) \/ SaveDefault(c) \/ Delete(c)
  <2>1. ~UNCHANGED bookVars
    BY DEF bookVars, bookRows, Defaults, Live
  <2>2. ASSUME NEW c \in BookCalls, NEW label \in BookLabels,
               bookPc' = [bookPc EXCEPT ![c] = label]
        PROVE  label = "idle"
    BY <1>1, <2>2
  <2>3. \A c \in BookCalls : ~BookFault(c)
    BY DEF BookFault
  <2>4. ASSUME NEW c \in BookCalls
        PROVE  /\ ~Create(c) /\ ~ClearDefault(c) /\ ~Count(c)
               /\ ~FindSuccessor(c) /\ ~SaveSuccessor(c)
               /\ \A e \in Entries : ~Update(c, e) /\ ~SetDefault(c, e) /\ ~RemoveEntry(c, e)
    BY <2>2 DEF Create, ClearDefault, BookGoto, Count, FindSuccessor, SaveSuccessor, Update,
       SetDefault, RemoveEntry, StartFound, BookStart, BookLabels
  <2>5. QED
    BY <2>1, <2>3, <2>4 DEF BookNext
<1>3. CASE Insert(c)
  <2>1. PICK e \in Entries : state[e] = "none" /\ Write(e, flag[c])
    BY <1>3 DEF Insert, Entries
  <2>2. Defaults' = IF flag[c] THEN Defaults \cup {e} ELSE Defaults \ {e}
    BY <1>1, <2>1, WriteDefaults
  <2>3. e \notin Defaults
    BY <2>1 DEF Defaults, Live
  <2>4. QED
    BY <2>2, <2>3
<1>4. CASE SaveUpdate(c)
  <2>1. bookPc[c] = "update" /\ Write(entry[c], flag[c]) /\ entry[c] \in Entries
    BY <1>4 DEF SaveUpdate, TypeInv, WorkInv, AboutEntry
  <2>2. Defaults' = IF flag[c] THEN Defaults \cup {entry[c]} ELSE Defaults \ {entry[c]}
    BY <1>1, <2>1, WriteDefaults
  <2>3. QED
    BY <2>1, <2>2
<1>5. CASE SaveDefault(c)
  <2>1. Write(entry[c], TRUE) /\ entry[c] \in Entries
    BY <1>5 DEF SaveDefault, TypeInv, WorkInv, AboutEntry
  <2>2. QED
    BY <2>1, WriteDefaults
<1>6. CASE Delete(c)
  <2>1. bookPc[c] = "delete"
    BY <1>6 DEF Delete
  <2>2. Defaults' = Defaults \ {entry[c]}
    BY <1>1, <1>6 DEF Delete, Defaults, Live, TypeInv, BookTypeOK
  <2>3. Defaults = {entry[c]}
    BY <2>2
  <2>4. QED
    BY <2>1, <2>3 DEF HeirInv, HeirReady
<1>7. QED
  BY <1>2, <1>3, <1>4, <1>5, <1>6

\* A user whose requests neither overlap nor fail loses the default address
\* for good only by an update that takes it away or by removing the newest
\* address, which finds itself as its own successor (remove).
THEOREM DefaultIsKeptByLoneRequests ==
    ASSUME AddressAssumption
    PROVE  BookSpec => OnlyNewestLeavesNone
<1> DEFINE Inv == TypeInv /\ DefaultInv /\ HeirInv
<1>1. BookInit => Inv
  <2>1. BookInit => HeirInv
    BY DEF BookInit, HeirInv, HeirReady
  <2>2. QED
    BY <2>1, InitTypes, InitDefaults
<1>2. Inv /\ [BookNext]_bookVars => Inv'
  BY TypesStep, DefaultsStep, HeirStep
<1>3. Inv /\ [BookNext]_bookVars => [DefaultIsKept]_bookVars
  BY KeptStep
<1>4. QED
  BY <1>1, <1>2, <1>3, PTL DEF BookSpec, OnlyNewestLeavesNone
=============================================================================
