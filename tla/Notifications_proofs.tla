------------------------ MODULE Notifications_proofs -------------------------
(***************************************************************************)
(* Proofs about Notifications, for any number of requests and events: type *)
(* correctness; that an event is pushed at most once to a token and, when  *)
(* it has been sent, exactly once to every token registered throughout;    *)
(* that without overlapping requests a token has one row and a device one  *)
(* token that was not registered again; and that pushes switched off stay  *)
(* off.                                                                    *)
(***************************************************************************)
EXTENDS Notifications, SequenceTheorems, TLAPS

-----------------------------------------------------------------------------
(* The rows of admin_fcm_tokens.                                           *)

TokenJobs == [admin : Admins, token : Tokens, row : 0..MaxRows]
PreferenceJobs == [admin : Admins, want : {"on", "off"}, asked : BOOLEAN]

\* What a request is about fits the statement it is at.
JobFits(c) ==
    /\ pushPc[c] \in {"touch", "deactivate", "insert"} => job[c] \in TokenJobs
    /\ pushPc[c] = "touch" => /\ job[c].row \in Rows
                              /\ tokens[job[c].row].admin = job[c].admin
                              /\ tokens[job[c].row].token = job[c].token
    /\ pushPc[c] \in {"pref_insert", "pref_save"} => job[c] \in PreferenceJobs

JobInv == \A c \in PushCalls : JobFits(c)

TypeInv == PushTypeOK /\ JobInv

\* Rows are never lost, and keep their administrator and token.
TokensStay ==
    /\ tokens' \in Seq(TokenRows)
    /\ Len(tokens') <= MaxRows
    /\ Rows \subseteq Rows'
    /\ \A r \in Rows : /\ tokens'[r].admin = tokens[r].admin
                       /\ tokens'[r].token = tokens[r].token

LEMMA RowFacts ==
    ASSUME NotificationsAssumption, PushTypeOK
    PROVE  /\ Rows = 1..Len(tokens)
           /\ Rows \subseteq 1..MaxRows
           /\ \A r \in Rows : tokens[r] \in TokenRows
<1>1. Len(tokens) \in Nat /\ Rows = 1..Len(tokens)
  BY LenProperties DEF PushTypeOK, Rows
<1>2. \A r \in Rows : tokens[r] \in TokenRows
  BY <1>1, ElementOfSeq DEF PushTypeOK
<1>3. QED
  BY <1>1, <1>2 DEF PushTypeOK, NotificationsAssumption

LEMMA MarkedRows ==
    ASSUME NotificationsAssumption, PushTypeOK, NEW R,
           NEW status \in {"active", "inactive", "deleted"},
           tokens' = Marked(R, status)
    PROVE  /\ TokensStay
           /\ Rows' = Rows
           /\ \A r \in Rows :
                tokens'[r].status = IF r \in R /\ tokens[r].status # "deleted"
                                    THEN status ELSE tokens[r].status
<1>1. /\ Len(tokens) \in Nat /\ Rows = 1..Len(tokens)
      /\ \A r \in Rows : tokens[r] \in TokenRows
  BY RowFacts, LenProperties DEF PushTypeOK
<1>2. tokens' \in [1..Len(tokens) -> TokenRows]
  BY <1>1 DEF Marked, TokenRows
<1>3. tokens' \in Seq(TokenRows) /\ DOMAIN tokens' = 1..Len(tokens)
  BY <1>1, <1>2, SeqDef
<1>4. Len(tokens') = Len(tokens)
  BY <1>1, <1>3, LenProperties
<1>5. Rows' = Rows
  BY <1>1, <1>3 DEF Rows
<1>6. ASSUME NEW r \in Rows
      PROVE  /\ tokens'[r].admin = tokens[r].admin
             /\ tokens'[r].token = tokens[r].token
             /\ tokens'[r].status = IF r \in R /\ tokens[r].status # "deleted"
                                    THEN status ELSE tokens[r].status
  BY <1>1 DEF Marked, TokenRows
<1>7. QED
  BY <1>3, <1>4, <1>5, <1>6 DEF TokensStay, PushTypeOK

LEMMA TouchedRows ==
    ASSUME NotificationsAssumption, TypeInv, NEW c \in PushCalls, TouchToken(c)
    PROVE  /\ TokensStay
           /\ Rows' = Rows
           /\ job[c].row \in Rows
           /\ \A r \in Rows :
                tokens'[r].status = IF r = job[c].row THEN "active"
                                    ELSE tokens[r].status
<1> DEFINE t == [tokens[job[c].row] EXCEPT !.status = "active"]
<1>1. /\ Len(tokens) \in Nat /\ Rows = 1..Len(tokens)
      /\ \A r \in Rows : tokens[r] \in TokenRows
  BY RowFacts, LenProperties DEF TypeInv, PushTypeOK
<1>2. job[c].row \in Rows
  BY DEF TypeInv, JobInv, JobFits, TouchToken
<1>3. t \in TokenRows
  BY <1>1, <1>2 DEF TokenRows
<1>4. tokens' = [tokens EXCEPT ![job[c].row] = t]
  BY DEF TouchToken
<1>5. /\ tokens' \in Seq(TokenRows) /\ Len(tokens') = Len(tokens)
      /\ \A r \in 1..Len(tokens) :
           tokens'[r] = IF r = job[c].row THEN t ELSE tokens[r]
  <2> HIDE DEF t
  <2>1. tokens \in Seq(TokenRows) /\ job[c].row \in 1..Len(tokens)
    BY <1>1, <1>2 DEF TypeInv, PushTypeOK
  <2>2. QED
    BY <1>3, <1>4, <2>1, ExceptSeq
<1>6. Rows' = Rows
  BY <1>1, <1>5, LenProperties DEF Rows
<1>7. ASSUME NEW r \in Rows
      PROVE  /\ tokens'[r].admin = tokens[r].admin
             /\ tokens'[r].token = tokens[r].token
             /\ tokens'[r].status = IF r = job[c].row THEN "active"
                                    ELSE tokens[r].status
  BY <1>1, <1>2, <1>5 DEF TokenRows
<1>8. QED
  BY <1>2, <1>5, <1>6, <1>7 DEF TokensStay, TypeInv, PushTypeOK

LEMMA InsertedRows ==
    ASSUME NotificationsAssumption, TypeInv, NEW c \in PushCalls, InsertToken(c)
    PROVE  /\ TokensStay
           /\ Rows' = Rows \cup {Len(tokens) + 1}
           /\ Len(tokens) + 1 \notin Rows
           /\ \A r \in Rows : tokens'[r] = tokens[r]
           /\ tokens'[Len(tokens) + 1] = [admin |-> job[c].admin,
                                          token |-> job[c].token,
                                          status |-> "active"]
<1> DEFINE t == [admin |-> job[c].admin, token |-> job[c].token,
                 status |-> "active"]
<1>1. Len(tokens) \in Nat /\ Rows = 1..Len(tokens)
  BY RowFacts, LenProperties DEF TypeInv, PushTypeOK
<1>2. t \in TokenRows
  BY DEF TypeInv, JobInv, JobFits, InsertToken, TokenJobs, TokenRows
<1>3. tokens \in Seq(TokenRows) /\ tokens' = Append(tokens, t)
  BY DEF TypeInv, PushTypeOK, InsertToken
<1>4. /\ tokens' \in Seq(TokenRows) /\ Len(tokens') = Len(tokens) + 1
      /\ \A r \in 1..Len(tokens) : tokens'[r] = tokens[r]
      /\ tokens'[Len(tokens) + 1] = t
  <2> HIDE DEF t
  <2>1. QED
    BY <1>2, <1>3, AppendProperties
<1>5. Rows' = 1..(Len(tokens) + 1)
  BY <1>4, LenProperties DEF Rows
<1>6. Len(tokens) < MaxRows
  BY DEF InsertToken
<1>7. Len(tokens') <= MaxRows
  BY <1>1, <1>4, <1>6 DEF NotificationsAssumption
<1>8. Rows' = Rows \cup {Len(tokens) + 1} /\ Len(tokens) + 1 \notin Rows
  BY <1>1, <1>5
<1>9. QED
  BY <1>1, <1>4, <1>7, <1>8 DEF TokensStay

LEMMA TokensStep ==
    ASSUME NotificationsAssumption, TypeInv, Step
    PROVE  TokensStay
<1>1. ASSUME NEW R, tokens' = Marked(R, "inactive") \/ tokens' = Marked(R, "deleted")
      PROVE  TokensStay
  BY <1>1, MarkedRows DEF TypeInv
<1>2. ASSUME tokens' = tokens
      PROVE  TokensStay
  BY <1>2 DEF TokensStay, TypeInv, PushTypeOK, Rows
<1>3. ASSUME NEW c \in PushCalls, DeactivateDevice(c)
      PROVE  TokensStay
  BY <1>1, <1>3 DEF DeactivateDevice
<1>4. ASSUME NEW a \in Admins, NEW t \in Tokens, RemoveToken(a, t)
      PROVE  TokensStay
  BY <1>1, <1>4 DEF RemoveToken
<1>5. ASSUME NEW e \in Events, RemoveInvalidToken(e)
      PROVE  TokensStay
  BY <1>1, <1>5 DEF RemoveInvalidToken
<1>6. ASSUME NEW c \in PushCalls,
             \/ \E a \in Admins, t \in Tokens : RegisterToken(c, a, t)
             \/ \E a \in Admins : GetPreferences(c, a) \/ UpdatePreferences(c, a)
             \/ InsertPreferences(c) \/ SavePreferences(c) \/ RequestFails(c)
      PROVE  TokensStay
  BY <1>2, <1>6 DEF RegisterToken, GetPreferences, UpdatePreferences, PushStart,
       InsertPreferences, SavePreferences, RequestFails, tokenVars
<1>7. ASSUME NEW e \in Events,
             \/ Emit(e) \/ SaveRow(e) \/ GetAdminsWithTokens(e) \/ SendToTokens(e)
             \/ RemovalFails(e) \/ AttemptFails(e) \/ Disconnected(e)
      PROVE  TokensStay
  BY <1>2, <1>7 DEF Emit, SaveRow, GetAdminsWithTokens, SendToTokens,
       RemovalFails, AttemptFails, Retry, Disconnected, PushGoto, tokenVars
<1>8. CASE PushCrash
  BY <1>2, <1>8 DEF PushCrash, tokenVars
<1>9. QED
  BY <1>3, <1>4, <1>5, <1>6, <1>7, <1>8, TouchedRows, InsertedRows DEF Step

-----------------------------------------------------------------------------
(* Type correctness.                                                       *)

LEMMA WatchTypes ==
    ASSUME PushTypeOK, TokensStay, Watch
    PROVE  steady' \in [Events -> SUBSET (Rows')]
<1>1. Deliverable \subseteq Rows /\ Rows \subseteq Rows'
  BY DEF Deliverable, TokensStay
<1>2. \A e \in Events : steady[e] \subseteq Rows
  BY DEF PushTypeOK
<1>3. QED
  BY <1>1, <1>2 DEF Watch

\* A request that a step leaves alone still fits its statement.
LEMMA OthersFit ==
    ASSUME TypeInv, TokensStay, NEW c \in PushCalls,
           pushPc'[c] = pushPc[c], job'[c] = job[c]
    PROVE  JobFits(c)'
BY DEF TypeInv, JobInv, JobFits, TokensStay

\* Steps of a request.
LEMMA CallTypes ==
    ASSUME NotificationsAssumption, TypeInv, TokensStay, NEW c \in PushCalls
    PROVE  /\ \A label \in CallLabels, j \in Jobs : PushStart(c, label, j) =>
                /\ pushPc' \in [PushCalls \cup Events -> CallLabels \cup EventLabels]
                /\ job' \in [PushCalls -> Jobs \cup {NoJob}]
                /\ \A d \in PushCalls \ {c} : pushPc'[d] = pushPc[d] /\ job'[d] = job[d]
                /\ \A e \in Events : pushPc'[e] = pushPc[e]
                /\ pushPc'[c] = label /\ job'[c] = j
                /\ pushAlone' \in BOOLEAN
           /\ (pushPc' = [pushPc EXCEPT ![c] = "idle"] /\ job' = [job EXCEPT ![c] = NoJob]) =>
                /\ pushPc' \in [PushCalls \cup Events -> CallLabels \cup EventLabels]
                /\ job' \in [PushCalls -> Jobs \cup {NoJob}]
                /\ \A d \in PushCalls : pushPc'[d] \in CallLabels
                /\ \A e \in Events : pushPc'[e] = pushPc[e]
                /\ JobInv'
<1>1. c \notin Events /\ c \in PushCalls \cup Events
  BY DEF NotificationsAssumption
<1>2. /\ pushPc \in [PushCalls \cup Events -> CallLabels \cup EventLabels]
      /\ job \in [PushCalls -> Jobs \cup {NoJob}]
      /\ pushAlone \in BOOLEAN
      /\ \A d \in PushCalls : pushPc[d] \in CallLabels
  BY DEF TypeInv, PushTypeOK
<1>3. ASSUME NEW label \in CallLabels, NEW j \in Jobs, PushStart(c, label, j)
      PROVE  /\ pushPc' \in [PushCalls \cup Events -> CallLabels \cup EventLabels]
             /\ job' \in [PushCalls -> Jobs \cup {NoJob}]
             /\ \A d \in PushCalls \ {c} : pushPc'[d] = pushPc[d] /\ job'[d] = job[d]
             /\ \A e \in Events : pushPc'[e] = pushPc[e]
             /\ pushPc'[c] = label /\ job'[c] = j
             /\ pushAlone' \in BOOLEAN
  BY <1>1, <1>2, <1>3 DEF PushStart
<1>4. ASSUME pushPc' = [pushPc EXCEPT ![c] = "idle"], job' = [job EXCEPT ![c] = NoJob]
      PROVE  /\ pushPc' \in [PushCalls \cup Events -> CallLabels \cup EventLabels]
             /\ job' \in [PushCalls -> Jobs \cup {NoJob}]
             /\ \A d \in PushCalls : pushPc'[d] \in CallLabels
             /\ \A e \in Events : pushPc'[e] = pushPc[e]
             /\ JobInv'
  <2>1. "idle" \in CallLabels
    BY DEF CallLabels
  <2>2. /\ pushPc' \in [PushCalls \cup Events -> CallLabels \cup EventLabels]
        /\ job' \in [PushCalls -> Jobs \cup {NoJob}]
        /\ \A d \in PushCalls : pushPc'[d] \in CallLabels
        /\ \A e \in Events : pushPc'[e] = pushPc[e]
        /\ pushPc'[c] = "idle"
        /\ \A d \in PushCalls \ {c} : pushPc'[d] = pushPc[d] /\ job'[d] = job[d]
    BY <1>1, <1>2, <1>4, <2>1
  <2>3. JobFits(c)'
    BY <2>2 DEF JobFits
  <2>4. QED
    BY <2>2, <2>3, OthersFit DEF JobInv
<1>5. QED
  BY <1>3, <1>4

\* Steps of an event.
LEMMA EventTypes ==
    ASSUME NotificationsAssumption, TypeInv, TokensStay, NEW e \in Events,
           NEW label \in EventLabels, pushPc' = [pushPc EXCEPT ![e] = label], job' = job
    PROVE  /\ pushPc' \in [PushCalls \cup Events -> CallLabels \cup EventLabels]
           /\ job' \in [PushCalls -> Jobs \cup {NoJob}]
           /\ \A c \in PushCalls : pushPc'[c] \in CallLabels
           /\ \A f \in Events : pushPc'[f] \in EventLabels
           /\ \A f \in Events \ {e} : pushPc'[f] = pushPc[f]
           /\ pushPc'[e] = label
           /\ JobInv'
<1>1. /\ pushPc \in [PushCalls \cup Events -> CallLabels \cup EventLabels]
      /\ job \in [PushCalls -> Jobs \cup {NoJob}]
      /\ \A d \in PushCalls : pushPc[d] \in CallLabels
      /\ \A f \in Events : pushPc[f] \in EventLabels
      /\ e \notin PushCalls
  BY DEF TypeInv, PushTypeOK, NotificationsAssumption
<1>2. /\ pushPc' \in [PushCalls \cup Events -> CallLabels \cup EventLabels]
      /\ \A c \in PushCalls : pushPc'[c] = pushPc[c]
      /\ \A f \in Events \ {e} : pushPc'[f] = pushPc[f]
      /\ pushPc'[e] = label
  BY <1>1
<1>3. \A c \in PushCalls : JobFits(c)'
  BY <1>2, OthersFit
<1>4. QED
  BY <1>1, <1>2, <1>3 DEF JobInv

\* Where requests and events are, and what requests are about.
PlacesTyped ==
    /\ pushPc \in [PushCalls \cup Events -> CallLabels \cup EventLabels]
    /\ \A c \in PushCalls : pushPc[c] \in CallLabels
    /\ \A e \in Events : pushPc[e] \in EventLabels
    /\ job \in [PushCalls -> Jobs \cup {NoJob}]
    /\ JobInv

\* The columns and local variables besides.
DataTyped ==
    /\ prefs \in [Admins -> {"none", "on", "off"}]
    /\ saved \in [Events -> Nat]
    /\ attempt \in [Events -> 1..MaxRetries]
    /\ batch \in [Events -> SUBSET Rows]
    /\ invalid \in [Events -> SUBSET Tokens]
    /\ pushed \in [Events -> [1..MaxRows -> Nat]]
    /\ missed \in [Events -> SUBSET Rows]
    /\ revived \subseteq Rows
    /\ pushFaults \in Nat /\ pushAlone \in BOOLEAN

LEMMA Assembled ==
    ASSUME TypeInv, TokensStay, Watch, PlacesTyped', DataTyped'
    PROVE  TypeInv'
BY WatchTypes DEF TypeInv, PushTypeOK, TokensStay, PlacesTyped, DataTyped

LEMMA InitTypes ==
    ASSUME NotificationsAssumption, PushInit
    PROVE  TypeInv
<1>1. tokens \in Seq(TokenRows) /\ Len(tokens) = 0
  BY EmptySeq DEF PushInit
<1>2. PlacesTyped
  BY DEF PushInit, PlacesTyped, JobInv, JobFits, CallLabels, EventLabels
<1>3. PushTypeOK
  BY <1>1, <1>2 DEF PushInit, PushTypeOK, PlacesTyped, NotificationsAssumption, MaxRetries
<1>4. QED
  BY <1>2, <1>3 DEF TypeInv, PlacesTyped

\* A request starts, reading what it is about.
LEMMA StartTypes ==
    ASSUME NotificationsAssumption, TypeInv, TokensStay, NEW c \in PushCalls,
           NEW label \in CallLabels, NEW j \in Jobs, PushStart(c, label, j),
           JobFits(c)'
    PROVE  PlacesTyped' /\ DataTyped'
<1>1. /\ pushPc' \in [PushCalls \cup Events -> CallLabels \cup EventLabels]
      /\ job' \in [PushCalls -> Jobs \cup {NoJob}]
      /\ \A d \in PushCalls \ {c} : pushPc'[d] = pushPc[d] /\ job'[d] = job[d]
      /\ \A e \in Events : pushPc'[e] = pushPc[e]
      /\ pushPc'[c] = label /\ job'[c] = j
      /\ pushAlone' \in BOOLEAN
  BY CallTypes
<1>2. JobInv'
  BY <1>1, OthersFit DEF JobInv
<1>3. PlacesTyped'
  BY <1>1, <1>2 DEF PlacesTyped, TypeInv, PushTypeOK
<1>4. DataTyped'
  BY <1>1 DEF DataTyped, TypeInv, PushTypeOK, PushStart, sendVars, tokenVars, TokensStay
<1>5. QED
  BY <1>3, <1>4

LEMMA RegisterTypes ==
    ASSUME NotificationsAssumption, TypeInv, TokensStay, NEW c \in PushCalls,
           NEW a \in Admins, NEW t \in Tokens, RegisterToken(c, a, t)
    PROVE  PlacesTyped' /\ DataTyped'
<1> DEFINE live == OfToken(a, t)
           next == IF live # {} THEN "touch"
                   ELSE IF DeviceOf[t] # NoDevice THEN "deactivate" ELSE "insert"
<1>1. PICK r \in IF live # {} THEN live ELSE {0} :
        PushStart(c, next, [admin |-> a, token |-> t, row |-> r])
  BY DEF RegisterToken
<1> DEFINE j == [admin |-> a, token |-> t, row |-> r]
<1>2. r \in 0..MaxRows /\ (next = "touch" => r \in live)
  BY <1>1, RowFacts DEF OfToken, TypeInv, NotificationsAssumption
<1>3. j \in TokenJobs /\ j \in Jobs /\ next \in CallLabels
  BY <1>2 DEF TokenJobs, Jobs, CallLabels
<1>4. pushPc'[c] = next /\ job'[c] = j /\ tokens' = tokens
  BY <1>1, <1>3, CallTypes DEF PushStart, tokenVars
<1>5. next = "touch" => /\ r \in Rows'
                        /\ tokens'[r].admin = a /\ tokens'[r].token = t
  BY <1>2, <1>4 DEF OfToken, Rows
<1>6. next \notin {"pref_insert", "pref_save"}
  OBVIOUS
<1>7. JobFits(c)'
  BY <1>3, <1>4, <1>5, <1>6 DEF JobFits
<1>8. QED
  BY <1>1, <1>3, <1>7, StartTypes

LEMMA PreferenceTypes ==
    ASSUME NotificationsAssumption, TypeInv, TokensStay, NEW c \in PushCalls,
           NEW a \in Admins, GetPreferences(c, a) \/ UpdatePreferences(c, a)
    PROVE  PlacesTyped' /\ DataTyped'
<1>1. PICK label \in {"pref_insert", "pref_save"}, w \in {"on", "off"},
           asked \in BOOLEAN :
        PushStart(c, label, [admin |-> a, want |-> w, asked |-> asked])
  BY DEF GetPreferences, UpdatePreferences
<1> DEFINE j == [admin |-> a, want |-> w, asked |-> asked]
<1>2. j \in PreferenceJobs /\ j \in Jobs /\ label \in CallLabels
  BY DEF PreferenceJobs, Jobs, CallLabels
<1>3. pushPc'[c] = label /\ job'[c] = j
  BY <1>1, <1>2, CallTypes
<1>4. JobFits(c)'
  BY <1>2, <1>3 DEF JobFits
<1>5. QED
  BY <1>1, <1>2, <1>4, StartTypes

\* A request goes on or returns.
LEMMA RequestTypes ==
    ASSUME NotificationsAssumption, TypeInv, TokensStay, NEW c \in PushCalls,
           \/ TouchToken(c) \/ DeactivateDevice(c) \/ InsertToken(c)
           \/ InsertPreferences(c) \/ SavePreferences(c) \/ RequestFails(c)
    PROVE  PlacesTyped' /\ DataTyped'
<1>1. ASSUME pushPc' = [pushPc EXCEPT ![c] = "idle"], job' = [job EXCEPT ![c] = NoJob]
      PROVE  PlacesTyped'
  BY <1>1, CallTypes DEF PlacesTyped, TypeInv, PushTypeOK
<1>2. ASSUME UNCHANGED <<saved, attempt, batch, invalid, pushed, missed, pushAlone>>,
             prefs' \in [Admins -> {"none", "on", "off"}],
             revived' \subseteq Rows, pushFaults' \in Nat
      PROVE  DataTyped'
  BY <1>2 DEF DataTyped, TypeInv, PushTypeOK, TokensStay
<1>3. /\ prefs \in [Admins -> {"none", "on", "off"}]
      /\ revived \subseteq Rows /\ pushFaults \in Nat
  BY DEF TypeInv, PushTypeOK
<1>4. CASE TouchToken(c)
  <2>1. job[c].row \in Rows
    BY <1>4 DEF TypeInv, JobInv, JobFits, TouchToken
  <2>2. PlacesTyped'
    BY <1>1, <1>4 DEF TouchToken, PushReturn
  <2>3. revived' \subseteq Rows
    BY <1>3, <1>4, <2>1 DEF TouchToken
  <2>4. DataTyped'
    BY <1>2, <1>3, <1>4, <2>3 DEF TouchToken, PushReturn, sendVars
  <2>5. QED
    BY <2>2, <2>4
<1>5. CASE DeactivateDevice(c)
  <2>1. /\ pushPc' = [pushPc EXCEPT ![c] = "insert"] /\ job' = job
        /\ pushPc[c] = "deactivate" /\ c \notin Events
    BY <1>5 DEF DeactivateDevice, NotificationsAssumption
  <2>2. /\ pushPc' \in [PushCalls \cup Events -> CallLabels \cup EventLabels]
        /\ \A d \in PushCalls : pushPc'[d] \in CallLabels
        /\ \A e \in Events : pushPc'[e] \in EventLabels
        /\ \A d \in PushCalls \ {c} : pushPc'[d] = pushPc[d]
        /\ pushPc'[c] = "insert"
    BY <2>1 DEF TypeInv, PushTypeOK, CallLabels
  <2>3. JobFits(c)'
    BY <2>1, <2>2 DEF JobFits, TypeInv, JobInv
  <2>4. JobInv'
    BY <2>1, <2>2, <2>3, OthersFit DEF JobInv
  <2>5. PlacesTyped'
    BY <2>1, <2>2, <2>4 DEF PlacesTyped, TypeInv, PushTypeOK
  <2>6. revived' \subseteq Rows
    BY <1>3, <1>5 DEF DeactivateDevice
  <2>7. DataTyped'
    BY <1>2, <1>3, <1>5, <2>6 DEF DeactivateDevice, sendVars
  <2>8. QED
    BY <2>5, <2>7
<1>6. CASE InsertToken(c)
  BY <1>1, <1>2, <1>3, <1>6 DEF InsertToken, PushReturn, sendVars
<1>7. CASE InsertPreferences(c) \/ SavePreferences(c)
  <2>1. job[c].want \in {"on", "off"}
    BY <1>7 DEF TypeInv, JobInv, JobFits, InsertPreferences, SavePreferences,
         PreferenceJobs
  <2>2. prefs' \in [Admins -> {"none", "on", "off"}]
    BY <1>3, <1>7, <2>1 DEF InsertPreferences, SavePreferences
  <2>3. QED
    BY <1>1, <1>2, <1>3, <1>7, <2>2
       DEF InsertPreferences, SavePreferences, PushReturn, sendVars, tokenVars
<1>8. CASE RequestFails(c)
  BY <1>1, <1>2, <1>3, <1>8 DEF RequestFails, sendVars, tokenVars
<1>9. QED
  BY <1>4, <1>5, <1>6, <1>7, <1>8

\* A statement of an event ends.
LEMMA EventStepTypes ==
    ASSUME NotificationsAssumption, TypeInv, TokensStay, NEW e \in Events,
           \/ Emit(e) \/ SaveRow(e) \/ GetAdminsWithTokens(e) \/ SendToTokens(e)
           \/ RemoveInvalidToken(e) \/ RemovalFails(e) \/ AttemptFails(e)
           \/ Disconnected(e)
    PROVE  PlacesTyped' /\ DataTyped'
<1>1. PICK label \in EventLabels : pushPc' = [pushPc EXCEPT ![e] = label]
  BY DEF Emit, SaveRow, GetAdminsWithTokens, SendToTokens, RemoveInvalidToken,
     RemovalFails, Removed, AttemptFails, Retry, Disconnected, PushGoto, EventLabels,
     Ended
<1>2. job' = job /\ prefs' = prefs /\ pushAlone' = pushAlone
  BY DEF Emit, SaveRow, GetAdminsWithTokens, SendToTokens, RemoveInvalidToken,
     RemovalFails, Removed, AttemptFails, Retry, Disconnected, PushGoto
<1>3. PlacesTyped'
  BY <1>1, <1>2, EventTypes DEF PlacesTyped
<1>4. /\ saved \in [Events -> Nat]
      /\ attempt \in [Events -> 1..MaxRetries]
      /\ batch \in [Events -> SUBSET Rows]
      /\ invalid \in [Events -> SUBSET Tokens]
      /\ pushed \in [Events -> [1..MaxRows -> Nat]]
      /\ missed \in [Events -> SUBSET Rows]
      /\ revived \subseteq Rows /\ pushFaults \in Nat
      /\ prefs \in [Admins -> {"none", "on", "off"}] /\ pushAlone \in BOOLEAN
      /\ Rows \subseteq Rows' /\ Rows \subseteq 1..MaxRows
      /\ \A r \in Rows : tokens[r] \in TokenRows
  BY RowFacts DEF TypeInv, PushTypeOK, TokensStay
<1>5. ASSUME saved' \in [Events -> Nat],
             attempt' \in [Events -> 1..MaxRetries],
             batch' \in [Events -> SUBSET Rows],
             invalid' \in [Events -> SUBSET Tokens],
             pushed' \in [Events -> [1..MaxRows -> Nat]],
             missed' \in [Events -> SUBSET Rows],
             revived' \subseteq Rows, pushFaults' \in Nat
      PROVE  PlacesTyped' /\ DataTyped'
  BY <1>2, <1>3, <1>4, <1>5 DEF DataTyped
<1>6. CASE Emit(e)
  BY <1>4, <1>5, <1>6 DEF Emit, PushGoto, sendVars, tokenVars
<1>7. CASE SaveRow(e)
  <2>1. saved' \in [Events -> Nat]
    BY <1>4, <1>7 DEF SaveRow
  <2>2. QED
    BY <1>4, <1>5, <1>7, <2>1 DEF SaveRow, PushGoto, tokenVars
<1>8. CASE GetAdminsWithTokens(e)
  <2>1. batch' \in [Events -> SUBSET Rows]
    BY <1>4, <1>8 DEF GetAdminsWithTokens, Deliverable
  <2>2. QED
    BY <1>4, <1>5, <1>8, <2>1 DEF GetAdminsWithTokens, PushGoto, tokenVars
<1>9. CASE SendToTokens(e)
  <2>1. PICK taken \in SUBSET batch[e], unknown \in SUBSET batch[e] :
          /\ pushed' = [pushed EXCEPT ![e] =
                          [r \in DOMAIN @ |-> IF r \in taken THEN @[r] + 1 ELSE @[r]]]
          /\ missed' = [missed EXCEPT ![e] = @ \cup (batch[e] \ taken)]
          /\ invalid' = [invalid EXCEPT ![e] = {tokens[r].token : r \in unknown}]
    BY <1>9 DEF SendToTokens
  <2>2. pushed' \in [Events -> [1..MaxRows -> Nat]]
    <3>1. pushed[e] \in [1..MaxRows -> Nat]
      BY <1>4
    <3>2. DOMAIN pushed[e] = 1..MaxRows
      BY <3>1
    <3>3. \A r \in 1..MaxRows : pushed[e][r] \in Nat
      BY <3>1
    <3>4. \A r \in 1..MaxRows : pushed[e][r] + 1 \in Nat
      BY <3>3
    <3>5. QED
      BY <1>4, <2>1, <3>2, <3>3, <3>4
  <2>3. batch' \in [Events -> SUBSET Rows]
    BY <1>4, <1>9 DEF SendToTokens
  <2>4. missed' \in [Events -> SUBSET Rows]
    <3>1. missed[e] \cup (batch[e] \ taken) \subseteq Rows
      BY <1>4
    <3>2. QED
      BY <1>4, <2>1, <3>1
  <2>5. invalid' \in [Events -> SUBSET Tokens]
    <3>1. \A r \in unknown : tokens[r].token \in Tokens
      BY <1>4 DEF TokenRows
    <3>2. {tokens[r].token : r \in unknown} \subseteq Tokens
      BY <3>1
    <3>3. QED
      BY <1>4, <2>1, <3>2
  <2>6. QED
    BY <1>4, <1>5, <1>9, <2>2, <2>3, <2>4, <2>5 DEF SendToTokens, PushGoto, tokenVars
<1>10. CASE RemoveInvalidToken(e)
  <2>1. PICK t \in invalid[e] : Removed(e, t)
    BY <1>10 DEF RemoveInvalidToken
  <2>2. invalid' \in [Events -> SUBSET Tokens]
    BY <1>4, <2>1 DEF Removed
  <2>3. revived' \subseteq Rows
    BY <1>4, <1>10 DEF RemoveInvalidToken
  <2>4. QED
    BY <1>4, <1>5, <1>10, <2>1, <2>2, <2>3 DEF RemoveInvalidToken, Removed
<1>11. CASE RemovalFails(e)
  <2>1. PICK t \in invalid[e] : Removed(e, t)
    BY <1>11 DEF RemovalFails
  <2>2. invalid' \in [Events -> SUBSET Tokens]
    BY <1>4, <2>1 DEF Removed
  <2>3. pushFaults' \in Nat /\ revived' = revived
    BY <1>4, <1>11 DEF RemovalFails, tokenVars
  <2>4. QED
    BY <1>4, <1>5, <2>1, <2>2, <2>3 DEF Removed
<1>12. CASE AttemptFails(e)
  <2>1. saved' \in [Events -> Nat]
    BY <1>4, <1>12 DEF AttemptFails
  <2>2. attempt[e] < MaxRetries => attempt[e] + 1 \in 1..MaxRetries
    BY <1>4 DEF MaxRetries
  <2>3. attempt' \in [Events -> 1..MaxRetries]
    BY <1>4, <1>12, <2>2 DEF AttemptFails, Retry
  <2>4. invalid' \in [Events -> SUBSET Tokens]
    BY <1>4, <1>12 DEF AttemptFails, Retry
  <2>5. QED
    BY <1>4, <1>5, <1>12, <2>1, <2>3, <2>4 DEF AttemptFails, Retry, PushGoto, tokenVars
<1>13. CASE Disconnected(e)
  <2>1. pushFaults' \in Nat
    BY <1>4, <1>13 DEF Disconnected
  <2>2. QED
    BY <1>4, <1>5, <1>13, <2>1 DEF Disconnected, PushGoto, sendVars, tokenVars
<1>14. QED
  BY <1>6, <1>7, <1>8, <1>9, <1>10, <1>11, <1>12, <1>13
LEMMA CrashTypes ==
    ASSUME NotificationsAssumption, TypeInv, TokensStay, PushCrash
    PROVE  PlacesTyped' /\ DataTyped'
<1>1. /\ DOMAIN pushPc = PushCalls \cup Events
      /\ pushPc' \in [PushCalls \cup Events -> CallLabels \cup EventLabels]
      /\ \A c \in PushCalls : pushPc'[c] = "idle"
      /\ \A e \in Events : pushPc'[e] \in EventLabels
  BY DEF PushCrash, TypeInv, PushTypeOK, CallLabels, EventLabels, Ended,
     NotificationsAssumption
<1>2. JobInv'
  BY <1>1 DEF JobInv, JobFits
<1>3. PlacesTyped'
  BY <1>1, <1>2 DEF PlacesTyped, PushCrash, CallLabels
<1>4. DataTyped'
  <2>1. pushFaults' \in Nat
    BY DEF PushCrash, TypeInv, PushTypeOK
  <2>2. QED
    BY <2>1 DEF DataTyped, PushCrash, TypeInv, PushTypeOK, TokensStay, tokenVars
<1>5. QED
  BY <1>3, <1>4

\* removeToken writes its rows in one statement.
LEMMA RemoveTypes ==
    ASSUME NotificationsAssumption, TypeInv, TokensStay, NEW a \in Admins,
           NEW t \in Tokens, RemoveToken(a, t)
    PROVE  PlacesTyped' /\ DataTyped'
<1>1. \A c \in PushCalls : JobFits(c)'
  BY OthersFit DEF RemoveToken
<1>2. PlacesTyped'
  BY <1>1 DEF PlacesTyped, JobInv, RemoveToken, TypeInv, PushTypeOK
<1>3. revived' \subseteq Rows
  BY DEF RemoveToken, TypeInv, PushTypeOK
<1>4. DataTyped'
  BY <1>3 DEF DataTyped, RemoveToken, TypeInv, PushTypeOK, TokensStay, sendVars
<1>5. QED
  BY <1>2, <1>4

LEMMA TypesStep ==
    ASSUME NotificationsAssumption, TypeInv, [PushNext]_pushVars
    PROVE  TypeInv'
<1>1. CASE UNCHANGED pushVars
  BY <1>1 DEF TypeInv, PushTypeOK, JobInv, JobFits, Rows, pushVars, tokenVars, sendVars
<1>2. CASE PushNext
  <2>1. TokensStay
    BY <1>2, TokensStep DEF PushNext
  <2>2. PlacesTyped' /\ DataTyped'
    BY <1>2, <2>1, RegisterTypes, PreferenceTypes, RequestTypes, RemoveTypes,
       EventStepTypes, CrashTypes DEF PushNext, Step
  <2>3. QED
    BY <1>2, <2>1, <2>2, Assembled DEF PushNext
<1>3. QED
  BY <1>1, <1>2

\* Every row, preference and local variable of the listeners and handlers
\* keeps its type, for any number of requests and events.
THEOREM TypeCorrect ==
    ASSUME NotificationsAssumption
    PROVE  PushSpec => []PushTypeOK
<1>1. PushInit => TypeInv
  BY InitTypes
<1>2. TypeInv /\ [PushNext]_pushVars => TypeInv'
  BY TypesStep
<1>3. TypeInv => PushTypeOK
  BY DEF TypeInv
<1>4. QED
  BY <1>1, <1>2, <1>3, PTL DEF PushSpec
-----------------------------------------------------------------------------
(* An event is pushed once, to everybody registered throughout.            *)

\* The attempts of an event before its push have pushed nothing, saved at most
\* one row each, and lost none of the rows to be told all the time.
EventInv(e) ==
    /\ \A r \in 1..MaxRows : pushed[e][r] \in 0..1
    /\ pushPc[e] \in {"idle", "save", "query", "push", "given_up"} =>
         missed[e] = {} /\ \A r \in 1..MaxRows : pushed[e][r] = 0
    /\ pushPc[e] = "idle" => saved[e] = 0 /\ attempt[e] = 1
    /\ pushPc[e] = "save" => saved[e] < attempt[e]
    /\ pushPc[e] \in {"query", "push", "remove", "sent"} => saved[e] \in 1..attempt[e]
    /\ pushPc[e] \in {"save", "query"} => steady[e] \subseteq Deliverable
    /\ pushPc[e] = "push" => steady[e] \subseteq batch[e]
    /\ pushPc[e] \in {"remove", "sent"} =>
         \A r \in steady[e] : pushed[e][r] = 1 \/ r \in missed[e]

SendInv == \A e \in Events : EventInv(e)

LEMMA EventFacts ==
    ASSUME TypeInv, NEW e \in Events
    PROVE  /\ pushPc \in [PushCalls \cup Events -> CallLabels \cup EventLabels]
           /\ saved \in [Events -> Nat] /\ attempt \in [Events -> 1..3]
           /\ batch \in [Events -> SUBSET Rows]
           /\ invalid \in [Events -> SUBSET Tokens]
           /\ pushed \in [Events -> [1..MaxRows -> Nat]]
           /\ missed \in [Events -> SUBSET Rows]
           /\ DOMAIN pushed[e] = 1..MaxRows
           /\ pushPc[e] \in EventLabels /\ pushPc[e] \notin CallLabels \ {"idle"}
BY DEF TypeInv, PushTypeOK, MaxRetries, EventLabels, CallLabels, Ended

\* What an event has to reach only shrinks once it is emitted.
LEMMA Watched ==
    ASSUME Watch, NEW e \in Events
    PROVE  /\ pushPc[e] # "idle" => steady'[e] \subseteq steady[e]
           /\ pushPc[e] \notin Ended \cup {"idle"} /\ pushPc'[e] # "idle" =>
                steady'[e] \subseteq Deliverable'
           /\ pushPc[e] = "idle" /\ pushPc'[e] # "idle" => steady'[e] = Deliverable
BY DEF Watch, Ended

\* An event that a step leaves alone.
LEMMA OthersSend ==
    ASSUME TypeInv, Watch, NEW e \in Events, EventInv(e),
           pushPc'[e] = pushPc[e], saved'[e] = saved[e], attempt'[e] = attempt[e],
           batch'[e] = batch[e], pushed'[e] = pushed[e], missed'[e] = missed[e]
    PROVE  EventInv(e)'
<1>1. pushPc[e] = "idle" \/ steady'[e] \subseteq steady[e]
  BY Watched
<1>2. pushPc[e] \in {"save", "query"} => steady'[e] \subseteq Deliverable'
  BY Watched DEF Ended
<1>3. QED
  BY <1>1, <1>2 DEF EventInv

LEMMA EmitSends ==
    ASSUME TypeInv, Watch, NEW e \in Events, EventInv(e), Emit(e)
    PROVE  EventInv(e)'
<1>1. pushPc[e] = "idle" /\ pushPc'[e] = "save"
  BY EventFacts DEF Emit, PushGoto
<1>2. steady'[e] = Deliverable /\ Deliverable' = Deliverable
  BY <1>1, Watched DEF Emit, PushGoto, tokenVars, Deliverable, Rows
<1>3. QED
  BY <1>1, <1>2 DEF EventInv, Emit, PushGoto, sendVars

LEMMA SaveSends ==
    ASSUME TypeInv, Watch, NEW e \in Events, EventInv(e), SaveRow(e)
    PROVE  EventInv(e)'
<1>1. pushPc[e] = "save" /\ pushPc'[e] = "query" /\ saved'[e] = saved[e] + 1
  BY EventFacts DEF SaveRow, PushGoto
<1>2. steady'[e] \subseteq Deliverable'
  BY <1>1, Watched DEF Ended
<1>3. saved[e] \in Nat /\ attempt[e] \in 1..3 /\ saved[e] < attempt[e]
  BY <1>1, EventFacts DEF EventInv
<1>4. saved'[e] \in 1..attempt'[e]
  BY <1>1, <1>3 DEF SaveRow
<1>5. QED
  BY <1>1, <1>2, <1>4 DEF EventInv, SaveRow

LEMMA QuerySends ==
    ASSUME TypeInv, Watch, NEW e \in Events, EventInv(e), GetAdminsWithTokens(e)
    PROVE  EventInv(e)'
<1>1. /\ pushPc[e] = "query" /\ batch'[e] = Deliverable
      /\ pushPc'[e] = IF Deliverable = {} THEN "sent" ELSE "push"
  BY EventFacts DEF GetAdminsWithTokens, PushGoto
<1>2. steady'[e] \subseteq steady[e] /\ steady[e] \subseteq Deliverable
  BY <1>1, Watched DEF EventInv
<1>3. pushPc'[e] = "sent" => steady'[e] = {}
  BY <1>1, <1>2
<1>4. /\ saved'[e] = saved[e] /\ attempt'[e] = attempt[e]
      /\ pushed'[e] = pushed[e] /\ missed'[e] = missed[e]
      /\ pushPc'[e] \in {"sent", "push"}
  BY <1>1 DEF GetAdminsWithTokens
<1>5. QED
  BY <1>1, <1>2, <1>3, <1>4 DEF EventInv

LEMMA PushSends ==
    ASSUME NotificationsAssumption, TypeInv, Watch, NEW e \in Events, EventInv(e),
           SendToTokens(e)
    PROVE  EventInv(e)'
<1>1. pushPc[e] = "push" /\ pushPc'[e] \in {"sent", "remove"}
  BY EventFacts DEF SendToTokens, PushGoto
<1>2. /\ \A r \in 1..MaxRows : pushed[e][r] = 0
      /\ steady'[e] \subseteq batch[e] /\ batch[e] \subseteq Rows
  BY <1>1, Watched, EventFacts DEF EventInv
<1>3. PICK taken \in SUBSET batch[e] :
        /\ pushed'[e] = [r \in 1..MaxRows |-> IF r \in taken THEN pushed[e][r] + 1
                                              ELSE pushed[e][r]]
        /\ missed'[e] = missed[e] \cup (batch[e] \ taken)
  BY EventFacts DEF SendToTokens
<1>4. \A r \in 1..MaxRows : pushed'[e][r] = IF r \in taken THEN 1 ELSE 0
  BY <1>2, <1>3
<1>5. \A r \in steady'[e] : pushed'[e][r] = 1 \/ r \in missed'[e]
  BY <1>2, <1>3, <1>4, RowFacts DEF TypeInv
<1>6. saved'[e] = saved[e] /\ attempt'[e] = attempt[e]
  BY DEF SendToTokens
<1>7. \A r \in 1..MaxRows : pushed'[e][r] \in 0..1
  BY <1>4
<1>8. QED
  BY <1>1, <1>5, <1>6, <1>7 DEF EventInv

LEMMA RemovalSends ==
    ASSUME TypeInv, Watch, NEW e \in Events, EventInv(e),
           RemoveInvalidToken(e) \/ RemovalFails(e)
    PROVE  EventInv(e)'
<1>1. /\ pushPc[e] = "remove" /\ pushPc'[e] \in {"sent", "remove"}
      /\ saved' = saved /\ attempt' = attempt
      /\ pushed' = pushed /\ missed' = missed
  BY EventFacts DEF RemoveInvalidToken, RemovalFails, Removed
<1>2. steady'[e] \subseteq steady[e]
  BY <1>1, Watched
<1>3. QED
  BY <1>1, <1>2 DEF EventInv

LEMMA FailureSends ==
    ASSUME TypeInv, Watch, NEW e \in Events, EventInv(e), AttemptFails(e)
    PROVE  EventInv(e)'
<1>1. /\ pushPc[e] \in {"save", "query"} /\ pushed' = pushed /\ missed' = missed
      /\ pushPc'[e] = IF attempt[e] < 3 THEN "save" ELSE "given_up"
      /\ attempt[e] < 3 => attempt'[e] = attempt[e] + 1
      /\ (saved'[e] = saved[e]) \/ (pushPc[e] = "save" /\ saved'[e] = saved[e] + 1)
  <2>1. /\ pushPc[e] \in {"save", "query"} /\ pushed' = pushed /\ missed' = missed
        /\ pushPc'[e] = IF attempt[e] < 3 THEN "save" ELSE "given_up"
    BY EventFacts DEF AttemptFails, Retry, PushGoto, MaxRetries
  <2>2. attempt[e] < 3 => attempt'[e] = attempt[e] + 1
    BY EventFacts DEF AttemptFails, Retry, MaxRetries
  <2>3. (saved'[e] = saved[e]) \/ (pushPc[e] = "save" /\ saved'[e] = saved[e] + 1)
    BY EventFacts DEF AttemptFails
  <2>4. QED
    BY <2>1, <2>2, <2>3
<1>2. steady'[e] \subseteq Deliverable'
  BY <1>1, Watched DEF Ended
<1>3. saved[e] \in Nat /\ attempt[e] \in 1..3
  BY EventFacts
<1>4. attempt[e] < 3 => saved'[e] < attempt'[e]
  BY <1>1, <1>3 DEF EventInv
<1>5. pushPc'[e] = "save" => attempt[e] < 3
  BY <1>1
<1>6. pushPc'[e] \in {"save", "given_up"}
  BY <1>1
<1>7. QED
  BY <1>1, <1>2, <1>4, <1>5, <1>6 DEF EventInv

\* An event that is dropped was pushed at most once before.
LEMMA DroppedSends ==
    ASSUME NEW e \in Events, EventInv(e), pushed'[e] = pushed[e],
           pushPc'[e] = "dropped"
    PROVE  EventInv(e)'
BY DEF EventInv
LEMMA InitSends ==
    ASSUME NotificationsAssumption, PushInit
    PROVE  SendInv
BY DEF PushInit, SendInv, EventInv

LEMMA CrashSends ==
    ASSUME NotificationsAssumption, TypeInv, Watch, NEW e \in Events, EventInv(e),
           PushCrash
    PROVE  EventInv(e)'
<1>1. pushPc'[e] = IF pushPc[e] \in {"save", "query", "push", "remove"} THEN "dropped"
                   ELSE pushPc[e]
  BY EventFacts DEF PushCrash, NotificationsAssumption
<1>2. /\ saved' = saved /\ attempt' = attempt
      /\ pushed' = pushed /\ missed' = missed
  BY DEF PushCrash
<1>3. CASE pushPc[e] \in {"save", "query", "push", "remove"}
  BY <1>1, <1>2, <1>3, DroppedSends
<1>4. CASE pushPc[e] \notin {"save", "query", "push", "remove"}
  <2>1. pushPc[e] = "idle" \/ steady'[e] \subseteq steady[e]
    BY Watched
  <2>2. QED
    BY <1>1, <1>2, <1>4, <2>1 DEF EventInv
<1>5. QED
  BY <1>3, <1>4

LEMMA SendStep ==
    ASSUME NotificationsAssumption, TypeInv, SendInv, [PushNext]_pushVars
    PROVE  SendInv'
<1> SUFFICES ASSUME NEW e \in Events PROVE EventInv(e)'
  BY DEF SendInv
<1>1. EventInv(e) /\ e \notin PushCalls
  BY DEF SendInv, NotificationsAssumption
<1>2. CASE UNCHANGED pushVars
  BY <1>1, <1>2 DEF EventInv, Deliverable, Rows, pushVars, sendVars, tokenVars
<1>3. CASE PushNext
  <2>1. Watch
    BY <1>3 DEF PushNext
  <2>2. ASSUME pushPc'[e] = pushPc[e], saved'[e] = saved[e], attempt'[e] = attempt[e],
               batch'[e] = batch[e], pushed'[e] = pushed[e], missed'[e] = missed[e]
        PROVE  EventInv(e)'
    BY <1>1, <2>1, <2>2, OthersSend
  <2>3. ASSUME NEW c \in PushCalls,
               \/ \E a \in Admins, t \in Tokens : RegisterToken(c, a, t)
               \/ TouchToken(c) \/ DeactivateDevice(c) \/ InsertToken(c)
               \/ \E a \in Admins : GetPreferences(c, a) \/ UpdatePreferences(c, a)
               \/ InsertPreferences(c) \/ SavePreferences(c)
               \/ RequestFails(c)
        PROVE  EventInv(e)'
    <3>1. UNCHANGED sendVars
      BY <2>3 DEF RegisterToken, TouchToken, DeactivateDevice, InsertToken,
         GetPreferences, UpdatePreferences, InsertPreferences, SavePreferences,
         RequestFails, PushStart, PushReturn
    <3>2. \E label : pushPc' = [pushPc EXCEPT ![c] = label]
      BY <2>3 DEF RegisterToken, TouchToken, DeactivateDevice, InsertToken,
         GetPreferences, UpdatePreferences, InsertPreferences, SavePreferences,
         RequestFails, PushStart, PushReturn
    <3>3. pushPc'[e] = pushPc[e]
      BY <1>1, <3>2, EventFacts
    <3>4. QED
      BY <2>2, <3>1, <3>3 DEF sendVars
  <2>4. ASSUME NEW a \in Admins, NEW t \in Tokens, RemoveToken(a, t)
        PROVE  EventInv(e)'
    BY <2>2, <2>4 DEF RemoveToken, sendVars
  <2>5. ASSUME NEW f \in Events, f # e,
               \/ Emit(f) \/ SaveRow(f) \/ GetAdminsWithTokens(f) \/ SendToTokens(f)
               \/ RemoveInvalidToken(f) \/ RemovalFails(f)
               \/ AttemptFails(f) \/ Disconnected(f)
        PROVE  EventInv(e)'
    <3>1. /\ pushPc'[e] = pushPc[e] /\ saved'[e] = saved[e] /\ attempt'[e] = attempt[e]
          /\ batch'[e] = batch[e] /\ pushed'[e] = pushed[e] /\ missed'[e] = missed[e]
      BY <2>5, EventFacts DEF Emit, SaveRow, GetAdminsWithTokens, SendToTokens,
         RemoveInvalidToken, RemovalFails, Removed, AttemptFails, Retry,
         Disconnected, PushGoto, sendVars
    <3>2. QED
      BY <2>2, <3>1
  <2>6. CASE Disconnected(e)
    <3>1. pushPc'[e] = "dropped" /\ pushed'[e] = pushed[e]
      BY <2>6, EventFacts DEF Disconnected, PushGoto, sendVars
    <3>2. QED
      BY <1>1, <3>1, DroppedSends
  <2>7. CASE \/ Emit(e) \/ SaveRow(e) \/ GetAdminsWithTokens(e) \/ SendToTokens(e)
             \/ RemoveInvalidToken(e) \/ RemovalFails(e) \/ AttemptFails(e)
    BY <1>1, <2>1, <2>7, EmitSends, SaveSends, QuerySends, PushSends, RemovalSends,
       FailureSends
  <2>8. CASE PushCrash
    BY <1>1, <2>1, <2>8, CrashSends
  <2>9. QED
    BY <1>3, <2>3, <2>4, <2>5, <2>6, <2>7, <2>8 DEF PushNext, Step
<1>4. QED
  BY <1>2, <1>3

LEMMA SendAlways ==
    ASSUME NotificationsAssumption
    PROVE  PushSpec => [](TypeInv /\ SendInv)
<1>1. PushInit => TypeInv /\ SendInv
  BY InitTypes, InitSends
<1>2. TypeInv /\ SendInv /\ [PushNext]_pushVars => (TypeInv /\ SendInv)'
  BY TypesStep, SendStep
<1>3. QED
  BY <1>1, <1>2, PTL DEF PushSpec

\* However often sendNotificationToAdmins starts over, and whatever fails
\* after the push, a token is sent an event at most once, and no attempt starts
\* over once Firebase was asked.
THEOREM NothingIsPushedTwice ==
    ASSUME NotificationsAssumption
    PROVE  PushSpec => []PushedOnce
<1>1. TypeInv /\ SendInv => PushedOnce
  <2> SUFFICES ASSUME TypeInv, SendInv, NEW e \in Events
               PROVE  /\ \A r \in 1..MaxRows : pushed[e][r] <= 1
                      /\ WasAsked(e) => pushPc[e] \in {"remove", "sent", "dropped"}
    BY DEF PushedOnce
  <2>1. EventInv(e) /\ \A r \in 1..MaxRows : pushed[e][r] \in 0..1
    BY DEF SendInv, EventInv
  <2>2. pushPc[e] \in {"idle", "save", "query", "push", "given_up"} => ~ WasAsked(e)
    BY <2>1 DEF EventInv, WasAsked
  <2>3. pushPc[e] \in EventLabels
    BY EventFacts
  <2>4. QED
    BY <2>1, <2>2, <2>3 DEF EventLabels, Ended
<1>2. QED
  BY <1>1, SendAlways, PTL

\* A sent event has left one to three rows, and every row that was deliverable
\* from its emission on got its push unless Firebase refused just that one,
\* whatever tokens and preferences other requests change meanwhile
\* (getAdminsWithTokens, sendToTokens).
THEOREM EverybodySteadyIsTold ==
    ASSUME NotificationsAssumption
    PROVE  PushSpec => []SteadyAreTold
<1>1. TypeInv /\ SendInv => SteadyAreTold
  <2> SUFFICES ASSUME TypeInv, SendInv, NEW e \in Events, pushPc[e] = "sent"
               PROVE  /\ saved[e] \in 1..MaxRetries
                      /\ \A r \in steady[e] : pushed[e][r] = 1 \/ r \in missed[e]
    BY DEF SteadyAreTold
  <2>1. /\ saved[e] \in 1..attempt[e]
        /\ \A r \in steady[e] : pushed[e][r] = 1 \/ r \in missed[e]
    BY DEF SendInv, EventInv
  <2>2. attempt[e] \in 1..3
    BY EventFacts
  <2>3. QED
    BY <2>1, <2>2 DEF MaxRetries
<1>2. QED
  BY <1>1, SendAlways, PTL
-----------------------------------------------------------------------------
(* Without overlapping requests: one row per token, one token per device.  *)

SameDevice(a, t, r) ==
    /\ tokens[r].status = "active" /\ tokens[r].admin = a
    /\ DeviceOf[tokens[r].token] = DeviceOf[t]
    /\ DeviceOf[t] # NoDevice

\* What the two properties say of the table.
TableInv ==
    /\ \A a \in Admins, t \in Tokens : \A r, s \in OfToken(a, t) : r = s
    /\ \A r, s \in Rows \ revived :
         tokens[s].status = "active"
            /\ SameDevice(tokens[s].admin, tokens[s].token, r) => r = s

\* What a registration has found out is still so at its next statement.
FoundInv(c) ==
    /\ pushPc[c] \in {"deactivate", "insert"} => OfToken(job[c].admin, job[c].token) = {}
    /\ pushPc[c] = "touch" =>
         OfToken(job[c].admin, job[c].token) \subseteq {job[c].row}
    /\ pushPc[c] = "insert" =>
         \A r \in Rows : ~ SameDevice(job[c].admin, job[c].token, r)

OneInFlight == \A c, d \in PushCalls : pushPc[c] # "idle" /\ pushPc[d] # "idle" => c = d

AloneInv ==
    pushAlone => TableInv /\ OneInFlight /\ \A c \in PushCalls : FoundInv(c)

\* A step that revives no row: the table says no less than before.
FewerRows ==
    /\ Rows' = Rows
    /\ \A r \in Rows :
         /\ tokens'[r].admin = tokens[r].admin /\ tokens'[r].token = tokens[r].token
         /\ tokens'[r].status # "deleted" => tokens[r].status # "deleted"
         /\ tokens'[r].status = "active" =>
              tokens[r].status = "active" /\ (r \in revived => r \in revived')

LEMMA FewerInTable ==
    ASSUME TableInv, FewerRows
    PROVE  TableInv'
<1>1. \A a \in Admins, t \in Tokens : OfToken(a, t)' \subseteq OfToken(a, t)
  BY DEF FewerRows, OfToken
<1>2. ASSUME NEW r \in Rows' \ revived', NEW s \in Rows' \ revived',
             tokens'[s].status = "active",
             SameDevice(tokens[s].admin, tokens[s].token, r)'
      PROVE  r = s
  <2>1. /\ r \in Rows \ revived /\ s \in Rows \ revived
        /\ tokens[s].status = "active"
        /\ SameDevice(tokens[s].admin, tokens[s].token, r)
    BY <1>2 DEF FewerRows, SameDevice
  <2>2. QED
    BY <2>1 DEF TableInv
<1>3. QED
  BY <1>1, <1>2 DEF TableInv

LEMMA FewerFound ==
    ASSUME FewerRows, NEW c \in PushCalls, FoundInv(c),
           pushPc'[c] = pushPc[c], job'[c] = job[c]
    PROVE  FoundInv(c)'
<1>1. OfToken(job[c].admin, job[c].token)' \subseteq OfToken(job[c].admin, job[c].token)
  BY DEF FewerRows, OfToken
<1>2. \A r \in Rows' : SameDevice(job[c].admin, job[c].token, r)'
                          => SameDevice(job[c].admin, job[c].token, r)
  BY DEF FewerRows, SameDevice
<1>3. QED
  BY <1>1, <1>2 DEF FoundInv, FewerRows
LEMMA MarkedFewer ==
    ASSUME NotificationsAssumption, TypeInv, NEW R,
           NEW status \in {"inactive", "deleted"},
           tokens' = Marked(R, status), revived \ R \subseteq revived'
    PROVE  FewerRows
<1>1. /\ TokensStay /\ Rows' = Rows
      /\ \A r \in Rows :
           tokens'[r].status = IF r \in R /\ tokens[r].status # "deleted"
                               THEN status ELSE tokens[r].status
  BY MarkedRows DEF TypeInv
<1>2. QED
  BY <1>1 DEF FewerRows, TokensStay

\* The steps after which no administrator has more rows than before.
LEMMA FewerSteps ==
    ASSUME NotificationsAssumption, TypeInv,
           \/ UNCHANGED tokenVars
           \/ \E c \in PushCalls : DeactivateDevice(c)
           \/ \E a \in Admins, t \in Tokens : RemoveToken(a, t)
           \/ \E e \in Events : RemoveInvalidToken(e)
    PROVE  FewerRows
<1>1. CASE UNCHANGED tokenVars
  BY <1>1 DEF tokenVars, FewerRows, Rows
<1>2. ASSUME NEW c \in PushCalls, DeactivateDevice(c)
      PROVE  FewerRows
  <2> DEFINE R == {r \in Rows : /\ tokens[r].admin = job[c].admin
                                /\ DeviceOf[tokens[r].token]
                                      = DeviceOf[job[c].token]}
  <2>1. /\ tokens' = Marked(R, "inactive")
        /\ revived' = {r \in revived : tokens'[r].status = "active"}
    BY <1>2 DEF DeactivateDevice
  <2>2. /\ TokensStay /\ Rows' = Rows
        /\ \A r \in Rows :
             tokens'[r].status = IF r \in R /\ tokens[r].status # "deleted"
                                 THEN "inactive" ELSE tokens[r].status
    BY <2>1, MarkedRows DEF TypeInv
  <2>3. QED
    BY <2>1, <2>2 DEF FewerRows, TokensStay
<1>3. ASSUME NEW a \in Admins, NEW t \in Tokens, RemoveToken(a, t)
      PROVE  FewerRows
  BY <1>3, MarkedFewer DEF RemoveToken
<1>4. ASSUME NEW e \in Events, RemoveInvalidToken(e)
      PROVE  FewerRows
  BY <1>4, MarkedFewer DEF RemoveInvalidToken
<1>5. QED
  BY <1>1, <1>2, <1>3, <1>4

\* Steps that leave requests where they are.
LEMMA OthersAlone ==
    ASSUME AloneInv, pushAlone, FewerRows,
           \A c \in PushCalls : pushPc'[c] = pushPc[c] /\ job'[c] = job[c]
    PROVE  AloneInv'
<1>1. TableInv' /\ OneInFlight'
  BY FewerInTable DEF AloneInv, OneInFlight
<1>2. \A c \in PushCalls : FoundInv(c)'
  BY FewerFound DEF AloneInv
<1>3. QED
  BY <1>1, <1>2 DEF AloneInv

\* The only request returns.
LEMMA ReturnAlone ==
    ASSUME TypeInv, OneInFlight, NEW c \in PushCalls, pushPc[c] # "idle",
           pushPc' = [pushPc EXCEPT ![c] = "idle"], TableInv'
    PROVE  AloneInv'
<1>1. \A d \in PushCalls : pushPc'[d] = "idle"
  BY DEF OneInFlight, TypeInv, PushTypeOK
<1>2. QED
  BY <1>1 DEF AloneInv, OneInFlight, FoundInv

\* A request starts while no other is in flight.
LEMMA StartAlone ==
    ASSUME TypeInv, AloneInv, pushAlone', NEW c \in PushCalls, NEW label, NEW j,
           PushStart(c, label, j), FoundInv(c)'
    PROVE  AloneInv'
<1>1. /\ pushAlone /\ \A d \in PushCalls : pushPc[d] = "idle"
      /\ pushPc' = [pushPc EXCEPT ![c] = label]
      /\ UNCHANGED tokenVars
  BY DEF PushStart, PushRequests
<1>2. FewerRows
  BY <1>1 DEF tokenVars, FewerRows, Rows
<1>3. TableInv'
  BY <1>1, <1>2, FewerInTable DEF AloneInv
<1>4. \A d \in PushCalls \ {c} : pushPc'[d] = "idle"
  BY <1>1 DEF TypeInv, PushTypeOK
<1>5. QED
  BY <1>3, <1>4 DEF AloneInv, OneInFlight, FoundInv

LEMMA RegisterAlone ==
    ASSUME NotificationsAssumption, TypeInv, AloneInv, pushAlone', NEW c \in PushCalls,
           NEW a \in Admins, NEW t \in Tokens, RegisterToken(c, a, t)
    PROVE  AloneInv'
<1> DEFINE live == OfToken(a, t)
           next == IF live # {} THEN "touch"
                   ELSE IF DeviceOf[t] # NoDevice THEN "deactivate" ELSE "insert"
<1>1. PICK r \in IF live # {} THEN live ELSE {0} :
        PushStart(c, next, [admin |-> a, token |-> t, row |-> r])
  BY DEF RegisterToken
<1>2. /\ pushPc'[c] = next /\ job'[c] = [admin |-> a, token |-> t, row |-> r]
      /\ tokens' = tokens /\ pushAlone
  BY <1>1 DEF PushStart, tokenVars, TypeInv, PushTypeOK
<1>3. OfToken(a, t)' = live
  BY <1>2 DEF OfToken, Rows
<1>4. live \subseteq {r}
  BY <1>1, <1>2 DEF AloneInv, TableInv
<1>5. pushPc'[c] \in {"deactivate", "insert"} => live = {}
  BY <1>2
<1>6. pushPc'[c] = "insert" => DeviceOf[t] = NoDevice
  BY <1>2
<1>7. FoundInv(c)'
  BY <1>2, <1>3, <1>4, <1>5, <1>6 DEF FoundInv, SameDevice
<1>8. QED
  BY <1>1, <1>7, StartAlone
LEMMA DeactivateAlone ==
    ASSUME NotificationsAssumption, TypeInv, AloneInv, pushAlone, NEW c \in PushCalls,
           DeactivateDevice(c)
    PROVE  AloneInv'
<1> DEFINE R == {r \in Rows : /\ tokens[r].admin = job[c].admin
                              /\ DeviceOf[tokens[r].token]
                                    = DeviceOf[job[c].token]}
<1>1. FewerRows
  BY FewerSteps
<1>2. TableInv'
  BY <1>1, FewerInTable DEF AloneInv
<1>3. /\ pushPc[c] = "deactivate" /\ pushPc' = [pushPc EXCEPT ![c] = "insert"] /\ job' = job
      /\ tokens' = Marked(R, "inactive")
  BY DEF DeactivateDevice
<1>4. /\ pushPc'[c] = "insert"
      /\ \A d \in PushCalls \ {c} : pushPc'[d] = pushPc[d] /\ pushPc[d] = "idle"
  BY <1>3 DEF AloneInv, OneInFlight, TypeInv, PushTypeOK
<1>5. OfToken(job[c].admin, job[c].token)' = {}
  <2>1. OfToken(job[c].admin, job[c].token)'
          \subseteq OfToken(job[c].admin, job[c].token)
    BY <1>1, <1>3 DEF FewerRows, OfToken
  <2>2. QED
    BY <1>3, <2>1 DEF AloneInv, FoundInv
<1>6. \A r \in Rows' : ~ SameDevice(job[c].admin, job[c].token, r)'
  <2>1. /\ Rows' = Rows /\ TokensStay
        /\ \A r \in Rows :
             tokens'[r].status = IF r \in R /\ tokens[r].status # "deleted"
                                 THEN "inactive" ELSE tokens[r].status
    BY <1>3, MarkedRows DEF TypeInv
  <2>2. QED
    BY <1>3, <2>1 DEF SameDevice, TokensStay
<1>7. FoundInv(c)'
  BY <1>4, <1>5, <1>6 DEF FoundInv
<1>8. QED
  BY <1>2, <1>4, <1>7 DEF AloneInv, OneInFlight, FoundInv

LEMMA TouchAlone ==
    ASSUME NotificationsAssumption, TypeInv, AloneInv, pushAlone, NEW c \in PushCalls,
           TouchToken(c)
    PROVE  AloneInv'
<1> DEFINE n == job[c].row
<1>1. /\ Rows' = Rows /\ n \in Rows /\ TokensStay
      /\ \A r \in Rows :
           tokens'[r].status = IF r = n THEN "active" ELSE tokens[r].status
  BY TouchedRows
<1>2. /\ pushPc[c] = "touch" /\ pushPc' = [pushPc EXCEPT ![c] = "idle"]
      /\ revived' = IF tokens[n].status = "active" THEN revived
                    ELSE revived \cup {n}
  BY DEF TouchToken, PushReturn
<1>3. /\ tokens[n].admin = job[c].admin /\ tokens[n].token = job[c].token
      /\ OfToken(job[c].admin, job[c].token) \subseteq {n}
  BY <1>2 DEF AloneInv, FoundInv, TypeInv, JobInv, JobFits
<1>4. ASSUME NEW a \in Admins, NEW t \in Tokens,
             NEW r \in OfToken(a, t)', NEW s \in OfToken(a, t)'
      PROVE  r = s
  <2>1. /\ r \in OfToken(a, t) \/ r = n
        /\ s \in OfToken(a, t) \/ s = n
        /\ tokens[r].admin = a /\ tokens[r].token = t
        /\ tokens[s].admin = a /\ tokens[s].token = t
    BY <1>1, <1>4 DEF OfToken, TokensStay
  <2>2. CASE r = n \/ s = n
    BY <1>3, <2>1, <2>2
  <2>3. CASE r # n /\ s # n
    BY <2>1, <2>3 DEF AloneInv, TableInv
  <2>4. QED
    BY <2>2, <2>3
<1>5. ASSUME NEW r \in Rows' \ revived', NEW s \in Rows' \ revived',
             tokens'[s].status = "active",
             SameDevice(tokens[s].admin, tokens[s].token, r)'
      PROVE  r = s
  <2>1. /\ r \in Rows \ revived /\ s \in Rows \ revived
        /\ tokens'[r].status = tokens[r].status
        /\ tokens'[s].status = tokens[s].status
    BY <1>1, <1>2
  <2>2. /\ tokens[s].status = "active"
        /\ SameDevice(tokens[s].admin, tokens[s].token, r)
    BY <1>1, <1>5, <2>1 DEF SameDevice, TokensStay
  <2>3. QED
    BY <2>1, <2>2 DEF AloneInv, TableInv
<1>6. TableInv'
  BY <1>4, <1>5 DEF TableInv
<1>7. QED
  BY <1>2, <1>6, ReturnAlone DEF AloneInv

LEMMA InsertAlone ==
    ASSUME NotificationsAssumption, TypeInv, AloneInv, pushAlone, NEW c \in PushCalls,
           InsertToken(c)
    PROVE  AloneInv'
<1> DEFINE n == Len(tokens) + 1
           a0 == job[c].admin
           t0 == job[c].token
<1>1. /\ Rows' = Rows \cup {n} /\ n \notin Rows
      /\ \A r \in Rows : tokens'[r] = tokens[r]
      /\ tokens'[n] = [admin |-> a0, token |-> t0, status |-> "active"]
  BY InsertedRows
<1>2. /\ pushPc[c] = "insert" /\ pushPc' = [pushPc EXCEPT ![c] = "idle"] /\ revived' = revived
      /\ revived \subseteq Rows
  BY DEF InsertToken, PushReturn, TypeInv, PushTypeOK
<1>3. /\ OfToken(a0, t0) = {}
      /\ \A r \in Rows : ~ SameDevice(a0, t0, r)
  BY <1>2 DEF AloneInv, FoundInv
<1> HIDE DEF n, a0, t0
<1>4. tokens'[n].admin = a0 /\ tokens'[n].token = t0 /\ tokens'[n].status = "active"
  BY <1>1
<1>5. ASSUME NEW a \in Admins, NEW t \in Tokens,
             NEW r \in OfToken(a, t)', NEW s \in OfToken(a, t)'
      PROVE  r = s
  <2>1. /\ r \in OfToken(a, t) \/ (r = n /\ a = a0 /\ t = t0)
        /\ s \in OfToken(a, t) \/ (s = n /\ a = a0 /\ t = t0)
    BY <1>1, <1>4, <1>5 DEF OfToken
  <2>2. QED
    BY <1>3, <2>1 DEF AloneInv, TableInv
<1>6. ASSUME NEW r \in Rows' \ revived', NEW s \in Rows' \ revived',
             tokens'[s].status = "active",
             SameDevice(tokens[s].admin, tokens[s].token, r)'
      PROVE  r = s
  <2>1. CASE r \in Rows /\ s \in Rows
    BY <1>1, <1>2, <1>6, <2>1 DEF SameDevice, AloneInv, TableInv
  <2>2. CASE s = n /\ r \in Rows
    <3>1. SameDevice(a0, t0, r)
      BY <1>1, <1>4, <1>6, <2>2 DEF SameDevice
    <3>2. QED
      BY <1>3, <2>2, <3>1
  <2>3. CASE r = n /\ s \in Rows
    <3>1. SameDevice(a0, t0, s)
      BY <1>1, <1>4, <1>6, <2>3 DEF SameDevice
    <3>2. QED
      BY <1>3, <2>3, <3>1
  <2>4. QED
    BY <1>1, <2>1, <2>2, <2>3
<1>7. TableInv'
  BY <1>5, <1>6 DEF TableInv
<1>8. QED
  BY <1>2, <1>7, ReturnAlone DEF AloneInv
LEMMA AloneStep ==
    ASSUME NotificationsAssumption, TypeInv, AloneInv, [PushNext]_pushVars
    PROVE  AloneInv'
<1> SUFFICES ASSUME pushAlone' PROVE AloneInv'
  BY DEF AloneInv
<1>1. CASE UNCHANGED pushVars
  <2>1. FewerRows
    BY <1>1, FewerSteps DEF pushVars
  <2>2. QED
    BY <1>1, <2>1, OthersAlone DEF pushVars
<1>2. CASE PushNext
  <2>1. ASSUME NEW c \in PushCalls, NEW a \in Admins, NEW t \in Tokens,
               RegisterToken(c, a, t)
        PROVE  AloneInv'
    BY <2>1, RegisterAlone
  <2>2. ASSUME NEW c \in PushCalls, NEW a \in Admins,
               GetPreferences(c, a) \/ UpdatePreferences(c, a)
        PROVE  AloneInv'
    <3>1. PICK label \in {"pref_insert", "pref_save"}, w \in {"on", "off"},
               asked \in BOOLEAN :
            PushStart(c, label, [admin |-> a, want |-> w, asked |-> asked])
      BY <2>2 DEF GetPreferences, UpdatePreferences
    <3>2. pushPc'[c] = label
      BY <3>1 DEF PushStart, TypeInv, PushTypeOK
    <3>3. FoundInv(c)'
      BY <3>2 DEF FoundInv
    <3>4. QED
      BY <3>1, <3>3, StartAlone
  <2>3. ASSUME NEW c \in PushCalls, TouchToken(c) \/ DeactivateDevice(c) \/ InsertToken(c)
        PROVE  AloneInv'
    <3>1. pushAlone
      BY <2>3 DEF TouchToken, DeactivateDevice, InsertToken, PushReturn
    <3>2. QED
      BY <2>3, <3>1, TouchAlone, DeactivateAlone, InsertAlone
  <2>4. ASSUME NEW c \in PushCalls,
               InsertPreferences(c) \/ SavePreferences(c) \/ RequestFails(c)
        PROVE  AloneInv'
    <3>1. /\ pushAlone /\ UNCHANGED tokenVars /\ pushPc[c] # "idle"
          /\ pushPc' = [pushPc EXCEPT ![c] = "idle"]
      BY <2>4 DEF InsertPreferences, SavePreferences, RequestFails, PushReturn
    <3>2. TableInv /\ OneInFlight
      BY <3>1 DEF AloneInv
    <3>3. TableInv'
      BY <3>1, <3>2, FewerSteps, FewerInTable
    <3>4. QED
      BY <3>1, <3>2, <3>3, ReturnAlone
  <2>5. ASSUME NEW a \in Admins, NEW t \in Tokens, RemoveToken(a, t)
        PROVE  AloneInv'
    <3>1. FewerRows
      BY <2>5, FewerSteps
    <3>2. pushAlone /\ pushPc' = pushPc /\ job' = job
      BY <2>5 DEF RemoveToken
    <3>3. QED
      BY <3>1, <3>2, OthersAlone
  <2>6. ASSUME NEW e \in Events,
               \/ Emit(e) \/ SaveRow(e) \/ GetAdminsWithTokens(e) \/ SendToTokens(e)
               \/ RemoveInvalidToken(e) \/ RemovalFails(e)
               \/ AttemptFails(e) \/ Disconnected(e)
        PROVE  AloneInv'
    <3>1. /\ pushAlone /\ job' = job
          /\ \E label : pushPc' = [pushPc EXCEPT ![e] = label]
      BY <2>6 DEF Emit, SaveRow, GetAdminsWithTokens, SendToTokens,
         RemoveInvalidToken, RemovalFails, Removed, AttemptFails, Retry,
         Disconnected, PushGoto
    <3>2. UNCHANGED tokenVars \/ RemoveInvalidToken(e)
      BY <2>6 DEF Emit, SaveRow, GetAdminsWithTokens, SendToTokens,
         RemovalFails, AttemptFails, Retry, Disconnected, PushGoto
    <3>3. FewerRows
      BY <3>2, FewerSteps
    <3>4. \A c \in PushCalls : pushPc'[c] = pushPc[c]
      BY <3>1 DEF TypeInv, PushTypeOK, NotificationsAssumption
    <3>5. QED
      BY <3>1, <3>3, <3>4, OthersAlone
  <2>7. CASE PushCrash
    <3>1. pushAlone /\ UNCHANGED tokenVars
      BY <2>7 DEF PushCrash
    <3>2. TableInv'
      BY <3>1, FewerSteps, FewerInTable DEF AloneInv
    <3>3. \A c \in PushCalls : pushPc'[c] = "idle"
      BY <2>7 DEF PushCrash, TypeInv, PushTypeOK
    <3>4. QED
      BY <3>2, <3>3 DEF AloneInv, OneInFlight, FoundInv
  <2>8. QED
    BY <1>2, <2>1, <2>2, <2>3, <2>4, <2>5, <2>6, <2>7 DEF PushNext, Step
<1>3. QED
  BY <1>1, <1>2

LEMMA AloneAlways ==
    ASSUME NotificationsAssumption
    PROVE  PushSpec => []AloneInv
<1>1. PushInit => AloneInv
  BY DEF PushInit, AloneInv, TableInv, OneInFlight, FoundInv, OfToken, Rows
<1>2. PushInit => TypeInv
  BY InitTypes
<1>3. TypeInv /\ AloneInv /\ [PushNext]_pushVars => (TypeInv /\ AloneInv)'
  BY TypesStep, AloneStep
<1>4. QED
  BY <1>1, <1>2, <1>3, PTL DEF PushSpec

\* As long as requests do not overlap, registerToken never gives a token of an
\* administrator a second row, whatever events delete between its check and
\* its insert.
THEOREM TokensHaveOneRow ==
    ASSUME NotificationsAssumption
    PROVE  PushSpec => []OneRowPerToken
<1>1. AloneInv => OneRowPerToken
  BY DEF AloneInv, TableInv, OneRowPerToken
<1>2. QED
  BY <1>1, AloneAlways, PTL

\* As long as requests do not overlap, two active tokens of one device are
\* there only because one was registered again while inactive, which skips the
\* deactivation of the device's other tokens (registerToken).
THEOREM DevicesHaveOneToken ==
    ASSUME NotificationsAssumption
    PROVE  PushSpec => []OnlyRevivedShareDevice
<1>1. AloneInv => OnlyRevivedShareDevice
  BY DEF AloneInv, TableInv, SameDevice, OnlyRevivedShareDevice
<1>2. QED
  BY <1>1, AloneAlways, PTL
-----------------------------------------------------------------------------
(* Preferences.                                                            *)

\* Without overlapping requests, a request that was not asked for the switch
\* saves what the row still has.
AsRead(c) ==
    pushPc[c] = "pref_save" /\ ~ job[c].asked => job[c].want = prefs[job[c].admin]

ReadInv == pushAlone => \A c \in PushCalls : AsRead(c)

LEMMA StartReads ==
    ASSUME NotificationsAssumption, TypeInv, ReadInv, pushAlone', NEW c \in PushCalls,
           NEW label \in CallLabels, NEW j \in Jobs, PushStart(c, label, j),
           label = "pref_save" /\ ~ j.asked => j.want = prefs[j.admin]
    PROVE  ReadInv'
<1>1. /\ \A d \in PushCalls \ {c} : pushPc'[d] = pushPc[d] /\ job'[d] = job[d]
      /\ pushPc'[c] = label /\ job'[c] = j
  <2>1. TokensStay
    BY DEF PushStart, tokenVars, TokensStay, TypeInv, PushTypeOK, Rows
  <2>2. QED
    BY <2>1, CallTypes
<1>2. pushAlone /\ prefs' = prefs
  BY DEF PushStart
<1>3. QED
  BY <1>1, <1>2 DEF ReadInv, AsRead

LEMMA ReadStep ==
    ASSUME NotificationsAssumption, TypeInv, AloneInv, ReadInv, [PushNext]_pushVars
    PROVE  ReadInv'
<1> SUFFICES ASSUME pushAlone' PROVE ReadInv'
  BY DEF ReadInv
<1>1. /\ pushPc \in [PushCalls \cup Events -> CallLabels \cup EventLabels]
      /\ job \in [PushCalls -> Jobs \cup {NoJob}]
      /\ PushCalls \cap Events = {}
  BY DEF TypeInv, PushTypeOK, NotificationsAssumption
<1>2. ASSUME pushAlone, UNCHANGED <<prefs, job>>,
             \A c \in PushCalls : pushPc'[c] = pushPc[c] \/ pushPc'[c] # "pref_save"
      PROVE  ReadInv'
  BY <1>2 DEF ReadInv, AsRead
<1>3. ASSUME NEW c \in PushCalls, pushAlone, pushPc[c] # "idle",
             pushPc' = [pushPc EXCEPT ![c] = "idle"]
      PROVE  ReadInv'
  <2>1. \A d \in PushCalls : pushPc'[d] = "idle"
    BY <1>1, <1>3 DEF AloneInv, OneInFlight
  <2>2. QED
    BY <2>1 DEF ReadInv, AsRead
<1>4. CASE UNCHANGED pushVars
  BY <1>2, <1>4 DEF pushVars
<1>5. CASE PushNext
  <2>1. ASSUME NEW c \in PushCalls, NEW a \in Admins, NEW t \in Tokens,
               RegisterToken(c, a, t)
        PROVE  ReadInv'
    <3>1. PICK label \in {"touch", "deactivate", "insert"} :
            \E row : PushStart(c, label, [admin |-> a, token |-> t, row |-> row])
      BY <2>1 DEF RegisterToken
    <3>2. /\ pushAlone /\ prefs' = prefs /\ pushPc'[c] # "pref_save"
          /\ \A d \in PushCalls \ {c} : pushPc'[d] = pushPc[d] /\ job'[d] = job[d]
      BY <1>1, <3>1 DEF PushStart
    <3>3. QED
      BY <3>2 DEF ReadInv, AsRead
  <2>2. ASSUME NEW c \in PushCalls, NEW a \in Admins, GetPreferences(c, a)
        PROVE  ReadInv'
    <3>1. [admin |-> a, want |-> "on", asked |-> FALSE] \in Jobs
      BY DEF Jobs
    <3>2. QED
      BY <2>2, <3>1, StartReads DEF GetPreferences, CallLabels
  <2>3. ASSUME NEW c \in PushCalls, NEW a \in Admins, UpdatePreferences(c, a)
        PROVE  ReadInv'
    <3>1. PICK w \in {"on", "off"}, asked \in BOOLEAN :
            /\ asked \/ w = IF prefs[a] = "none" THEN "on" ELSE prefs[a]
            /\ PushStart(c, IF prefs[a] = "none" THEN "pref_insert" ELSE "pref_save",
                         [admin |-> a, want |-> w, asked |-> asked])
      BY <2>3 DEF UpdatePreferences
    <3>2. [admin |-> a, want |-> w, asked |-> asked] \in Jobs
      BY DEF Jobs
    <3>3. "pref_insert" \in CallLabels /\ "pref_save" \in CallLabels
      BY DEF CallLabels
    <3>4. CASE prefs[a] = "none"
      BY <3>1, <3>2, <3>3, <3>4, StartReads
    <3>5. CASE prefs[a] # "none"
      BY <3>1, <3>2, <3>3, <3>5, StartReads
    <3>6. QED
      BY <3>4, <3>5
  <2>4. ASSUME NEW c \in PushCalls,
               \/ TouchToken(c) \/ InsertToken(c) \/ InsertPreferences(c)
               \/ SavePreferences(c) \/ RequestFails(c)
        PROVE  ReadInv'
    BY <1>3, <2>4 DEF TouchToken, InsertToken, InsertPreferences, SavePreferences,
       RequestFails, PushReturn
  <2>5. ASSUME NEW c \in PushCalls, DeactivateDevice(c)
        PROVE  ReadInv'
    BY <1>1, <1>2, <2>5 DEF DeactivateDevice
  <2>6. ASSUME NEW a \in Admins, NEW t \in Tokens, RemoveToken(a, t)
        PROVE  ReadInv'
    BY <1>2, <2>6 DEF RemoveToken
  <2>7. ASSUME NEW e \in Events,
               \/ Emit(e) \/ SaveRow(e) \/ GetAdminsWithTokens(e) \/ SendToTokens(e)
               \/ RemoveInvalidToken(e) \/ RemovalFails(e)
               \/ AttemptFails(e) \/ Disconnected(e)
        PROVE  ReadInv'
    <3>1. /\ pushAlone /\ UNCHANGED <<prefs, job>>
          /\ \E label : pushPc' = [pushPc EXCEPT ![e] = label]
      BY <2>7 DEF Emit, SaveRow, GetAdminsWithTokens, SendToTokens,
         RemoveInvalidToken, RemovalFails, Removed, AttemptFails, Retry,
         Disconnected, PushGoto
    <3>2. \A c \in PushCalls : pushPc'[c] = pushPc[c]
      BY <1>1, <3>1
    <3>3. QED
      BY <1>2, <3>1, <3>2
  <2>8. CASE PushCrash
    <3>1. \A c \in PushCalls : pushPc'[c] = "idle"
      BY <1>1, <2>8 DEF PushCrash
    <3>2. QED
      BY <3>1 DEF ReadInv, AsRead
  <2>9. QED
    BY <1>5, <2>1, <2>2, <2>3, <2>4, <2>5, <2>6, <2>7, <2>8 DEF PushNext, Step
<1>6. QED
  BY <1>4, <1>5

\* Pushes that an administrator has switched off stay off until a request saves
\* them as on; one that was not asked to switch them does so only when requests
\* overlap (getPreferences, updatePreferences).
THEOREM PushesStayOff ==
    ASSUME NotificationsAssumption
    PROVE  PushSpec => OptOutIsKept
<1>1. ASSUME TypeInv, ReadInv, PushNext
      PROVE  OptOutKept
  <2> SUFFICES ASSUME NEW a \in Admins, prefs[a] = "off", prefs'[a] # "off"
               PROVE  \E c \in PushCalls : /\ pushPc[c] = "pref_save"
                                           /\ job[c].admin = a /\ job[c].want = "on"
                                           /\ pushAlone => job[c].asked
    BY DEF OptOutKept
  <2>1. prefs \in [Admins -> {"none", "on", "off"}]
    BY <1>1 DEF TypeInv, PushTypeOK
  <2>2. ASSUME NEW c \in PushCalls, InsertPreferences(c)
        PROVE  prefs'[a] = prefs[a]
    BY <2>1, <2>2 DEF InsertPreferences
  <2>3. ASSUME NEW c \in PushCalls, SavePreferences(c)
        PROVE  /\ pushPc[c] = "pref_save"
               /\ job[c].admin = a /\ job[c].want = "on"
               /\ pushAlone => job[c].asked
    <3>1. pushPc[c] = "pref_save" /\ job[c] \in PreferenceJobs
      BY <1>1, <2>3 DEF TypeInv, JobInv, JobFits, SavePreferences
    <3>2. prefs' = [prefs EXCEPT ![job[c].admin] = job[c].want]
      BY <2>3 DEF SavePreferences
    <3>3. job[c].admin = a /\ job[c].want = "on"
      BY <2>1, <3>1, <3>2 DEF PreferenceJobs
    <3>4. pushAlone => job[c].asked
      BY <1>1, <3>1, <3>3 DEF ReadInv, AsRead
    <3>5. QED
      BY <3>1, <3>3, <3>4
  <2>4. ASSUME NEW c \in PushCalls,
               \/ \E b \in Admins, t \in Tokens : RegisterToken(c, b, t)
               \/ TouchToken(c) \/ DeactivateDevice(c) \/ InsertToken(c)
               \/ \E b \in Admins : GetPreferences(c, b) \/ UpdatePreferences(c, b)
               \/ RequestFails(c)
        PROVE  prefs' = prefs
    BY <2>4 DEF RegisterToken, TouchToken, DeactivateDevice, InsertToken,
       GetPreferences, UpdatePreferences, RequestFails, PushStart
  <2>5. ASSUME NEW e \in Events,
               \/ Emit(e) \/ SaveRow(e) \/ GetAdminsWithTokens(e) \/ SendToTokens(e)
               \/ RemoveInvalidToken(e) \/ RemovalFails(e)
               \/ AttemptFails(e) \/ Disconnected(e)
        PROVE  prefs' = prefs
    BY <2>5 DEF Emit, SaveRow, GetAdminsWithTokens, SendToTokens,
       RemoveInvalidToken, RemovalFails, Removed, AttemptFails, Retry,
       Disconnected, PushGoto
  <2>6. PushCrash \/ (\E b \in Admins, t \in Tokens : RemoveToken(b, t)) => prefs' = prefs
    BY DEF PushCrash, RemoveToken
  <2>7. QED
    BY <1>1, <2>2, <2>3, <2>4, <2>5, <2>6 DEF PushNext, Step
<1>2. ASSUME UNCHANGED pushVars
      PROVE  OptOutKept
  BY <1>2 DEF OptOutKept, pushVars
<1>3. TypeInv /\ ReadInv /\ [PushNext]_pushVars => [OptOutKept]_pushVars
  BY <1>1, <1>2
<1>4. PushInit => ReadInv
  BY DEF PushInit, ReadInv, AsRead
<1>5. ReadInv /\ TypeInv /\ AloneInv /\ [PushNext]_pushVars => ReadInv'
  BY ReadStep
<1>6. QED
  BY <1>3, <1>4, <1>5, SendAlways, AloneAlways, PTL DEF OptOutIsKept, PushSpec
=============================================================================
