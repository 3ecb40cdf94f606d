---------------------------- MODULE Notifications ----------------------------
(***************************************************************************)
(* Push notifications to administrators: NotificationsService and what it  *)
(* asks of FcmService.  Orders, payments and registrations emit events;    *)
(* the listener of an event saves a row, reads whom to tell, pushes, and   *)
(* removes the tokens Firebase does not know; a failure before the push    *)
(* starts over, three times at most.  Meanwhile administrators register    *)
(* and remove tokens and change their preferences.                         *)
(*                                                                         *)
(* One action is one awaited statement.  Firebase is configured (without   *)
(* it nothing is pushed).  The two switches of a preference that concern   *)
(* an event are one value.                                                 *)
(***************************************************************************)
EXTENDS Naturals, Sequences, FiniteSets

CONSTANTS
    PushCalls,      \* requests of administrators
    Events,         \* events emitted
    Admins, Tokens, NoDevice,
    DeviceOf,       \* token -> the device that got it from Firebase
    NoJob,
    MaxRows,        \* bound on the rows of admin_fcm_tokens
    MaxPushCalls,   \* requests at a time
    MaxPushFaults   \* bound on crashes and on failures nothing retries

MaxRetries == 3
Ended == {"sent", "given_up", "dropped"}
CallLabels == {"idle", "touch", "deactivate", "insert", "pref_insert", "pref_save"}
EventLabels == {"idle", "save", "query", "push", "remove"} \cup Ended

\* Rows of admin_fcm_tokens.
TokenRows ==
    [admin : Admins, token : Tokens, status : {"active", "inactive", "deleted"}]

\* What a request is about: a token and its row, if any, or the preference it
\* will write, which it was asked for or has read.
Jobs ==
    [admin : Admins, token : Tokens, row : 0..MaxRows]
        \cup [admin : Admins, want : {"on", "off"}, asked : BOOLEAN]

VARIABLES
    tokens,         \* rows of admin_fcm_tokens, deleted ones included
    prefs,          \* admin -> "none", or whether pushes are wanted
    saved,          \* event -> its rows in admin_notifications
    pushPc,         \* call or event -> its next statement
    job,            \* call -> what it is about
    attempt,        \* event -> which attempt it is at
    batch,          \* event -> the token rows it has read
    invalid,        \* event -> the tokens Firebase rejected, to be removed
    pushed,         \* event -> token row -> pushes Firebase took  (history)
    missed,         \* event -> rows whose push Firebase refused   (history)
    steady,         \* event -> rows to be told all the time since (history)
    revived,        \* rows activated by registering them again    (history)
    pushFaults,
    pushAlone       \* no request has met another one in flight    (history)

tokenVars == <<tokens, revived>>
sendVars == <<saved, attempt, batch, invalid, pushed, missed>>
pushVars ==
    <<tokenVars, prefs, sendVars, pushPc, job, steady, pushFaults, pushAlone>>

NotificationsAssumption ==
    /\ MaxRows \in Nat /\ MaxPushCalls \in Nat /\ MaxPushFaults \in Nat
    /\ PushCalls \cap Events = {}
    /\ DOMAIN DeviceOf = Tokens
    /\ NoJob \notin Jobs

PushInit ==
    /\ tokens = << >>
    /\ prefs = [a \in Admins |-> "none"]
    /\ saved = [e \in Events |-> 0]
    /\ pushPc = [p \in PushCalls \cup Events |-> "idle"]
    /\ job = [c \in PushCalls |-> NoJob]
    /\ attempt = [e \in Events |-> 1]
    /\ batch = [e \in Events |-> {}]
    /\ invalid = [e \in Events |-> {}]
    /\ pushed = [e \in Events |-> [r \in 1..MaxRows |-> 0]]
    /\ missed = [e \in Events |-> {}]
    /\ steady = [e \in Events |-> {}]
    /\ revived = {}
    /\ pushFaults = 0
    /\ pushAlone = TRUE

-----------------------------------------------------------------------------
Rows == DOMAIN tokens
OfToken(a, t) ==
    {r \in Rows : /\ tokens[r].admin = a /\ tokens[r].token = t
                  /\ tokens[r].status # "deleted"}

\* getAdminsWithTokens: active tokens of administrators who want pushes.
Deliverable ==
    {r \in Rows : tokens[r].status = "active" /\ prefs[tokens[r].admin] # "off"}

\* The rows of R get a status; deleted ones are no longer there.
Marked(R, status) ==
    [r \in Rows |-> IF r \in R /\ tokens[r].status # "deleted"
                    THEN [tokens[r] EXCEPT !.status = status] ELSE tokens[r]]

PushRequests == {c \in PushCalls : pushPc[c] # "idle"}

PushStart(c, label, j) ==
    /\ pushPc[c] = "idle"
    /\ Cardinality(PushRequests) < MaxPushCalls
    /\ pushPc' = [pushPc EXCEPT ![c] = label]
    /\ job' = [job EXCEPT ![c] = j]
    /\ pushAlone' = (pushAlone /\ PushRequests = {})
    /\ UNCHANGED <<tokenVars, prefs, sendVars, pushFaults>>

PushReturn(c) ==
    /\ pushPc' = [pushPc EXCEPT ![c] = "idle"]
    /\ job' = [job EXCEPT ![c] = NoJob]
    /\ UNCHANGED <<sendVars, pushFaults, pushAlone>>

-----------------------------------------------------------------------------
(* Tokens.                                                                 *)

\* Mutant: the check for an existing token looks at active rows only.
RegisterSeesActive(c, a, t) ==
    LET live == {r \in OfToken(a, t) : tokens[r].status = "active"}
        next == IF live # {} THEN "touch"
                ELSE IF DeviceOf[t] # NoDevice THEN "deactivate" ELSE "insert"
    IN \E r \in IF live # {} THEN live ELSE {0} :
         PushStart(c, next, [admin |-> a, token |-> t, row |-> r])

\* registerToken begins with findOne.
RegisterToken(c, a, t) ==
    LET live == OfToken(a, t)
        next == IF live # {} THEN "touch"
                ELSE IF DeviceOf[t] # NoDevice THEN "deactivate" ELSE "insert"
    IN \E r \in IF live # {} THEN live ELSE {0} :
         PushStart(c, next, [admin |-> a, token |-> t, row |-> r])

\* The row read is saved as active, and again if it was deleted meanwhile.
TouchToken(c) ==
    /\ pushPc[c] = "touch"
    /\ LET r == job[c].row IN
         /\ tokens' = [tokens EXCEPT ![r].status = "active"]
         /\ revived' = IF tokens[r].status = "active" THEN revived
                                                      ELSE revived \cup {r}
    /\ PushReturn(c)
    /\ UNCHANGED prefs

\* Mutant: older tokens of the device stay active.
DeactivateNothing(c) ==
    /\ pushPc[c] = "deactivate"
    /\ pushPc' = [pushPc EXCEPT ![c] = "insert"]
    /\ UNCHANGED <<tokenVars, prefs, sendVars, job, pushFaults, pushAlone>>

DeactivateDevice(c) ==
    /\ pushPc[c] = "deactivate"
    /\ tokens' = Marked({r \in Rows : /\ tokens[r].admin = job[c].admin
                                      /\ DeviceOf[tokens[r].token]
                                            = DeviceOf[job[c].token]}, "inactive")
    /\ revived' = {r \in revived : tokens'[r].status = "active"}
    /\ pushPc' = [pushPc EXCEPT ![c] = "insert"]
    /\ UNCHANGED <<prefs, sendVars, job, pushFaults, pushAlone>>

InsertToken(c) ==
    /\ pushPc[c] = "insert"
    /\ Len(tokens) < MaxRows
    /\ tokens' = Append(tokens, [admin |-> job[c].admin, token |-> job[c].token,
                                 status |-> "active"])
    /\ PushReturn(c)
    /\ UNCHANGED <<revived, prefs>>

\* removeToken is one statement.
RemoveToken(a, t) ==
    /\ OfToken(a, t) # {}
    /\ tokens' = Marked(OfToken(a, t), "inactive")
    /\ revived' = revived \ OfToken(a, t)
    /\ UNCHANGED <<prefs, sendVars, pushPc, job, pushFaults, pushAlone>>

-----------------------------------------------------------------------------
(* Preferences: one row per administrator, inserted by the first request.  *)

\* getPreferences writes the defaults when it finds no row.
GetPreferences(c, a) ==
    /\ prefs[a] = "none"
    /\ PushStart(c, "pref_insert", [admin |-> a, want |-> "on", asked |-> FALSE])

\* Mutant: a switch the DTO leaves out is saved as its default.
UpdateWithDefaults(c, a) ==
    \E w \in {"on", "off"}, asked \in BOOLEAN :
        /\ asked \/ w = "on"
        /\ PushStart(c, IF prefs[a] = "none" THEN "pref_insert" ELSE "pref_save",
                     [admin |-> a, want |-> w, asked |-> asked])

\* The switch may be in the DTO or not; the row is saved as read, but for the DTO.
UpdatePreferences(c, a) ==
    LET read == IF prefs[a] = "none" THEN "on" ELSE prefs[a] IN
    \E w \in {"on", "off"}, asked \in BOOLEAN :
        /\ asked \/ w = read
        /\ PushStart(c, IF prefs[a] = "none" THEN "pref_insert" ELSE "pref_save",
                     [admin |-> a, want |-> w, asked |-> asked])

\* userId is unique: the second of two inserts is refused.
InsertPreferences(c) ==
    /\ pushPc[c] = "pref_insert"
    /\ prefs' = [prefs EXCEPT ![job[c].admin] =
                    IF @ = "none" THEN job[c].want ELSE @]
    /\ PushReturn(c)
    /\ UNCHANGED tokenVars

SavePreferences(c) ==
    /\ pushPc[c] = "pref_save"
    /\ prefs' = [prefs EXCEPT ![job[c].admin] = job[c].want]
    /\ PushReturn(c)
    /\ UNCHANGED tokenVars

-----------------------------------------------------------------------------
(* sendNotificationToAdmins, one process per event.                        *)

PushGoto(e, label) ==
    /\ pushPc' = [pushPc EXCEPT ![e] = label]
    /\ UNCHANGED <<tokenVars, prefs, job, pushAlone>>

Emit(e) ==
    /\ pushPc[e] = "idle"
    /\ PushGoto(e, "save")
    /\ UNCHANGED <<sendVars, pushFaults>>

SaveRow(e) ==
    /\ pushPc[e] = "save"
    /\ saved' = [saved EXCEPT ![e] = @ + 1]
    /\ PushGoto(e, "query")
    /\ UNCHANGED <<attempt, batch, invalid, pushed, missed, pushFaults>>

\* Mutant: administrators without a row of preferences are not told.
GetAdminsWithPreferences(e) ==
    /\ pushPc[e] = "query"
    /\ LET found == {r \in Deliverable : prefs[tokens[r].admin] = "on"} IN
         /\ batch' = [batch EXCEPT ![e] = found]
         /\ PushGoto(e, IF found = {} THEN "sent" ELSE "push")
    /\ UNCHANGED <<saved, attempt, invalid, pushed, missed, pushFaults>>

GetAdminsWithTokens(e) ==
    /\ pushPc[e] = "query"
    /\ batch' = [batch EXCEPT ![e] = Deliverable]
    /\ PushGoto(e, IF Deliverable = {} THEN "sent" ELSE "push")
    /\ UNCHANGED <<saved, attempt, invalid, pushed, missed, pushFaults>>

\* sendToTokens never throws: Firebase takes a push, rejects its token as one it
\* does not know, or fails in another way, which is logged and not repeated.
SendToTokens(e) ==
    /\ pushPc[e] = "push"
    /\ \E taken \in SUBSET batch[e], unknown \in SUBSET batch[e] :
         LET rejected == {tokens[r].token : r \in unknown} IN
         /\ taken \cap unknown = {}
         /\ pushed' = [pushed EXCEPT ![e] =
                         [r \in DOMAIN @ |-> IF r \in taken THEN @[r] + 1 ELSE @[r]]]
         /\ missed' = [missed EXCEPT ![e] = @ \cup (batch[e] \ taken)]
         /\ invalid' = [invalid EXCEPT ![e] = rejected]
         /\ PushGoto(e, IF rejected = {} THEN "sent" ELSE "remove")
    /\ batch' = [batch EXCEPT ![e] = {}]
    /\ UNCHANGED <<saved, attempt, pushFaults>>

\* One rejected token is done with, its rows deleted or not.
Removed(e, t) ==
    /\ invalid' = [invalid EXCEPT ![e] = @ \ {t}]
    /\ pushPc' = [pushPc EXCEPT ![e] = IF invalid[e] = {t} THEN "sent" ELSE "remove"]
    /\ UNCHANGED <<prefs, job, pushAlone, saved, attempt, batch, pushed, missed>>

RemoveInvalidToken(e) ==
    /\ pushPc[e] = "remove"
    /\ \E t \in invalid[e] :
         LET gone == {r \in Rows : tokens[r].token = t} IN
           /\ tokens' = Marked(gone, "deleted")
           /\ revived' = revived \ gone
           /\ Removed(e, t)
    /\ UNCHANGED pushFaults

\* A statement of an attempt fails: the next attempt starts over.
Retry(e) ==
    /\ IF attempt[e] < MaxRetries
       THEN /\ attempt' = [attempt EXCEPT ![e] = @ + 1]
            /\ PushGoto(e, "save")
       ELSE /\ PushGoto(e, "given_up")
            /\ UNCHANGED attempt
    /\ invalid' = [invalid EXCEPT ![e] = {}]
    /\ UNCHANGED <<batch, pushed, missed, pushFaults>>

\* Mutant: the failed removal of a token is not caught.
RemovalThrows(e) ==
    /\ pushPc[e] = "remove"
    /\ Retry(e)
    /\ UNCHANGED saved

\* removeInvalidToken fails: caught, the loop goes on.
RemovalFails(e) ==
    /\ pushPc[e] = "remove"
    /\ pushFaults < MaxPushFaults
    /\ \E t \in invalid[e] : Removed(e, t)
    /\ pushFaults' = pushFaults + 1
    /\ UNCHANGED tokenVars

\* Mutant: after the last attempt the counter starts again.
FailsForEver(e) ==
    /\ pushPc[e] = "save"
    /\ attempt' = [attempt EXCEPT ![e] = (@ % MaxRetries) + 1]
    /\ PushGoto(e, "save")
    /\ UNCHANGED <<saved, batch, invalid, pushed, missed, pushFaults>>

\* The insert fails, before or after its commit, or the query does.
AttemptFails(e) ==
    /\ pushPc[e] \in {"save", "query"}
    /\ Retry(e)
    /\ \/ UNCHANGED saved
       \/ pushPc[e] = "save" /\ saved' = [saved EXCEPT ![e] = @ + 1]

\* "Driver not Connected": no further attempt.
Disconnected(e) ==
    /\ pushPc[e] \in {"save", "query"}
    /\ pushFaults < MaxPushFaults
    /\ pushFaults' = pushFaults + 1
    /\ PushGoto(e, "dropped")
    /\ UNCHANGED sendVars

\* A statement of a request fails, and the request with it.
RequestFails(c) ==
    /\ pushPc[c] # "idle"
    /\ pushFaults < MaxPushFaults
    /\ pushFaults' = pushFaults + 1
    /\ pushPc' = [pushPc EXCEPT ![c] = "idle"]
    /\ job' = [job EXCEPT ![c] = NoJob]
    /\ UNCHANGED <<tokenVars, prefs, sendVars, pushAlone>>

\* The process ends, with every event and request in flight.
PushCrash ==
    /\ pushFaults < MaxPushFaults
    /\ pushFaults' = pushFaults + 1
    /\ pushPc' = [p \in DOMAIN pushPc |->
                    IF p \in PushCalls THEN "idle"
                    ELSE IF pushPc[p] \in {"save", "query", "push", "remove"}
                         THEN "dropped"
                    ELSE pushPc[p]]
    /\ job' = [c \in PushCalls |-> NoJob]
    /\ batch' = [e \in Events |-> {}]
    /\ invalid' = [e \in Events |-> {}]
    /\ UNCHANGED <<tokenVars, prefs, saved, attempt, pushed, missed, pushAlone>>

\* Which rows an event has had to reach ever since it was emitted.
Watch ==
    steady' = [e \in Events |->
                 IF pushPc[e] \in Ended \/ pushPc'[e] = "idle" THEN steady[e]
                 ELSE IF pushPc[e] = "idle" THEN Deliverable
                 ELSE steady[e] \cap Deliverable']

\* The event loop resumes the listener of e: its statement ends, well or not.
PushContinue(e) ==
    /\ \/ SaveRow(e) \/ GetAdminsWithTokens(e) \/ SendToTokens(e)
       \/ RemoveInvalidToken(e) \/ RemovalFails(e) \/ AttemptFails(e)
    /\ Watch

Step ==
    \/ \E c \in PushCalls :
         \/ \E a \in Admins, t \in Tokens : RegisterToken(c, a, t)
         \/ TouchToken(c) \/ DeactivateDevice(c) \/ InsertToken(c)
         \/ \E a \in Admins : GetPreferences(c, a) \/ UpdatePreferences(c, a)
         \/ InsertPreferences(c) \/ SavePreferences(c)
         \/ RequestFails(c)
    \/ \E a \in Admins, t \in Tokens : RemoveToken(a, t)
    \/ \E e \in Events :
         \/ Emit(e) \/ SaveRow(e) \/ GetAdminsWithTokens(e) \/ SendToTokens(e)
         \/ RemoveInvalidToken(e) \/ RemovalFails(e)
         \/ AttemptFails(e) \/ Disconnected(e)
    \/ PushCrash

PushNext == Step /\ Watch

PushSpec == PushInit /\ [][PushNext]_pushVars

-----------------------------------------------------------------------------
\* Every variable keeps its type (the entities AdminFcmToken,
\* AdminNotificationPreferences, AdminNotification).
PushTypeOK ==
    /\ tokens \in Seq(TokenRows)
    /\ Len(tokens) <= MaxRows
    /\ prefs \in [Admins -> {"none", "on", "off"}]
    /\ saved \in [Events -> Nat]
    /\ pushPc \in [PushCalls \cup Events -> CallLabels \cup EventLabels]
    /\ \A c \in PushCalls : pushPc[c] \in CallLabels
    /\ \A e \in Events : pushPc[e] \in EventLabels
    /\ job \in [PushCalls -> Jobs \cup {NoJob}]
    /\ attempt \in [Events -> 1..MaxRetries]
    /\ batch \in [Events -> SUBSET Rows]
    /\ invalid \in [Events -> SUBSET Tokens]
    /\ pushed \in [Events -> [1..MaxRows -> Nat]]
    /\ missed \in [Events -> SUBSET Rows]
    /\ steady \in [Events -> SUBSET Rows]
    /\ revived \subseteq Rows
    /\ pushFaults \in Nat /\ pushAlone \in BOOLEAN

\* However often sending starts over, a registered token is sent an event at
\* most once, and not at all by an event that is given up: no attempt starts
\* over once Firebase was asked (sendNotificationToAdmins).
WasAsked(e) == missed[e] # {} \/ \E r \in 1..MaxRows : pushed[e][r] > 0
PushedOnce ==
    \A e \in Events :
        /\ \A r \in 1..MaxRows : pushed[e][r] <= 1
        /\ WasAsked(e) => pushPc[e] \in {"remove", "sent", "dropped"}

\* An event that has been sent has left one to three rows in the history, and
\* every token that was active, with pushes wanted, from its emission to its end
\* got its push, unless Firebase refused just that one: a push that fails is not
\* tried again (sendNotificationToAdmins, sendToToken).
SteadyAreTold ==
    \A e \in Events : pushPc[e] = "sent" =>
        /\ saved[e] \in 1..MaxRetries
        /\ \A r \in steady[e] : pushed[e][r] = 1 \/ r \in missed[e]

\* Without overlapping requests no token of an administrator has two rows,
\* each of which would be pushed to, whatever events delete meanwhile
\* (registerToken, removeInvalidToken).
OneRowPerToken ==
    pushAlone => \A a \in Admins, t \in Tokens :
        \A r, s \in OfToken(a, t) : r = s

\* "Deactivate old tokens with same deviceId": without overlapping requests, of
\* two active tokens of one device one was registered again while inactive
\* (registerToken).
OnlyRevivedShareDevice ==
    pushAlone => \A r, s \in Rows \ revived :
        (/\ tokens[r].status = "active" /\ tokens[s].status = "active"
         /\ tokens[r].admin = tokens[s].admin
         /\ DeviceOf[tokens[r].token] = DeviceOf[tokens[s].token]
         /\ DeviceOf[tokens[r].token] # NoDevice) => r = s

\* Who has switched pushes off keeps them off until a request of theirs switches
\* them on, however first reads and updates race for the row.  One that changes
\* another field, and read the row before they went off, undoes it too, but only
\* by overlapping the request that switched them off (updatePreferences).
OptOutKept ==
    \A a \in Admins : prefs[a] = "off" /\ prefs'[a] # "off" =>
        \E c \in PushCalls :
            /\ pushPc[c] = "pref_save"
            /\ job[c].admin = a /\ job[c].want = "on"
            /\ pushAlone => job[c].asked
OptOutIsKept == [][OptOutKept]_pushVars

\* An event that was emitted is done with sooner or later: the attempts end
\* (sendNotificationToAdmins).
EventsEnd == \A e \in Events : pushPc[e] # "idle" ~> pushPc[e] \in Ended
=============================================================================
