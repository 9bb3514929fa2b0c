----------------------------- MODULE SheetWrites -----------------------------
(* Delivery of approvals to one Google Sheets integration (providers.ts):    *)
(* each approval reserves a range of rows once, and every attempt writes     *)
(* that range; attempts of one approval may overlap, because a delivery's    *)
(* lease expires under a slow worker (WebhookDelivery). Meanwhile people     *)
(* authorize, disconnect and reconnect, attempts refresh the credentials,    *)
(* and documents are deleted.                                                *)
EXTENDS Integers, FiniteSets

CONSTANTS
  Approvals,
  Workers,      \* attempts under way, each with a claimed delivery's payload
  Tabs,         \* browsers coming back from Google's consent page
  MaxRows,      \* bound on the rows of one approval (1000 in the code)
  MaxAttempts,  \* bound on the attempts made
  MaxGrants,    \* bound on authorizations started
  NoApproval, NoWrite

ASSUME SheetsAssumption ==
  /\ {MaxRows, MaxGrants} \subseteq Nat \ {0} /\ MaxAttempts \in Nat
  /\ NoApproval \notin Approvals
  /\ NoWrite \notin [first : Nat, rows : 1..MaxRows, delivered : BOOLEAN]

VARIABLES
  present,   \* approvals whose document was not deleted
  enabled,   \* integrations.enabled
  secret,    \* secret_ciphertext: [grant, cipher], grant 0 for null
  ciphers,   \* encryptions so far: each is a new ciphertext
  state,     \* the oauth_states row: its grant and whether it is consumed, grant 0 for none
  started,   \* authorizations started so far, grant numbers in their order
  voided,    \* grants started before the last disconnect
  nextRow,   \* sheet_cursors.next_row
  write,     \* sheet_writes: [first, rows, delivered], or NoWrite
  sheet,     \* what Google holds: <<approval, first, rows>>
  pc, work, cred, range, \* an attempt's place, approval, credentials and reservation
  tab,       \* the grant a browser exchanges for tokens, 0 when it does not
  attempts   \* attempts made so far

reservationVars == <<nextRow, write>>
connectionVars == <<enabled, secret, ciphers, state, started, voided, tab>>
attemptVars == <<pc, work, cred, range>>
vars == <<present, connectionVars, reservationVars, sheet, attemptVars, attempts>>

NoSecret == [grant |-> 0, cipher |-> 0]
\* encryptSecret draws a new initialization vector every time.
Encrypt(grant) == ciphers' = ciphers + 1 /\ secret' = [grant |-> grant, cipher |-> ciphers + 1]

NoState == [grant |-> 0, consumed |-> FALSE]

Init ==
  /\ present = Approvals
  /\ enabled = FALSE /\ secret = NoSecret /\ ciphers = 0 /\ state = NoState
  /\ started = 0 /\ voided = 0 /\ tab = [t \in Tabs |-> 0]
  /\ nextRow = 2 /\ write = [a \in Approvals |-> NoWrite]
  /\ sheet = {}
  /\ pc = [w \in Workers |-> "idle"] /\ work = [w \in Workers |-> NoApproval]
  /\ cred = [w \in Workers |-> NoSecret] /\ range = [w \in Workers |-> NoWrite]
  /\ attempts = 0

(***************************************************************************)
(* Authorization: POST /api/google/start, the callback's two transactions  *)
(* around the token exchange, and disconnect.                              *)
(***************************************************************************)
Start ==
  /\ started < MaxGrants
  /\ started' = started + 1
  /\ state' = [grant |-> started + 1, consumed |-> FALSE]
  /\ UNCHANGED <<present, enabled, secret, ciphers, voided, tab, reservationVars, sheet, attemptVars, attempts>>

\* The state is single-use; what Google answers to the code is not ours.
Consume(t) ==
  /\ tab[t] = 0 /\ state.grant # 0 /\ ~state.consumed
  /\ state' = [state EXCEPT !.consumed = TRUE]
  /\ tab' = [tab EXCEPT ![t] = state.grant]
  /\ UNCHANGED <<present, enabled, secret, ciphers, started, voided, reservationVars, sheet, attemptVars, attempts>>

\* Whatever became of the authorization while its tokens were fetched.
NotCheckedAgain(t) == TRUE

\* DELETE FROM oauth_states ... RETURNING: neither superseded nor disconnected.
StillCurrent(t) == state.grant = tab[t] /\ state.consumed

Connect(t) ==
  /\ tab[t] # 0
  /\ IF StillCurrent(t)
     THEN /\ Encrypt(tab[t])
          /\ enabled' = TRUE /\ state' = NoState
     ELSE UNCHANGED <<secret, ciphers, enabled, state>>
  /\ tab' = [tab EXCEPT ![t] = 0]
  /\ UNCHANGED <<present, started, voided, reservationVars, sheet, attemptVars, attempts>>

\* Consent was denied, the exchange failed, or the browser is gone.
Abandon(t) ==
  /\ tab[t] # 0
  /\ tab' = [tab EXCEPT ![t] = 0]
  /\ UNCHANGED <<present, enabled, secret, ciphers, state, started, voided, reservationVars, sheet, attemptVars, attempts>>

Disconnect ==
  /\ enabled' = FALSE /\ secret' = NoSecret /\ state' = NoState
  /\ voided' = started
  /\ UNCHANGED <<present, ciphers, started, tab, reservationVars, sheet, attemptVars, attempts>>

\* PATCH /api/integrations/:id
Toggle ==
  /\ enabled' = ~enabled
  /\ UNCHANGED <<present, secret, ciphers, state, started, voided, tab, reservationVars, sheet, attemptVars, attempts>>

\* purgeDocument
Purge(a) ==
  /\ a \in present
  /\ present' = present \ {a}
  /\ write' = [write EXCEPT ![a] = NoWrite]
  /\ UNCHANGED <<connectionVars, nextRow, sheet, attemptVars, attempts>>

(***************************************************************************)
(* sendGoogleSheets.                                                       *)
(***************************************************************************)
Goto(w, label) == pc' = [pc EXCEPT ![w] = label]

Return(w) ==
  /\ Goto(w, "idle") /\ work' = [work EXCEPT ![w] = NoApproval]
  /\ cred' = [cred EXCEPT ![w] = NoSecret] /\ range' = [range EXCEPT ![w] = NoWrite]

\* A delivery of a document that exists is claimed, again after a lease or a replay.
Claim(w, a) ==
  /\ pc[w] = "idle" /\ a \in present /\ attempts < MaxAttempts
  /\ Goto(w, "reserving") /\ work' = [work EXCEPT ![w] = a]
  /\ attempts' = attempts + 1
  /\ UNCHANGED <<present, connectionVars, reservationVars, sheet, cred, range>>

\* sheetRows: a row for each line item, one for an approval that has none.
Rows == 1..MaxRows

\* One row for each approval, whatever its line items.
AllocateOne(n) == nextRow' = nextRow + 1

Allocate(n) == nextRow' = nextRow + n

\* Only a delivered write is found again.
FoundDelivered(a) == write[a] # NoWrite /\ write[a].delivered

Found(a) == write[a] # NoWrite

\* reserveSheetWrite, with the integration row locked.
Reserve(w) ==
  /\ pc[w] = "reserving" /\ enabled /\ secret # NoSecret
  /\ LET a == work[w]
     IN \/ /\ Found(a) /\ write[a].delivered
           /\ Return(w) /\ UNCHANGED reservationVars
        \/ /\ Found(a) /\ ~write[a].delivered
           /\ Goto(w, "refreshing") /\ UNCHANGED <<work, reservationVars>>
           /\ cred' = [cred EXCEPT ![w] = secret] /\ range' = [range EXCEPT ![w] = write[a]]
        \/ /\ ~Found(a)
           /\ \E n \in Rows :
                LET new == [first |-> nextRow, rows |-> n, delivered |-> FALSE]
                IN Allocate(n) /\ write' = [write EXCEPT ![a] = new] /\ range' = [range EXCEPT ![w] = new]
           /\ cred' = [cred EXCEPT ![w] = secret]
           /\ Goto(w, "refreshing") /\ UNCHANGED work
  /\ UNCHANGED <<present, connectionVars, sheet, attempts>>

\* WHERE enabled=true and secret_ciphertext=$3
Unchanged(w) == enabled /\ secret = cred[w]

\* The refreshed tokens are stored, under a new ciphertext, before the range is written.
Persist(w) ==
  /\ pc[w] = "refreshing" /\ Unchanged(w)
  /\ Encrypt(cred[w].grant)
  /\ Goto(w, "writing")
  /\ UNCHANGED <<present, enabled, state, started, voided, tab, reservationVars, sheet, work, cred, range, attempts>>

\* Google writes the range; its answer arrives or is lost.
WriteRange(w) ==
  /\ pc[w] = "writing"
  /\ sheet' = sheet \cup {<<work[w], range[w].first, range[w].rows>>}
  /\ Goto(w, "recording")
  /\ UNCHANGED <<present, connectionVars, reservationVars, work, cred, range, attempts>>

RecordWrite(w) ==
  /\ pc[w] = "recording"
  /\ write' = [write EXCEPT ![work[w]] = IF @ = NoWrite THEN @ ELSE [@ EXCEPT !.delivered = TRUE]]
  /\ Return(w)
  /\ UNCHANGED <<present, connectionVars, nextRow, sheet, attempts>>

\* The request fails, or the answer of one that was never applied does not come.
TimeOut(w) ==
  /\ pc[w] = "writing" /\ Return(w)
  /\ UNCHANGED <<present, connectionVars, reservationVars, sheet, attempts>>

\* A refused precondition, an error, a lost answer, an abort or a crash.
Fail(w) ==
  /\ pc[w] \in {"reserving", "refreshing", "recording"}
  /\ Return(w)
  /\ UNCHANGED <<present, connectionVars, reservationVars, sheet, attempts>>

Next ==
  \/ Start \/ Disconnect \/ Toggle
  \/ \E t \in Tabs : Consume(t) \/ Connect(t) \/ Abandon(t)
  \/ \E a \in Approvals : Purge(a)
  \/ \E w \in Workers :
       \/ \E a \in Approvals : Claim(w, a)
       \/ Reserve(w) \/ Persist(w) \/ WriteRange(w) \/ RecordWrite(w) \/ TimeOut(w) \/ Fail(w)

Spec == Init /\ [][Next]_vars

-----------------------------------------------------------------------------
(***************************************************************************)
(* Properties.                                                             *)
(***************************************************************************)
Secrets == [grant : 0..MaxGrants, cipher : Nat]
Writes == [first : Nat, rows : 1..MaxRows, delivered : BOOLEAN]

\* Every variable has its type and an attempt has what its place needs.
TypeOK ==
  /\ present \subseteq Approvals /\ enabled \in BOOLEAN
  /\ secret \in Secrets /\ secret.cipher <= ciphers
  /\ state \in [grant : 0..MaxGrants, consumed : BOOLEAN]
  /\ started \in 0..MaxGrants /\ voided \in 0..started /\ tab \in [Tabs -> 0..started]
  /\ nextRow \in Nat \ {0, 1} /\ write \in [Approvals -> Writes \cup {NoWrite}]
  /\ sheet \subseteq Approvals \X Nat \X (1..MaxRows)
  /\ pc \in [Workers -> {"idle", "reserving", "refreshing", "writing", "recording"}]
  /\ \A w \in Workers :
       /\ work[w] \in IF pc[w] = "idle" THEN {NoApproval} ELSE Approvals
       /\ cred[w] \in Secrets /\ cred[w].cipher <= ciphers
       /\ IF pc[w] \in {"idle", "reserving"} THEN range[w] = NoWrite ELSE range[w] \in Writes
  /\ attempts \in 0..MaxAttempts

\* What is or will be in the sheet: written, reserved, or on its way to Google.
Claims ==
  sheet \cup {<<a, write[a].first, write[a].rows>> : a \in {b \in Approvals : write[b] # NoWrite}}
        \cup {<<work[w], range[w].first, range[w].rows>> : w \in {v \in Workers : range[v] # NoWrite}}

\* No approval's rows overwrite another's or the header, nor those of a document that
\* was deleted, however attempts overlap.
RangesDisjoint ==
  /\ \A x \in Claims : x[2] > 1 /\ x[2] + x[3] <= nextRow
  /\ \A x, y \in Claims : x # y => x[2] + x[3] <= y[2] \/ y[2] + y[3] <= x[2]

\* "Each immutable approval ID reserves a durable row range once" (docs/PROVIDERS.md):
\* while its document exists, all attempts and replays of an approval, concurrent ones
\* too, go to one range, and it is marked delivered only when Google has it.
OneRangePerApproval ==
  \A a \in present :
    /\ \A x, y \in Claims : x[1] = a /\ y[1] = a => x = y
    /\ write[a] # NoWrite /\ write[a].delivered => \E x \in sheet : x[1] = a

\* Credentials come only from the newest authorization, never from one that was started
\* before the last disconnect: neither a slow token exchange nor a slow delivery's token
\* refresh revives or replaces a connection.
ConnectionsAreNewest ==
  [][secret'.grant # secret.grant => secret'.grant = 0 \/ (secret'.grant = started /\ secret'.grant > voided)]_vars

\* "The deletion transaction removes the document's ... Sheets write reservations"
\* (docs/NOTIFICATIONS-RETENTION.md): none with the values of a deleted document remains.
DeletedHasNoReservation == \A a \in Approvals \ present : write[a] = NoWrite
============================================================================
