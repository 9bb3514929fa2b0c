-------------------------- MODULE WebhookDelivery --------------------------
(* The outbox of one webhook integration (webhooks.ts): approvals and        *)
(* failures become webhook_deliveries rows, workers claim a row under a      *)
(* lease token, send its stored payload outside any transaction and record   *)
(* the outcome if the token is still theirs; people replay settled events,   *)
(* disable the integration and delete documents meanwhile.                   *)
(*                                                                           *)
(* Rows of one batch share created_at, so the claim may take any of them.    *)
EXTENDS Integers, FiniteSets

CONSTANTS
  Events,       \* approvals or failures, each the event_key of at most one row
  Workers,      \* invocations of enqueueIntegrationEvents and processOneDelivery
  MaxAttempts,  \* the literal 5 of webhooks.ts
  MaxReplays,   \* bound on manual replays
  MaxInterrupts, \* bound on crashes and aborted transactions
  NoEvent       \* a worker between deliveries

ASSUME DeliveryAssumption ==
  /\ MaxAttempts \in Nat \ {0} /\ MaxReplays \in Nat /\ MaxInterrupts \in Nat
  /\ NoEvent \notin Events

VARIABLES
  document,   \* per event: "none" before it happens, "present", "gone" once deleted
  enabled,    \* integrations.enabled
  status, attempts, token, \* the row; token is the number of the claim that owns it, 0 for none
  expired,    \* delivering rows with lease_until < now()
  due,        \* rows with next_attempt_at <= now()
  claims,     \* claims ever made of the row: a fresh randomUUID() each
  accepted,   \* events the destination accepted since their last replay
  pc, batch,  \* where each worker is; the events its enqueue statement selected
  work, mine, tries, \* the claimed event, its token, delivery.attempts
  replays, interrupts

rowVars == <<status, attempts, token, expired, due, claims>>
attemptVars == <<work, mine, tries>>
vars == <<document, enabled, rowVars, accepted, pc, batch, attemptVars, replays, interrupts>>

Init ==
  /\ document = [e \in Events |-> "none"] /\ enabled = TRUE
  /\ status = [e \in Events |-> "none"]
  /\ attempts = [e \in Events |-> 0] /\ token = [e \in Events |-> 0]
  /\ expired = {} /\ due = {} /\ claims = [e \in Events |-> 0]
  /\ accepted = {}
  /\ pc = [w \in Workers |-> "idle"] /\ batch = [w \in Workers |-> {}]
  /\ work = [w \in Workers |-> NoEvent] /\ mine = [w \in Workers |-> 0] /\ tries = [w \in Workers |-> 0]
  /\ replays = 0 /\ interrupts = 0

Goto(w, label) == pc' = [pc EXCEPT ![w] = label]

\* Forgets what processOneDelivery had in its variables.
Return(w) ==
  /\ Goto(w, "idle")
  /\ work' = [work EXCEPT ![w] = NoEvent]
  /\ mine' = [mine EXCEPT ![w] = 0] /\ tries' = [tries EXCEPT ![w] = 0]

(***************************************************************************)
(* Documents and people.                                                   *)
(***************************************************************************)
\* POST /runs/:id/approve, or a failure in the journal.
Happen(e) ==
  /\ document[e] = "none" /\ document' = [document EXCEPT ![e] = "present"]
  /\ UNCHANGED <<enabled, rowVars, accepted, pc, batch, attemptVars, replays, interrupts>>

\* The enqueue statement locks no document.
SharedByNobody(e) == FALSE

\* The FOR KEY SHARE locks of an enqueue statement make FOR UPDATE wait.
Shared(e) == \E w \in Workers : e \in batch[w]

ForgetRow(e) ==
  /\ status' = [status EXCEPT ![e] = "none"] /\ token' = [token EXCEPT ![e] = 0]
  /\ attempts' = [attempts EXCEPT ![e] = 0]
  /\ expired' = expired \ {e} /\ due' = due \ {e} /\ UNCHANGED claims

\* purgeDocument: locks the document, deletes its deliveries, then itself.
Purge(e) ==
  /\ document[e] = "present" /\ ~Shared(e)
  /\ document' = [document EXCEPT ![e] = "gone"]
  /\ ForgetRow(e)
  /\ UNCHANGED <<enabled, accepted, pc, batch, attemptVars, replays, interrupts>>

Toggle ==
  /\ enabled' = ~enabled
  /\ UNCHANGED <<document, rowVars, accepted, pc, batch, attemptVars, replays, interrupts>>

Replay(e) ==
  /\ status[e] \in {"failed", "delivered"} /\ replays < MaxReplays
  /\ status' = [status EXCEPT ![e] = "queued"]
  /\ attempts' = [attempts EXCEPT ![e] = 0] /\ token' = [token EXCEPT ![e] = 0]
  /\ due' = due \cup {e} /\ replays' = replays + 1
  /\ accepted' = accepted \ {e}
  /\ UNCHANGED <<document, enabled, expired, claims, pc, batch, attemptVars, interrupts>>

BackoffElapses(e) ==
  /\ status[e] \in {"queued", "retry"} /\ e \notin due
  /\ due' = due \cup {e}
  /\ UNCHANGED <<document, enabled, status, attempts, token, expired, claims, accepted, pc, batch, attemptVars, replays, interrupts>>

LeaseExpires(e) ==
  /\ status[e] = "delivering" /\ e \notin expired
  /\ expired' = expired \cup {e}
  /\ UNCHANGED <<document, enabled, status, attempts, token, due, claims, accepted, pc, batch, attemptVars, replays, interrupts>>

(***************************************************************************)
(* enqueueApprovals and enqueueFailureEvents: one INSERT ... SELECT each.  *)
(***************************************************************************)
Unsent == {e \in Events : document[e] = "present" /\ status[e] = "none"}

\* The SELECT keeps its documents from being deleted until the INSERT commits. Its LIMIT and
\* the documents it skips because a delete holds them, a step here, are left to a next call.
EnqueueSelect(w) ==
  /\ pc[w] = "idle" /\ enabled /\ Unsent # {}
  /\ batch' = [batch EXCEPT ![w] = Unsent]
  /\ Goto(w, "enqueuing")
  /\ UNCHANGED <<document, enabled, rowVars, accepted, attemptVars, replays, interrupts>>

\* ON CONFLICT(integration_id,event_key) DO NOTHING: another worker may have been first.
EnqueueInsert(w) ==
  /\ pc[w] = "enqueuing"
  /\ LET fresh == {e \in batch[w] : status[e] = "none"}
     IN /\ status' = [e \in Events |-> IF e \in fresh THEN "queued" ELSE status[e]]
        /\ due' = due \cup fresh
  /\ batch' = [batch EXCEPT ![w] = {}]
  /\ Goto(w, "idle")
  /\ UNCHANGED <<document, enabled, attempts, token, expired, claims, accepted, attemptVars, replays, interrupts>>

(***************************************************************************)
(* processOneDelivery.                                                     *)
(***************************************************************************)
\* Only attempts beyond the last one count as lost.
ExhaustedBeyond(e) == status[e] = "delivering" /\ e \in expired /\ attempts[e] > MaxAttempts

Exhausted(e) == status[e] = "delivering" /\ e \in expired /\ attempts[e] >= MaxAttempts

\* First transaction: a last attempt that never finished is failed.
FailExhausted(w) ==
  /\ pc[w] = "idle"
  /\ LET lost == {e \in Events : Exhausted(e)}
     IN /\ status' = [e \in Events |-> IF e \in lost THEN "failed" ELSE status[e]]
        /\ token' = [e \in Events |-> IF e \in lost THEN 0 ELSE token[e]]
        /\ expired' = expired \ lost
  /\ Goto(w, "claiming")
  /\ UNCHANGED <<document, enabled, attempts, due, claims, accepted, batch, attemptVars, replays, interrupts>>

Claimable(e) ==
  /\ enabled /\ attempts[e] < MaxAttempts
  /\ \/ status[e] \in {"queued", "retry"} /\ e \in due
     \/ status[e] = "delivering" /\ e \in expired

\* Second transaction: claims a waiting row, or one whose worker's lease ran out.
Claim(w, e) ==
  /\ pc[w] = "claiming" /\ Claimable(e)
  /\ status' = [status EXCEPT ![e] = "delivering"]
  /\ attempts' = [attempts EXCEPT ![e] = @ + 1]
  /\ claims' = [claims EXCEPT ![e] = @ + 1]
  /\ token' = [token EXCEPT ![e] = claims[e] + 1] /\ expired' = expired \ {e}
  /\ work' = [work EXCEPT ![w] = e] /\ mine' = [mine EXCEPT ![w] = claims[e] + 1]
  /\ tries' = [tries EXCEPT ![w] = attempts[e] + 1]
  /\ Goto(w, "claimed")
  /\ UNCHANGED <<document, enabled, due, accepted, batch, replays, interrupts>>

ClaimNone(w) ==
  /\ pc[w] = "claiming" /\ ~\E e \in Events : Claimable(e)
  /\ Goto(w, "idle")
  /\ UNCHANGED <<document, enabled, rowVars, accepted, batch, attemptVars, replays, interrupts>>

\* The integration is read again: it may have been disabled since the claim.
LookUp(w) ==
  /\ pc[w] = "claimed"
  /\ Goto(w, IF enabled THEN "sending" ELSE "failing")
  /\ UNCHANGED <<document, enabled, rowVars, accepted, batch, attemptVars, replays, interrupts>>

\* The destination accepts; its answer arrives or is lost.
SendAccepted(w) ==
  /\ pc[w] = "sending"
  /\ accepted' = accepted \cup {work[w]}
  /\ \E label \in {"delivered", "failing"} : Goto(w, label)
  /\ UNCHANGED <<document, enabled, rowVars, batch, attemptVars, replays, interrupts>>

\* The destination refuses, cannot be reached, or the request is aborted.
SendFails(w) ==
  /\ pc[w] = "sending"
  /\ Goto(w, "failing")
  /\ UNCHANGED <<document, enabled, rowVars, accepted, batch, attemptVars, replays, interrupts>>

\* The row is still being delivered, by whomever.
OwnsByStatus(w) == status[work[w]] = "delivering"

\* WHERE id=$2 AND lease_token=$3
Owns(w) == token[work[w]] = mine[w]

\* Clears the lease of the worker's row and gives it a new status.
Settle(w, to) ==
  /\ status' = [status EXCEPT ![work[w]] = to] /\ token' = [token EXCEPT ![work[w]] = 0]
  /\ expired' = expired \ {work[w]}

\* The acknowledgement of the commit may be lost, which sends the worker to its catch block.
RecordDelivered(w) ==
  /\ pc[w] = "delivered"
  /\ IF Owns(w) THEN Settle(w, "delivered") ELSE UNCHANGED <<status, token, expired>>
  /\ \/ Return(w)
     \/ Goto(w, "failing") /\ UNCHANGED attemptVars
  /\ UNCHANGED <<document, enabled, attempts, due, claims, accepted, batch, replays, interrupts>>

RecordFailure(w) ==
  /\ pc[w] = "failing"
  /\ IF Owns(w)
     THEN Settle(w, IF tries[w] >= MaxAttempts THEN "failed" ELSE "retry") /\ due' = due \ {work[w]}
     ELSE UNCHANGED <<status, token, expired, due>>
  /\ Return(w)
  /\ UNCHANGED <<document, enabled, attempts, claims, accepted, batch, replays, interrupts>>

\* A crash or a failed transaction: its locks are released, a committed lease stays.
Interrupt(w) ==
  /\ pc[w] # "idle" /\ interrupts < MaxInterrupts
  /\ Return(w) /\ batch' = [batch EXCEPT ![w] = {}] /\ interrupts' = interrupts + 1
  /\ UNCHANGED <<document, enabled, rowVars, accepted, replays>>

Enqueue(w) == EnqueueSelect(w) \/ EnqueueInsert(w)

Process(w) ==
  \/ FailExhausted(w) \/ (\E e \in Events : Claim(w, e)) \/ ClaimNone(w)
  \/ LookUp(w) \/ SendAccepted(w) \/ SendFails(w) \/ RecordDelivered(w) \/ RecordFailure(w)

Next ==
  \/ \E w \in Workers : Enqueue(w) \/ Process(w) \/ Interrupt(w)
  \/ \E e \in Events : Happen(e) \/ Purge(e) \/ Replay(e) \/ BackoffElapses(e) \/ LeaseExpires(e)
  \/ Toggle

Spec == Init /\ [][Next]_vars

\* tickIntegrations and the hosted drain enqueue and then process, again and again, and
\* clocks advance; people and destinations owe nothing.
Fairness ==
  /\ \A w \in Workers : SF_vars(EnqueueSelect(w)) /\ WF_vars(EnqueueInsert(w)) /\ WF_vars(Process(w))
  /\ \A e \in Events : WF_vars(BackoffElapses(e)) /\ WF_vars(LeaseExpires(e))

FairSpec == Spec /\ Fairness

-----------------------------------------------------------------------------
(***************************************************************************)
(* Properties.                                                             *)
(***************************************************************************)
InAttempt == {"claimed", "sending", "delivered", "failing"}
Statuses == {"none", "queued", "delivering", "retry", "delivered", "failed"}

\* Every variable has its type; a row has a token exactly while it is being delivered,
\* the one of its last claim.
TypeOK ==
  /\ document \in [Events -> {"none", "present", "gone"}] /\ enabled \in BOOLEAN
  /\ status \in [Events -> Statuses] /\ attempts \in [Events -> 0..MaxAttempts]
  /\ claims \in [Events -> Nat]
  /\ \A e \in Events : token[e] = IF status[e] = "delivering" THEN claims[e] ELSE 0
  /\ \A e \in Events : status[e] = "delivering" => attempts[e] > 0 /\ claims[e] > 0
  /\ expired \subseteq {e \in Events : status[e] = "delivering"} /\ due \subseteq Events
  /\ accepted \subseteq Events
  /\ pc \in [Workers -> {"idle", "enqueuing", "claiming"} \cup InAttempt]
  /\ batch \in [Workers -> SUBSET Events] /\ work \in [Workers -> Events \cup {NoEvent}]
  /\ mine \in [Workers -> Nat] /\ tries \in [Workers -> 0..MaxAttempts]

\* However many attempts of a row are still answering, at most one can record an outcome,
\* it knows which attempt it is, and it records a delivery only of a request that the
\* destination accepted after the last replay.
AttemptInv ==
  \A w \in Workers : pc[w] \in InAttempt =>
    /\ work[w] \in Events /\ mine[w] \in 1..claims[work[w]]
    /\ \A v \in Workers \ {w} : work[v] = work[w] => mine[v] # mine[w]
    /\ Owns(w) => status[work[w]] = "delivering" /\ tries[w] = attempts[work[w]]
    /\ Owns(w) /\ pc[w] = "delivered" => work[w] \in accepted

\* Deleting a document takes its queued payloads with it, also the ones an enqueue
\* statement was just about to insert (docs/NOTIFICATIONS-RETENTION.md).
DeletedIsForgotten == \A e \in Events : status[e] # "none" => document[e] = "present"

\* The row's status, as a subscriber sees it.
Outcome ==
  [e \in Events |->
     CASE document[e] = "gone" -> "gone"
       [] document[e] # "gone" /\ status[e] \in {"queued", "delivering", "retry"} -> "pending"
       [] document[e] # "gone" /\ status[e] \in {"none", "delivered", "failed"} -> status[e]]

\* Crashes, expired leases, late answers and lost acknowledgements are invisible to
\* subscribers: the outbox implements at-least-once delivery.
Contract == INSTANCE DeliveryContract WITH outcome <- Outcome
ImplementsContract == Contract!Spec

\* While the integration stays enabled, what happened is recorded as delivered or as
\* failed, or deleted: no lost worker and no last attempt leaves it pending for ever.
EveryEventSettles ==
  <>[]enabled => \A e \in Events :
    document[e] = "present" ~> document[e] = "gone" \/ status[e] \in {"delivered", "failed"}
============================================================================
