------------------------ MODULE WebhookDelivery_proofs ------------------------
(* Proofs about WebhookDelivery for any number of events, workers, attempts   *)
(* and replays: its invariants, and that the outbox implements the delivery   *)
(* contract.                                                                  *)
EXTENDS WebhookDelivery, TLAPS

USE DEF InAttempt, Statuses

\* The rows, and whether their documents exist.
RowsInv ==
  /\ document \in [Events -> {"none", "present", "gone"}] /\ enabled \in BOOLEAN
  /\ status \in [Events -> Statuses] /\ attempts \in [Events -> 0..MaxAttempts]
  /\ claims \in [Events -> Nat] /\ token \in [Events -> Nat]
  /\ \A e \in Events : token[e] = IF status[e] = "delivering" THEN claims[e] ELSE 0
  /\ \A e \in Events : status[e] = "delivering" => attempts[e] > 0 /\ claims[e] > 0
  /\ expired \subseteq {e \in Events : status[e] = "delivering"} /\ due \subseteq Events
  /\ accepted \subseteq Events

\* The workers.
WorkersInv ==
  /\ pc \in [Workers -> {"idle", "enqueuing", "claiming"} \cup InAttempt]
  /\ batch \in [Workers -> SUBSET Events] /\ work \in [Workers -> Events \cup {NoEvent}]
  /\ mine \in [Workers -> Nat] /\ tries \in [Workers -> 0..MaxAttempts]

\* A worker between attempts holds no token; the row of an attempt was there, and is gone only
\* with its document; and an enqueue statement holds the documents of its batch.
PlacesInv ==
  /\ \A w \in Workers : pc[w] \notin InAttempt => mine[w] = 0
  /\ \A w \in Workers : pc[w] \in InAttempt => status[work[w]] # "none" \/ document[work[w]] = "gone"
  /\ \A w \in Workers : \A e \in batch[w] : document[e] = "present"

DeliveryInv == RowsInv /\ WorkersInv /\ AttemptInv /\ PlacesInv /\ DeletedIsForgotten

-----------------------------------------------------------------------------
\* The invariant holds initially.
LEMMA DeliveryInitial == Init => DeliveryInv
<1> SUFFICES ASSUME Init PROVE DeliveryInv
  OBVIOUS
<1> USE DeliveryAssumption DEF Init
<1>1. RowsInv
  BY DEF RowsInv
<1>2. WorkersInv
  BY DEF WorkersInv
<1>3. AttemptInv
  BY DEF AttemptInv
<1>4. PlacesInv
  BY DEF PlacesInv
<1>5. DeletedIsForgotten
  BY DEF DeletedIsForgotten
<1> QED
  BY <1>1, <1>2, <1>3, <1>4, <1>5 DEF DeliveryInv

\* Every action preserves the invariant.
LEMMA DeliveryStep ==
  ASSUME DeliveryInv, [Next]_vars
  PROVE  DeliveryInv'
<1> USE DeliveryAssumption DEF DeliveryInv
<1>1. ASSUME NEW e \in Events, Happen(e) PROVE DeliveryInv'
  <2>1. RowsInv'
    BY <1>1 DEF Happen, rowVars, attemptVars, RowsInv, WorkersInv, AttemptInv
  <2>2. WorkersInv'
    BY <1>1 DEF Happen, rowVars, attemptVars, WorkersInv, RowsInv
  <2>3. AttemptInv'
    BY <1>1 DEF Happen, rowVars, attemptVars, AttemptInv, PlacesInv, RowsInv, WorkersInv, Owns
  <2>4. PlacesInv'
    BY <1>1 DEF Happen, rowVars, attemptVars, PlacesInv, AttemptInv, RowsInv, WorkersInv
  <2>5. DeletedIsForgotten'
    BY <1>1 DEF Happen, rowVars, attemptVars, DeletedIsForgotten, PlacesInv, AttemptInv, RowsInv, WorkersInv
  <2> QED
    BY <2>1, <2>2, <2>3, <2>4, <2>5 DEF DeliveryInv
<1>2. ASSUME NEW e \in Events, Purge(e) PROVE DeliveryInv'
  <2>1. RowsInv'
    BY <1>2 DEF Purge, Shared, ForgetRow, rowVars, attemptVars, RowsInv, WorkersInv, AttemptInv
  <2>2. WorkersInv'
    BY <1>2 DEF Purge, Shared, ForgetRow, rowVars, attemptVars, WorkersInv, RowsInv
  <2>3. AttemptInv'
    BY <1>2 DEF Purge, Shared, ForgetRow, rowVars, attemptVars, AttemptInv, PlacesInv, RowsInv, WorkersInv, Owns
  <2>4. PlacesInv'
    BY <1>2 DEF Purge, Shared, ForgetRow, rowVars, attemptVars, PlacesInv, AttemptInv, RowsInv, WorkersInv
  <2>5. DeletedIsForgotten'
    BY <1>2 DEF Purge, Shared, ForgetRow, rowVars, attemptVars, DeletedIsForgotten, PlacesInv, AttemptInv, RowsInv, WorkersInv
  <2> QED
    BY <2>1, <2>2, <2>3, <2>4, <2>5 DEF DeliveryInv
<1>3. ASSUME NEW e \in Events, Replay(e) PROVE DeliveryInv'
  <2>1. RowsInv'
    BY <1>3 DEF Replay, rowVars, attemptVars, RowsInv, WorkersInv, AttemptInv
  <2>2. WorkersInv'
    BY <1>3 DEF Replay, rowVars, attemptVars, WorkersInv, RowsInv
  <2>3. AttemptInv'
    BY <1>3 DEF Replay, rowVars, attemptVars, AttemptInv, PlacesInv, RowsInv, WorkersInv, Owns
  <2>4. PlacesInv'
    BY <1>3 DEF Replay, rowVars, attemptVars, PlacesInv, AttemptInv, RowsInv, WorkersInv
  <2>5. DeletedIsForgotten'
    BY <1>3 DEF Replay, rowVars, attemptVars, DeletedIsForgotten, PlacesInv, AttemptInv, RowsInv, WorkersInv
  <2> QED
    BY <2>1, <2>2, <2>3, <2>4, <2>5 DEF DeliveryInv
<1>4. ASSUME NEW e \in Events, BackoffElapses(e) PROVE DeliveryInv'
  <2>1. RowsInv'
    BY <1>4 DEF BackoffElapses, rowVars, attemptVars, RowsInv, WorkersInv, AttemptInv
  <2>2. WorkersInv'
    BY <1>4 DEF BackoffElapses, rowVars, attemptVars, WorkersInv, RowsInv
  <2>3. AttemptInv'
    BY <1>4 DEF BackoffElapses, rowVars, attemptVars, AttemptInv, PlacesInv, RowsInv, WorkersInv, Owns
  <2>4. PlacesInv'
    BY <1>4 DEF BackoffElapses, rowVars, attemptVars, PlacesInv, AttemptInv, RowsInv, WorkersInv
  <2>5. DeletedIsForgotten'
    BY <1>4 DEF BackoffElapses, rowVars, attemptVars, DeletedIsForgotten, PlacesInv, AttemptInv, RowsInv, WorkersInv
  <2> QED
    BY <2>1, <2>2, <2>3, <2>4, <2>5 DEF DeliveryInv
<1>5. ASSUME NEW e \in Events, LeaseExpires(e) PROVE DeliveryInv'
  <2>1. RowsInv'
    BY <1>5 DEF LeaseExpires, rowVars, attemptVars, RowsInv, WorkersInv, AttemptInv
  <2>2. WorkersInv'
    BY <1>5 DEF LeaseExpires, rowVars, attemptVars, WorkersInv, RowsInv
  <2>3. AttemptInv'
    BY <1>5 DEF LeaseExpires, rowVars, attemptVars, AttemptInv, PlacesInv, RowsInv, WorkersInv, Owns
  <2>4. PlacesInv'
    BY <1>5 DEF LeaseExpires, rowVars, attemptVars, PlacesInv, AttemptInv, RowsInv, WorkersInv
  <2>5. DeletedIsForgotten'
    BY <1>5 DEF LeaseExpires, rowVars, attemptVars, DeletedIsForgotten, PlacesInv, AttemptInv, RowsInv, WorkersInv
  <2> QED
    BY <2>1, <2>2, <2>3, <2>4, <2>5 DEF DeliveryInv
<1>6. CASE Toggle
  <2>1. RowsInv'
    BY <1>6 DEF Toggle, rowVars, attemptVars, RowsInv, WorkersInv, AttemptInv
  <2>2. WorkersInv'
    BY <1>6 DEF Toggle, rowVars, attemptVars, WorkersInv, RowsInv
  <2>3. AttemptInv'
    BY <1>6 DEF Toggle, rowVars, attemptVars, AttemptInv, PlacesInv, RowsInv, WorkersInv, Owns
  <2>4. PlacesInv'
    BY <1>6 DEF Toggle, rowVars, attemptVars, PlacesInv, AttemptInv, RowsInv, WorkersInv
  <2>5. DeletedIsForgotten'
    BY <1>6 DEF Toggle, rowVars, attemptVars, DeletedIsForgotten, PlacesInv, AttemptInv, RowsInv, WorkersInv
  <2> QED
    BY <2>1, <2>2, <2>3, <2>4, <2>5 DEF DeliveryInv
<1>7. ASSUME NEW w \in Workers, EnqueueSelect(w) PROVE DeliveryInv'
  <2>1. RowsInv'
    BY <1>7 DEF EnqueueSelect, Unsent, Goto, rowVars, attemptVars, RowsInv, WorkersInv, AttemptInv
  <2>2. WorkersInv'
    BY <1>7 DEF EnqueueSelect, Unsent, Goto, rowVars, attemptVars, WorkersInv, RowsInv
  <2>3. AttemptInv'
    BY <1>7 DEF EnqueueSelect, Unsent, Goto, rowVars, attemptVars, AttemptInv, PlacesInv, RowsInv, WorkersInv, Owns
  <2>4. PlacesInv'
    BY <1>7 DEF EnqueueSelect, Unsent, Goto, rowVars, attemptVars, PlacesInv, AttemptInv, RowsInv, WorkersInv
  <2>5. DeletedIsForgotten'
    BY <1>7 DEF EnqueueSelect, Unsent, Goto, rowVars, attemptVars, DeletedIsForgotten, PlacesInv, AttemptInv, RowsInv, WorkersInv
  <2> QED
    BY <2>1, <2>2, <2>3, <2>4, <2>5 DEF DeliveryInv
<1>8. ASSUME NEW w \in Workers, EnqueueInsert(w) PROVE DeliveryInv'
  <2>1. RowsInv'
    BY <1>8 DEF EnqueueInsert, Goto, rowVars, attemptVars, RowsInv, WorkersInv, AttemptInv
  <2>2. WorkersInv'
    BY <1>8 DEF EnqueueInsert, Goto, rowVars, attemptVars, WorkersInv, RowsInv
  <2>3. AttemptInv'
    BY <1>8 DEF EnqueueInsert, Goto, rowVars, attemptVars, AttemptInv, PlacesInv, RowsInv, WorkersInv, Owns
  <2>4. PlacesInv'
    BY <1>8 DEF EnqueueInsert, Goto, rowVars, attemptVars, PlacesInv, AttemptInv, RowsInv, WorkersInv
  <2>5. DeletedIsForgotten'
    BY <1>8 DEF EnqueueInsert, Goto, rowVars, attemptVars, DeletedIsForgotten, PlacesInv, AttemptInv, RowsInv, WorkersInv
  <2> QED
    BY <2>1, <2>2, <2>3, <2>4, <2>5 DEF DeliveryInv
<1>9. ASSUME NEW w \in Workers, FailExhausted(w) PROVE DeliveryInv'
  <2>1. RowsInv'
    BY <1>9 DEF FailExhausted, Exhausted, Goto, rowVars, attemptVars, RowsInv, WorkersInv, AttemptInv
  <2>2. WorkersInv'
    BY <1>9 DEF FailExhausted, Exhausted, Goto, rowVars, attemptVars, WorkersInv, RowsInv
  <2>3. AttemptInv'
    BY <1>9 DEF FailExhausted, Exhausted, Goto, rowVars, attemptVars, AttemptInv, PlacesInv, RowsInv, WorkersInv, Owns
  <2>4. PlacesInv'
    BY <1>9 DEF FailExhausted, Exhausted, Goto, rowVars, attemptVars, PlacesInv, AttemptInv, RowsInv, WorkersInv
  <2>5. DeletedIsForgotten'
    BY <1>9 DEF FailExhausted, Exhausted, Goto, rowVars, attemptVars, DeletedIsForgotten, PlacesInv, AttemptInv, RowsInv, WorkersInv
  <2> QED
    BY <2>1, <2>2, <2>3, <2>4, <2>5 DEF DeliveryInv
<1>10. ASSUME NEW w \in Workers, NEW e \in Events, Claim(w, e) PROVE DeliveryInv'
  <2>1. RowsInv'
    BY <1>10 DEF Claim, Claimable, Goto, rowVars, attemptVars, RowsInv, WorkersInv, AttemptInv
  <2>2. WorkersInv'
    BY <1>10 DEF Claim, Claimable, Goto, rowVars, attemptVars, WorkersInv, RowsInv
  <2>3. AttemptInv'
    BY <1>10 DEF Claim, Claimable, Goto, rowVars, attemptVars, AttemptInv, PlacesInv, RowsInv, WorkersInv, Owns
  <2>4. PlacesInv'
    BY <1>10 DEF Claim, Claimable, Goto, rowVars, attemptVars, PlacesInv, AttemptInv, RowsInv, WorkersInv
  <2>5. DeletedIsForgotten'
    BY <1>10 DEF Claim, Claimable, Goto, rowVars, attemptVars, DeletedIsForgotten, PlacesInv, AttemptInv, RowsInv, WorkersInv
  <2> QED
    BY <2>1, <2>2, <2>3, <2>4, <2>5 DEF DeliveryInv
<1>11. ASSUME NEW w \in Workers, ClaimNone(w) PROVE DeliveryInv'
  <2>1. RowsInv'
    BY <1>11 DEF ClaimNone, Goto, rowVars, attemptVars, RowsInv, WorkersInv, AttemptInv
  <2>2. WorkersInv'
    BY <1>11 DEF ClaimNone, Goto, rowVars, attemptVars, WorkersInv, RowsInv
  <2>3. AttemptInv'
    BY <1>11 DEF ClaimNone, Goto, rowVars, attemptVars, AttemptInv, PlacesInv, RowsInv, WorkersInv, Owns
  <2>4. PlacesInv'
    BY <1>11 DEF ClaimNone, Goto, rowVars, attemptVars, PlacesInv, AttemptInv, RowsInv, WorkersInv
  <2>5. DeletedIsForgotten'
    BY <1>11 DEF ClaimNone, Goto, rowVars, attemptVars, DeletedIsForgotten, PlacesInv, AttemptInv, RowsInv, WorkersInv
  <2> QED
    BY <2>1, <2>2, <2>3, <2>4, <2>5 DEF DeliveryInv
<1>12. ASSUME NEW w \in Workers, LookUp(w) PROVE DeliveryInv'
  <2>1. RowsInv'
    BY <1>12 DEF LookUp, Goto, rowVars, attemptVars, RowsInv, WorkersInv, AttemptInv
  <2>2. WorkersInv'
    BY <1>12 DEF LookUp, Goto, rowVars, attemptVars, WorkersInv, RowsInv
  <2>3. AttemptInv'
    BY <1>12 DEF LookUp, Goto, rowVars, attemptVars, AttemptInv, PlacesInv, RowsInv, WorkersInv, Owns
  <2>4. PlacesInv'
    BY <1>12 DEF LookUp, Goto, rowVars, attemptVars, PlacesInv, AttemptInv, RowsInv, WorkersInv
  <2>5. DeletedIsForgotten'
    BY <1>12 DEF LookUp, Goto, rowVars, attemptVars, DeletedIsForgotten, PlacesInv, AttemptInv, RowsInv, WorkersInv
  <2> QED
    BY <2>1, <2>2, <2>3, <2>4, <2>5 DEF DeliveryInv
<1>13. ASSUME NEW w \in Workers, SendAccepted(w) PROVE DeliveryInv'
  <2>1. RowsInv'
    BY <1>13 DEF SendAccepted, Goto, rowVars, attemptVars, RowsInv, WorkersInv, AttemptInv
  <2>2. WorkersInv'
    BY <1>13 DEF SendAccepted, Goto, rowVars, attemptVars, WorkersInv, RowsInv
  <2>3. AttemptInv'
    BY <1>13 DEF SendAccepted, Goto, rowVars, attemptVars, AttemptInv, PlacesInv, RowsInv, WorkersInv, Owns
  <2>4. PlacesInv'
    BY <1>13 DEF SendAccepted, Goto, rowVars, attemptVars, PlacesInv, AttemptInv, RowsInv, WorkersInv
  <2>5. DeletedIsForgotten'
    BY <1>13 DEF SendAccepted, Goto, rowVars, attemptVars, DeletedIsForgotten, PlacesInv, AttemptInv, RowsInv, WorkersInv
  <2> QED
    BY <2>1, <2>2, <2>3, <2>4, <2>5 DEF DeliveryInv
<1>14. ASSUME NEW w \in Workers, SendFails(w) PROVE DeliveryInv'
  <2>1. RowsInv'
    BY <1>14 DEF SendFails, Goto, rowVars, attemptVars, RowsInv, WorkersInv, AttemptInv
  <2>2. WorkersInv'
    BY <1>14 DEF SendFails, Goto, rowVars, attemptVars, WorkersInv, RowsInv
  <2>3. AttemptInv'
    BY <1>14 DEF SendFails, Goto, rowVars, attemptVars, AttemptInv, PlacesInv, RowsInv, WorkersInv, Owns
  <2>4. PlacesInv'
    BY <1>14 DEF SendFails, Goto, rowVars, attemptVars, PlacesInv, AttemptInv, RowsInv, WorkersInv
  <2>5. DeletedIsForgotten'
    BY <1>14 DEF SendFails, Goto, rowVars, attemptVars, DeletedIsForgotten, PlacesInv, AttemptInv, RowsInv, WorkersInv
  <2> QED
    BY <2>1, <2>2, <2>3, <2>4, <2>5 DEF DeliveryInv
<1>15. ASSUME NEW w \in Workers, RecordDelivered(w) PROVE DeliveryInv'
  <2>1. RowsInv'
    BY <1>15 DEF RecordDelivered, Settle, Return, Goto, Owns, rowVars, attemptVars, RowsInv, WorkersInv, AttemptInv
  <2>2. WorkersInv'
    BY <1>15 DEF RecordDelivered, Settle, Return, Goto, Owns, rowVars, attemptVars, WorkersInv, RowsInv
  <2>3. AttemptInv'
    BY <1>15 DEF RecordDelivered, Settle, Return, Goto, Owns, rowVars, attemptVars, AttemptInv, PlacesInv, RowsInv, WorkersInv, Owns
  <2>4. PlacesInv'
    BY <1>15 DEF RecordDelivered, Settle, Return, Goto, Owns, rowVars, attemptVars, PlacesInv, AttemptInv, RowsInv, WorkersInv
  <2>5. DeletedIsForgotten'
    BY <1>15 DEF RecordDelivered, Settle, Return, Goto, Owns, rowVars, attemptVars, DeletedIsForgotten, PlacesInv, AttemptInv, RowsInv, WorkersInv
  <2> QED
    BY <2>1, <2>2, <2>3, <2>4, <2>5 DEF DeliveryInv
<1>16. ASSUME NEW w \in Workers, RecordFailure(w) PROVE DeliveryInv'
  <2>1. RowsInv'
    BY <1>16 DEF RecordFailure, Settle, Return, Goto, Owns, rowVars, attemptVars, RowsInv, WorkersInv, AttemptInv
  <2>2. WorkersInv'
    BY <1>16 DEF RecordFailure, Settle, Return, Goto, Owns, rowVars, attemptVars, WorkersInv, RowsInv
  <2>3. AttemptInv'
    BY <1>16 DEF RecordFailure, Settle, Return, Goto, Owns, rowVars, attemptVars, AttemptInv, PlacesInv, RowsInv, WorkersInv, Owns
  <2>4. PlacesInv'
    BY <1>16 DEF RecordFailure, Settle, Return, Goto, Owns, rowVars, attemptVars, PlacesInv, AttemptInv, RowsInv, WorkersInv
  <2>5. DeletedIsForgotten'
    BY <1>16 DEF RecordFailure, Settle, Return, Goto, Owns, rowVars, attemptVars, DeletedIsForgotten, PlacesInv, AttemptInv, RowsInv, WorkersInv
  <2> QED
    BY <2>1, <2>2, <2>3, <2>4, <2>5 DEF DeliveryInv
<1>17. ASSUME NEW w \in Workers, Interrupt(w) PROVE DeliveryInv'
  <2>1. RowsInv'
    BY <1>17 DEF Interrupt, Return, Goto, rowVars, attemptVars, RowsInv, WorkersInv, AttemptInv
  <2>2. WorkersInv'
    BY <1>17 DEF Interrupt, Return, Goto, rowVars, attemptVars, WorkersInv, RowsInv
  <2>3. AttemptInv'
    BY <1>17 DEF Interrupt, Return, Goto, rowVars, attemptVars, AttemptInv, PlacesInv, RowsInv, WorkersInv, Owns
  <2>4. PlacesInv'
    BY <1>17 DEF Interrupt, Return, Goto, rowVars, attemptVars, PlacesInv, AttemptInv, RowsInv, WorkersInv
  <2>5. DeletedIsForgotten'
    BY <1>17 DEF Interrupt, Return, Goto, rowVars, attemptVars, DeletedIsForgotten, PlacesInv, AttemptInv, RowsInv, WorkersInv
  <2> QED
    BY <2>1, <2>2, <2>3, <2>4, <2>5 DEF DeliveryInv
<1>18. CASE UNCHANGED vars
  <2>1. RowsInv'
    BY <1>18 DEF vars, rowVars, attemptVars, RowsInv, WorkersInv, AttemptInv
  <2>2. WorkersInv'
    BY <1>18 DEF vars, rowVars, attemptVars, WorkersInv, RowsInv
  <2>3. AttemptInv'
    BY <1>18 DEF vars, rowVars, attemptVars, AttemptInv, PlacesInv, RowsInv, WorkersInv, Owns
  <2>4. PlacesInv'
    BY <1>18 DEF vars, rowVars, attemptVars, PlacesInv, AttemptInv, RowsInv, WorkersInv
  <2>5. DeletedIsForgotten'
    BY <1>18 DEF vars, rowVars, attemptVars, DeletedIsForgotten, PlacesInv, AttemptInv, RowsInv, WorkersInv
  <2> QED
    BY <2>1, <2>2, <2>3, <2>4, <2>5 DEF DeliveryInv
<1> QED
  BY <1>1, <1>2, <1>3, <1>4, <1>5, <1>6, <1>7, <1>8, <1>9, <1>10, <1>11, <1>12, <1>13, <1>14, <1>15, <1>16, <1>17, <1>18 DEF Next, Enqueue, Process

-----------------------------------------------------------------------------
\* Types; a row has a token exactly while it is being delivered, the one of its last claim.
THEOREM DeliveryTypes == Spec => []TypeOK
<1>1. DeliveryInv /\ [Next]_vars => DeliveryInv'
  BY DeliveryStep
<1>2. DeliveryInv => TypeOK
  BY DEF DeliveryInv, RowsInv, WorkersInv, TypeOK
<1> QED
  BY DeliveryInitial, <1>1, <1>2, PTL DEF Spec

\* Of all the attempts of a row that are still answering, at most one can record an outcome, it
\* knows which attempt it is, and it records a delivery only of a request the destination
\* accepted after the last replay.
THEOREM OneAttemptRecords == Spec => []AttemptInv
<1>1. DeliveryInv /\ [Next]_vars => DeliveryInv'
  BY DeliveryStep
<1>2. DeliveryInv => AttemptInv
  BY DEF DeliveryInv
<1> QED
  BY DeliveryInitial, <1>1, <1>2, PTL DEF Spec

\* A deleted document has no queued payload, also none that an enqueue statement was about to
\* insert: the statement's row locks make the deletion wait for its commit.
THEOREM DeletedStaysForgotten == Spec => []DeletedIsForgotten
<1>1. DeliveryInv /\ [Next]_vars => DeliveryInv'
  BY DeliveryStep
<1>2. DeliveryInv => DeletedIsForgotten
  BY DEF DeliveryInv
<1> QED
  BY DeliveryInitial, <1>1, <1>2, PTL DEF Spec

-----------------------------------------------------------------------------
\* A row's status as the subscriber of its event sees it.
Seen(doc, st) ==
  IF doc = "gone" THEN "gone" ELSE IF st \in {"queued", "delivering", "retry"} THEN "pending" ELSE st

\* What subscribers see is a function of the row and of its document.
LEMMA OutcomeIsSeen ==
  ASSUME RowsInv, RowsInv'
  PROVE  /\ Outcome = [e \in Events |-> Seen(document[e], status[e])]
         /\ Outcome' = [e \in Events |-> Seen(document'[e], status'[e])]
         /\ \A e \in Events : Outcome[e] \in Contract!Outcomes
<1>1. ASSUME NEW e \in Events
      PROVE  (CASE document[e] = "gone" -> "gone"
                [] document[e] # "gone" /\ status[e] \in {"queued", "delivering", "retry"} -> "pending"
                [] document[e] # "gone" /\ status[e] \in {"none", "delivered", "failed"} -> status[e])
             = Seen(document[e], status[e])
  <2>1. status[e] \in Statuses
    BY DEF RowsInv
  <2>2. CASE document[e] = "gone"
    BY <2>2 DEF Seen
  <2>3. CASE document[e] # "gone" /\ status[e] \in {"queued", "delivering", "retry"}
    BY <2>3 DEF Seen
  <2>4. CASE document[e] # "gone" /\ status[e] \in {"none", "delivered", "failed"}
    BY <2>4 DEF Seen
  <2> QED
    BY <2>1, <2>2, <2>3, <2>4
<1>2. ASSUME NEW e \in Events
      PROVE  (CASE document'[e] = "gone" -> "gone"
                [] document'[e] # "gone" /\ status'[e] \in {"queued", "delivering", "retry"} -> "pending"
                [] document'[e] # "gone" /\ status'[e] \in {"none", "delivered", "failed"} -> status'[e])
             = Seen(document'[e], status'[e])
  <2>1. status'[e] \in Statuses
    BY DEF RowsInv
  <2>2. CASE document'[e] = "gone"
    BY <2>2 DEF Seen
  <2>3. CASE document'[e] # "gone" /\ status'[e] \in {"queued", "delivering", "retry"}
    BY <2>3 DEF Seen
  <2>4. CASE document'[e] # "gone" /\ status'[e] \in {"none", "delivered", "failed"}
    BY <2>4 DEF Seen
  <2> QED
    BY <2>1, <2>2, <2>3, <2>4
<1>3. ASSUME NEW e \in Events PROVE Seen(document[e], status[e]) \in Contract!Outcomes
  <2>1. status[e] \in Statuses
    BY DEF RowsInv
  <2> QED
    BY <2>1 DEF Seen, Contract!Outcomes
<1>4. Outcome = [e \in Events |-> Seen(document[e], status[e])]
  BY <1>1 DEF Outcome
<1>5. Outcome' = [e \in Events |-> Seen(document'[e], status'[e])]
  BY <1>2 DEF Outcome
<1> QED
  BY <1>3, <1>4, <1>5

\* Events of E that a subscriber sees move from From to to, all others staying.
LEMMA MoveSeen ==
  ASSUME RowsInv, RowsInv', NEW E \in SUBSET Events, NEW From, NEW to,
         \A e \in E : Outcome[e] \in From /\ Outcome'[e] = to,
         \A e \in Events \ E : Outcome'[e] = Outcome[e]
  PROVE  Contract!Move(E, From, to)
<1>1. Outcome' = [e \in Events |-> Outcome'[e]]
  BY OutcomeIsSeen
<1>2. Outcome' = [e \in Events |-> IF e \in E THEN to ELSE Outcome[e]]
  BY <1>1
<1> QED
  BY <1>2 DEF Contract!Move

\* Nothing a subscriber sees changes.
LEMMA NothingSeen ==
  ASSUME RowsInv, RowsInv', \A e \in Events : Seen(document'[e], status'[e]) = Seen(document[e], status[e])
  PROVE  UNCHANGED Outcome
  BY OutcomeIsSeen

\* Every step of the outbox is one that the contract allows, or nothing to a subscriber.
LEMMA ContractStep ==
  ASSUME DeliveryInv, DeliveryInv', [Next]_vars
  PROVE  [Contract!Next]_(Contract!vars)
<1> USE DEF DeliveryInv
<1>0. /\ \A e \in Events : Outcome[e] = Seen(document[e], status[e]) /\ Outcome[e] \in Contract!Outcomes
      /\ \A e \in Events : Outcome'[e] = Seen(document'[e], status'[e])
  BY OutcomeIsSeen
<1>1. ASSUME NEW q \in Events, Happen(q) PROVE [Contract!Next]_(Contract!vars)
  <2>1. \A e \in Events : Seen(document'[e], status'[e]) = Seen(document[e], status[e])
    BY <1>1 DEF Happen, rowVars, Seen, RowsInv, DeletedIsForgotten
  <2>2. UNCHANGED accepted
    BY <1>1 DEF Happen, rowVars
  <2> QED
    BY <2>1, <2>2, NothingSeen DEF Contract!vars
<1>2. ASSUME NEW q \in Events, Purge(q) PROVE [Contract!Next]_(Contract!vars)
  <2>1. \A e \in {q} : Outcome[e] \in Contract!Outcomes /\ Outcome'[e] = "gone"
    BY <1>0, <1>2 DEF Purge, Seen, RowsInv
  <2>2. \A e \in Events \ {q} : Outcome'[e] = Outcome[e]
    BY <1>0, <1>2 DEF Purge, ForgetRow, RowsInv
  <2>3. Contract!Forget(q)
    BY <1>2, <2>1, <2>2, MoveSeen DEF Purge, Contract!Forget
  <2> QED
    BY <2>3 DEF Contract!Next
<1>3. ASSUME NEW q \in Events, Replay(q) PROVE [Contract!Next]_(Contract!vars)
  <2>1. document[q] = "present"
    BY <1>3 DEF Replay, DeletedIsForgotten
  <2>2. \A e \in {q} : Outcome[e] \in {"delivered", "failed"} /\ Outcome'[e] = "pending"
    BY <1>0, <1>3, <2>1 DEF Replay, Seen, RowsInv
  <2>3. \A e \in Events \ {q} : Outcome'[e] = Outcome[e]
    BY <1>0, <1>3 DEF Replay, RowsInv
  <2>4. Contract!Replay(q)
    BY <1>3, <2>2, <2>3, MoveSeen DEF Replay, Contract!Replay
  <2> QED
    BY <2>4 DEF Contract!Next
<1>4. ASSUME NEW q \in Events, BackoffElapses(q) PROVE [Contract!Next]_(Contract!vars)
  <2>1. \A e \in Events : Seen(document'[e], status'[e]) = Seen(document[e], status[e])
    BY <1>4 DEF BackoffElapses, Seen, RowsInv, DeletedIsForgotten
  <2>2. UNCHANGED accepted
    BY <1>4 DEF BackoffElapses
  <2> QED
    BY <2>1, <2>2, NothingSeen DEF Contract!vars
<1>5. ASSUME NEW q \in Events, LeaseExpires(q) PROVE [Contract!Next]_(Contract!vars)
  <2>1. \A e \in Events : Seen(document'[e], status'[e]) = Seen(document[e], status[e])
    BY <1>5 DEF LeaseExpires, Seen, RowsInv, DeletedIsForgotten
  <2>2. UNCHANGED accepted
    BY <1>5 DEF LeaseExpires
  <2> QED
    BY <2>1, <2>2, NothingSeen DEF Contract!vars
<1>6. CASE Toggle
  <2>1. \A e \in Events : Seen(document'[e], status'[e]) = Seen(document[e], status[e])
    BY <1>6 DEF Toggle, rowVars, Seen, RowsInv, DeletedIsForgotten
  <2>2. UNCHANGED accepted
    BY <1>6 DEF Toggle, rowVars
  <2> QED
    BY <2>1, <2>2, NothingSeen DEF Contract!vars
<1>7. ASSUME NEW w \in Workers, EnqueueSelect(w) PROVE [Contract!Next]_(Contract!vars)
  <2>1. \A e \in Events : Seen(document'[e], status'[e]) = Seen(document[e], status[e])
    BY <1>7 DEF EnqueueSelect, rowVars, Seen, RowsInv, DeletedIsForgotten
  <2>2. UNCHANGED accepted
    BY <1>7 DEF EnqueueSelect, rowVars
  <2> QED
    BY <2>1, <2>2, NothingSeen DEF Contract!vars
<1>8. ASSUME NEW w \in Workers, EnqueueInsert(w) PROVE [Contract!Next]_(Contract!vars)
  <2> DEFINE fresh == {e \in batch[w] : status[e] = "none"}
  <2>1. fresh \in SUBSET Events /\ \A e \in fresh : document[e] = "present" /\ status[e] = "none"
    BY DEF WorkersInv, PlacesInv
  <2>2. status' = [e \in Events |-> IF e \in fresh THEN "queued" ELSE status[e]] /\ UNCHANGED <<document, accepted>>
    BY <1>8 DEF EnqueueInsert
  <2> HIDE DEF fresh
  <2>3. \A e \in fresh : Outcome[e] \in {"none"} /\ Outcome'[e] = "pending"
    BY <1>0, <2>1, <2>2 DEF Seen
  <2>4. \A e \in Events \ fresh : Outcome'[e] = Outcome[e]
    BY <1>0, <2>2
  <2>5. Contract!Enqueue(fresh)
    BY <2>1, <2>2, <2>3, <2>4, MoveSeen DEF Contract!Enqueue
  <2> QED
    BY <2>1, <2>5 DEF Contract!Next
<1>9. ASSUME NEW w \in Workers, FailExhausted(w) PROVE [Contract!Next]_(Contract!vars)
  <2> DEFINE lost == {e \in Events : Exhausted(e)}
  <2>1. lost \in SUBSET Events /\ \A e \in lost : document[e] = "present" /\ status[e] = "delivering"
    BY DEF Exhausted, DeletedIsForgotten
  <2>2. status' = [e \in Events |-> IF e \in lost THEN "failed" ELSE status[e]] /\ UNCHANGED <<document, accepted>>
    BY <1>9 DEF FailExhausted
  <2> HIDE DEF lost
  <2>3. \A e \in lost : Outcome[e] \in {"pending"} /\ Outcome'[e] = "failed"
    BY <1>0, <2>1, <2>2 DEF Seen
  <2>4. \A e \in Events \ lost : Outcome'[e] = Outcome[e]
    BY <1>0, <2>2
  <2>5. Contract!GiveUp(lost)
    BY <2>1, <2>2, <2>3, <2>4, MoveSeen DEF Contract!GiveUp
  <2> QED
    BY <2>1, <2>5 DEF Contract!Next
<1>10. ASSUME NEW w \in Workers, NEW q \in Events, Claim(w, q) PROVE [Contract!Next]_(Contract!vars)
  <2>1. \A e \in Events : Seen(document'[e], status'[e]) = Seen(document[e], status[e])
    BY <1>10 DEF Claim, Claimable, Seen, RowsInv, DeletedIsForgotten
  <2>2. UNCHANGED accepted
    BY <1>10 DEF Claim, Claimable
  <2> QED
    BY <2>1, <2>2, NothingSeen DEF Contract!vars
<1>11. ASSUME NEW w \in Workers, ClaimNone(w) PROVE [Contract!Next]_(Contract!vars)
  <2>1. \A e \in Events : Seen(document'[e], status'[e]) = Seen(document[e], status[e])
    BY <1>11 DEF ClaimNone, rowVars, Seen, RowsInv, DeletedIsForgotten
  <2>2. UNCHANGED accepted
    BY <1>11 DEF ClaimNone, rowVars
  <2> QED
    BY <2>1, <2>2, NothingSeen DEF Contract!vars
<1>12. ASSUME NEW w \in Workers, LookUp(w) PROVE [Contract!Next]_(Contract!vars)
  <2>1. \A e \in Events : Seen(document'[e], status'[e]) = Seen(document[e], status[e])
    BY <1>12 DEF LookUp, rowVars, Seen, RowsInv, DeletedIsForgotten
  <2>2. UNCHANGED accepted
    BY <1>12 DEF LookUp, rowVars
  <2> QED
    BY <2>1, <2>2, NothingSeen DEF Contract!vars
<1>13. ASSUME NEW w \in Workers, SendAccepted(w) PROVE [Contract!Next]_(Contract!vars)
  <2>1. work[w] \in Events /\ (status[work[w]] # "none" \/ document[work[w]] = "gone")
    BY <1>13 DEF SendAccepted, AttemptInv, PlacesInv
  <2>2. UNCHANGED <<document, status>> /\ accepted' = accepted \cup {work[w]}
    BY <1>13 DEF SendAccepted, rowVars
  <2>3. UNCHANGED Outcome
    BY <2>2, NothingSeen
  <2>4. Outcome[work[w]] # "none"
    BY <1>0, <2>1 DEF Seen, RowsInv
  <2>5. Contract!Accept(work[w])
    BY <2>2, <2>3, <2>4 DEF Contract!Accept
  <2> QED
    BY <2>1, <2>5 DEF Contract!Next
<1>14. ASSUME NEW w \in Workers, SendFails(w) PROVE [Contract!Next]_(Contract!vars)
  <2>1. \A e \in Events : Seen(document'[e], status'[e]) = Seen(document[e], status[e])
    BY <1>14 DEF SendFails, rowVars, Seen, RowsInv, DeletedIsForgotten
  <2>2. UNCHANGED accepted
    BY <1>14 DEF SendFails, rowVars
  <2> QED
    BY <2>1, <2>2, NothingSeen DEF Contract!vars
<1>15. ASSUME NEW w \in Workers, RecordDelivered(w) PROVE [Contract!Next]_(Contract!vars)
  <2>0. UNCHANGED <<document, accepted>>
    BY <1>15 DEF RecordDelivered
  <2>1. CASE Owns(w)
    <3>1. work[w] \in Events /\ status[work[w]] = "delivering" /\ work[w] \in accepted
      BY <1>15, <2>1 DEF RecordDelivered, AttemptInv
    <3>2. status' = [status EXCEPT ![work[w]] = "delivered"] /\ document[work[w]] = "present"
      BY <1>15, <2>1, <3>1 DEF RecordDelivered, Settle, DeletedIsForgotten
    <3>3. \A e \in {work[w]} : Outcome[e] \in {"pending"} /\ Outcome'[e] = "delivered"
      BY <1>0, <2>0, <3>1, <3>2 DEF Seen, RowsInv
    <3>4. \A e \in Events \ {work[w]} : Outcome'[e] = Outcome[e]
      BY <1>0, <2>0, <3>2 DEF RowsInv
    <3>5. Contract!Deliver(work[w])
      BY <2>0, <3>1, <3>3, <3>4, MoveSeen DEF Contract!Deliver
    <3> QED
      BY <3>1, <3>5 DEF Contract!Next
  <2>2. CASE ~Owns(w)
    <3>1. UNCHANGED status
      BY <1>15, <2>2 DEF RecordDelivered
    <3> QED
      BY <2>0, <3>1, NothingSeen DEF Contract!vars
  <2> QED
    BY <2>1, <2>2
<1>16. ASSUME NEW w \in Workers, RecordFailure(w) PROVE [Contract!Next]_(Contract!vars)
  <2>0. UNCHANGED <<document, accepted>>
    BY <1>16 DEF RecordFailure
  <2>1. CASE Owns(w)
    <3>1. work[w] \in Events /\ status[work[w]] = "delivering"
      BY <1>16, <2>1 DEF RecordFailure, AttemptInv
    <3>2. document[work[w]] = "present"
      BY <3>1 DEF DeletedIsForgotten
    <3>3. CASE status' = [status EXCEPT ![work[w]] = "failed"]
      <4>1. \A e \in {work[w]} : Outcome[e] \in {"pending"} /\ Outcome'[e] = "failed"
        BY <1>0, <2>0, <3>1, <3>2, <3>3 DEF Seen, RowsInv
      <4>2. \A e \in Events \ {work[w]} : Outcome'[e] = Outcome[e]
        BY <1>0, <2>0, <3>3 DEF RowsInv
      <4>3. Contract!GiveUp({work[w]}) /\ {work[w]} \in SUBSET Events
        BY <2>0, <3>1, <4>1, <4>2, MoveSeen DEF Contract!GiveUp
      <4> QED
        BY <4>3 DEF Contract!Next
    <3>4. CASE status' = [status EXCEPT ![work[w]] = "retry"]
      <4>1. \A e \in Events : Seen(document'[e], status'[e]) = Seen(document[e], status[e])
        BY <2>0, <3>1, <3>4 DEF Seen, RowsInv
      <4> QED
        BY <2>0, <4>1, NothingSeen DEF Contract!vars
    <3> QED
      BY <1>16, <2>1, <3>3, <3>4 DEF RecordFailure, Settle
  <2>2. CASE ~Owns(w)
    <3>1. UNCHANGED status
      BY <1>16, <2>2 DEF RecordFailure
    <3> QED
      BY <2>0, <3>1, NothingSeen DEF Contract!vars
  <2> QED
    BY <2>1, <2>2
<1>17. ASSUME NEW w \in Workers, Interrupt(w) PROVE [Contract!Next]_(Contract!vars)
  <2>1. \A e \in Events : Seen(document'[e], status'[e]) = Seen(document[e], status[e])
    BY <1>17 DEF Interrupt, rowVars, Seen, RowsInv, DeletedIsForgotten
  <2>2. UNCHANGED accepted
    BY <1>17 DEF Interrupt, rowVars
  <2> QED
    BY <2>1, <2>2, NothingSeen DEF Contract!vars
<1>18. CASE UNCHANGED vars
  <2>1. \A e \in Events : Seen(document'[e], status'[e]) = Seen(document[e], status[e])
    BY <1>18 DEF vars, rowVars, Seen, RowsInv, DeletedIsForgotten
  <2>2. UNCHANGED accepted
    BY <1>18 DEF vars, rowVars
  <2> QED
    BY <2>1, <2>2, NothingSeen DEF Contract!vars
<1> QED
  BY <1>1, <1>2, <1>3, <1>4, <1>5, <1>6, <1>7, <1>8, <1>9, <1>10, <1>11, <1>12, <1>13, <1>14, <1>15, <1>16, <1>17, <1>18 DEF Next, Enqueue, Process

\* The outbox implements at-least-once delivery as a subscriber sees it: crashes, expired leases,
\* late answers and lost acknowledgements, for any number of events, workers, attempts and
\* replays, are steps of the contract or invisible.
THEOREM OutboxImplementsContract == Spec => ImplementsContract
<1>1. Init => Contract!Init
  BY DEF Init, Contract!Init, Outcome
<1>2. DeliveryInv /\ [Next]_vars => DeliveryInv'
  BY DeliveryStep
<1>3. DeliveryInv /\ DeliveryInv' /\ [Next]_vars => [Contract!Next]_(Contract!vars)
  BY ContractStep
<1> QED
  BY <1>1, <1>2, <1>3, DeliveryInitial, PTL DEF Spec, ImplementsContract, Contract!Spec
===============================================================================
