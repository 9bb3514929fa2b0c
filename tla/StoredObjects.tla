---------------------------- MODULE StoredObjects ----------------------------
(* Originals in private storage and the rows that account for them           *)
(* (intake.ts, pdf-split-intake.ts, archive-import-intake.ts, retention.ts,  *)
(* object-reconciliation.ts). Attempts to take in the same thing, under one  *)
(* idempotency key or request id, reserve keys, write objects outside every  *)
(* transaction, and commit or clean up. A plain attempt has one object; a    *)
(* batch attempt, of a split or an archive, has its source and the parts.    *)
EXTENDS Naturals, FiniteSets

CONSTANTS
  Attempts,     \* requests with the same key and content
  MaxParts,     \* objects of a batch attempt, the source among them
  MaxActive,    \* batch attempts with reservations (2 with live ones in the code)
  MaxTries,     \* removals tried before an entry is failed (10 in the code)
  MaxUnsure,    \* bound on commits whose acknowledgement is lost
  MaxCrashes,   \* bound on processes that stop
  None

ASSUME ObjectsAssumption ==
  /\ MaxParts \in Nat \ {0, 1} /\ {MaxActive, MaxTries} \subseteq Nat \ {0} /\ {MaxUnsure, MaxCrashes} \subseteq Nat
  /\ Attempts \cap {None, "rejected", "gone", "failed"} = {}

VARIABLES
  kind, remote,      \* what the requests are and which store is installed: fixed
  pc,
  sent, acked,       \* file.attempted, file.completed: local to an attempt
  inflight,          \* writes the store may still apply
  stored,            \* objects in the store
  intent,            \* intake_files: none, live, expired, or stale: an hour longer
  deletion,          \* file_deletions: [status, tries]
  freeing,           \* keys whose deletion committed and whose reservation is still to go
  referenced,        \* keys of documents, pdf_splits and archive_imports
  charged,           \* attempts with rows in usage_ledger
  receipt,           \* what the key stands for: an attempt, "rejected" or None
  answer,            \* what the request was told
  unsure, crashes

requestVars == <<kind, remote>>
storeVars == <<inflight, stored>>
outcomeVars == <<referenced, charged, receipt>>
boundVars == <<unsure, crashes>>
vars == <<requestVars, pc, sent, acked, storeVars, intent, deletion, freeing, outcomeVars, answer, boundVars>>

Objects == Attempts \X (1..MaxParts)
Source(t) == <<t, 1>>
ObjectsOf(t) == IF kind = "plain" THEN {Source(t)} ELSE {t} \X (1..MaxParts)
\* The objects documents own; a batch's source belongs to the split or import.
DocumentsOf(t) == IF kind = "plain" THEN {Source(t)} ELSE ObjectsOf(t) \ {Source(t)}

NotQueued == [status |-> "none", tries |-> 0]
Due == [status |-> "due", tries |-> 0]
Delayed == [status |-> "delayed", tries |-> 0]
Queued(o) == deletion[o] # NotQueued

Init ==
  /\ kind \in {"plain", "batch"} /\ remote \in BOOLEAN
  /\ pc = [t \in Attempts |-> "idle"] /\ answer = [t \in Attempts |-> None]
  /\ sent = {} /\ acked = {} /\ inflight = {} /\ stored = {}
  /\ intent = [o \in Objects |-> "none"] /\ deletion = [o \in Objects |-> NotQueued] /\ freeing = {}
  /\ referenced = {} /\ charged = {} /\ receipt = None
  /\ unsure = {} /\ crashes = 0

\* A handler's local variables end with it.
Goto(t, label) ==
  /\ pc' = [pc EXCEPT ![t] = label]
  /\ IF label = "done" THEN sent' = sent \ ObjectsOf(t) /\ acked' = acked \ ObjectsOf(t)
     ELSE UNCHANGED <<sent, acked>>
Tell(t, what) == answer' = [answer EXCEPT ![t] = what]
SetIntents(S, lease) == intent' = [o \in Objects |-> IF o \in S THEN lease ELSE intent[o]]
\* INSERT ... ON CONFLICT DO NOTHING of an entry for each object in its domain.
Enqueue(entries) ==
  deletion' = [o \in Objects |-> IF o \in DOMAIN entries /\ ~Queued(o) THEN entries[o] ELSE deletion[o]]

(***************************************************************************)
(* One attempt. Decide, Reject and Accept are transactions under the       *)
(* workspace lock that look for a prior outcome first.                     *)
(***************************************************************************)
\* A deleted document's key is answered 410; a batch's receipt outlives its documents.
Prior ==
  IF receipt \in Attempts /\ kind = "plain" /\ DocumentsOf(receipt) \cap referenced = {}
  THEN "gone" ELSE receipt

Decide(t) ==
  /\ pc[t] = "idle"
  /\ IF receipt = None THEN Goto(t, "decoding") /\ UNCHANGED answer
     ELSE Goto(t, "done") /\ Tell(t, Prior)
  /\ UNCHANGED <<requestVars, storeVars, intent, deletion, freeing, outcomeVars, boundVars>>

HasReservation(t) == \E o \in ObjectsOf(t) : intent[o] # "none"

Reserve(t) ==
  /\ pc[t] = "decoding"
  /\ kind = "batch" => Cardinality({u \in Attempts : HasReservation(u)}) < MaxActive
  /\ IF kind = "batch" /\ receipt # None
     THEN Goto(t, "done") /\ Tell(t, Prior) /\ UNCHANGED intent
     ELSE Goto(t, "writing") /\ SetIntents(ObjectsOf(t), "live") /\ UNCHANGED answer
  /\ UNCHANGED <<requestVars, storeVars, deletion, freeing, outcomeVars, boundVars>>

\* At most two writers; each object is written once.
Send(t, o) ==
  /\ pc[t] = "writing" /\ o \in ObjectsOf(t) \ sent
  /\ Cardinality(ObjectsOf(t) \cap (sent \ acked)) < 2
  /\ sent' = sent \cup {o} /\ inflight' = inflight \cup {o}
  /\ UNCHANGED <<requestVars, pc, acked, stored, intent, deletion, freeing, outcomeVars, answer, boundVars>>

\* The store applies the write, whether or not anybody is left to hear of it.
Land(o) ==
  /\ o \in inflight
  /\ inflight' = inflight \ {o} /\ stored' = stored \cup {o}
  /\ \/ pc[o[1]] = "writing" /\ acked' = acked \cup {o}
     \/ UNCHANGED acked
  /\ UNCHANGED <<requestVars, pc, sent, intent, deletion, freeing, outcomeVars, answer, boundVars>>

Vanish(o) ==
  /\ o \in inflight
  /\ inflight' = inflight \ {o}
  /\ UNCHANGED <<requestVars, pc, sent, acked, stored, intent, deletion, freeing, outcomeVars, answer, boundVars>>

Written(t) ==
  /\ pc[t] = "writing" /\ ObjectsOf(t) \subseteq acked
  /\ Goto(t, "written")
  /\ UNCHANGED <<requestVars, storeVars, intent, deletion, freeing, outcomeVars, answer, boundVars>>

\* Whatever reconciliation did with the reservation meanwhile.
AnyReservation(t) == TRUE

\* Plain: the row must still be there. Batch: every lease live, and no key about to be removed.
ReservationHolds(t) ==
  IF kind = "plain" THEN intent[Source(t)] # "none"
  ELSE \A o \in ObjectsOf(t) : intent[o] = "live" /\ ~Queued(o)

\* The decoder found the file invalid, or the parser does not take its format.
Reject(t) ==
  /\ \/ pc[t] = "decoding" /\ Goto(t, "done")
     \/ pc[t] = "written" /\ (kind = "plain" => ReservationHolds(t)) /\ Goto(t, "cleaning")
  /\ receipt' = IF receipt = None THEN "rejected" ELSE receipt
  /\ Tell(t, IF receipt = None THEN "rejected" ELSE Prior)
  /\ UNCHANGED <<requestVars, storeVars, intent, deletion, freeing, referenced, charged, boundVars>>

\* What was found before decoding is taken to be still so.
NotLookedForAgain == TRUE

NoPrior == receipt = None

\* The acknowledgement of the commit may be lost: the handler then takes its error path.
Accept(t) ==
  /\ pc[t] = "written" /\ ReservationHolds(t)
  /\ IF NoPrior
     THEN /\ referenced' = referenced \cup ObjectsOf(t) /\ charged' = charged \cup {t} /\ receipt' = t
          /\ IF kind = "batch" THEN SetIntents(ObjectsOf(t), "none") ELSE UNCHANGED intent
          /\ \/ Tell(t, t) /\ Goto(t, "releasing") /\ UNCHANGED unsure
             \/ /\ Cardinality(unsure) < MaxUnsure /\ unsure' = unsure \cup {t}
                /\ Tell(t, "failed") /\ Goto(t, "cleaning")
     ELSE /\ Tell(t, Prior) /\ Goto(t, "cleaning")
          /\ UNCHANGED <<outcomeVars, intent, unsure>>
  /\ UNCHANGED <<requestVars, storeVars, deletion, freeing, crashes>>

\* Decoder crash, quota, storage error, time limit, reservation gone. A local write ends
\* before its error is seen; a request, or a batch's bounded write, may be applied later.
Fail(t) ==
  /\ \/ pc[t] = "decoding" /\ Goto(t, "done")
     \/ pc[t] \in {"writing", "written"} /\ Goto(t, "cleaning")
  /\ (kind = "plain" /\ ~remote => Source(t) \notin inflight)
  /\ Tell(t, "failed")
  /\ UNCHANGED <<requestVars, storeVars, intent, deletion, freeing, outcomeVars, boundVars>>

Release(t) ==
  /\ pc[t] = "releasing"
  /\ SetIntents(ObjectsOf(t), "none") /\ Goto(t, "done")
  /\ UNCHANGED <<requestVars, storeVars, deletion, freeing, outcomeVars, answer, boundVars>>

AtOnce(o) == Due

\* An unconfirmed write is given five minutes to arrive before it is removed.
Entry(o) == IF o \in acked \/ (kind = "plain" /\ ~remote) THEN Due ELSE Delayed

DropReservations(t, orphans) == SetIntents(ObjectsOf(t), "none")

\* Orphans end their lease and keep their reservation, the other keys lose it.
EndLeases(t, orphans) ==
  intent' = [o \in Objects |->
    IF o \in ObjectsOf(t) \ orphans THEN "none"
    ELSE IF o \in orphans /\ intent[o] = "live" THEN "expired" ELSE intent[o]]

\* finally: plain attempts trust that they failed, batches look for references.
Clean(t) ==
  /\ pc[t] = "cleaning"
  /\ IF kind = "plain"
     THEN /\ Enqueue([o \in ObjectsOf(t) \cap sent |-> Entry(o)]) /\ SetIntents(ObjectsOf(t), "none")
          /\ Goto(t, IF Source(t) \in sent /\ Entry(Source(t)) = Due THEN "removing" ELSE "done")
     ELSE LET orphans == (ObjectsOf(t) \cap sent) \ referenced
          IN Enqueue([o \in orphans |-> Entry(o)]) /\ EndLeases(t, orphans) /\ Goto(t, "done")
  /\ UNCHANGED <<requestVars, storeVars, freeing, outcomeVars, answer, boundVars>>

\* The process stops, or the clean-up transaction itself fails.
Crash(t) ==
  /\ pc[t] \notin {"idle", "done"} /\ crashes < MaxCrashes
  /\ crashes' = crashes + 1 /\ Goto(t, "done")
  /\ Tell(t, IF answer[t] = None THEN "failed" ELSE answer[t])
  /\ UNCHANGED <<requestVars, storeVars, intent, deletion, freeing, outcomeVars, unsure>>

(***************************************************************************)
(* Removal, deleteStoredFile: the object goes inside the transaction that  *)
(* forgets the key, so either may succeed without the other.               *)
(***************************************************************************)
Remove(o) ==
  \/ /\ stored' = stored \ {o}
     /\ \/ deletion' = [deletion EXCEPT ![o] = NotQueued] /\ freeing' = freeing \cup {o}
        \/ UNCHANGED <<deletion, freeing>>
  \/ LET tries == deletion[o].tries + 1
     IN /\ deletion' = [deletion EXCEPT ![o] =
             [status |-> IF tries >= MaxTries THEN "failed" ELSE "delayed", tries |-> tries]]
        /\ UNCHANGED <<stored, freeing>>

RemoveNow(t) ==
  /\ pc[t] = "removing" /\ Goto(t, "done")
  /\ IF Queued(Source(t)) THEN Remove(Source(t)) ELSE UNCHANGED <<stored, deletion, freeing>>
  /\ UNCHANGED <<requestVars, inflight, intent, outcomeVars, answer, boundVars>>

ProcessDeletion(o) ==
  /\ deletion[o].status = "due" /\ Remove(o)
  /\ UNCHANGED <<requestVars, pc, sent, acked, inflight, intent, outcomeVars, answer, boundVars>>

\* The second transaction: a key queued again keeps its reservation.
MayFree(o) == kind = "batch" /\ ~Queued(o)

Free(o) ==
  /\ o \in freeing /\ freeing' = freeing \ {o}
  /\ \/ MayFree(o) /\ SetIntents({o}, "none")
     \/ UNCHANGED intent \* or the remover stopped before it
  /\ UNCHANGED <<requestVars, pc, sent, acked, storeVars, deletion, outcomeVars, answer, boundVars>>

\* POST /api/workspace/storage-deletions/:id/retry
RetryDeletion(o) ==
  /\ deletion[o].status = "failed"
  /\ deletion' = [deletion EXCEPT ![o] = Due]
  /\ UNCHANGED <<requestVars, pc, sent, acked, storeVars, intent, freeing, outcomeVars, answer, boundVars>>

\* purgeDocument, and purgePdfSplit and purgeArchiveImport for all of them: the source goes with the last.
Purge(t, S) ==
  LET gone == IF DocumentsOf(t) \cap referenced \subseteq S THEN ObjectsOf(t) ELSE S
  IN /\ S # {} /\ S \subseteq referenced
     /\ referenced' = referenced \ gone /\ Enqueue([o \in gone |-> Due])
     /\ UNCHANGED <<requestVars, pc, sent, acked, storeVars, intent, freeing, charged, receipt, answer, boundVars>>

(***************************************************************************)
(* Clocks: leases lapse when heartbeats fail, backoffs pass. A batch       *)
(* attempt ends after two minutes, before its lease of five. A write the   *)
(* store may still apply, or a reservation whose write is not sent, is     *)
(* less than an hour old.                                                  *)
(***************************************************************************)
Running(t) == kind = "batch" /\ pc[t] \in {"writing", "written"}

Young(o) == Running(o[1]) \/ o \in inflight \/ (pc[o[1]] = "writing" /\ o \notin sent)

Heartbeat(t) ==
  /\ pc[t] \in {"writing", "written"} /\ ~Running(t)
  /\ intent' = [o \in Objects |-> IF o \in ObjectsOf(t) /\ intent[o] # "none" THEN "live" ELSE intent[o]]
  /\ UNCHANGED <<requestVars, pc, sent, acked, storeVars, deletion, freeing, outcomeVars, answer, boundVars>>

\* An attempt's reservations have one lease, but for those its clean-up has ended.
Lapse(t) ==
  /\ \E from \in {"live", "expired"} :
       LET S == {o \in ObjectsOf(t) : intent[o] = from}
       IN /\ S # {} /\ ~Running(t) /\ (from = "expired" => \A o \in S : ~Young(o))
          /\ SetIntents(S, IF from = "live" THEN "expired" ELSE "stale")
  /\ UNCHANGED <<requestVars, pc, sent, acked, storeVars, deletion, freeing, outcomeVars, answer, boundVars>>

BackoffPasses(o) ==
  /\ deletion[o].status = "delayed" /\ o \notin inflight
  /\ deletion' = [deletion EXCEPT ![o].status = "due"]
  /\ UNCHANGED <<requestVars, pc, sent, acked, storeVars, intent, freeing, outcomeVars, answer, boundVars>>

(***************************************************************************)
(* Reconciliation.                                                         *)
(***************************************************************************)
Referenced(o) == o \in referenced

\* reconcileRemoteIntake: reservations a whole hour past their lease.
ReconcileRemote(o) ==
  /\ remote /\ intent[o] = "stale" /\ (kind = "batch" => ~Queued(o))
  /\ Enqueue([p \in {o} \ referenced |-> Due])
  /\ IF Referenced(o) \/ kind = "plain" THEN SetIntents({o}, "none") ELSE UNCHANGED intent
  /\ UNCHANGED <<requestVars, pc, sent, acked, storeVars, freeing, outcomeVars, answer, boundVars>>

\* The directory scan: every file in turn that is an hour old.
SweepFile(o) ==
  /\ ~remote /\ o \in stored /\ ~Young(o) /\ intent[o] # "live"
  /\ IF Referenced(o) THEN SetIntents({o}, "none") /\ UNCHANGED deletion
     ELSE /\ ~Queued(o) /\ Enqueue([p \in {o} |-> Due])
          /\ IF kind = "plain" THEN SetIntents({o}, "none") ELSE UNCHANGED intent
  /\ UNCHANGED <<requestVars, pc, sent, acked, storeVars, freeing, outcomeVars, answer, boundVars>>

\* and every stale reservation whose file never came or is referenced.
SweepIntent(o) ==
  /\ ~remote /\ intent[o] = "stale" /\ (Referenced(o) \/ o \notin stored)
  /\ SetIntents({o}, "none")
  /\ UNCHANGED <<requestVars, pc, sent, acked, storeVars, deletion, freeing, outcomeVars, answer, boundVars>>

AttemptStep(t) ==
  \/ Decide(t) \/ Reserve(t) \/ Written(t) \/ Reject(t) \/ Accept(t) \/ Fail(t)
  \/ Release(t) \/ Clean(t) \/ RemoveNow(t) \/ \E o \in Objects : Send(t, o)

\* Remote storage has no scan of its own.
FilesystemOnly(o) == SweepFile(o) \/ SweepIntent(o)

Reconcile(o) == ReconcileRemote(o) \/ SweepFile(o) \/ SweepIntent(o)

Next ==
  \/ \E t \in Attempts : AttemptStep(t) \/ Crash(t) \/ Heartbeat(t) \/ Lapse(t)
  \/ \E o \in Objects :
       Land(o) \/ Vanish(o) \/ ProcessDeletion(o) \/ Free(o) \/ RetryDeletion(o)
         \/ BackoffPasses(o) \/ Reconcile(o)
  \/ \E t \in Attempts : \E S \in {DocumentsOf(t)} \cup {{o} : o \in DocumentsOf(t)} : Purge(t, S)

\* Clocks advance, the workers remove what is due and reconcile.
UpkeepFairness ==
  /\ \A t \in Attempts : WF_vars(Lapse(t))
  /\ \A o \in Objects : WF_vars(Land(o) \/ Vanish(o)) /\ WF_vars(BackoffPasses(o))
  /\ \A o \in Objects : SF_vars(ProcessDeletion(o)) /\ WF_vars(Reconcile(o))

Spec == Init /\ [][Next]_vars
FairSpec == Spec /\ UpkeepFairness /\ \A t \in Attempts : WF_vars(AttemptStep(t))

(***************************************************************************)
(* Properties.                                                             *)
(***************************************************************************)
Places == {"idle", "decoding", "writing", "written", "releasing", "cleaning", "removing", "done"}

\* Types; what a handler knows of its writes, and that only plain ones remove at once.
TypeOK ==
  /\ kind \in {"plain", "batch"} /\ remote \in BOOLEAN
  /\ pc \in [Attempts -> Places]
  /\ {sent, acked, inflight, stored, freeing, referenced} \subseteq SUBSET Objects
  /\ acked \subseteq sent /\ \A t \in Attempts : pc[t] = "removing" => kind = "plain"
  /\ intent \in [Objects -> {"none", "live", "expired", "stale"}]
  /\ deletion \in [Objects -> [status : {"none", "due", "delayed", "failed"}, tries : Nat]]
  /\ charged \subseteq Attempts /\ unsure \subseteq Attempts
  /\ receipt \in Attempts \cup {None, "rejected"}
  /\ answer \in [Attempts -> Attempts \cup {None, "rejected", "gone", "failed"}]
  /\ crashes \in 0..MaxCrashes

\* "Referenced originals are never removed" (object-reconciliation.ts): whatever leases
\* run out, whatever is cleaned up late. Only a plain attempt that lost the acknowledgement
\* of its own commit can remove what it committed; a batch looks before it cleans.
OriginalsKept ==
  \A o \in referenced : o \in stored \/ (kind = "plain" /\ o[1] \in unsure)

\* No object is forgotten: what is in the store or may still arrive there is a document's,
\* is queued for removal, or has a reservation that reconciliation will come back to.
EveryObjectIsFound ==
  \A o \in stored \cup inflight : o \in referenced \/ Queued(o) \/ intent[o] # "none"

\* Requests with one key are charged once and all told the same outcome, however they overlap.
OneOutcome ==
  /\ Cardinality(charged) <= 1
  /\ \A t, u \in Attempts :
       {answer[t], answer[u]} \cap {None, "failed", "gone"} = {} => answer[t] = answer[u]

\* The storage limit counts a batch's bytes until they are physically gone, not only
\* until the attempt that wrote them has ended (retention.ts, "Release reserved split bytes").
BytesStayReserved ==
  kind = "batch" =>
    \A o \in stored \cup inflight : o[1] \notin charged => intent[o] # "none"

\* Whatever crashed, an object nobody refers to is removed or its removal is reported failed.
OrphansGo ==
  \A o \in Objects : []<>(o \notin stored \/ o \in referenced \/ deletion[o].status = "failed")
=============================================================================
