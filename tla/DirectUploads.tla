---------------------------- MODULE DirectUploads ----------------------------
(* Signed uploads (upload-routes.ts) of the same bytes: reservations, the    *)
(* plan a batch is bound to, the lease of whoever finalizes or previews one, *)
(* acceptance, expiry. A plain upload becomes a document under its own key;  *)
(* the uploads of a batch share one request and one receipt.                 *)
EXTENDS Naturals

CONSTANTS
  Uploads,       \* rows of direct_uploads
  Finalizers,    \* requests to finalize or preview
  BatchPlans,    \* page ranges or selected files a client may confirm
  Unbound,       \* no plan yet
  MaxTakeovers   \* bound on the leases of an upload

ASSUME UploadsAssumption == Unbound \notin BatchPlans /\ MaxTakeovers \in Nat

VARIABLES
  uploadKind,    \* "plain" or "batch": fixed
  genuine,       \* uploads whose bytes have the expected length and hash: fixed
  upload,        \* [state, owner, lease, age, plan]; owner 0 is NULL
  takeovers,     \* leases given out: the source of owners
  batch,         \* the request's receipt: Unbound, or the plan accepted
  filed,         \* plain uploads with a document, by idempotency key
  refused,       \* keys, or the batch as a whole, with a rejection receipt
  finalizer      \* [at, upload, owner, plan, outcome]

uploadFacts == <<uploadKind, genuine>>
intakeVars == <<batch, filed, refused>>
uploadsVars == <<uploadFacts, upload, takeovers, intakeVars, finalizer>>

NoUpload == [state |-> "none", owner |-> 0, lease |-> "none", age |-> "fresh", plan |-> Unbound]
Resting == [at |-> "idle", upload |-> Unbound, owner |-> 0, plan |-> Unbound, outcome |-> "none"]

UploadsInit ==
  /\ uploadKind \in {"plain", "batch"} /\ genuine \in SUBSET Uploads
  /\ upload = [u \in Uploads |-> NoUpload] /\ takeovers = [u \in Uploads |-> 0]
  /\ batch = Unbound /\ filed = {} /\ refused = {}
  /\ finalizer = [f \in Finalizers |-> Resting]

\* Only the receipt is asked.
ReceiptAgrees(plan) == plan = Unbound \/ batch \in {Unbound, plan}

\* assertUploadedSplitBinding: every reservation of the request and its receipt agree.
Compatible(plan) ==
  plan = Unbound \/ (batch \in {Unbound, plan} /\ \A u \in Uploads : upload[u].plan \in {Unbound, plan})

\* reserveDirectUpload; when signing fails the row is failed before anybody knows of it.
ReserveUpload(u, plan) ==
  /\ upload[u].state = "none" /\ (uploadKind = "plain" => plan = Unbound) /\ Compatible(plan)
  /\ \E state \in {"pending", "failed"} : upload' = [upload EXCEPT ![u] = [NoUpload EXCEPT !.state = state, !.plan = plan]]
  /\ UNCHANGED <<uploadFacts, takeovers, intakeVars, finalizer>>

LeaseHeld(u) == upload[u].state = "finalizing" /\ upload[u].lease = "live"
Usable(u) == upload[u].state \in {"pending", "finalizing"} /\ upload[u].age = "fresh"

\* confirmDirectSplit, confirmDirectArchive; an identical plan again changes at most the lease.
BindPlan(u, plan) ==
  /\ uploadKind = "batch" /\ Usable(u) /\ ~LeaseHeld(u) /\ Compatible(plan)
  /\ upload' = [upload EXCEPT ![u] = [@ EXCEPT !.plan = plan, !.state = "pending", !.owner = 0, !.lease = "none"]]
  /\ UNCHANGED <<uploadFacts, takeovers, intakeVars, finalizer>>

\* finalizeDirectUpload's and previewDirectArchive's first transaction.
TakeUpload(f, u, purpose) ==
  /\ finalizer[f].at = "idle" /\ takeovers[u] < MaxTakeovers
  /\ Usable(u) /\ ~LeaseHeld(u)
  /\ IF purpose = "previewing" THEN uploadKind = "batch" ELSE uploadKind = "plain" \/ upload[u].plan # Unbound
  /\ takeovers' = [takeovers EXCEPT ![u] = @ + 1]
  /\ upload' = [upload EXCEPT ![u] = [@ EXCEPT !.state = "finalizing", !.owner = takeovers'[u], !.lease = "live"]]
  /\ finalizer' = [finalizer EXCEPT ![f] = [at |-> purpose, upload |-> u, owner |-> takeovers'[u],
                                            plan |-> upload[u].plan, outcome |-> "none"]]
  /\ UNCHANGED <<uploadFacts, intakeVars>>

Ends(f, outcome) == finalizer' = [finalizer EXCEPT ![f].at = "ending", ![f].outcome = outcome]

\* The staged object is read: not there, not what was reserved, or as expected.
ReadStaged(f) ==
  /\ finalizer[f].at = "verifying"
  /\ \/ Ends(f, "retry")
     \/ finalizer[f].upload \notin genuine /\ Ends(f, "terminal")
     \/ finalizer[f].upload \in genuine /\ finalizer' = [finalizer EXCEPT ![f].at = "accepting"]
  /\ UNCHANGED <<uploadFacts, upload, takeovers, intakeVars>>

OwnsUpload(f) == upload[finalizer[f].upload].owner = finalizer[f].owner

\* addDocument: what the key stands for is looked up first, whoever holds the lease.
FileDocument(f) ==
  LET u == finalizer[f].upload
  IN /\ uploadKind = "plain" /\ finalizer[f].at = "accepting"
     /\ IF u \in filed THEN finalizer' = [finalizer EXCEPT ![f].at = "completing"] /\ UNCHANGED <<filed, refused>>
        ELSE IF u \in refused THEN Ends(f, "terminal") /\ UNCHANGED <<filed, refused>>
        ELSE \/ filed' = filed \cup {u} /\ UNCHANGED refused
                /\ (finalizer' = [finalizer EXCEPT ![f].at = "completing"] \/ Ends(f, "retry"))
             \/ refused' = refused \cup {u} /\ UNCHANGED filed /\ Ends(f, "terminal")
             \/ UNCHANGED <<filed, refused>> /\ Ends(f, "retry")
     /\ UNCHANGED <<uploadFacts, upload, takeovers, batch>>

\* The second transaction, fenced by the owner alone.
CompleteUpload(f) ==
  LET u == finalizer[f].upload
  IN /\ finalizer[f].at = "completing" /\ finalizer' = [finalizer EXCEPT ![f] = Resting]
     /\ upload' = IF OwnsUpload(f)
          THEN [upload EXCEPT ![u] = [@ EXCEPT !.state = "complete", !.owner = 0, !.lease = "none"]] ELSE upload
     /\ UNCHANGED <<uploadFacts, takeovers, intakeVars>>

\* direct: the same owner, its lease and the reservation live.
StillFinalizing(f) ==
  LET row == upload[finalizer[f].upload]
  IN OwnsUpload(f) /\ row.state = "finalizing" /\ row.lease = "live" /\ row.age = "fresh"

\* addSplitDocuments, addArchiveDocuments: receipt and upload in one transaction.
AcceptBatch(f) ==
  LET u == finalizer[f].upload
  IN /\ uploadKind = "batch" /\ finalizer[f].at = "accepting" /\ StillFinalizing(f)
     /\ "batch" \notin refused /\ batch \in {Unbound, finalizer[f].plan}
     /\ \/ /\ batch' = finalizer[f].plan /\ UNCHANGED refused
           /\ upload' = [upload EXCEPT ![u] = [@ EXCEPT !.state = "complete", !.owner = 0, !.lease = "none"]]
           /\ Ends(f, "retry") \* or an answer: the row is no longer this finalizer's
        \/ batch = Unbound /\ refused' = {"batch"} /\ Ends(f, "terminal") /\ UNCHANGED <<upload, batch>>
     /\ UNCHANGED <<uploadFacts, takeovers, filed>>

\* A receipt of rejection, a conflict, a lost lease, an error of any kind.
BatchFails(f) ==
  /\ uploadKind = "batch" /\ finalizer[f].at = "accepting"
  /\ Ends(f, IF StillFinalizing(f) /\ "batch" \in refused THEN "terminal" ELSE "retry")
  /\ UNCHANGED <<uploadFacts, upload, takeovers, intakeVars>>

\* The catch, and a preview's finally, fenced by the owner.
EndFinalize(f) ==
  LET u == finalizer[f].upload
  IN /\ finalizer[f].at \in {"ending", "previewing"} /\ finalizer' = [finalizer EXCEPT ![f] = Resting]
     /\ upload' = IF ~OwnsUpload(f) THEN upload ELSE [upload EXCEPT ![u] = [@ EXCEPT
          !.state = IF finalizer[f].outcome = "terminal" THEN "failed" ELSE "pending", !.owner = 0, !.lease = "none"]]
     /\ UNCHANGED <<uploadFacts, takeovers, intakeVars>>

StopFinalizer(f) ==
  /\ finalizer[f].at # "idle" /\ finalizer' = [finalizer EXCEPT ![f] = Resting]
  /\ UNCHANGED <<uploadFacts, upload, takeovers, intakeVars>>

(***************************************************************************)
(* Clocks, and reconcileExpiredDirectUploads.                              *)
(***************************************************************************)
LapseUpload(u) ==
  /\ upload[u].lease = "live" /\ upload' = [upload EXCEPT ![u].lease = "expired"]
  /\ UNCHANGED <<uploadFacts, takeovers, intakeVars, finalizer>>

\* expires_at, then cleanup_after, when the signed URL is no longer good.
AgeUpload(u) ==
  /\ upload[u].state # "none" /\ upload[u].age # "over"
  /\ upload' = [upload EXCEPT ![u].age = IF @ = "fresh" THEN "expired" ELSE "over"]
  /\ UNCHANGED <<uploadFacts, takeovers, intakeVars, finalizer>>

CleanUpload(u) ==
  /\ upload[u].age = "over" /\ upload[u].state # "cleaned" /\ upload[u].lease # "live"
  /\ upload' = [upload EXCEPT ![u] = [@ EXCEPT !.state = "cleaned", !.owner = 0, !.lease = "none"]]
  /\ UNCHANGED <<uploadFacts, takeovers, intakeVars, finalizer>>

UploadsNext ==
  \/ \E u \in Uploads :
       \/ \E plan \in BatchPlans : BindPlan(u, plan) \/ ReserveUpload(u, plan)
       \/ ReserveUpload(u, Unbound) \/ LapseUpload(u) \/ AgeUpload(u) \/ CleanUpload(u)
  \/ \E f \in Finalizers :
       \/ \E u \in Uploads, purpose \in {"verifying", "previewing"} : TakeUpload(f, u, purpose)
       \/ ReadStaged(f) \/ FileDocument(f) \/ CompleteUpload(f) \/ AcceptBatch(f) \/ BatchFails(f)
       \/ EndFinalize(f) \/ StopFinalizer(f)

UploadsSpec == UploadsInit /\ [][UploadsNext]_uploadsVars

(***************************************************************************)
(* Properties.                                                             *)
(***************************************************************************)
UploadsTypeOK ==
  /\ uploadKind \in {"plain", "batch"} /\ genuine \subseteq Uploads
  /\ upload \in [Uploads -> [state : {"none", "pending", "finalizing", "complete", "failed", "cleaned"},
                             owner : 0..MaxTakeovers, lease : {"none", "live", "expired"},
                             age : {"fresh", "expired", "over"}, plan : BatchPlans \cup {Unbound}]]
  /\ takeovers \in [Uploads -> 0..MaxTakeovers]
  /\ \A u \in Uploads : upload[u].state = "finalizing" <=> upload[u].owner # 0
  /\ batch \in BatchPlans \cup {Unbound} /\ filed \subseteq genuine /\ refused \subseteq Uploads \cup {"batch"}

\* An upload is decided once. A plain one reported failed has no document, though a slower
\* finalizer that lost its lease committed one meanwhile; a request's uploads are bound to
\* one plan, the one its receipt has ("Bind a preview upload to one immutable plan before any
\* charged intake begins"), whoever confirms, previews, retries or takes over.
UploadsAreDecidedOnce ==
  /\ filed \cap refused = {} /\ (batch # Unbound => refused = {})
  /\ \A u, v \in Uploads :
       /\ uploadKind = "plain" =>
            /\ upload[u].state = "failed" => u \notin filed
            /\ upload[u].state = "complete" => u \in filed
       /\ upload[u].plan # Unbound => {upload[v].plan, batch} \subseteq {upload[u].plan, Unbound}
       /\ uploadKind = "batch" /\ upload[u].state = "complete" => batch = upload[u].plan
=============================================================================
