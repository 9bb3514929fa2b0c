----------------------------- MODULE SplitSources -----------------------------
(* One split suggestion (split-suggestions.ts, split-suggestion-create.ts) and *)
(* its private copy of the source: written under a finite write lease, read by *)
(* the AI lane under a processing lease, accepted into documents or cancelled, *)
(* and released by reconciliation only once the copy is gone. A request to the *)
(* store may outlive the lease it was made under. Signed staging is left out.  *)
EXTENDS Naturals

CONSTANTS
  Copiers,              \* requests that populate the copy
  Cleaners,             \* invocations of reconcileExpiredSplitSuggestions
  MaxSuggestAttempts    \* max_attempts (3 in the code)

ASSUME SplitAssumption ==
  MaxSuggestAttempts \in Nat \ {0} /\ "none" \notin Copiers \cup Cleaners /\ Copiers \cap Cleaners = {}

VARIABLES
  suggestion,   \* [state, attempts, accepted, confirmed]
  past,         \* expires_at has passed
  writeLease,   \* [owner, live]: write_owner and write_until
  aiLease,      \* the processing lease: none, live, expired
  held,         \* source_storage_key is set
  copy,         \* the object is in the store
  copier,       \* where each populate is
  lateCopies,   \* copiers that left a write at the store which their lease still covers
  adrift,       \* the kinds of requests left at the store that may be applied at any time, lease or not
  cleaner,      \* where each reconciliation is
  worker        \* the lane's worker holds the attempt this number names; 0 when it holds none

splitVars ==
  <<suggestion, past, writeLease, aiLease, held, copy, copier, lateCopies, adrift, cleaner, worker>>

NoOne == [owner |-> "none", live |-> FALSE]
Leased(who) == [owner |-> who, live |-> TRUE]

SplitInit ==
  /\ suggestion = [state |-> "uploading", attempts |-> 0, accepted |-> FALSE, confirmed |-> FALSE]
  /\ past = FALSE /\ writeLease = NoOne /\ aiLease = "none" /\ held = TRUE /\ copy = FALSE
  /\ copier = [c \in Copiers |-> "idle"] /\ lateCopies = {} /\ adrift = {}
  /\ cleaner = [m \in Cleaners |-> "idle"] /\ worker = 0

\* assertLive.
LiveSource == suggestion.state # "cancelled" /\ ~past /\ held

CopyStep(c, place) == copier' = [copier EXCEPT ![c] = place]
CleanStep(m, place) == cleaner' = [cleaner EXCEPT ![m] = place]

\* finally: the lease is released whatever became of the write.
AlwaysReleased(who, aborted) == writeLease' = IF writeLease.owner = who THEN NoOne ELSE writeLease

\* finally: "Keep its finite lease rather than letting cleanup/retry race that outstanding
\* immutable write."
Released(who, aborted) ==
  writeLease' = IF writeLease.owner = who /\ ~aborted THEN NoOne ELSE writeLease

(***************************************************************************)
(* populate.                                                               *)
(***************************************************************************)
BeginCopy(c) ==
  /\ copier[c] = "idle" /\ LiveSource /\ suggestion.state = "uploading" /\ ~writeLease.live
  /\ writeLease' = Leased(c) /\ CopyStep(c, "verifying")
  /\ UNCHANGED <<suggestion, past, aiLease, held, copy, lateCopies, adrift, cleaner, worker>>

\* A copy already there is verified instead of written.
Verified(c) ==
  /\ copier[c] = "verifying" /\ LiveSource
  /\ CopyStep(c, IF copy THEN "written" ELSE "writing")
  /\ UNCHANGED <<suggestion, past, writeLease, aiLease, held, copy, lateCopies, adrift, cleaner, worker>>

\* An object is created and never replaced.
WriteCopy(c) ==
  /\ copier[c] = "writing" /\ ~copy /\ copy' = TRUE /\ CopyStep(c, "written")
  /\ UNCHANGED <<suggestion, past, writeLease, aiLease, held, lateCopies, adrift, cleaner, worker>>

ReadBack(c) ==
  /\ copier[c] = "written" /\ copy /\ CopyStep(c, "stored")
  /\ UNCHANGED <<suggestion, past, writeLease, aiLease, held, copy, lateCopies, adrift, cleaner, worker>>

\* Fenced by the write lease.
QueueSuggestion(c) ==
  /\ copier[c] = "stored" /\ LiveSource /\ suggestion.state = "uploading" /\ writeLease = Leased(c)
  /\ suggestion' = [suggestion EXCEPT !.state = "queued"] /\ writeLease' = NoOne /\ CopyStep(c, "idle")
  /\ UNCHANGED <<past, aiLease, held, copy, lateCopies, adrift, cleaner, worker>>

\* An error while the operation still waits. The write may have been applied; if the error is the
\* client's own timeout of 45 s or a lost connection, it may be applied at any time from now on.
CopyFails(c) ==
  /\ copier[c] # "idle" /\ CopyStep(c, "idle") /\ Released(c, FALSE)
  /\ IF copier[c] = "writing"
     THEN copy' \in {copy, TRUE} /\ adrift' \in {adrift, adrift \cup {"write"}}
     ELSE UNCHANGED <<copy, adrift>>
  /\ UNCHANGED <<suggestion, past, aiLease, held, lateCopies, cleaner, worker>>

\* The deadline of 90 s, a disconnection or a stopped process: a write goes on alone.
CopyTimesOut(c) ==
  /\ copier[c] # "idle" /\ CopyStep(c, "idle") /\ Released(c, TRUE)
  /\ lateCopies' = IF copier[c] = "writing" THEN lateCopies \cup {c} ELSE lateCopies
  /\ UNCHANGED <<suggestion, past, aiLease, held, copy, adrift, cleaner, worker>>

\* Such a write lands, or is lost on the way.
LateCopy(c) ==
  /\ c \in lateCopies /\ lateCopies' = lateCopies \ {c} /\ copy' \in {copy, TRUE}
  /\ UNCHANGED <<suggestion, past, writeLease, aiLease, held, copier, adrift, cleaner, worker>>

\* 120 s by the clock: an operation has met its deadline of 90 s before, the write it left behind
\* has a timeout of its own, which nobody awaits, and may land after the lease.
LapseWriteLease ==
  /\ writeLease.live
  /\ writeLease.owner \in Copiers => copier[writeLease.owner] = "idle"
  /\ writeLease.owner \in Cleaners => cleaner[writeLease.owner] # "removing"
  /\ writeLease' = [writeLease EXCEPT !.live = FALSE]
  /\ lateCopies' = {} /\ adrift' = adrift \cup (IF lateCopies = {} THEN {} ELSE {"write"})
  /\ UNCHANGED <<suggestion, past, aiLease, held, copy, copier, cleaner, worker>>

\* The store applies such a request; more of its kind may follow.
ApplyAdrift ==
  /\ \E kind \in adrift : copy' = (kind = "write")
  /\ UNCHANGED <<suggestion, past, writeLease, aiLease, held, copier, lateCopies, adrift, cleaner, worker>>

(***************************************************************************)
(* The AI lane; its queue and capacity are AiWorkClaims.                   *)
(***************************************************************************)
RecoverSuggestion ==
  /\ suggestion.state = "processing" /\ aiLease = "expired" /\ aiLease' = "none"
  /\ suggestion' = [suggestion EXCEPT !.state =
       IF suggestion.attempts >= MaxSuggestAttempts \/ past THEN "failed" ELSE "queued"]
  /\ UNCHANGED <<past, writeLease, held, copy, copier, lateCopies, adrift, cleaner, worker>>

ClaimSuggestion ==
  /\ suggestion.state = "queued" /\ suggestion.attempts < MaxSuggestAttempts /\ ~past /\ ~writeLease.live
  /\ suggestion' = [suggestion EXCEPT !.state = "processing", !.attempts = @ + 1]
  /\ aiLease' = "live" /\ worker' = suggestion'.attempts
  /\ UNCHANGED <<past, writeLease, held, copy, copier, lateCopies, adrift, cleaner>>

OwnsAttempt == suggestion.state = "processing" /\ aiLease = "live" /\ worker = suggestion.attempts

\* The result, under the fences of the row; without them the answer is dropped.
SettleSuggestion ==
  /\ worker # 0 /\ worker' = 0
  /\ IF OwnsAttempt
     THEN /\ aiLease' = "none"
          /\ \/ LiveSource /\ copy /\ suggestion' = [suggestion EXCEPT !.state = "ready"]
             \/ suggestion' = [suggestion EXCEPT !.state = "failed"]
             \/ suggestion.attempts < MaxSuggestAttempts /\ suggestion' = [suggestion EXCEPT !.state = "queued"]
     ELSE UNCHANGED <<suggestion, aiLease>>
  /\ UNCHANGED <<past, writeLease, held, copy, copier, lateCopies, adrift, cleaner>>

LapseAiLease ==
  /\ aiLease = "live" /\ aiLease' = "expired" /\ worker' \in {worker, 0}
  /\ UNCHANGED <<suggestion, past, writeLease, held, copy, copier, lateCopies, adrift, cleaner>>

(***************************************************************************)
(* The user.                                                               *)
(***************************************************************************)
CancelSuggestion ==
  /\ ~suggestion.accepted /\ suggestion.state # "cancelled"
  /\ suggestion' = [suggestion EXCEPT !.state = "cancelled"] /\ aiLease' = "none"
  /\ UNCHANGED <<past, writeLease, held, copy, copier, lateCopies, adrift, cleaner, worker>>

Creatable == suggestion.state = "ready" /\ ~past /\ ~suggestion.accepted

\* The first transaction of Create binds the request and its ranges.
ConfirmSuggestion ==
  /\ ~suggestion.confirmed /\ Creatable /\ held
  /\ suggestion' = [suggestion EXCEPT !.confirmed = TRUE]
  /\ UNCHANGED <<past, writeLease, aiLease, held, copy, copier, lateCopies, adrift, cleaner, worker>>

\* Its last transaction publishes the documents, or a rejected receipt.
CompleteSplit(accepted) ==
  /\ suggestion.confirmed /\ Creatable /\ held
  /\ suggestion' = [suggestion EXCEPT !.accepted = accepted, !.state = IF accepted THEN @ ELSE "cancelled"]
  /\ UNCHANGED <<past, writeLease, aiLease, held, copy, copier, lateCopies, adrift, cleaner, worker>>

ExpireSuggestion ==
  /\ ~past /\ past' = TRUE
  /\ UNCHANGED <<suggestion, writeLease, aiLease, held, copy, copier, lateCopies, adrift, cleaner, worker>>

(***************************************************************************)
(* reconcileExpiredSplitSuggestions.                                       *)
(***************************************************************************)
TakeExpired(m) ==
  /\ cleaner[m] = "idle" /\ held /\ (past \/ suggestion.state = "cancelled")
  /\ ~writeLease.live /\ aiLease # "live"
  /\ writeLease' = Leased(m) /\ aiLease' = "none" /\ CleanStep(m, "removing")
  /\ suggestion' = [suggestion EXCEPT !.state =
       IF past /\ @ \in {"uploading", "queued", "processing"} THEN "failed" ELSE @]
  /\ UNCHANGED <<past, held, copy, copier, lateCopies, adrift, worker>>

\* A copy that is not there counts as removed.
RemoveCopy(m) ==
  /\ cleaner[m] = "removing" /\ copy' = FALSE /\ CleanStep(m, "removed")
  /\ UNCHANGED <<suggestion, past, writeLease, aiLease, held, copier, lateCopies, adrift, worker>>

\* Fenced by the owner and the key, not by the clock.
ForgetCopy(m) ==
  /\ cleaner[m] = "removed" /\ held' = (held /\ writeLease.owner # m)
  /\ Released(m, FALSE) /\ CleanStep(m, "idle")
  /\ UNCHANGED <<suggestion, past, aiLease, copy, copier, lateCopies, adrift, worker>>

\* An error, the deadline or a stopped process; a removal may have been applied, or still be.
CleaningFails(m) ==
  /\ cleaner[m] # "idle" /\ CleanStep(m, "idle") /\ \E aborted \in BOOLEAN : Released(m, aborted)
  /\ IF cleaner[m] = "removing"
     THEN copy' \in {copy, FALSE} /\ adrift' \in {adrift, adrift \cup {"removal"}}
     ELSE UNCHANGED <<copy, adrift>>
  /\ UNCHANGED <<suggestion, past, aiLease, held, copier, lateCopies, worker>>

SplitNext ==
  \/ \E c \in Copiers :
       BeginCopy(c) \/ Verified(c) \/ WriteCopy(c) \/ ReadBack(c) \/ QueueSuggestion(c)
         \/ CopyFails(c) \/ CopyTimesOut(c) \/ LateCopy(c)
  \/ \E m \in Cleaners : TakeExpired(m) \/ RemoveCopy(m) \/ ForgetCopy(m) \/ CleaningFails(m)
  \/ LapseWriteLease \/ ApplyAdrift \/ RecoverSuggestion \/ ClaimSuggestion \/ SettleSuggestion \/ LapseAiLease
  \/ CancelSuggestion \/ ConfirmSuggestion \/ ExpireSuggestion \/ \E accepted \in BOOLEAN : CompleteSplit(accepted)

SplitSpec == SplitInit /\ [][SplitNext]_splitVars

(***************************************************************************)
(* Properties.                                                             *)
(***************************************************************************)
\* Types; a suggestion that made documents is neither cancelled nor processed again.
SplitTypeOK ==
  /\ suggestion \in [state : {"uploading", "queued", "processing", "ready", "failed", "cancelled"},
                     attempts : 0..MaxSuggestAttempts, accepted : BOOLEAN, confirmed : BOOLEAN]
  /\ writeLease.owner \in Copiers \cup Cleaners \cup {"none"} /\ (writeLease.live => writeLease.owner # "none")
  /\ aiLease \in {"none", "live", "expired"} /\ (aiLease # "none" => suggestion.state = "processing")
  /\ lateCopies \subseteq Copiers /\ adrift \subseteq {"write", "removal"} /\ worker \in 0..MaxSuggestAttempts
  /\ suggestion.accepted => suggestion.state = "ready" /\ suggestion.confirmed

\* "Keys and byte reservations are released only after physical deletion", which "is not a
\* guarantee against arbitrarily late operations": once the key is forgotten no operation writes and
\* no lease covers a write left behind, and a copy that is still there was put there by a write that
\* outlived the lease it was made under.
ReleasedIsGone ==
  ~held => /\ lateCopies = {} /\ \A c \in Copiers : copier[c] # "writing"
           /\ copy => "write" \in adrift

\* A suggestion that is queued, worked on or ready has its key and its copy until it expires,
\* though removals may be applied long after the reconciliation that sent them gave up.
LiveIsStored ==
  suggestion.state \in {"queued", "processing", "ready"} /\ ~past => held /\ copy

\* The row and the store agree whatever times out, stops, lapses or arrives late.
CopyMatchesRow == ReleasedIsGone /\ LiveIsStored
=============================================================================
