---------------------------- MODULE AiWorkClaims ----------------------------
(* The claim, lease and fence protocol shared by the extraction lanes        *)
(* (worker.ts, schema-suggestions.ts, split-suggestions.ts) of one           *)
(* workspace, at the grain of its SQL statements.                            *)
(*                                                                           *)
(* A claim is one READ COMMITTED transaction of five statements: a SELECT    *)
(* whose subqueries see an old snapshot, FOR UPDATE SKIP LOCKED on the row   *)
(* and its workspace, a try-lock of the workspace advisory lock, a second    *)
(* capacity check in a fresh snapshot, and the UPDATE. The provider runs     *)
(* outside every transaction; what it returns is saved under the advisory    *)
(* lock if the attempt's lease_owner is still the row's.                     *)
(*                                                                           *)
(* A row stands for a job or suggestion that some parser's setup no longer   *)
(* holds back; what an attempt writes to documents and parsers is the        *)
(* business of ParserDocuments.                                              *)
EXTENDS Integers, FiniteSets

CONSTANTS
  Rows,          \* numbers in (created_at, id, lane) order
  Workers,       \* invocations of processOne...
  MaxAttempts,   \* jobs.max_attempts
  Caps,          \* values of plan->>'maxConcurrent'
  MaxInterrupts, \* bound on crashes and aborted claims
  NoOne,         \* a free lock, an absent owner
  Api            \* the request that deletes a document

ASSUME ClaimsAssumption ==
  /\ Rows \subseteq Nat \ {0} /\ IsFiniteSet(Rows)
  /\ MaxAttempts \in Nat \ {0}
  /\ Caps \subseteq Nat /\ Caps # {}
  /\ MaxInterrupts \in Nat
  /\ NoOne \notin Workers /\ Api \notin Workers /\ NoOne # Api
  /\ NoOne \notin Workers \X (1..MaxAttempts)

VARIABLES
  state, attempts, result, cap, \* as in AiWorkQueue
  owner,      \* lease_owner
  expired,    \* processing rows with lease_until < now()
  due,        \* rows with available_at <= now()
  advisory,   \* holder of pg_advisory_xact_lock(workspace)
  pc,         \* where each worker is in processOneCoreJob
  row,        \* the row it selected, 0 for none
  attempt,    \* job.attempts of its claim
  asOf,       \* rows due at its claim transaction's now()
  candidates, \* expired rows its unlocked recovery query found
  interrupts

rowVars == <<state, attempts, result, owner, expired>>
workerVars == <<pc, row, attempt, asOf, candidates>>
vars == <<rowVars, cap, due, advisory, workerVars, interrupts>>

States == {"absent", "queued", "processing", "done", "failed", "gone"}
Running == {r \in Rows : state[r] = "processing"}

\* lease_owner is a fresh randomUUID() for every claim.
Owner(w, n) == <<w, n>>

(***************************************************************************)
(* What the claim queries ask. S is the set of rows due when they ask.     *)
(***************************************************************************)
Runnable(r, S) == state[r] = "queued" /\ r \in S /\ attempts[r] < MaxAttempts
FirstInLine(r, S) == \A s \in Rows : s < r => ~Runnable(s, S)
HasCapacity == Cardinality(Running) < cap

\* hasWorkspaceExtractionCapacity for the selected row.
Allowed(r, S) == HasCapacity /\ FirstInLine(r, S)

\* Workers whose claim holds FOR UPDATE locks on its row and the workspace row.
RowLocked == {"locked", "advised", "checked"}
Lockers == {w \in Workers : pc[w] \in RowLocked}
IsRowLocked(r) == \E w \in Lockers : row[w] = r

Init ==
  /\ state = [r \in Rows |-> "absent"]
  /\ attempts = [r \in Rows |-> 0]
  /\ result = [r \in Rows |-> 0]
  /\ owner = [r \in Rows |-> NoOne]
  /\ expired = {} /\ due = {}
  /\ cap \in Caps
  /\ advisory = NoOne
  /\ pc = [w \in Workers |-> "idle"]
  /\ row = [w \in Workers |-> 0]
  /\ attempt = [w \in Workers |-> 0]
  /\ asOf = [w \in Workers |-> {}]
  /\ candidates = [w \in Workers |-> {}]
  /\ interrupts = 0

Goto(w, label) == pc' = [pc EXCEPT ![w] = label]

Return(w) ==
  /\ Goto(w, "idle")
  /\ row' = [row EXCEPT ![w] = 0]
  /\ attempt' = [attempt EXCEPT ![w] = 0]

\* End of a transaction that is rolled back or finds nothing to claim.
GiveBack(w) ==
  /\ Return(w)
  /\ asOf' = [asOf EXCEPT ![w] = {}]
  /\ advisory' = IF advisory = w THEN NoOne ELSE advisory

\* lease_owner = null, lease_until = null
ClearLease(r) == owner' = [owner EXCEPT ![r] = NoOne] /\ expired' = expired \ {r}

(***************************************************************************)
(* The outside: uploads and reprocessing admit rows under the advisory     *)
(* lock, time passes, billing changes the plan, a delete takes the lock    *)
(* and then waits for row locks.                                           *)
(***************************************************************************)

\* available_at is the inserting transaction's now(), which a claim under way may or
\* may not have reached; a job released by parser setup becomes available late.
Admit(r) ==
  /\ advisory = NoOne /\ state[r] = "absent"
  /\ state' = [state EXCEPT ![r] = "queued"]
  /\ due' = due \cup {r}
  /\ \E reached \in {{}, {r}} :
       asOf' = [w \in Workers |-> IF pc[w] \in RowLocked \cup {"selected"}
                                  THEN asOf[w] \cup reached ELSE asOf[w]]
  /\ UNCHANGED <<attempts, result, owner, expired, cap, advisory, pc, row, attempt, candidates, interrupts>>

BackoffElapses(r) ==
  /\ state[r] = "queued" /\ r \notin due
  /\ due' = due \cup {r}
  /\ UNCHANGED <<rowVars, cap, advisory, workerVars, interrupts>>

LeaseExpires(r) ==
  /\ state[r] = "processing" /\ r \notin expired
  /\ expired' = expired \cup {r}
  /\ UNCHANGED <<state, attempts, result, owner, cap, due, advisory, workerVars, interrupts>>

\* UPDATE workspaces SET plan waits for claims that hold the workspace row.
ChangePlan ==
  /\ Lockers = {}
  /\ cap' \in Caps \ {cap}
  /\ UNCHANGED <<rowVars, due, advisory, workerVars, interrupts>>

\* purgeDocument: the lock first, then the cascade that needs the row.
BeginRemove ==
  /\ advisory = NoOne
  /\ \E r \in Rows : state[r] \notin {"absent", "gone"}
  /\ advisory' = Api
  /\ UNCHANGED <<rowVars, cap, due, workerVars, interrupts>>

Remove(r) ==
  /\ advisory = Api
  /\ state[r] \notin {"absent", "gone"} /\ ~IsRowLocked(r)
  /\ state' = [state EXCEPT ![r] = "gone"]
  /\ result' = [result EXCEPT ![r] = 0]
  /\ ClearLease(r)
  /\ advisory' = NoOne
  /\ UNCHANGED <<attempts, cap, due, workerVars, interrupts>>

(***************************************************************************)
(* Recovery: an unlocked query, then one transaction per candidate that    *)
(* looks again under the advisory lock.                                    *)
(***************************************************************************)
Scan(w) ==
  /\ pc[w] = "idle"
  /\ candidates' = [candidates EXCEPT ![w] = expired]
  /\ Goto(w, IF expired = {} THEN "polling" ELSE "recovering")
  /\ UNCHANGED <<rowVars, cap, due, advisory, row, attempt, asOf, interrupts>>

\* The recovery UPDATE's WHERE clause.
LeaseStillExpired(r) == state[r] = "processing" /\ r \in expired

Recover(w, r) ==
  /\ pc[w] = "recovering" /\ advisory = NoOne
  /\ r \in candidates[w]
  /\ candidates' = [candidates EXCEPT ![w] = @ \ {r}]
  /\ Goto(w, IF candidates[w] = {r} THEN "polling" ELSE "recovering")
  /\ IF LeaseStillExpired(r)
     THEN /\ state' = [state EXCEPT ![r] = IF attempts[r] >= MaxAttempts THEN "failed" ELSE "queued"]
          /\ ClearLease(r)
     ELSE UNCHANGED <<state, owner, expired>>
  /\ UNCHANGED <<attempts, result, cap, due, advisory, row, attempt, asOf, interrupts>>

(***************************************************************************)
(* The claim transaction.                                                  *)
(***************************************************************************)
\* The SELECT, in the snapshot in which it starts: at most one row qualifies.
Claimable(r) == Runnable(r, due) /\ Allowed(r, due)

Select(w, r) ==
  /\ pc[w] = "polling" /\ Claimable(r)
  /\ row' = [row EXCEPT ![w] = r]
  /\ asOf' = [asOf EXCEPT ![w] = due]
  /\ Goto(w, "selected")
  /\ UNCHANGED <<rowVars, cap, due, advisory, attempt, candidates, interrupts>>

SelectNone(w) ==
  /\ pc[w] = "polling" /\ ~\E r \in Rows : Claimable(r)
  /\ Goto(w, "idle")
  /\ UNCHANGED <<rowVars, cap, due, advisory, row, attempt, asOf, candidates, interrupts>>

\* FOR UPDATE OF j, w SKIP LOCKED: skips what another claim has locked and, when the row
\* has changed since the snapshot, re-evaluates the row's own columns only: the
\* subqueries that count running work and look for earlier work keep the snapshot.
LockRows(w) ==
  /\ pc[w] = "selected"
  /\ IF Lockers = {} /\ Runnable(row[w], asOf[w])
     THEN Goto(w, "locked") /\ UNCHANGED <<advisory, row, attempt, asOf>>
     ELSE GiveBack(w)
  /\ UNCHANGED <<rowVars, cap, due, candidates, interrupts>>

\* Waits for the advisory lock with the row locked, as pg_advisory_xact_lock would.
TryAdvisoryWaits(w) ==
  /\ pc[w] = "locked" /\ advisory = NoOne
  /\ advisory' = w /\ Goto(w, "advised")
  /\ UNCHANGED <<rowVars, cap, due, row, attempt, asOf, candidates, interrupts>>

\* pg_try_advisory_xact_lock: never waits while the row is locked.
TryAdvisory(w) ==
  /\ pc[w] = "locked"
  /\ IF advisory = NoOne
     THEN advisory' = w /\ Goto(w, "advised") /\ UNCHANGED <<row, attempt, asOf>>
     ELSE GiveBack(w)
  /\ UNCHANGED <<rowVars, cap, due, candidates, interrupts>>

\* Trusts the capacity the SELECT counted in its snapshot.
RecheckSkipped(w) ==
  /\ pc[w] = "advised" /\ Goto(w, "checked")
  /\ UNCHANGED <<rowVars, cap, due, advisory, row, attempt, asOf, candidates, interrupts>>

\* Counts again but does not look again for earlier work.
RecheckCapacityOnly(w) ==
  /\ pc[w] = "advised"
  /\ IF HasCapacity
     THEN Goto(w, "checked") /\ UNCHANGED <<advisory, row, attempt, asOf>>
     ELSE GiveBack(w)
  /\ UNCHANGED <<rowVars, cap, due, candidates, interrupts>>

\* hasWorkspaceExtractionCapacity, in a fresh statement.
Recheck(w) ==
  /\ pc[w] = "advised"
  /\ IF Allowed(row[w], asOf[w])
     THEN Goto(w, "checked") /\ UNCHANGED <<advisory, row, attempt, asOf>>
     ELSE GiveBack(w)
  /\ UNCHANGED <<rowVars, cap, due, candidates, interrupts>>

CommitClaim(w) ==
  /\ pc[w] = "checked"
  /\ state' = [state EXCEPT ![row[w]] = "processing"]
  /\ attempts' = [attempts EXCEPT ![row[w]] = @ + 1]
  /\ attempt' = [attempt EXCEPT ![w] = attempts[row[w]] + 1]
  /\ owner' = [owner EXCEPT ![row[w]] = Owner(w, attempts[row[w]] + 1)]
  /\ Goto(w, "attempting")
  /\ asOf' = [asOf EXCEPT ![w] = {}]
  /\ advisory' = NoOne
  /\ UNCHANGED <<result, expired, cap, due, row, candidates, interrupts>>

(***************************************************************************)
(* The attempt, outside any transaction, and its fenced ending.            *)
(***************************************************************************)
SourceMissing(w) ==
  /\ pc[w] = "attempting" /\ state[row[w]] = "gone"
  /\ Return(w)
  /\ UNCHANGED <<rowVars, cap, due, advisory, asOf, candidates, interrupts>>

Extracted(w) ==
  /\ pc[w] = "attempting"
  /\ Goto(w, "saving")
  /\ UNCHANGED <<rowVars, cap, due, advisory, row, attempt, asOf, candidates, interrupts>>

\* permanent = error.permanent alone
AfterErrorUnbounded(w) == {"rejecting", "retrying"}

\* permanent = error.permanent || job.attempts >= job.max_attempts
AfterError(w) == {"rejecting"} \cup (IF attempt[w] < MaxAttempts THEN {"retrying"} ELSE {})

\* The provider, the deadline or the saving transaction throws.
Throws(w) ==
  /\ pc[w] \in {"attempting", "saving"}
  /\ \E label \in AfterError(w) : Goto(w, label)
  /\ UNCHANGED <<rowVars, cap, due, advisory, row, attempt, asOf, candidates, interrupts>>

\* The job is still processing, whoever owns it.
FencedByState(w) == state[row[w]] = "processing"

Fenced(w) == state[row[w]] = "processing" /\ owner[row[w]] = Owner(w, attempt[w])

\* The acknowledgement of a commit may be lost, which sends the worker to its catch block.
Save(w) ==
  /\ pc[w] = "saving" /\ advisory = NoOne
  /\ \/ Return(w)
     \/ \E label \in AfterError(w) : Goto(w, label) /\ UNCHANGED <<row, attempt>>
  /\ IF Fenced(w)
     THEN /\ state' = [state EXCEPT ![row[w]] = "done"]
          /\ result' = [result EXCEPT ![row[w]] = attempt[w]]
          /\ ClearLease(row[w])
     ELSE UNCHANGED <<state, result, owner, expired>>
  /\ UNCHANGED <<attempts, cap, due, advisory, asOf, candidates, interrupts>>

RecordFailure(w) ==
  /\ pc[w] \in {"retrying", "rejecting"} /\ advisory = NoOne
  /\ Return(w)
  /\ IF Fenced(w)
     THEN /\ state' = [state EXCEPT ![row[w]] = IF pc[w] = "rejecting" THEN "failed" ELSE "queued"]
          /\ ClearLease(row[w])
          /\ due' = due \ {row[w]}
          /\ asOf' = [v \in Workers |-> asOf[v] \ {row[w]}]
     ELSE UNCHANGED <<state, owner, expired, due, asOf>>
  /\ UNCHANGED <<attempts, result, cap, advisory, candidates, interrupts>>

\* A crash, a lost connection or an abort between two statements: PostgreSQL rolls
\* back and releases, the lease stays.
Interrupt(w) ==
  /\ pc[w] # "idle" /\ interrupts < MaxInterrupts
  /\ GiveBack(w)
  /\ candidates' = [candidates EXCEPT ![w] = {}]
  /\ interrupts' = interrupts + 1
  /\ UNCHANGED <<rowVars, cap, due>>

Work(w) ==
  \/ Scan(w) \/ SelectNone(w)
  \/ \E r \in Rows : Recover(w, r) \/ Select(w, r)
  \/ LockRows(w) \/ TryAdvisory(w) \/ Recheck(w) \/ CommitClaim(w)
  \/ SourceMissing(w) \/ Extracted(w) \/ Throws(w) \/ Save(w) \/ RecordFailure(w)

Next ==
  \/ \E w \in Workers : Work(w) \/ Interrupt(w)
  \/ \E r \in Rows : Admit(r) \/ BackoffElapses(r) \/ LeaseExpires(r) \/ Remove(r)
  \/ ChangePlan \/ BeginRemove

Spec == Init /\ [][Next]_vars

\* Workers poll in a loop and restart after a crash, and clocks advance. A delete waits
\* in PostgreSQL's queue for a row that failed claims lock and release again (strong
\* fairness). Nobody has to upload, delete or change plans.
Fairness ==
  /\ \A w \in Workers : WF_vars(Work(w))
  /\ \A r \in Rows : WF_vars(BackoffElapses(r)) /\ WF_vars(LeaseExpires(r))
  /\ SF_vars(\E r \in Rows : Remove(r))

FairSpec == Spec /\ Fairness

-----------------------------------------------------------------------------
(***************************************************************************)
(* Properties.                                                             *)
(***************************************************************************)
InAttempt == {"attempting", "saving", "retrying", "rejecting"}
Labels == {"idle", "recovering", "polling", "selected"} \cup RowLocked \cup InAttempt

\* Every variable has its type, a row has a lease_owner exactly while it is processing
\* and a lease_until in the past only then (the CHECK of schema_suggestions).
TypeOK ==
  /\ state \in [Rows -> States] /\ cap \in Caps
  /\ attempts \in [Rows -> 0..MaxAttempts] /\ result \in [Rows -> 0..MaxAttempts]
  /\ owner \in [Rows -> {NoOne} \cup (Workers \X (1..MaxAttempts))]
  /\ \A r \in Rows : owner[r] # NoOne <=> state[r] = "processing"
  /\ expired \subseteq Running /\ due \subseteq Rows
  /\ advisory \in Workers \cup {NoOne, Api}
  /\ pc \in [Workers -> Labels]
  /\ row \in [Workers -> Rows \cup {0}] /\ attempt \in [Workers -> 0..MaxAttempts]
  /\ asOf \in [Workers -> SUBSET Rows] /\ candidates \in [Workers -> SUBSET Rows]
  /\ interrupts \in 0..MaxInterrupts

\* The workspace row is locked by one claim at a time (FOR UPDATE OF j, w).
WorkspaceRowExclusive == \A v, w \in Lockers : v = w

\* A claim holds the advisory lock exactly from the try-lock to its commit.
AdvisoryHeld == \A w \in Workers : advisory = w <=> pc[w] \in {"advised", "checked"}

\* Nobody changes the row a claim has locked.
LockedRowStays ==
  \A w \in Lockers : row[w] \in Rows /\ state[row[w]] = "queued" /\ attempts[row[w]] < MaxAttempts

\* What the fresh recheck saw, capacity and order, stays true until the claim commits.
RecheckStays == \A w \in Workers : pc[w] = "checked" => Allowed(row[w], asOf[w])

\* A worker in an attempt knows its row and attempt, and retries only below the limit.
AttemptKnown ==
  \A w \in Workers :
    /\ pc[w] = "selected" => row[w] \in Rows
    /\ pc[w] \in InAttempt => row[w] \in Rows /\ attempt[w] \in 1..MaxAttempts
    /\ pc[w] = "retrying" => attempt[w] < MaxAttempts

\* A processing row is owned by the attempt its counter names.
OwnerIsCurrentAttempt ==
  \A r \in Rows : state[r] = "processing" => \E w \in Workers : owner[r] = Owner(w, attempts[r])

\* What concurrent claims, attempts, recoveries and deletes guarantee each other; with
\* TypeOK it is inductive, and the other safety properties follow from it.
ClaimInv ==
  /\ WorkspaceRowExclusive /\ AdvisoryHeld /\ LockedRowStays /\ RecheckStays
  /\ AttemptKnown /\ OwnerIsCurrentAttempt

\* plan.maxConcurrent bounds what the lanes start together: no step raises the number
\* of running operations above the plan in force, whatever snapshot it counted in.
CapacityRespected ==
  [][Cardinality(Running') > Cardinality(Running) => Cardinality(Running') <= cap']_vars

\* The lanes share one order: a committed claim takes no row past an earlier one that
\* was available when the claim began and can still be attempted.
ClaimsInOrder ==
  [][\A w \in Workers : pc[w] = "checked" /\ pc'[w] = "attempting" => FirstInLine(row[w], asOf[w])]_vars

\* Leases, snapshots and locks are invisible: the lanes implement AiWorkQueue, where
\* only the current attempt settles a row, a settled row stays settled, and a result
\* is the one of the last attempt.
Queue == INSTANCE AiWorkQueue
ImplementsQueue == Queue!Spec

\* Work that was admitted is settled or deleted: no crash, expired lease, late
\* provider or exhausted counter strands it.
EveryRowSettles ==
  \A r \in Rows : state[r] \in {"queued", "processing"} ~> state[r] \in {"done", "failed", "gone"}

\* A delete that holds the advisory lock gets the row lock it waits for: claims never
\* wait for the advisory lock with a row locked.
DeleteProceeds == (advisory = Api) ~> (advisory # Api)
============================================================================
