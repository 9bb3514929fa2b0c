-------------------------- MODULE ParserDocuments --------------------------
(* One parser and its documents: AI-assisted field setup, field suggestions, *)
(* extraction jobs, review and deletion. Every action is one transaction     *)
(* under the workspace advisory lock, as the handlers and the worker's       *)
(* fenced writes are; how a transaction becomes the one that claims or       *)
(* settles a row is AiWorkClaims' business, and only what AiWorkQueue        *)
(* promises of that is used here: the current attempt alone settles a row.   *)
EXTENDS Integers, Sequences, FiniteSets

CONSTANTS
  Docs,
  SetupMode,      \* "preset" or "sample", given when the parser is created
  MaxAttempts,    \* max_attempts of jobs and suggestions
  MaxPending,     \* schemaSuggestionLimits.pendingPerWorkspace
  MaxSuggestions, \* bound on suggestion requests (the daily and monthly limits)
  MaxJobs,        \* bound on jobs of one document
  MaxVersions     \* bound on the schema versions users save

ASSUME DocumentsAssumption ==
  /\ IsFiniteSet(Docs) /\ SetupMode \in {"preset", "sample"}
  /\ {MaxAttempts, MaxPending, MaxSuggestions, MaxJobs, MaxVersions} \subseteq Nat \ {0}

VARIABLES
  status, latest, approved, \* documents: status, latest_run_id, approved_run_id
  jobs,                     \* each document's jobs, oldest first; a completed one is a run
  setup, pointer, archived, \* parsers: field_setup_state, ..._suggestion_id, archived
  active, versions,         \* active_schema_id, max(version)
  suggestions               \* schema_suggestions in the order of their requests

reviewVars == <<latest, approved>>
schemaVars == <<active, versions>>
vars == <<status, reviewVars, jobs, setup, pointer, archived, schemaVars, suggestions>>

Active == {"queued", "processing"}
Present(d) == status[d] \notin {"absent", "deleted"}
Runs(d) == {i \in DOMAIN jobs[d] : jobs[d][i].state = "completed"}
HasActiveJob(d) == \E i \in DOMAIN jobs[d] : jobs[d][i].state \in Active

Init ==
  /\ status = [d \in Docs |-> "absent"]
  /\ latest = [d \in Docs |-> 0] /\ approved = [d \in Docs |-> 0]
  /\ jobs = [d \in Docs |-> << >>]
  /\ setup = IF SetupMode = "sample" THEN "awaiting_sample" ELSE "ready"
  /\ pointer = 0 /\ archived = FALSE
  /\ active = 1 /\ versions = 1
  /\ suggestions = << >>

NewJob(held) == [state |-> "queued", waiting |-> held, schema |-> active, attempts |-> 0]

NewSuggestion(d, auto) ==
  [state |-> "queued", doc |-> d, base |-> active, auto |-> auto, attempts |-> 0, applied |-> 0]

SetJob(d, i, s) == jobs' = [jobs EXCEPT ![d][i].state = s]
SetStatus(d, s) == status' = [status EXCEPT ![d] = s]
Mark(st, D, s) == [d \in Docs |-> IF d \in D THEN s ELSE st[d]]

(***************************************************************************)
(* parser-setup.ts, on a table of jobs and one of statuses.                *)
(***************************************************************************)
HeldDocs(js) == {d \in Docs : \E i \in DOMAIN js[d] : js[d][i].waiting}
StuckDocs(js) == {d \in Docs : \E i \in DOMAIN js[d] : js[d][i].waiting /\ js[d][i].state = "failed"}

WithHeld(js, s) ==
  [d \in Docs |-> [i \in DOMAIN js[d] |->
     IF js[d][i].waiting THEN [js[d][i] EXCEPT !.state = s] ELSE js[d][i]]]

\* Releases the held jobs with the fields they were created with.
ReleasedUnchanged(js, v) ==
  [d \in Docs |-> [i \in DOMAIN js[d] |->
     IF js[d][i].waiting THEN [js[d][i] EXCEPT !.waiting = FALSE, !.state = "queued"] ELSE js[d][i]]]

Released(js, v) ==
  [d \in Docs |-> [i \in DOMAIN js[d] |->
     IF js[d][i].waiting
     THEN [js[d][i] EXCEPT !.waiting = FALSE, !.state = "queued", !.schema = v] ELSE js[d][i]]]

ReleaseInitialJobs(v) ==
  /\ jobs' = Released(jobs, v)
  /\ status' = Mark(status, HeldDocs(jobs), "queued")

FailInitialSetup(js, st) ==
  /\ setup' = "failed"
  /\ jobs' = WithHeld(js, "failed")
  /\ status' = Mark(st, HeldDocs(js), "failed")

\* requireSuggestionCapacity; a refusal rolls the whole request back.
SuggestionCapacity ==
  /\ Len(suggestions) < MaxSuggestions
  /\ Cardinality({s \in DOMAIN suggestions : suggestions[s].state \in Active}) < MaxPending

\* Starts discovery again but leaves held jobs failed.
QueueSetupOnly(d, js, st) ==
  /\ ~archived /\ setup \in {"awaiting_sample", "failed"} /\ SuggestionCapacity
  /\ suggestions' = Append(suggestions, NewSuggestion(d, TRUE))
  /\ setup' = "suggesting" /\ pointer' = Len(suggestions) + 1
  /\ jobs' = js /\ status' = st

QueueInitialSetup(d, js, st) ==
  /\ ~archived /\ setup \in {"awaiting_sample", "failed"} /\ SuggestionCapacity
  /\ suggestions' = Append(suggestions, NewSuggestion(d, TRUE))
  /\ setup' = "suggesting" /\ pointer' = Len(suggestions) + 1
  /\ jobs' = WithHeld(js, "queued")
  /\ status' = Mark(st, StuckDocs(js), "queued")

IsSetupSource(d) == pointer # 0 /\ suggestions[pointer].doc = d

(***************************************************************************)
(* Documents: upload, reprocess, delete.                                   *)
(***************************************************************************)
Upload(d) ==
  /\ status[d] = "absent" /\ ~archived
  /\ LET js == [jobs EXCEPT ![d] = <<NewJob(setup # "ready")>>]
         st == [status EXCEPT ![d] = "queued"]
     IN \/ /\ setup = "awaiting_sample" \/ (setup = "failed" /\ pointer = 0)
           /\ QueueInitialSetup(d, js, st)
        \/ /\ setup = "failed" /\ pointer # 0
           /\ FailInitialSetup(js, st) /\ UNCHANGED <<pointer, suggestions>>
        \/ /\ setup \in {"ready", "suggesting"}
           /\ jobs' = js /\ status' = st /\ UNCHANGED <<setup, pointer, suggestions>>
  /\ UNCHANGED <<reviewVars, archived, schemaVars>>

\* Does not ask whether setup has finished.
ReprocessableAnytime(d) == Present(d) /\ ~HasActiveJob(d)
Reprocessable(d) == Present(d) /\ setup = "ready" /\ ~HasActiveJob(d)

Reprocess(d) ==
  /\ Reprocessable(d) /\ Len(jobs[d]) < MaxJobs
  /\ jobs' = [jobs EXCEPT ![d] = Append(@, NewJob(FALSE))]
  /\ SetStatus(d, "queued")
  /\ UNCHANGED <<reviewVars, setup, pointer, archived, schemaVars, suggestions>>

\* Only the deleted sample's own job leaves with it.
DetachNothing(d) == jobs' = [jobs EXCEPT ![d] = << >>] /\ SetStatus(d, "deleted") /\ UNCHANGED setup

\* detachSetupSource, and the cascade to the document's jobs.
Detach(d) ==
  IF setup # "ready" /\ IsSetupSource(d)
  THEN /\ setup' = "failed"
       /\ jobs' = [WithHeld(jobs, "failed") EXCEPT ![d] = << >>]
       /\ status' = [Mark(status, HeldDocs(jobs), "failed") EXCEPT ![d] = "deleted"]
  ELSE jobs' = [jobs EXCEPT ![d] = << >>] /\ SetStatus(d, "deleted") /\ UNCHANGED setup

\* The pointer's foreign key without its ON DELETE SET NULL.
PointerDangles(d) == UNCHANGED pointer
PointerCleared(d) == pointer' = IF IsSetupSource(d) THEN 0 ELSE pointer

Delete(d) ==
  /\ Present(d)
  /\ Detach(d) /\ PointerCleared(d)
  /\ suggestions' = [s \in DOMAIN suggestions |->
       IF suggestions[s].doc = d THEN [suggestions[s] EXCEPT !.state = "gone"] ELSE suggestions[s]]
  /\ latest' = [latest EXCEPT ![d] = 0] /\ approved' = [approved EXCEPT ![d] = 0]
  /\ UNCHANGED <<archived, schemaVars>>

(***************************************************************************)
(* Review: corrections, approvals and exports of a run.                    *)
(***************************************************************************)
Correct(d, r) ==
  /\ r \in Runs(d)
  /\ SetStatus(d, IF latest[d] = r THEN "needs_review" ELSE status[d])
  /\ approved' = [approved EXCEPT ![d] = IF @ = r THEN 0 ELSE @]
  /\ UNCHANGED <<latest, jobs, setup, pointer, archived, schemaVars, suggestions>>

Approve(d, r) ==
  /\ r \in Runs(d)
  /\ approved' = [approved EXCEPT ![d] = r]
  /\ SetStatus(d, IF latest[d] = r THEN "processed" ELSE status[d])
  /\ UNCHANGED <<latest, jobs, setup, pointer, archived, schemaVars, suggestions>>

Export(d) ==
  /\ Present(d) /\ approved[d] # 0
  /\ approved[d] = latest[d] /\ status[d] \in {"processed", "exported"}
  /\ SetStatus(d, "exported")
  /\ UNCHANGED <<reviewVars, jobs, setup, pointer, archived, schemaVars, suggestions>>

(***************************************************************************)
(* The parser: retrying setup, archiving, saving fields, asking for fields.*)
(***************************************************************************)
RetrySetup(d) ==
  /\ Present(d)
  /\ QueueInitialSetup(d, jobs, status)
  /\ UNCHANGED <<reviewVars, archived, schemaVars>>

Archive ==
  /\ archived' = ~archived
  /\ UNCHANGED <<status, reviewVars, jobs, setup, pointer, schemaVars, suggestions>>

\* A ready draft applies to whatever fields are active.
ApplicableStale(s) == ~archived /\ suggestions[s].state = "ready" /\ suggestions[s].applied = 0

Applicable(s) ==
  /\ ~archived
  /\ suggestions[s].state = "ready" /\ suggestions[s].applied = 0
  /\ suggestions[s].base = active

\* s is the suggestion the saved fields come from, 0 for none.
SaveSchema(s) ==
  /\ versions < MaxVersions
  /\ s # 0 => Applicable(s)
  /\ versions' = versions + 1 /\ active' = versions + 1
  /\ setup' = "ready" /\ pointer' = IF setup = "ready" THEN pointer ELSE 0
  /\ IF setup # "ready" THEN ReleaseInitialJobs(versions + 1) ELSE UNCHANGED <<jobs, status>>
  /\ suggestions' = IF s = 0 THEN suggestions ELSE [suggestions EXCEPT ![s].applied = versions + 1]
  /\ UNCHANGED <<reviewVars, archived>>

RequestSuggestion(d) ==
  /\ Present(d) /\ ~archived /\ setup = "ready" /\ SuggestionCapacity
  /\ suggestions' = Append(suggestions, NewSuggestion(d, FALSE))
  /\ UNCHANGED <<status, reviewVars, jobs, setup, pointer, archived, schemaVars>>

(***************************************************************************)
(* The worker's fenced transactions on a job.                              *)
(***************************************************************************)
jobStep == <<reviewVars, setup, pointer, archived, schemaVars, suggestions>>

ClaimJob(d, i) ==
  /\ jobs[d][i].state = "queued" /\ ~jobs[d][i].waiting /\ jobs[d][i].attempts < MaxAttempts
  /\ jobs' = [jobs EXCEPT ![d][i].state = "processing", ![d][i].attempts = @ + 1]
  /\ SetStatus(d, "processing")
  /\ UNCHANGED jobStep

SaveRun(d, i) ==
  /\ jobs[d][i].state = "processing"
  /\ SetJob(d, i, "completed")
  /\ latest' = [latest EXCEPT ![d] = i] /\ SetStatus(d, "needs_review")
  /\ UNCHANGED <<approved, setup, pointer, archived, schemaVars, suggestions>>

\* permanent, or the attempts are used up
RejectJob(d, i) ==
  /\ jobs[d][i].state = "processing"
  /\ SetJob(d, i, "failed") /\ SetStatus(d, "failed")
  /\ UNCHANGED jobStep

RetryJob(d, i) ==
  /\ jobs[d][i].state = "processing" /\ jobs[d][i].attempts < MaxAttempts
  /\ SetJob(d, i, "queued") /\ SetStatus(d, "queued")
  /\ UNCHANGED jobStep

\* Recovery returns the job without telling its document.
RecoveredStatusKept(d, i) == UNCHANGED status

\* A status set by a reviewer meanwhile is kept while the job is retried.
RecoveredStatus(d, i) ==
  IF jobs[d][i].attempts >= MaxAttempts
  THEN SetStatus(d, IF \E j \in DOMAIN jobs[d] \ {i} : jobs[d][j].state \in Active
                    THEN status[d] ELSE "failed")
  ELSE SetStatus(d, IF status[d] = "processing" THEN "queued" ELSE status[d])

RecoverJob(d, i) ==
  /\ jobs[d][i].state = "processing"
  /\ SetJob(d, i, IF jobs[d][i].attempts >= MaxAttempts THEN "failed" ELSE "queued")
  /\ RecoveredStatus(d, i)
  /\ UNCHANGED jobStep

(***************************************************************************)
(* The worker's fenced transactions on a suggestion.                       *)
(***************************************************************************)
SetSuggestion(s, to) == suggestions' = [suggestions EXCEPT ![s].state = to]

ClaimSuggestion(s) ==
  /\ suggestions[s].state = "queued" /\ suggestions[s].attempts < MaxAttempts
  /\ suggestions' = [suggestions EXCEPT ![s].state = "processing", ![s].attempts = @ + 1]
  /\ UNCHANGED <<status, reviewVars, jobs, setup, pointer, archived, schemaVars>>

FinishesSetup(s) == suggestions[s].auto /\ setup = "suggesting" /\ pointer = s

\* finishInitialSetup
SaveSuggestion(s) ==
  /\ suggestions[s].state = "processing"
  /\ \/ /\ ~FinishesSetup(s)
        /\ SetSuggestion(s, "ready")
        /\ UNCHANGED <<status, jobs, setup, schemaVars>>
     \/ /\ FinishesSetup(s) /\ (archived \/ active # suggestions[s].base)
        /\ SetSuggestion(s, "ready") /\ FailInitialSetup(jobs, status)
        /\ UNCHANGED schemaVars
     \/ /\ FinishesSetup(s) /\ ~archived /\ active = suggestions[s].base
        /\ versions' = versions + 1 /\ active' = versions + 1
        /\ setup' = "ready" /\ ReleaseInitialJobs(versions + 1)
        /\ suggestions' = [suggestions EXCEPT ![s].state = "ready", ![s].applied = versions + 1]
  /\ UNCHANGED <<reviewVars, pointer, archived>>

\* A failed suggestion is only recorded.
FailNoSetup(s) == UNCHANGED <<status, jobs, setup>>

FailCurrentSetup(s) ==
  IF FinishesSetup(s) THEN FailInitialSetup(jobs, status) ELSE UNCHANGED <<status, jobs, setup>>

\* a provider failure that is permanent, or an error when the attempts are used up
RejectSuggestion(s) ==
  /\ suggestions[s].state = "processing"
  /\ SetSuggestion(s, "failed") /\ FailCurrentSetup(s)
  /\ UNCHANGED <<reviewVars, pointer, archived, schemaVars>>

RetrySuggestion(s) ==
  /\ suggestions[s].state = "processing" /\ suggestions[s].attempts < MaxAttempts
  /\ SetSuggestion(s, "queued")
  /\ UNCHANGED <<status, reviewVars, jobs, setup, pointer, archived, schemaVars>>

RecoverSuggestion(s) ==
  /\ suggestions[s].state = "processing"
  /\ IF suggestions[s].attempts >= MaxAttempts
     THEN SetSuggestion(s, "failed") /\ FailCurrentSetup(s)
     ELSE SetSuggestion(s, "queued") /\ UNCHANGED <<status, jobs, setup>>
  /\ UNCHANGED <<reviewVars, pointer, archived, schemaVars>>

JobEnds(d, i) == SaveRun(d, i) \/ RejectJob(d, i) \/ RetryJob(d, i) \/ RecoverJob(d, i)
SuggestionEnds(s) ==
  SaveSuggestion(s) \/ RejectSuggestion(s) \/ RetrySuggestion(s) \/ RecoverSuggestion(s)

WorkJob(d) == \E i \in DOMAIN jobs[d] : ClaimJob(d, i) \/ JobEnds(d, i)
WorkSuggestion(s) == s \in DOMAIN suggestions /\ (ClaimSuggestion(s) \/ SuggestionEnds(s))

Review(d) == \E r \in Runs(d) : Correct(d, r) \/ Approve(d, r)

Next ==
  \/ \E d \in Docs : Upload(d) \/ Reprocess(d) \/ Delete(d) \/ Review(d) \/ Export(d)
                     \/ RetrySetup(d) \/ RequestSuggestion(d) \/ WorkJob(d)
  \/ \E s \in {0} \cup DOMAIN suggestions : SaveSchema(s)
  \/ \E s \in DOMAIN suggestions : WorkSuggestion(s)
  \/ Archive

Spec == Init /\ [][Next]_vars

\* The lanes claim what is admitted and settle what they claim (AiWorkClaims shows it);
\* users owe nothing.
FairSpec ==
  /\ Spec
  /\ \A d \in Docs : WF_vars(WorkJob(d))
  /\ \A s \in 1..MaxSuggestions : WF_vars(WorkSuggestion(s))

-----------------------------------------------------------------------------
(***************************************************************************)
(* Properties.                                                             *)
(***************************************************************************)
Statuses == {"absent", "queued", "processing", "needs_review", "processed", "exported", "failed", "deleted"}
VersionIds == 1..(MaxVersions + MaxSuggestions)

Job == [state : {"queued", "processing", "completed", "failed"}, waiting : BOOLEAN,
        schema : VersionIds, attempts : 0..MaxAttempts]

Suggestion == [state : {"queued", "processing", "ready", "failed", "gone"}, doc : Docs,
               base : VersionIds, auto : BOOLEAN, attempts : 0..MaxAttempts,
               applied : {0} \cup VersionIds]

\* Every row has its type and every reference a target: runs are completed jobs, the
\* setup pointer is a suggestion that was not deleted, the active version exists.
TypeOK ==
  /\ status \in [Docs -> Statuses]
  /\ \A d \in Docs : /\ DOMAIN jobs[d] = 1..Len(jobs[d]) /\ Len(jobs[d]) <= MaxJobs
                     /\ \A i \in DOMAIN jobs[d] : jobs[d][i] \in Job
                     /\ latest[d] \in {0} \cup Runs(d) /\ approved[d] \in {0} \cup Runs(d)
  /\ setup \in {"awaiting_sample", "suggesting", "failed", "ready"}
  /\ DOMAIN suggestions = 1..Len(suggestions) /\ Len(suggestions) <= MaxSuggestions
  /\ \A s \in DOMAIN suggestions : suggestions[s] \in Suggestion
  /\ pointer # 0 => pointer \in DOMAIN suggestions /\ suggestions[pointer].state # "gone"
  /\ archived \in BOOLEAN
  /\ active \in 1..versions /\ versions \in VersionIds

\* No transaction runs into the unique index jobs_active_document: uploads, setup
\* retries, releases and reprocessing never give a document two active jobs.
OneActiveJob ==
  \A d \in Docs : Cardinality({i \in DOMAIN jobs[d] : jobs[d][i].state \in Active}) <= 1

\* Work held for the fields is queued while they are being discovered, failed while
\* setup is failed, and exists at no other time; it has never been attempted.
HeldWorkFollowsSetup ==
  \A d \in Docs : \A i \in DOMAIN jobs[d] :
    jobs[d][i].waiting =>
      /\ jobs[d][i].attempts = 0 /\ Present(d)
      /\ \/ setup = "suggesting" /\ jobs[d][i].state = "queued"
         \/ setup = "failed" /\ jobs[d][i].state = "failed"

\* A parser that says it is discovering fields has a live discovery to wait for, and a
\* discovery still under way is that one unless someone saved fields meanwhile.
SuggestingIsAlive ==
  /\ setup = "suggesting" =>
       pointer # 0 /\ suggestions[pointer].auto /\ suggestions[pointer].state \in Active
  /\ \A s \in DOMAIN suggestions :
       suggestions[s].auto /\ suggestions[s].state \in Active => pointer = s \/ setup = "ready"

\* What a document shows is what its newest job does, except that reviewing an earlier
\* run may show through while a new attempt runs.
StatusTellsJob ==
  \A d \in Docs : Present(d) =>
    LET job == jobs[d][Len(jobs[d])]
    IN /\ status[d] = "queued" => job.state = "queued"
       /\ status[d] = "processing" => job.state = "processing"
       /\ status[d] = "failed" => job.state = "failed"
       /\ status[d] \in {"needs_review", "processed", "exported"} => latest[d] # 0

\* A document uploaded before the fields were known is never extracted with the
\* placeholder schema the parser was created with.
NoPlaceholderRuns ==
  SetupMode = "sample" =>
    \A d \in Docs : \A i \in DOMAIN jobs[d] : jobs[d][i].attempts > 0 => jobs[d][i].schema > 1

\* Suggested fields become a version once, and only on top of the version they were
\* suggested for: a late discovery or a stale draft replaces nobody's saved fields.
DraftsApplyToTheirBase ==
  [][\A s \in DOMAIN suggestions :
       suggestions'[s].applied # suggestions[s].applied =>
         suggestions[s].applied = 0 /\ suggestions[s].base = active]_vars

\* No document waits for ever: held or not, its job completes or fails.
EveryJobSettles == \A d \in Docs : HasActiveJob(d) ~> ~HasActiveJob(d)

\* A document shown as "approved, ready to export" has an approved run to export.
ProcessedIsApproved == \A d \in Docs : status[d] = "processed" => approved[d] # 0
============================================================================
